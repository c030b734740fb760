----------------------------- MODULE Ipv6Proofs -----------------------------
(***************************************************************************)
(* The exchanges of ICMPv6, the datagrams in fragments and the forwarding  *)
(* table, for any number of commands and lost messages, any datagrams,     *)
(* unit, MTU and time limit, a reassembly table of any size that an uint8  *)
(* counts and forwarding tables of every size with one inserting process.  *)
(*                                                                         *)
(* In IcmpInv, MessageInv says which messages wait at which station;       *)
(* Exchange follows the solicitations from the command to the peer's cache *)
(* while no message is lost, and EchoInv counts the echoes.  In            *)
(* DatagramsInv, EntryInv says what an entry of the table has that is not  *)
(* complete; the other parts relate the size, the timer and the ages.      *)
(* SortInv says how far the bubble sort has come and LookupInv what the    *)
(* rows and the pointers say of the entries accepted so far.               *)
(***************************************************************************)
EXTENDS Datagrams, Icmpv6, FwdTable, DataLemmas

-----------------------------------------------------------------------------
(* Addresses and messages *)

Mine(s) == {LinkLocal(s), Global(s)}
Addresses == {Unspecified} \cup UNION {Mine(s) : s \in Stations}
Types == {"none", "zero", "RS", "RA", "NS", "NA", "ECHOREQ", "ECHORESP"}
Messages == [type : Types, src : Addresses, dest : Addresses, opt : BOOLEAN, sum : BOOLEAN]

\* Message m may wait at the interface of station s.
Message(s, m) ==
  \/ m.type \in {"NS", "NA"} /\ m.src \in Mine(Peer(s)) /\ m.dest \in Mine(s)
  \/ s = Box /\ (m = ROUTERS \/ m.type = "ECHOREQ")
  \/ s = Host /\ ((m.type = "RA" /\ m.sum) \/ m.type = "ECHORESP")
  \/ m.type = "zero"
Waiting(s, q) == \A k \in 1..Len(q) : Message(s, q[k])

\* The solicitations in a queue: from an address, to an address, and that the one from the
\* global address of s comes behind the one from its link-local address, or that one is
\* known already.
From(m, a) == m.type = "NS" /\ m.src = a
To(m, a) == m.type = "NS" /\ m.dest = a
SomeFrom(q, a) == \E k \in 1..Len(q) : From(q[k], a)
SomeTo(q, a) == \E k \in 1..Len(q) : To(q[k], a)
InTurn(q, s, known) ==
  \A k \in 1..Len(q) : From(q[k], Global(s)) =>
    LinkLocal(s) \in known \/ \E j \in 1..(k - 1) : From(q[j], LinkLocal(s))
Places(q, type) == {k \in 1..Len(q) : q[k].type = type}
Count(q, type) == Cardinality(Places(q, type))

\* The peer has heard of the link-local address of s, or is about to.
Heard(s) == LinkLocal(s) \in cache[Peer(s)] \/ SomeFrom(queue[Peer(s)], LinkLocal(s))
Sleeps(s, a) == asleep[s] # NoMsg /\ asleep[s].dest = a

IcmpTypeInv ==
  /\ cache \in [Stations -> SUBSET Addresses] /\ asleep \in [Stations -> Messages]
  /\ queue \in [Stations -> Seq(Messages)] /\ prefix \in [Stations -> BOOLEAN]
  /\ shell \in [Stations -> Messages] /\ lost \in Nat /\ echoes \in Int
MessageInv(s) ==
  /\ Waiting(s, queue[s])
  /\ asleep[s] # NoMsg => /\ asleep[s].src \in cache[s] /\ asleep[s].src \in Mine(Peer(s))
                          /\ asleep[s].dest \in Mine(s)
  /\ shell[s] # NoMsg => shell[s] = NSOL(Global(s), LinkLocal(Peer(s)))
MetInv == \A p \in met : \E s \in Stations : p[1] \in Mine(s) /\ p[2] = LinkLocal(Peer(s))

Asked(s) ==
  \A p \in met : p[1] \in Mine(s) =>
    p[1] \in cache[Peer(s)] \/ SomeFrom(queue[Peer(s)], p[1]) \/ (shell[s] # NoMsg /\ p[1] = Global(s))
Exchange(s) ==
  /\ Asked(s)
  /\ shell[s] # NoMsg => Heard(s)
  /\ InTurn(queue[Peer(s)], s, cache[Peer(s)])
  /\ Global(s) \in cache[Peer(s)] => LinkLocal(s) \in cache[Peer(s)]
  /\ SomeTo(queue[s], Global(s)) \/ Sleeps(s, Global(s)) => Global(s) \in cache[Peer(s)]
  /\ cache[s] # {} => Heard(s) \/ Sleeps(s, LinkLocal(s))
EchoInv == echoes = Count(queue[Box], "ECHOREQ") + Count(queue[Host], "ECHORESP")

IcmpInv ==
  /\ IcmpTypeInv /\ MetInv /\ \A s \in Stations : MessageInv(s)
  /\ lost = 0 => EchoInv /\ \A s \in Stations : Exchange(s)

-----------------------------------------------------------------------------
(* Facts about stations, addresses and queues *)

\* There are two stations, each the peer of the other.
LEMMA PeerIs ==
  ASSUME NEW s \in Stations
  PROVE  /\ Peer(s) \in Stations /\ Peer(s) # s /\ Peer(Peer(s)) = s
         /\ \A t \in Stations : t = s \/ t = Peer(s)
BY DEF Peer, Stations, Box, Host

\* No two addresses are the same.
LEMMA AddressesIs ==
  ASSUME NEW s \in Stations
  PROVE  /\ LinkLocal(s) \in Addresses /\ Global(s) \in Addresses /\ Unspecified \in Addresses
         /\ Mine(s) = {LinkLocal(s), Global(s)} /\ Mine(s) \subseteq Addresses
         /\ LinkLocal(s) # Global(s)
         /\ LinkLocal(s)[1] = s /\ Global(s)[1] = s
         /\ \A a \in Mine(s) : a # Unspecified /\ a \notin Mine(Peer(s)) /\ a \in {LinkLocal(s), Global(s)}
<1>1. LinkLocal(s)[1] = s /\ Global(s)[1] = s /\ LinkLocal(s)[2] # Global(s)[2] /\ Unspecified[1] \notin Stations
  BY DEF LinkLocal, Global, Unspecified, Stations, Box, Host
<1>2. LinkLocal(Peer(s))[1] = Peer(s) /\ Global(Peer(s))[1] = Peer(s)
  BY DEF LinkLocal, Global
<1>3. Mine(s) \subseteq Addresses /\ Unspecified \in Addresses
  BY DEF Addresses
<1> QED
  BY <1>1, <1>2, <1>3, PeerIs DEF Mine

\* h before r is q: what q has is what h is or r has.
Ahead(q, h, r) ==
  /\ h \in Messages /\ r \in Seq(Messages)
  /\ \A a : SomeFrom(q, a) <=> From(h, a) \/ SomeFrom(r, a)
  /\ \A a : SomeTo(q, a) <=> To(h, a) \/ SomeTo(r, a)
  /\ \A s : \A known : InTurn(q, s, known) =>
       /\ From(h, Global(s)) => LinkLocal(s) \in known
       /\ \A more : known \subseteq more /\ (From(h, LinkLocal(s)) => LinkLocal(s) \in more) => InTurn(r, s, more)
  /\ \A type : Count(r, type) \in Nat /\ Count(q, type) = Count(r, type) + (IF h.type = type THEN 1 ELSE 0)
  /\ \A s : Waiting(s, q) => Message(s, h) /\ Waiting(s, r)
\* r is m behind q.
Behind(q, m, r) ==
  /\ r \in Seq(Messages)
  /\ \A a : SomeFrom(r, a) <=> SomeFrom(q, a) \/ From(m, a)
  /\ \A a : SomeTo(r, a) <=> SomeTo(q, a) \/ To(m, a)
  /\ \A s : \A known : InTurn(q, s, known) /\ (From(m, Global(s)) => LinkLocal(s) \in known \/ SomeFrom(q, LinkLocal(s)))
       => InTurn(r, s, known)
  /\ \A type : Count(q, type) \in Nat /\ Count(r, type) = Count(q, type) + (IF m.type = type THEN 1 ELSE 0)
  /\ \A s : Waiting(s, q) /\ Message(s, m) => Waiting(s, r)

\* The places of a sequence are finitely many.
LEMMA CountedTo ==
  ASSUME NEW m \in Nat
  PROVE  IsFiniteSet(1..m) /\ Cardinality(1..m) = m
<1>1. 1 \in Int /\ m \in Int
  OBVIOUS
<1>2. IsFiniteSet(1..m) /\ Cardinality(1..m) = IF 1 > m THEN 0 ELSE m - 1 + 1
  BY ONLY <1>1, FS_Interval
<1>3. (IF 1 > m THEN 0 ELSE m - 1 + 1) = m
  OBVIOUS
<1> QED
  BY ONLY <1>2, <1>3

\* The number of messages of a type, when the places in two queues are the same but for a
\* shift and one more.
LEMMA CountIs ==
  ASSUME NEW q \in Seq(Messages), NEW r \in Seq(Messages), NEW d \in {0, 1}, NEW type, NEW n \in 1..(Len(r) + 1),
         Len(q) = Len(r) + 1, n = IF d = 1 THEN 1 ELSE Len(q),
         \A k \in 1..Len(r) : q[k + d] = r[k]
  PROVE  Count(r, type) \in Nat /\ Count(q, type) = Count(r, type) + (IF q[n].type = type THEN 1 ELSE 0)
<1> DEFINE P == Places(r, type)
           Q == Places(q, type)
           f == [k \in P |-> k + d]
<1>0. Len(q) \in Nat /\ Len(r) \in Nat
  BY LenProperties
<1>1. IsFiniteSet(1..Len(r)) /\ IsFiniteSet(1..Len(q))
  BY <1>0, CountedTo
<1>2. IsFiniteSet(P) /\ IsFiniteSet(Q)
  <2>1. P \in SUBSET (1..Len(r)) /\ Q \in SUBSET (1..Len(q))
    BY DEF Places
  <2> QED
    BY <2>1, <1>1, FS_Subset
<1>3. f \in Bijection(P, Q \ {n})
  <2>1. \A k \in P : k \in 1..Len(r) /\ k + d \in 1..Len(q) /\ k + d # n /\ q[k + d].type = type
    BY <1>0 DEF Places
  <2>2. f \in [P -> Q \ {n}]
    BY <2>1 DEF Places
  <2>3. \A j, k \in P : f[j] = f[k] => j = k
    BY <2>1
  <2>4. \A m \in Q \ {n} : \E k \in P : f[k] = m
    <3> SUFFICES ASSUME NEW m \in Q \ {n}  PROVE \E k \in P : f[k] = m
      OBVIOUS
    <3>1. m \in 1..Len(q) /\ m # n /\ q[m].type = type
      BY DEF Places
    <3>2. m - d \in 1..Len(r) /\ (m - d) + d = m
      BY <3>1, <1>0
    <3>3. r[m - d] = q[m]
      BY <3>2
    <3>4. m - d \in P
      BY <3>1, <3>2, <3>3 DEF Places
    <3> QED
      BY <3>2, <3>4
  <2> QED
    BY <2>2, <2>3, <2>4 DEF Bijection, Injection, Surjection, IsInjective
<1>4. Cardinality(Q \ {n}) = Cardinality(P)
  BY <1>2, <1>3, FS_Bijection DEF ExistsBijection
<1>5. Cardinality(Q \ {n}) = (IF n \in Q THEN Cardinality(Q) - 1 ELSE Cardinality(Q))
  BY <1>2, FS_RemoveElement
<1>6. n \in Q <=> q[n].type = type
  BY <1>0 DEF Places
<1>7. Cardinality(P) \in Nat /\ Cardinality(Q) \in Nat
  BY <1>2, FS_CardinalityType
<1> QED
  BY <1>4, <1>5, <1>6, <1>7 DEF Count

\* The first message and the rest of a queue.
LEMMA AheadIs ==
  ASSUME NEW q \in Seq(Messages), q # <<>>
  PROVE  Ahead(q, Head(q), Tail(q))
<1> DEFINE h == Head(q)
           r == Tail(q)
<1>1. h \in Messages /\ r \in Seq(Messages) /\ Len(r) = Len(q) - 1 /\ Len(q) \in Nat /\ Len(r) \in Nat
  BY HeadTailProperties, LenProperties
<1>2. \A i \in 1..Len(r) : r[i] = q[i + 1]
  BY HeadTailProperties
<1>3. q[1] = h /\ Len(q) >= 1
  BY <1>1, EmptySeq
<1> HIDE DEF h, r
<1>4. \A i \in 1..Len(q) : i = 1 \/ (i - 1 \in 1..Len(r) /\ q[i] = r[i - 1])
  BY <1>1, <1>2
<1>4a. \A i \in 1..Len(r) : i + 1 \in 1..Len(q) /\ q[i + 1] = r[i]
  BY <1>1, <1>2
<1>4b. 1 \in 1..Len(q)
  BY <1>1, <1>3
<1>5. \A a : SomeFrom(q, a) <=> From(h, a) \/ SomeFrom(r, a)
  BY <1>3, <1>4, <1>4a, <1>4b DEF SomeFrom
<1>6. \A a : SomeTo(q, a) <=> To(h, a) \/ SomeTo(r, a)
  BY <1>3, <1>4, <1>4a, <1>4b DEF SomeTo
<1>7. ASSUME NEW s, NEW known, InTurn(q, s, known)
      PROVE  /\ From(h, Global(s)) => LinkLocal(s) \in known
             /\ \A more : known \subseteq more /\ (From(h, LinkLocal(s)) => LinkLocal(s) \in more) => InTurn(r, s, more)
  <2>1. From(h, Global(s)) => LinkLocal(s) \in known
    BY <1>7, <1>3, <1>4b DEF InTurn
  <2>2. ASSUME NEW more, known \subseteq more, From(h, LinkLocal(s)) => LinkLocal(s) \in more,
               NEW k \in 1..Len(r), From(r[k], Global(s)), LinkLocal(s) \notin more
        PROVE  \E j \in 1..(k - 1) : From(r[j], LinkLocal(s))
    <3>1. PICK j \in 1..((k + 1) - 1) : From(q[j], LinkLocal(s))
      BY <2>2, <1>4a, <1>7 DEF InTurn
    <3>2. j # 1
      BY <3>1, <2>2, <1>3
    <3>3. j - 1 \in 1..(k - 1) /\ r[j - 1] = q[j]
      BY <3>1, <3>2, <1>4, <1>1
    <3> QED
      BY <3>1, <3>3
  <2> QED
    BY <2>1, <2>2 DEF InTurn
<1>8. \A type : Count(r, type) \in Nat /\ Count(q, type) = Count(r, type) + (IF h.type = type THEN 1 ELSE 0)
  <2> TAKE type
  <2>1. Count(r, type) \in Nat /\ Count(q, type) = Count(r, type) + (IF q[1].type = type THEN 1 ELSE 0)
    BY <1>1, <1>4a, <1>4b, CountIs
  <2> QED
    BY <2>1, <1>3
<1>9. \A s : Waiting(s, q) => Message(s, h) /\ Waiting(s, r)
  BY <1>3, <1>4a, <1>4b DEF Waiting
<1> QED
  BY <1>1, <1>5, <1>6, <1>7, <1>8, <1>9 DEF Ahead, h, r

\* A message joins a queue.
LEMMA BehindIs ==
  ASSUME NEW q \in Seq(Messages), NEW m \in Messages
  PROVE  Behind(q, m, q \o <<m>>)
<1> DEFINE r == q \o <<m>>
<1>1. r \in Seq(Messages) /\ Len(r) = Len(q) + 1 /\ Len(q) \in Nat /\ Len(r) \in Nat
  BY ConcatProperties, LenProperties
<1>2. (\A i \in 1..Len(q) : r[i] = q[i]) /\ r[Len(r)] = m
  <2>1. \A i \in 1..Len(q) + Len(<<m>>) : r[i] = IF i <= Len(q) THEN q[i] ELSE <<m>>[i - Len(q)]
    BY ConcatProperties
  <2> QED
    BY <2>1, <1>1
<1> HIDE DEF r
<1>3. \A i \in 1..Len(r) : i = Len(r) \/ i \in 1..Len(q)
  BY <1>1
<1>4. Len(r) \in 1..Len(r) /\ \A i \in 1..Len(q) : i \in 1..Len(r)
  BY <1>1
<1>5. \A a : SomeFrom(r, a) <=> SomeFrom(q, a) \/ From(m, a)
  BY <1>2, <1>3, <1>4 DEF SomeFrom
<1>6. \A a : SomeTo(r, a) <=> SomeTo(q, a) \/ To(m, a)
  BY <1>2, <1>3, <1>4 DEF SomeTo
<1>7. ASSUME NEW s, NEW known, InTurn(q, s, known), From(m, Global(s)) => LinkLocal(s) \in known \/ SomeFrom(q, LinkLocal(s))
      PROVE  InTurn(r, s, known)
  <2>1. ASSUME NEW k \in 1..Len(r), From(r[k], Global(s)), LinkLocal(s) \notin known
        PROVE  \E j \in 1..(k - 1) : From(r[j], LinkLocal(s))
    <3>1. CASE k = Len(r)
      <4>1. PICK j \in 1..Len(q) : From(q[j], LinkLocal(s))
        BY <2>1, <3>1, <1>2, <1>7 DEF SomeFrom
      <4> QED
        BY <4>1, <3>1, <1>1, <1>2
    <3>2. CASE k \in 1..Len(q)
      <4>1. PICK j \in 1..(k - 1) : From(q[j], LinkLocal(s))
        BY <2>1, <3>2, <1>2, <1>7 DEF InTurn
      <4>2. j \in 1..Len(q)
        BY <4>1, <3>2, <1>1
      <4> QED
        BY <4>1, <4>2, <1>2
    <3> QED
      BY <3>1, <3>2, <1>3
  <2> QED
    BY <2>1 DEF InTurn
<1>8. \A type : Count(q, type) \in Nat /\ Count(r, type) = Count(q, type) + (IF m.type = type THEN 1 ELSE 0)
  <2> TAKE type
  <2>1. \A k \in 1..Len(q) : r[k + 0] = q[k]
    BY <1>1, <1>2
  <2>2. Count(q, type) \in Nat /\ Count(r, type) = Count(q, type) + (IF r[Len(r)].type = type THEN 1 ELSE 0)
    BY <2>1, <1>1, <1>4, CountIs
  <2> QED
    BY <2>2, <1>2
<1>9. \A s : Waiting(s, q) /\ Message(s, m) => Waiting(s, r)
  BY <1>2, <1>3 DEF Waiting
<1> QED
  BY <1>1, <1>5, <1>6, <1>7, <1>8, <1>9 DEF Behind, r

\* More that is known does not disturb the order.
LEMMA InTurnMore ==
  ASSUME NEW q, NEW s, NEW known, NEW more, InTurn(q, s, known), known \subseteq more
  PROVE  InTurn(q, s, more)
BY DEF InTurn

-----------------------------------------------------------------------------
(* What a step does to the queues *)

Sendable(s, msgs) ==
  msgs = <<>> \/ (msgs = <<msgs[1]>> /\ msgs[1] \in Messages /\ Message(Peer(s), msgs[1]))
\* s takes its first message or not, and the peer gets msgs unless they are lost.
Flow(s, taken, msgs) ==
  /\ queue' \in [Stations -> Seq(Messages)] /\ lost' \in Nat /\ (lost' = 0 => lost = 0)
  /\ \A t \in Stations : Waiting(t, queue'[t])
  /\ lost' = 0 => /\ queue'[s] = IF taken THEN Tail(queue[s]) ELSE queue[s]
                  /\ queue'[Peer(s)] = IF msgs = <<>> THEN queue[Peer(s)] ELSE queue[Peer(s)] \o msgs
\* The same, said of the messages.
Pass(s, taken, msgs) ==
  /\ IF taken THEN Ahead(queue[s], Head(queue[s]), queue'[s]) ELSE queue'[s] = queue[s]
  /\ IF msgs = <<>> THEN queue'[Peer(s)] = queue[Peer(s)] ELSE Behind(queue[Peer(s)], msgs[1], queue'[Peer(s)])

LEMMA FlowIs ==
  ASSUME IcmpTypeInv, \A t \in Stations : MessageInv(t), NEW s \in Stations, NEW taken \in BOOLEAN, NEW msgs,
         Sendable(s, msgs), taken => queue[s] # <<>>, Write(s, taken, msgs)
  PROVE  Flow(s, taken, msgs)
<1> DEFINE p == Peer(s)
           q == IF taken THEN [queue EXCEPT ![s] = Tail(@)] ELSE queue
           rest == IF taken THEN Tail(queue[s]) ELSE queue[s]
<1>1. p \in Stations /\ p # s /\ \A t \in Stations : t = s \/ t = p
  BY PeerIs
<1>2. queue \in [Stations -> Seq(Messages)] /\ lost \in Nat
  BY DEF IcmpTypeInv
<1>3. \A t \in Stations : Waiting(t, queue[t])
  BY DEF MessageInv
<1>4. rest \in Seq(Messages) /\ Waiting(s, rest)
  <2>1. CASE taken
    <3>1. Ahead(queue[s], Head(queue[s]), Tail(queue[s]))
      BY <2>1, <1>2, AheadIs
    <3> QED
      BY <3>1, <2>1, <1>3 DEF Ahead
  <2>2. CASE ~taken
    BY <2>2, <1>2, <1>3
  <2> QED
    BY <2>1, <2>2
<1>5. q \in [Stations -> Seq(Messages)] /\ q[s] = rest /\ q[p] = queue[p]
  BY <1>1, <1>2, <1>4
<1> HIDE DEF q, rest
<1>6. ASSUME NEW put, put = msgs \/ (msgs # <<>> /\ put = Tail(msgs)), queue' = [q EXCEPT ![p] = @ \o put]
      PROVE  /\ queue' \in [Stations -> Seq(Messages)] /\ \A t \in Stations : Waiting(t, queue'[t])
             /\ queue'[s] = rest
             /\ put = msgs => queue'[p] = IF msgs = <<>> THEN queue[p] ELSE queue[p] \o msgs
  <2>1. put = <<>> \/ (put = msgs /\ put = <<put[1]>> /\ put[1] \in Messages /\ Message(p, put[1]))
    <3>1. msgs = <<>> \/ (msgs = <<msgs[1]>> /\ msgs[1] \in Messages /\ Message(p, msgs[1]))
      BY DEF Sendable
    <3>2. CASE put = msgs
      BY <3>1, <3>2
    <3>3. CASE msgs # <<>> /\ put = Tail(msgs)
      <4>1. msgs = <<msgs[1]>>
        BY <3>1, <3>3
      <4>2. \A x : Tail(<<x>>) = <<>>
        OBVIOUS
      <4> QED
        BY ONLY <4>1, <4>2, <3>3
    <3> QED
      BY <1>6, <3>2, <3>3
  <2>2. queue[p] \in Seq(Messages) /\ Waiting(p, queue[p])
    BY <1>1, <1>2, <1>3
  <2>3. queue[p] \o put \in Seq(Messages) /\ Waiting(p, queue[p] \o put) /\ (put = <<>> => queue[p] \o put = queue[p])
    <3>1. CASE put = <<>>
      BY <2>2, <3>1, ConcatEmptySeq
    <3>2. CASE put # <<>>
      <4>1. Behind(queue[p], put[1], queue[p] \o <<put[1]>>)
        BY <2>1, <2>2, <3>2, BehindIs
      <4> QED
        BY <4>1, <2>1, <2>2, <3>2 DEF Behind
    <3> QED
      BY <3>1, <3>2
  <2>4. queue'[s] = rest /\ queue'[p] = queue[p] \o put
    BY <1>1, <1>5, <1>6
  <2>5. queue' \in [Stations -> Seq(Messages)]
    BY <2>3, <1>1, <1>5, <1>6
  <2>6. \A t \in Stations : Waiting(t, queue'[t])
    BY <2>3, <2>4, <1>1, <1>4
  <2> QED
    BY <2>3, <2>4, <2>5, <2>6
<1>7. CASE queue' = [q EXCEPT ![p] = @ \o msgs] /\ UNCHANGED lost
  BY <1>6, <1>7, <1>2 DEF Flow, rest
<1>8. CASE msgs # <<>> /\ lost < MaxLost /\ lost' = lost + 1 /\ queue' = [q EXCEPT ![p] = @ \o Tail(msgs)]
  <2>1. lost' \in Nat /\ lost' # 0
    BY <1>2, <1>8
  <2>2. queue' \in [Stations -> Seq(Messages)] /\ \A t \in Stations : Waiting(t, queue'[t])
    BY <1>6, <1>8
  <2> QED
    BY <2>1, <2>2 DEF Flow
<1> QED
  BY <1>7, <1>8 DEF Write, q

LEMMA PassIs ==
  ASSUME IcmpTypeInv, NEW s \in Stations, NEW taken \in BOOLEAN, NEW msgs,
         Sendable(s, msgs), taken => queue[s] # <<>>, Flow(s, taken, msgs), lost' = 0
  PROVE  Pass(s, taken, msgs)
<1>1. queue[s] \in Seq(Messages) /\ queue[Peer(s)] \in Seq(Messages)
  BY PeerIs DEF IcmpTypeInv
<1>2. taken => Ahead(queue[s], Head(queue[s]), Tail(queue[s]))
  BY <1>1, AheadIs
<1>3. msgs # <<>> => Behind(queue[Peer(s)], msgs[1], queue[Peer(s)] \o msgs)
  <2> SUFFICES ASSUME msgs # <<>>  PROVE Behind(queue[Peer(s)], msgs[1], queue[Peer(s)] \o msgs)
    OBVIOUS
  <2>1. msgs = <<msgs[1]>> /\ msgs[1] \in Messages
    BY DEF Sendable
  <2>2. Behind(queue[Peer(s)], msgs[1], queue[Peer(s)] \o <<msgs[1]>>)
    BY <2>1, <1>1, BehindIs
  <2> QED
    BY <2>1, <2>2
<1> QED
  BY <1>2, <1>3 DEF Flow, Pass

\* A queue with the same solicitations.
Calm(q, r) ==
  /\ \A a : SomeFrom(q, a) <=> SomeFrom(r, a)
  /\ \A a : SomeTo(q, a) <=> SomeTo(r, a)
  /\ \A s : \A known : InTurn(q, s, known) => InTurn(r, s, known)
LEMMA CalmIs ==
  ASSUME NEW q, NEW m, NEW r, m.type # "NS"
  PROVE  /\ Ahead(q, m, r) => Calm(q, r)
         /\ Behind(q, m, r) => Calm(q, r)
         /\ Calm(q, q)
<1>1. \A a : ~From(m, a) /\ ~To(m, a)
  BY DEF From, To
<1> QED
  BY <1>1 DEF Ahead, Behind, Calm

\* A step that neither takes nor sends a solicitation leaves the exchanges as they are.
LEMMA QuietStep ==
  ASSUME NEW s \in Stations, NEW taken \in BOOLEAN, NEW msgs, Pass(s, taken, msgs),
         taken => Head(queue[s]).type # "NS", msgs # <<>> => msgs[1].type # "NS",
         UNCHANGED <<cache, asleep, shell, met>>, NEW t \in Stations, Exchange(t)
  PROVE  Exchange(t)'
<1>1. \A u \in Stations : Calm(queue[u], queue'[u])
  <2>1. Calm(queue[s], queue'[s])
    BY CalmIs DEF Pass, Calm
  <2>2. Calm(queue[Peer(s)], queue'[Peer(s)])
    BY CalmIs DEF Pass, Calm
  <2> QED
    BY <2>1, <2>2, PeerIs
<1>2. Calm(queue[t], queue'[t]) /\ Calm(queue[Peer(t)], queue'[Peer(t)])
  BY <1>1, PeerIs
<1>3. Asked(t)'
  BY <1>2 DEF Exchange, Asked, Calm
<1>4. Heard(t)' <=> Heard(t)
  BY <1>2 DEF Heard, Calm
<1>5. \A a : Sleeps(t, a)' <=> Sleeps(t, a)
  BY DEF Sleeps
<1>6. InTurn(queue[Peer(t)], t, cache[Peer(t)])'
  BY <1>2 DEF Exchange, Calm
<1> QED
  BY <1>2, <1>3, <1>4, <1>5, <1>6 DEF Exchange, Calm

\* The echoes that are under way.
Echoes == Count(queue[Box], "ECHOREQ") + Count(queue[Host], "ECHORESP")
Worth(t, m) == IF (t = Box /\ m.type = "ECHOREQ") \/ (t = Host /\ m.type = "ECHORESP") THEN 1 ELSE 0
LEMMA EchoStep ==
  ASSUME IcmpTypeInv, NEW s \in Stations, NEW taken \in BOOLEAN, NEW msgs, Pass(s, taken, msgs)
  PROVE  /\ Echoes \in Int /\ Echoes' \in Int
         /\ Echoes' = Echoes - (IF taken THEN Worth(s, Head(queue[s])) ELSE 0)
                             + (IF msgs = <<>> THEN 0 ELSE Worth(Peer(s), msgs[1]))
<1> DEFINE p == Peer(s)
           type(t) == IF t = Box THEN "ECHOREQ" ELSE "ECHORESP"
           c(t) == Count(queue[t], type(t))
           d(t) == Count(queue'[t], type(t))
<1>0. \A q \in Seq(Messages) : \A y : Count(q, y) \in Nat
  <2> SUFFICES ASSUME NEW q \in Seq(Messages), NEW y  PROVE Count(q, y) \in Nat
    OBVIOUS
  <2>1. Places(q, y) \in SUBSET (1..Len(q)) /\ IsFiniteSet(1..Len(q))
    BY LenProperties, CountedTo DEF Places
  <2> QED
    BY <2>1, FS_Subset, FS_CardinalityType DEF Count
<1>1. c(s) \in Nat /\ c(p) \in Nat
  BY <1>0, PeerIs DEF IcmpTypeInv
<1>2. d(s) \in Nat /\ d(s) = c(s) - (IF taken THEN Worth(s, Head(queue[s])) ELSE 0)
  <2>1. CASE taken
    <3>1. Ahead(queue[s], Head(queue[s]), queue'[s])
      BY <2>1 DEF Pass
    <3>2. d(s) \in Nat /\ c(s) = d(s) + (IF Head(queue[s]).type = type(s) THEN 1 ELSE 0)
      BY <3>1 DEF Ahead
    <3>3. Worth(s, Head(queue[s])) = (IF Head(queue[s]).type = type(s) THEN 1 ELSE 0)
      BY DEF Worth, Stations, Box, Host
    <3> HIDE DEF c, d, type
    <3> QED
      BY <3>2, <3>3, <2>1, <1>1
  <2>2. CASE ~taken
    BY <2>2, <1>1 DEF Pass
  <2> QED
    BY <2>1, <2>2
<1>3. d(p) \in Nat /\ d(p) = c(p) + (IF msgs = <<>> THEN 0 ELSE Worth(p, msgs[1]))
  <2>1. CASE msgs # <<>>
    <3>1. Behind(queue[p], msgs[1], queue'[p])
      BY <2>1 DEF Pass
    <3>2. c(p) \in Nat /\ d(p) = c(p) + (IF msgs[1].type = type(p) THEN 1 ELSE 0)
      BY <3>1 DEF Behind
    <3>3. Worth(p, msgs[1]) = (IF msgs[1].type = type(p) THEN 1 ELSE 0)
      <4>1. p \in Stations
        BY PeerIs
      <4> QED
        BY <4>1 DEF Worth, Stations, Box, Host
    <3> HIDE DEF c, d, type
    <3> QED
      BY <3>2, <3>3, <2>1, <1>1
  <2>2. CASE msgs = <<>>
    BY <2>2, <1>1 DEF Pass
  <2> QED
    BY <2>1, <2>2
<1>4. Echoes = c(s) + c(p) /\ Echoes' = d(s) + d(p)
  <2>1. (s = Box /\ p = Host) \/ (s = Host /\ p = Box)
    BY DEF Peer, Stations, Box, Host
  <2>2. c(Box) \in Nat /\ c(Host) \in Nat /\ d(Box) \in Nat /\ d(Host) \in Nat
    BY <2>1, <1>1, <1>2, <1>3
  <2>3. Echoes = c(Box) + c(Host) /\ Echoes' = d(Box) + d(Host)
    BY DEF Echoes, Box, Host
  <2> HIDE DEF c, d
  <2> QED
    BY <2>1, <2>2, <2>3
<1> DEFINE gone == IF taken THEN Worth(s, Head(queue[s])) ELSE 0
           new == IF msgs = <<>> THEN 0 ELSE Worth(p, msgs[1])
<1>5. gone \in {0, 1} /\ new \in {0, 1}
  BY DEF Worth
<1>6. /\ c(s) \in Nat /\ c(p) \in Nat /\ d(s) \in Nat /\ d(p) \in Nat
      /\ d(s) = c(s) - gone /\ d(p) = c(p) + new
  BY <1>1, <1>2, <1>3
<1>7. Echoes' = Echoes - gone + new /\ Echoes \in Int /\ Echoes' \in Int
  <2> HIDE DEF c, d, gone, new
  <2> QED
    BY ONLY <1>4, <1>5, <1>6
<1> QED
  BY <1>7

-----------------------------------------------------------------------------
(* The steps *)

Untouched == UNCHANGED <<cache, asleep, shell, met>> /\ prefix' \in [Stations -> BOOLEAN]
\* A step with no solicitation, that changes the count of the echoes as it does their
\* messages.
LEMMA QuietInv ==
  ASSUME IcmpInv, NEW s \in Stations, NEW taken \in BOOLEAN, NEW msgs, Sendable(s, msgs),
         taken => queue[s] # <<>> /\ Head(queue[s]).type # "NS",
         msgs # <<>> => msgs[1].type # "NS", Write(s, taken, msgs),
         Untouched,
         echoes' = echoes - (IF taken THEN Worth(s, Head(queue[s])) ELSE 0)
                          + (IF msgs = <<>> THEN 0 ELSE Worth(Peer(s), msgs[1]))
  PROVE  IcmpInv'
<1>1. IcmpTypeInv /\ MetInv /\ \A t \in Stations : MessageInv(t)
  BY DEF IcmpInv
<1>2. Flow(s, taken, msgs)
  BY <1>1, FlowIs
<1>3. Worth(s, Head(queue[s])) \in {0, 1} /\ Worth(Peer(s), msgs[1]) \in {0, 1}
  BY DEF Worth
<1>4. echoes' \in Int
  BY <1>1, <1>3 DEF IcmpTypeInv
<1>5. IcmpTypeInv' /\ MetInv' /\ \A t \in Stations : MessageInv(t)'
  BY <1>1, <1>2, <1>4 DEF IcmpTypeInv, MetInv, MessageInv, Flow, Untouched
<1>6. ASSUME lost' = 0
      PROVE  EchoInv' /\ \A t \in Stations : Exchange(t)'
  <2>1. lost = 0 /\ Pass(s, taken, msgs)
    BY <1>1, <1>2, <1>6, PassIs DEF Flow
  <2>2. EchoInv /\ \A t \in Stations : Exchange(t)
    BY <2>1 DEF IcmpInv
  <2>3. \A t \in Stations : Exchange(t)'
    BY <2>1, <2>2, QuietStep DEF Untouched
  <2>4. Echoes' = echoes'
    BY <1>1, <2>1, <2>2, EchoStep DEF EchoInv, Echoes
  <2> QED
    BY <2>3, <2>4 DEF EchoInv, Echoes
<1> QED
  BY <1>5, <1>6 DEF IcmpInv

\* Nothing is sent.
LEMMA QuietNone ==
  ASSUME IcmpInv, NEW s \in Stations, queue[s] # <<>>, Head(queue[s]).type # "NS",
         Write(s, TRUE, <<>>), Untouched, echoes' = echoes - Worth(s, Head(queue[s]))
  PROVE  IcmpInv'
<1>1. Sendable(s, <<>>)
  BY DEF Sendable
<1>2. Worth(s, Head(queue[s])) \in Int /\ echoes \in Int
  BY DEF Worth, IcmpInv, IcmpTypeInv
<1>3. echoes' = echoes - (IF TRUE THEN Worth(s, Head(queue[s])) ELSE 0)
                       + (IF <<>> = <<>> THEN 0 ELSE Worth(Peer(s), <<>>[1]))
  BY <1>2
<1>4. TRUE \in BOOLEAN
  OBVIOUS
<1> QED
  BY <1>1, <1>3, <1>4, QuietInv

\* One message is sent.
LEMMA QuietOne ==
  ASSUME IcmpInv, NEW s \in Stations, NEW taken \in BOOLEAN, NEW m \in Messages, Message(Peer(s), m),
         m.type # "NS", taken => queue[s] # <<>> /\ Head(queue[s]).type # "NS",
         Write(s, taken, <<m>>), Untouched,
         echoes' = echoes - (IF taken THEN Worth(s, Head(queue[s])) ELSE 0) + Worth(Peer(s), m)
  PROVE  IcmpInv'
<1> DEFINE msgs == <<m>>
<1>1. msgs # <<>> /\ msgs = <<msgs[1]>> /\ msgs[1] = m
  OBVIOUS
<1>2. Write(s, taken, msgs)
  OBVIOUS
<1> HIDE DEF msgs
<1>3. Sendable(s, msgs)
  BY <1>1 DEF Sendable
<1>4. echoes' = echoes - (IF taken THEN Worth(s, Head(queue[s])) ELSE 0)
                       + (IF msgs = <<>> THEN 0 ELSE Worth(Peer(s), msgs[1]))
  BY <1>1
<1>5. msgs # <<>> => msgs[1].type # "NS"
  BY <1>1
<1> QED
  BY <1>2, <1>3, <1>4, <1>5, QuietInv

\* An advertisement of a router, or zeros.
LEMMA RouteraIs ==
  ASSUME NEW s \in Stations
  PROVE  ROUTERA(s) \in Messages /\ ROUTERA(s).type \in {"RA", "zero"} /\ ROUTERA(s).sum
<1> DEFINE a == LinkLocal(s)
           type == IF prefix[s] THEN "RA" ELSE "zero"
<1>1. a \in Addresses /\ Unspecified \in Addresses
  BY AddressesIs
<1>1a. type \in Types /\ type \in {"RA", "zero"}
  BY DEF Types
<1>2. ROUTERA(s) = Msg(type, a, Unspecified, TRUE)
  BY DEF ROUTERA
<1> HIDE DEF a, type
<1> QED
  BY <1>1, <1>1a, <1>2 DEF Msg, Messages, Types

\* A message that is taken is one of those that wait.
LEMMA TakenIs ==
  ASSUME IcmpInv, NEW s \in Stations, queue[s] # <<>>
  PROVE  Head(queue[s]) \in Messages /\ Message(s, Head(queue[s]))
<1>1. queue[s] \in Seq(Messages) /\ Waiting(s, queue[s])
  BY DEF IcmpInv, IcmpTypeInv, MessageInv
<1> QED
  BY <1>1, AheadIs DEF Ahead

LEMMA NeighbourAdvertInv ==
  ASSUME IcmpInv, NEW s \in Stations, NeighbourAdvert(s)
  PROVE  IcmpInv'
<1>1. queue[s] # <<>> /\ Head(queue[s]).type = "NA"
  BY DEF NeighbourAdvert, Take, Valid
<1>2. Worth(s, Head(queue[s])) = 0 /\ echoes \in Int /\ prefix \in [Stations -> BOOLEAN]
  BY <1>1 DEF Worth, IcmpInv, IcmpTypeInv
<1>3. Write(s, TRUE, <<>>) /\ Untouched /\ echoes' = echoes
  BY <1>2 DEF NeighbourAdvert, Untouched
<1>3a. echoes' = echoes - 0
  BY <1>2, <1>3
<1> QED
  BY <1>1, <1>2, <1>3, <1>3a, QuietNone

LEMMA RouterSolicitInv ==
  ASSUME IcmpInv, NEW s \in Stations, RouterSolicit(s)
  PROVE  IcmpInv'
<1>1. queue[s] # <<>> /\ Head(queue[s]).type = "RS"
  BY DEF RouterSolicit, Take, Valid
<1>2. Worth(s, Head(queue[s])) = 0 /\ echoes \in Int /\ prefix \in [Stations -> BOOLEAN]
  BY <1>1 DEF Worth, IcmpInv, IcmpTypeInv
<1>3. Untouched /\ echoes' = echoes
  BY <1>2 DEF RouterSolicit, Untouched
<1>4. CASE s = Host
  <2>1. Write(s, TRUE, <<>>)
    BY <1>4 DEF RouterSolicit
  <2>2. echoes' = echoes - 0
    BY <1>2, <1>3
  <2> QED
    BY <1>1, <1>2, <1>3, <2>1, <2>2, QuietNone
<1>5. CASE s # Host
  <2>1. s = Box /\ Peer(s) = Host
    BY <1>5 DEF Stations, Peer
  <2>2. Write(s, TRUE, <<ROUTERA(s)>>)
    BY <1>5 DEF RouterSolicit
  <2>3. Message(Peer(s), ROUTERA(s)) /\ Worth(Peer(s), ROUTERA(s)) = 0 /\ ROUTERA(s).type # "NS"
    BY <2>1, RouteraIs DEF Message, Worth
  <2>4. echoes' = echoes - (IF TRUE THEN Worth(s, Head(queue[s])) ELSE 0) + Worth(Peer(s), ROUTERA(s))
    BY <1>2, <1>3, <2>3
  <2> QED
    BY <1>1, <1>3, <2>2, <2>3, <2>4, RouteraIs, QuietOne
<1> QED
  BY <1>4, <1>5

LEMMA RouterAdvertInv ==
  ASSUME IcmpInv, NEW s \in Stations, RouterAdvert(s)
  PROVE  IcmpInv'
<1>1. queue[s] # <<>> /\ Head(queue[s]).type = "RA"
  BY DEF RouterAdvert, Take, Valid
<1>2. Worth(s, Head(queue[s])) = 0 /\ echoes \in Int /\ prefix \in [Stations -> BOOLEAN]
  BY <1>1 DEF Worth, IcmpInv, IcmpTypeInv
<1>3. prefix' \in [Stations -> BOOLEAN]
  BY <1>2 DEF RouterAdvert
<1>4. Write(s, TRUE, <<>>) /\ Untouched /\ echoes' = echoes
  BY <1>2, <1>3 DEF RouterAdvert, Untouched
<1>4a. echoes' = echoes - 0
  BY <1>2, <1>3, <1>4
<1> QED
  BY <1>1, <1>2, <1>4, <1>4a, QuietNone

LEMMA RouterOutsideInv ==
  ASSUME IcmpInv, RouterOutside
  PROVE  IcmpInv'
<1> DEFINE m == [ROUTERA(Box) EXCEPT !.type = "RA"]
<1>1. Box \in Stations /\ Peer(Box) = Host
  BY DEF Stations, Peer
<1>2. m \in Messages /\ m.type = "RA" /\ m.sum
  <2>1. ROUTERA(Box) \in Messages /\ ROUTERA(Box).sum
    BY <1>1, RouteraIs
  <2>2. m = [ROUTERA(Box) EXCEPT !.type = "RA"]
    OBVIOUS
  <2> QED
    BY <2>1, <2>2, SMTT(30) DEF Messages, Types
<1>3. prefix' \in [Stations -> BOOLEAN] /\ echoes \in Int
  BY DEF RouterOutside, IcmpInv, IcmpTypeInv
<1>4. Write(Box, FALSE, <<m>>) /\ Untouched /\ echoes' = echoes
  BY <1>3 DEF RouterOutside, Untouched
<1> HIDE DEF m
<1>5. Message(Host, m) /\ Worth(Host, m) = 0
  BY <1>2 DEF Message, Worth
<1>6. echoes' = echoes - (IF FALSE THEN Worth(Box, Head(queue[Box])) ELSE 0) + Worth(Peer(Box), m)
  BY <1>1, <1>3, <1>4, <1>5
<1>7. Message(Peer(Box), m) /\ m.type # "NS"
  BY <1>1, <1>2, <1>5
<1> QED
  BY <1>1, <1>2, <1>4, <1>6, <1>7, QuietOne

LEMMA EchoRequestInv ==
  ASSUME IcmpInv, NEW s \in Stations, EchoRequest(s)
  PROVE  IcmpInv'
<1> DEFINE h == Head(queue[s])
           m == EchoResp(h)
<1>1. queue[s] # <<>> /\ h.type = "ECHOREQ"
  BY DEF EchoRequest, Take, Valid
<1>2. h \in Messages /\ s = Box /\ Peer(s) = Host
  BY <1>1, TakenIs DEF Message, ROUTERS, Msg, Peer
<1>3. Worth(s, h) = 1 /\ echoes \in Int /\ prefix \in [Stations -> BOOLEAN]
  BY <1>1, <1>2 DEF Worth, IcmpInv, IcmpTypeInv
<1>4. m \in Messages /\ m.type = "ECHORESP"
  <2>1. h.dest \in Addresses /\ h.src \in Addresses
    BY <1>2 DEF Messages, Types
  <2> QED
    BY <2>1 DEF EchoResp, Msg, Messages, Types
<1>5. Write(s, TRUE, <<m>>) /\ Untouched /\ echoes' = echoes
  BY <1>3 DEF EchoRequest, Untouched
<1> HIDE DEF m
<1>6. Message(Peer(s), m) /\ Worth(Peer(s), m) = 1 /\ m.type # "NS"
  BY <1>2, <1>4 DEF Message, Worth
<1>7. echoes' = echoes - (IF TRUE THEN Worth(s, h) ELSE 0) + Worth(Peer(s), m)
  BY <1>3, <1>5, <1>6
<1> QED
  BY <1>1, <1>4, <1>5, <1>6, <1>7, QuietOne

LEMMA EchoResponseInv ==
  ASSUME IcmpInv, NEW s \in Stations, EchoResponse(s)
  PROVE  IcmpInv'
<1> DEFINE h == Head(queue[s])
<1>1. queue[s] # <<>> /\ h.type = "ECHORESP"
  BY DEF EchoResponse, Take, Valid
<1>2. s = Host
  BY <1>1, TakenIs DEF Message, ROUTERS, Msg
<1>3. Worth(s, h) = 1 /\ prefix \in [Stations -> BOOLEAN]
  BY <1>1, <1>2 DEF Worth, IcmpInv, IcmpTypeInv
<1>4. Write(s, TRUE, <<>>) /\ Untouched /\ echoes' = echoes - 1
  BY <1>3 DEF EchoResponse, Untouched
<1> QED
  BY <1>1, <1>3, <1>4, QuietNone

LEMMA IgnoredInv ==
  ASSUME IcmpInv, NEW s \in Stations, Ignored(s)
  PROVE  IcmpInv'
<1> DEFINE h == Head(queue[s])
<1>1. queue[s] # <<>> /\ (~Accepted(h) \/ h.type = "zero")
  BY DEF Ignored
<1>2. h \in Messages /\ Message(s, h)
  BY <1>1, TakenIs
<1>3. h.type # "NS"
  <2>1. ASSUME h.type = "NS"
        PROVE  FALSE
    <3>1. h.src \in Mine(Peer(s))
      BY <1>2, <2>1 DEF Message, ROUTERS, Msg
    <3>2. h.src # Unspecified
      BY <3>1, PeerIs, AddressesIs
    <3> QED
      BY <2>1, <3>2, <1>1 DEF Accepted, NsolicitValid
  <2> QED
    BY <2>1
<1>4. h.type \notin {"ECHOREQ", "ECHORESP"}
  BY <1>1 DEF Accepted
<1>5. Worth(s, h) = 0 /\ echoes \in Int /\ prefix \in [Stations -> BOOLEAN]
  BY <1>4 DEF Worth, IcmpInv, IcmpTypeInv
<1>6. Write(s, TRUE, <<>>) /\ Untouched /\ echoes' = echoes
  BY <1>5 DEF Ignored, Untouched
<1>6a. echoes' = echoes - 0
  BY <1>5, <1>6
<1> QED
  BY <1>1, <1>3, <1>5, <1>6, <1>6a, QuietNone

\* The commands that send no solicitation.
LEMMA CommandInv ==
  ASSUME IcmpInv, Sendecho \/ Sendrsolicit \/ Sendradvert \/ \E s \in Stations : Sendnadvert(s)
  PROVE  IcmpInv'
<1>1. echoes \in Int /\ prefix \in [Stations -> BOOLEAN]
  BY DEF IcmpInv, IcmpTypeInv
<1>2. ASSUME NEW s \in Stations, NEW m \in Messages, Message(Peer(s), m), m.type # "NS", Write(s, FALSE, <<m>>),
             UNCHANGED <<cache, asleep, prefix, shell, met>>, echoes' = echoes + Worth(Peer(s), m)
      PROVE  IcmpInv'
  <2>1. Untouched
    BY <1>1, <1>2 DEF Untouched
  <2>2. Worth(Peer(s), m) \in Int
    BY DEF Worth
  <2>3. echoes' = echoes - (IF FALSE THEN Worth(s, Head(queue[s])) ELSE 0) + Worth(Peer(s), m)
    BY <1>1, <1>2, <2>2
  <2> QED
    BY <1>2, <2>1, <2>3, QuietOne
<1>3. Box \in Stations /\ Host \in Stations /\ Peer(Box) = Host /\ Peer(Host) = Box
  BY DEF Stations, Peer, Box, Host
<1>4. LinkLocal(Box) \in Addresses /\ Global(Host) \in Addresses /\ Unspecified \in Addresses
  BY <1>3, AddressesIs
<1>5. CASE Sendecho
  <2> DEFINE m == ECHOREQ(Host, LinkLocal(Box))
  <2>1. m \in Messages /\ m.type = "ECHOREQ"
    BY <1>4 DEF ECHOREQ, Msg, Messages, Types
  <2>2. Write(Host, FALSE, <<m>>) /\ UNCHANGED <<cache, asleep, prefix, shell, met>> /\ echoes' = echoes + 1
    BY <1>5 DEF Sendecho, Command
  <2> HIDE DEF m
  <2>3. Message(Box, m) /\ Worth(Box, m) = 1
    BY <2>1 DEF Message, Worth
  <2> QED
    BY <1>2, <1>3, <2>1, <2>2, <2>3
<1>6. CASE Sendrsolicit
  <2> DEFINE m == ROUTERS
  <2>1. m \in Messages /\ m.type = "RS"
    BY <1>4 DEF ROUTERS, Msg, Messages, Types
  <2>2. Write(Host, FALSE, <<m>>) /\ UNCHANGED <<cache, asleep, prefix, shell, met, echoes>>
    BY <1>6 DEF Sendrsolicit, Command
  <2>3. Message(Box, m) /\ Worth(Box, m) = 0
    BY <2>1 DEF Message, Worth
  <2> HIDE DEF m
  <2>4. echoes' = echoes + 0
    BY <1>1, <2>2
  <2> QED
    BY <1>2, <1>3, <2>1, <2>2, <2>3, <2>4
<1>7. CASE Sendradvert
  <2> DEFINE m == ROUTERA(Box)
  <2>1. m \in Messages /\ m.type \in {"RA", "zero"} /\ m.sum
    BY <1>3, RouteraIs
  <2>2. Write(Box, FALSE, <<m>>) /\ UNCHANGED <<cache, asleep, prefix, shell, met, echoes>>
    BY <1>7 DEF Sendradvert, Command
  <2> HIDE DEF m
  <2>3. Message(Host, m) /\ Worth(Host, m) = 0
    BY <2>1 DEF Message, Worth
  <2>4. echoes' = echoes + 0
    BY <1>1, <2>2
  <2> QED
    BY <1>2, <1>3, <2>1, <2>2, <2>3, <2>4
<1>8. ASSUME NEW s \in Stations, Sendnadvert(s)
      PROVE  IcmpInv'
  <2> DEFINE m == NEIGHBA(s)
             z == Msg("zero", Global(s), Unspecified, FALSE)
  <2>1. z \in Messages /\ z.type = "zero"
    <3>1. Global(s) \in Addresses
      BY AddressesIs
    <3> QED
      BY <3>1, <1>4 DEF Msg, Messages, Types
  <2>2. m \in Messages /\ m.type = "zero"
    <3>1. m = [z EXCEPT !.sum = FALSE]
      BY DEF NEIGHBA
    <3> HIDE DEF z, m
    <3> QED
      BY <3>1, <2>1 DEF Messages, Types
  <2>3. Write(s, FALSE, <<m>>) /\ UNCHANGED <<cache, asleep, prefix, shell, met, echoes>>
    BY <1>8 DEF Sendnadvert, Command
  <2> HIDE DEF m
  <2>4. Message(Peer(s), m) /\ Worth(Peer(s), m) = 0
    BY <2>2 DEF Message, Worth
  <2>5. echoes' = echoes + 0
    BY <1>1, <2>3
  <2> QED
    BY <1>2, <2>2, <2>3, <2>4, <2>5
<1> QED
  BY <1>5, <1>6, <1>7, <1>8

\* A solicitation, and the advertisement that answers it.
LEMMA NsolIs ==
  ASSUME NEW src \in Addresses, NEW dest \in Addresses
  PROVE  /\ NSOL(src, dest) \in Messages /\ NSOL(src, dest) # NoMsg /\ NSOL(src, dest).type = "NS"
         /\ NSOL(src, dest).src = src /\ NSOL(src, dest).dest = dest
         /\ \A a : (From(NSOL(src, dest), a) <=> a = src) /\ (To(NSOL(src, dest), a) <=> a = dest)
         /\ NAD(src, dest) \in Messages /\ NAD(src, dest).type = "NA"
         /\ NAD(src, dest).src = src /\ NAD(src, dest).dest = dest
         /\ NoMsg \in Messages
<1>1. Unspecified \in Addresses
  BY DEF Addresses
<1> QED
  BY <1>1 DEF NSOL, NAD, NoMsg, Msg, Messages, Types, From, To

LEMMA NeighbourSolicitInv ==
  ASSUME IcmpInv, NEW s \in Stations, NeighbourSolicit(s)
  PROVE  IcmpInv'
<1> DEFINE m == Head(queue[s])
           p == Peer(s)
           n == NAD(m.dest, m.src)
<1>1. IcmpTypeInv /\ MetInv /\ \A t \in Stations : MessageInv(t)
  BY DEF IcmpInv
<1>2. queue[s] # <<>> /\ m.type = "NS" /\ asleep[s] = NoMsg
  BY DEF NeighbourSolicit, Take, Valid
<1>3. m \in Messages /\ Message(s, m)
  BY <1>2, TakenIs
<1>4. m.src \in Mine(p) /\ m.dest \in Mine(s) /\ m # NoMsg /\ m.src \in Addresses /\ m.dest \in Addresses
  BY <1>2, <1>3 DEF Message, ROUTERS, Msg, Messages, NoMsg
<1>5. p \in Stations /\ p # s /\ Peer(p) = s /\ \A t \in Stations : t = s \/ t = p
  BY PeerIs
<1>6. n \in Messages /\ n.type = "NA" /\ Message(p, n)
  BY <1>4, <1>5, NsolIs DEF Message
<1>7. Write(s, TRUE, <<n>>) /\ UNCHANGED <<prefix, shell, echoes, met>>
  BY DEF NeighbourSolicit
<1>8. /\ cache' = [cache EXCEPT ![s] = @ \cup {m.src}]
      /\ asleep' = IF m.src \in cache[s] THEN asleep ELSE [asleep EXCEPT ![s] = m]
  BY DEF NeighbourSolicit
<1>9. cache \in [Stations -> SUBSET Addresses] /\ asleep \in [Stations -> Messages]
  BY <1>1 DEF IcmpTypeInv
<1>10. /\ cache'[s] = cache[s] \cup {m.src} /\ cache'[p] = cache[p] /\ cache' \in [Stations -> SUBSET Addresses]
       /\ asleep'[p] = asleep[p] /\ asleep' \in [Stations -> Messages]
       /\ asleep'[s] = IF m.src \in cache[s] THEN NoMsg ELSE m
  <2>1. cache'[s] = cache[s] \cup {m.src} /\ cache'[p] = cache[p]
    BY <1>5, <1>8, <1>9
  <2>2. cache' \in [Stations -> SUBSET Addresses]
    BY <1>4, <1>8, <1>9
  <2>3. asleep'[p] = asleep[p] /\ asleep' \in [Stations -> Messages]
    BY <1>3, <1>5, <1>8, <1>9
  <2>4. asleep'[s] = IF m.src \in cache[s] THEN NoMsg ELSE m
    BY <1>2, <1>8, <1>9
  <2> QED
    BY <2>1, <2>2, <2>3, <2>4
<1> HIDE DEF n
<1>11. Sendable(s, <<n>>) /\ <<n>> # <<>> /\ <<n>>[1] = n
  BY <1>6 DEF Sendable
<1>12. Flow(s, TRUE, <<n>>)
  BY <1>1, <1>2, <1>7, <1>11, FlowIs
<1> HIDE DEF m, p
<1>13. IcmpTypeInv' /\ MetInv'
  BY <1>1, <1>7, <1>10, <1>12 DEF IcmpTypeInv, MetInv, Flow
<1>14. \A t \in Stations : MessageInv(t)'
  <2>1. \A t \in Stations : Waiting(t, queue'[t])
    BY <1>12 DEF Flow
  <2>2. MessageInv(s)'
    BY <2>1, <1>1, <1>4, <1>7, <1>10 DEF MessageInv, p
  <2>3. MessageInv(p)'
    BY <2>1, <1>1, <1>5, <1>7, <1>10 DEF MessageInv
  <2> QED
    BY <2>2, <2>3, <1>5
<1>15. ASSUME lost' = 0
       PROVE  EchoInv' /\ \A t \in Stations : Exchange(t)'
  <2>1. lost = 0 /\ Pass(s, TRUE, <<n>>)
    BY <1>1, <1>2, <1>11, <1>12, <1>15, PassIs DEF Flow
  <2>2. EchoInv /\ Exchange(s) /\ Exchange(p)
    BY <2>1, <1>5 DEF IcmpInv
  <2>3. Ahead(queue[s], m, queue'[s])
    BY <2>1 DEF Pass, m
  <2>4. Calm(queue[p], queue'[p])
    BY <2>1, <1>6, <1>11, CalmIs DEF Pass, p
  <2>5. \A a : (From(m, a) <=> a = m.src) /\ (To(m, a) <=> a = m.dest)
    BY <1>2 DEF From, To, m
  <2>6. EchoInv'
    <3>1. Worth(s, m) = 0 /\ Worth(p, n) = 0 /\ echoes \in Int
      BY <1>1, <1>2, <1>6 DEF Worth, IcmpTypeInv, m
    <3>2. Echoes \in Int /\ Echoes' = Echoes - Worth(s, m) + Worth(p, n)
      BY <2>1, <1>1, <1>11, EchoStep DEF m, p
    <3> QED
      BY <3>1, <3>2, <2>2, <1>7 DEF EchoInv, Echoes
  <2>7. Mine(s) = {LinkLocal(s), Global(s)} /\ Mine(p) = {LinkLocal(p), Global(p)}
    BY DEF Mine
  <2>8. Exchange(p)'
    <3>1. Asked(p)'
      BY <2>2, <2>3, <2>5, <1>5, <1>7, <1>10 DEF Exchange, Asked, Ahead
    <3>2. Heard(p) => Heard(p)'
      BY <2>3, <2>5, <1>5, <1>10 DEF Heard, Ahead
    <3>3. InTurn(queue'[s], p, cache'[s])
      BY <2>2, <2>3, <2>5, <1>5, <1>10 DEF Exchange, Ahead
    <3>4. Global(p) \in cache'[s] => LinkLocal(p) \in cache'[s]
      BY <2>2, <2>3, <2>5, <1>5, <1>10 DEF Exchange, Ahead
    <3>5. \A a : Sleeps(p, a)' <=> Sleeps(p, a)
      BY <1>10 DEF Sleeps
    <3> QED
      BY <3>1, <3>2, <3>3, <3>4, <3>5, <2>2, <2>4, <1>5, <1>7, <1>10 DEF Exchange, Calm
  <2>9. Exchange(s)'
    <3>0. Peer(s) = p
      BY DEF p
    <3>1. Asked(s)'
      BY <3>0, <2>2, <2>4, <1>7, <1>10 DEF Exchange, Asked, Calm
    <3>2. Heard(s) => Heard(s)'
      BY <3>0, <2>4, <1>10 DEF Heard, Calm
    <3>3. InTurn(queue'[p], s, cache'[p])
      BY <3>0, <2>2, <2>4, <1>10 DEF Exchange, Calm
    <3>4. Sleeps(s, Global(s))' => To(m, Global(s))
      BY <2>5, <1>10 DEF Sleeps
    <3>5. SomeTo(queue'[s], Global(s)) \/ Sleeps(s, Global(s))' => Global(s) \in cache'[p]
      BY <3>0, <3>4, <2>2, <2>3, <1>10 DEF Exchange, Ahead
    <3>6. Heard(s)' \/ Sleeps(s, LinkLocal(s))'
      <4>1. CASE m.src \in cache[s]
        <5>1. Heard(s)
          BY <4>1, <2>2, <1>2 DEF Exchange, Sleeps
        <5> QED
          BY <5>1, <3>2
      <4>2. CASE m.src \notin cache[s] /\ m.dest = LinkLocal(s)
        BY <4>2, <1>4, <1>10 DEF Sleeps
      <4>3. CASE m.dest = Global(s)
        <5>1. SomeTo(queue[s], Global(s))
          BY <4>3, <2>3, <2>5 DEF Ahead
        <5>2. LinkLocal(s) \in cache[p]
          BY <5>1, <3>0, <2>2 DEF Exchange
        <5> QED
          BY <5>2, <3>0, <1>10 DEF Heard
      <4> QED
        BY <4>1, <4>2, <4>3, <2>7, <1>4
    <3> QED
      BY <3>0, <3>1, <3>2, <3>3, <3>5, <3>6, <2>2, <1>7, <1>10 DEF Exchange
  <2> QED
    BY <2>6, <2>8, <2>9, <1>5
<1> QED
  BY <1>13, <1>14, <1>15 DEF IcmpInv

\* A step that sends the solicitation n and takes none: what there is to show is that the
\* types are kept, and the exchanges once n is behind the peer's queue.
SentTo(s, n) ==
  /\ Behind(queue[Peer(s)], n, queue'[Peer(s)]) /\ queue'[s] = queue[s]
  /\ cache' = cache
LEMMA SolicitStep ==
  ASSUME IcmpInv, NEW s \in Stations, NEW n \in Messages, n.type = "NS", Message(Peer(s), n),
         Write(s, FALSE, <<n>>), UNCHANGED <<cache, prefix, echoes>>,
         asleep' \in [Stations -> Messages], shell' \in [Stations -> Messages], MetInv',
         \A t \in Stations :
           /\ asleep'[t] \in {asleep[t], NoMsg}
           /\ shell'[t] # NoMsg => shell'[t] = NSOL(Global(t), LinkLocal(Peer(t))),
         lost' = 0 /\ SentTo(s, n) /\ (\A t \in Stations : Exchange(t)) => \A t \in Stations : Exchange(t)'
  PROVE  IcmpInv'
<1>1. IcmpTypeInv /\ \A t \in Stations : MessageInv(t)
  BY DEF IcmpInv
<1>2. Sendable(s, <<n>>) /\ <<n>> # <<>> /\ <<n>>[1] = n
  BY DEF Sendable
<1>3. Flow(s, FALSE, <<n>>)
  BY <1>1, <1>2, FlowIs
<1>4. IcmpTypeInv'
  BY <1>1, <1>3 DEF IcmpTypeInv, Flow
<1>5. \A t \in Stations : MessageInv(t)'
  <2> SUFFICES ASSUME NEW t \in Stations  PROVE MessageInv(t)'
    OBVIOUS
  <2>1. Waiting(t, queue'[t])
    BY <1>3 DEF Flow
  <2>2. asleep'[t] # NoMsg => asleep'[t] = asleep[t] /\ asleep[t] # NoMsg
    OBVIOUS
  <2> QED
    BY <2>1, <2>2, <1>1 DEF MessageInv
<1>6. ASSUME lost' = 0
      PROVE  EchoInv' /\ \A t \in Stations : Exchange(t)'
  <2>1. lost = 0 /\ Pass(s, FALSE, <<n>>)
    BY <1>1, <1>2, <1>3, <1>6, PassIs DEF Flow
  <2>2. EchoInv /\ \A t \in Stations : Exchange(t)
    BY <2>1 DEF IcmpInv
  <2>3. SentTo(s, n)
    BY <2>1, <1>2 DEF Pass, SentTo
  <2>4. Worth(Peer(s), n) = 0 /\ echoes \in Int
    BY <1>1 DEF Worth, IcmpTypeInv
  <2>5. Echoes \in Int /\ Echoes' = Echoes - 0 + Worth(Peer(s), n)
    BY <2>1, <1>1, <1>2, EchoStep
  <2>6. EchoInv'
    BY <2>2, <2>4, <2>5 DEF EchoInv, Echoes
  <2> QED
    BY <2>2, <2>3, <2>6, <1>6
<1> QED
  BY <1>4, <1>5, <1>6 DEF IcmpInv

LEMMA SolicitBackInv ==
  ASSUME IcmpInv, NEW s \in Stations, SolicitBack(s)
  PROVE  IcmpInv'
<1> DEFINE m == asleep[s]
           p == Peer(s)
           n == NSOL(m.dest, m.src)
<1>1. IcmpTypeInv /\ MetInv /\ \A t \in Stations : MessageInv(t)
  BY DEF IcmpInv
<1>2. m # NoMsg /\ asleep' = [asleep EXCEPT ![s] = NoMsg] /\ Write(s, FALSE, <<n>>)
      /\ UNCHANGED <<cache, prefix, shell, echoes, met>>
  BY DEF SolicitBack
<1>3. m.src \in cache[s] /\ m.src \in Mine(p) /\ m.dest \in Mine(s)
  BY <1>1, <1>2 DEF MessageInv
<1>4. p \in Stations /\ p # s /\ Peer(p) = s /\ \A t \in Stations : t = s \/ t = p
  BY PeerIs
<1>5. m.src \in Addresses /\ m.dest \in Addresses
  BY <1>3, <1>4, AddressesIs
<1>6. /\ n \in Messages /\ n.type = "NS" /\ Message(p, n)
      /\ \A a : (From(n, a) <=> a = m.dest) /\ (To(n, a) <=> a = m.src)
  BY <1>3, <1>4, <1>5, NsolIs DEF Message
<1>7. asleep \in [Stations -> Messages] /\ shell \in [Stations -> Messages]
  BY <1>1 DEF IcmpTypeInv
<1>8. asleep' \in [Stations -> Messages] /\ asleep'[s] = NoMsg /\ asleep'[p] = asleep[p]
  BY <1>2, <1>4, <1>5, <1>7, NsolIs
<1>9. MetInv' /\ shell' \in [Stations -> Messages]
  BY <1>1, <1>2, <1>7 DEF MetInv
<1>10. \A t \in Stations : shell'[t] # NoMsg => shell'[t] = NSOL(Global(t), LinkLocal(Peer(t)))
  BY <1>1, <1>2 DEF MessageInv
<1>11. Mine(s) = {LinkLocal(s), Global(s)}
  BY DEF Mine
<1> HIDE DEF m, n, p
<1>12. ASSUME lost' = 0, SentTo(s, n), \A t \in Stations : Exchange(t)
       PROVE  \A t \in Stations : Exchange(t)'
  <2>0. Peer(s) = p
    BY DEF p
  <2>1. Behind(queue[p], n, queue'[p]) /\ queue'[s] = queue[s] /\ cache' = cache
    BY <1>12, <2>0 DEF SentTo
  <2>2. Exchange(s) /\ Exchange(p)
    BY <1>4, <1>12
  <2>3. Exchange(s)'
    <3>1. Asked(s)'
      BY <2>0, <2>1, <2>2, <1>2 DEF Exchange, Asked, Behind
    <3>2. Heard(s) => Heard(s)'
      BY <2>0, <2>1 DEF Heard, Behind
    <3>3. From(n, Global(s)) => LinkLocal(s) \in cache[p]
      BY <2>0, <2>2, <1>2, <1>6 DEF Exchange, Sleeps, m
    <3>4. InTurn(queue'[p], s, cache[p])
      BY <3>3, <2>0, <2>1, <2>2 DEF Exchange, Behind
    <3>5. ~Sleeps(s, Global(s))'
      BY <1>8 DEF Sleeps
    <3>6. Sleeps(s, LinkLocal(s)) => Heard(s)'
      BY <2>0, <2>1, <1>6 DEF Sleeps, Heard, Behind, m
    <3> QED
      BY <3>1, <3>2, <3>4, <3>5, <3>6, <2>0, <2>1, <2>2, <1>2 DEF Exchange
  <2>4. Exchange(p)'
    <3>1. Asked(p)'
      BY <2>1, <2>2, <1>2, <1>4 DEF Exchange, Asked
    <3>2. Heard(p) <=> Heard(p)'
      BY <2>1, <1>4 DEF Heard
    <3>3. \A a : Sleeps(p, a)' <=> Sleeps(p, a)
      BY <1>8 DEF Sleeps
    <3>4. SomeTo(queue'[p], Global(p)) => SomeTo(queue[p], Global(p)) \/ Global(p) \in cache[s]
      BY <2>1, <1>3, <1>6 DEF Behind
    <3> QED
      BY <3>1, <3>2, <3>3, <3>4, <2>1, <2>2, <1>2, <1>4 DEF Exchange
  <2> QED
    BY <2>3, <2>4, <1>4
<1>13. \A t \in Stations : asleep'[t] \in {asleep[t], NoMsg}
  BY <1>4, <1>8
<1>14. Message(Peer(s), n) /\ Write(s, FALSE, <<n>>)
  BY <1>2, <1>6 DEF p, n, m
<1> QED
  BY <1>2, <1>6, <1>8, <1>9, <1>10, <1>12, <1>13, <1>14, SolicitStep

LEMMA SendnsolicitInv ==
  ASSUME IcmpInv, NEW s \in Stations, Sendnsolicit(s)
  PROVE  IcmpInv'
<1> DEFINE p == Peer(s)
           a == LinkLocal(s)
           g == Global(s)
           d == LinkLocal(p)
           n == NSOL(a, d)
           second == NSOL(g, d)
<1>1. IcmpTypeInv /\ MetInv /\ \A t \in Stations : MessageInv(t)
  BY DEF IcmpInv
<1>2. /\ shell[s] = NoMsg /\ shell' = [shell EXCEPT ![s] = second] /\ Write(s, FALSE, <<n>>)
      /\ UNCHANGED <<cache, asleep, prefix, echoes>> /\ met' = met \cup {<<a, d>>, <<g, d>>}
  BY DEF Sendnsolicit, Command
<1>3. p \in Stations /\ p # s /\ Peer(p) = s /\ \A t \in Stations : t = s \/ t = p
  BY PeerIs
<1>4. /\ a \in Mine(s) /\ g \in Mine(s) /\ d \in Mine(p) /\ a # g /\ d # Global(p)
      /\ a \in Addresses /\ g \in Addresses /\ d \in Addresses
      /\ a \notin Mine(p) /\ g \notin Mine(p)
  BY <1>3, AddressesIs
<1> HIDE DEF a, g, d
<1>5. /\ n \in Messages /\ n.type = "NS" /\ Message(p, n) /\ second \in Messages
      /\ \A b : (From(n, b) <=> b = a) /\ (To(n, b) <=> b = d)
  BY <1>3, <1>4, NsolIs DEF Message
<1>6. asleep \in [Stations -> Messages] /\ shell \in [Stations -> Messages]
  BY <1>1 DEF IcmpTypeInv
<1>7. shell' \in [Stations -> Messages] /\ shell'[s] = second /\ shell'[p] = shell[p] /\ second # NoMsg
  BY <1>2, <1>3, <1>4, <1>5, <1>6, NsolIs
<1>8. MetInv'
  <2>1. \A q \in met' : q \in met \/ q = <<a, d>> \/ q = <<g, d>>
    BY <1>2
  <2>2. \A q \in {<<a, d>>, <<g, d>>} : q[1] \in Mine(s) /\ q[2] = LinkLocal(Peer(s))
    BY <1>4 DEF d
  <2> QED
    BY <2>1, <2>2, <1>1 DEF MetInv
<1>9. \A t \in Stations : shell'[t] # NoMsg => shell'[t] = NSOL(Global(t), LinkLocal(Peer(t)))
  <2>1. shell'[s] = NSOL(Global(s), LinkLocal(Peer(s)))
    BY <1>7 DEF g, d
  <2>2. shell'[p] # NoMsg => shell'[p] = NSOL(Global(p), LinkLocal(Peer(p)))
    BY <1>1, <1>3, <1>7 DEF MessageInv
  <2> QED
    BY <2>1, <2>2, <1>3
<1> HIDE DEF p, n, second
<1>10. ASSUME lost' = 0, SentTo(s, n), \A t \in Stations : Exchange(t)
       PROVE  \A t \in Stations : Exchange(t)'
  <2>0. Peer(s) = p /\ a = LinkLocal(s) /\ g = Global(s)
    BY DEF p, a, g
  <2>1. Behind(queue[p], n, queue'[p]) /\ queue'[s] = queue[s] /\ cache' = cache
    BY <1>10, <2>0 DEF SentTo
  <2>2. Exchange(s) /\ Exchange(p)
    BY <1>3, <1>10
  <2>3. \A q \in met' : q \in met \/ q[1] = a \/ q[1] = g
    BY <1>2
  <2>4. Heard(s)'
    BY <2>0, <2>1, <1>5 DEF Heard, Behind
  <2>5. Exchange(s)'
    <3>1. Asked(s)'
      <4> SUFFICES ASSUME NEW q \in met', q[1] \in Mine(s)
                   PROVE  q[1] \in cache'[p] \/ SomeFrom(queue'[p], q[1]) \/ (shell'[s] # NoMsg /\ q[1] = g)
        BY <2>0 DEF Asked
      <4>1. CASE q \in met
        BY <4>1, <2>0, <2>1, <2>2, <1>2 DEF Exchange, Asked, Behind
      <4>2. CASE q[1] = a
        BY <4>2, <2>1, <1>5 DEF Behind
      <4>3. CASE q[1] = g
        BY <4>3, <1>7
      <4> QED
        BY <4>1, <4>2, <4>3, <2>3
    <3>2. InTurn(queue'[p], s, cache[p])
      BY <2>0, <2>1, <2>2, <1>4, <1>5 DEF Exchange, Behind
    <3>3. \A b : Sleeps(s, b)' <=> Sleeps(s, b)
      BY <1>2 DEF Sleeps
    <3> QED
      BY <3>1, <3>2, <3>3, <2>0, <2>1, <2>2, <2>4 DEF Exchange
  <2>6. Exchange(p)'
    <3>1. Asked(p)'
      <4> SUFFICES ASSUME NEW q \in met', q[1] \in Mine(p)
                   PROVE  q[1] \in cache'[s] \/ SomeFrom(queue'[s], q[1]) \/ (shell'[p] # NoMsg /\ q[1] = Global(p))
        BY <1>3 DEF Asked
      <4>1. q \in met
        BY <2>3, <1>4
      <4> QED
        BY <4>1, <2>1, <2>2, <1>3, <1>7 DEF Exchange, Asked
    <3>2. Heard(p) <=> Heard(p)'
      BY <2>1, <1>3 DEF Heard
    <3>3. \A b : Sleeps(p, b)' <=> Sleeps(p, b)
      BY <1>2 DEF Sleeps
    <3>4. SomeTo(queue'[p], Global(p)) => SomeTo(queue[p], Global(p))
      BY <2>1, <1>4, <1>5 DEF Behind
    <3> QED
      BY <3>1, <3>2, <3>3, <3>4, <2>1, <2>2, <1>3, <1>7 DEF Exchange
  <2> QED
    BY <2>5, <2>6, <1>3
<1>11. \A t \in Stations : asleep'[t] \in {asleep[t], NoMsg}
  BY <1>2
<1>12. Message(Peer(s), n) /\ Write(s, FALSE, <<n>>) /\ asleep' \in [Stations -> Messages]
  BY <1>2, <1>5, <1>6 DEF p, n
<1> QED
  BY <1>2, <1>5, <1>7, <1>8, <1>9, <1>10, <1>11, <1>12, SolicitStep

LEMMA SendSecondInv ==
  ASSUME IcmpInv, NEW s \in Stations, SendSecond(s)
  PROVE  IcmpInv'
<1> DEFINE p == Peer(s)
           g == Global(s)
           d == LinkLocal(p)
           n == NSOL(g, d)
<1>1. IcmpTypeInv /\ MetInv /\ \A t \in Stations : MessageInv(t)
  BY DEF IcmpInv
<1>2. shell[s] # NoMsg /\ shell[s] = n
  BY <1>1 DEF SendSecond, MessageInv
<1>3. shell' = [shell EXCEPT ![s] = NoMsg] /\ Write(s, FALSE, <<n>>) /\ UNCHANGED <<cache, asleep, prefix, echoes, met>>
  BY <1>2 DEF SendSecond
<1>4. p \in Stations /\ p # s /\ Peer(p) = s /\ \A t \in Stations : t = s \/ t = p
  BY PeerIs
<1>5. g \in Mine(s) /\ d \in Mine(p) /\ d # Global(p) /\ g \in Addresses /\ d \in Addresses
  BY <1>4, AddressesIs
<1> HIDE DEF g, d
<1>6. /\ n \in Messages /\ n.type = "NS" /\ Message(p, n) /\ NoMsg \in Messages
      /\ \A b : (From(n, b) <=> b = g) /\ (To(n, b) <=> b = d)
  BY <1>4, <1>5, NsolIs DEF Message
<1>7. asleep \in [Stations -> Messages] /\ shell \in [Stations -> Messages]
  BY <1>1 DEF IcmpTypeInv
<1>8. shell' \in [Stations -> Messages] /\ shell'[s] = NoMsg /\ shell'[p] = shell[p]
  BY <1>3, <1>4, <1>6, <1>7
<1>9. MetInv'
  BY <1>1, <1>3 DEF MetInv
<1>10. \A t \in Stations : shell'[t] # NoMsg => shell'[t] = NSOL(Global(t), LinkLocal(Peer(t)))
  BY <1>1, <1>4, <1>8 DEF MessageInv
<1> HIDE DEF p, n
<1>11. ASSUME lost' = 0, SentTo(s, n), \A t \in Stations : Exchange(t)
       PROVE  \A t \in Stations : Exchange(t)'
  <2>0. Peer(s) = p /\ g = Global(s)
    BY DEF p, g
  <2>1. Behind(queue[p], n, queue'[p]) /\ queue'[s] = queue[s] /\ cache' = cache
    BY <1>11, <2>0 DEF SentTo
  <2>2. Exchange(s) /\ Exchange(p)
    BY <1>4, <1>11
  <2>3. Heard(s)
    BY <2>2, <1>2 DEF Exchange
  <2>4. Exchange(s)'
    <3>1. Asked(s)'
      BY <2>0, <2>1, <2>2, <1>3, <1>6 DEF Exchange, Asked, Behind
    <3>2. Heard(s)'
      BY <2>0, <2>1, <2>3 DEF Heard, Behind
    <3>3. InTurn(queue'[p], s, cache[p])
      BY <2>0, <2>1, <2>2, <2>3 DEF Exchange, Behind, Heard
    <3>4. \A b : Sleeps(s, b)' <=> Sleeps(s, b)
      BY <1>3 DEF Sleeps
    <3> QED
      BY <3>1, <3>2, <3>3, <3>4, <2>0, <2>1, <2>2, <1>8 DEF Exchange
  <2>5. Exchange(p)'
    <3>1. Asked(p)'
      BY <2>1, <2>2, <1>3, <1>4, <1>8 DEF Exchange, Asked
    <3>2. Heard(p) <=> Heard(p)'
      BY <2>1, <1>4 DEF Heard
    <3>3. \A b : Sleeps(p, b)' <=> Sleeps(p, b)
      BY <1>3 DEF Sleeps
    <3>4. SomeTo(queue'[p], Global(p)) => SomeTo(queue[p], Global(p))
      BY <2>1, <1>5, <1>6 DEF Behind
    <3> QED
      BY <3>1, <3>2, <3>3, <3>4, <2>1, <2>2, <1>4, <1>8 DEF Exchange
  <2> QED
    BY <2>4, <2>5, <1>4
<1>12. \A t \in Stations : asleep'[t] \in {asleep[t], NoMsg}
  BY <1>3
<1>13. Message(Peer(s), n) /\ Write(s, FALSE, <<n>>) /\ asleep' \in [Stations -> Messages]
  BY <1>3, <1>6, <1>7 DEF p, n
<1> QED
  BY <1>3, <1>6, <1>8, <1>9, <1>10, <1>11, <1>12, <1>13, SolicitStep

-----------------------------------------------------------------------------
(* The exchanges *)

LEMMA IcmpInitInv ==
  ASSUME IcmpInit
  PROVE  IcmpInv
<1>1. NoMsg \in Messages /\ Box \in Stations /\ Host \in Stations
  <2>1. Unspecified \in Addresses
    BY DEF Addresses
  <2> QED
    BY <2>1, NsolIs DEF Stations
<1>2. /\ cache = [t \in Stations |-> {}] /\ asleep = [t \in Stations |-> NoMsg]
      /\ queue = [t \in Stations |-> <<>>] /\ prefix = [t \in Stations |-> FALSE]
      /\ shell = [t \in Stations |-> NoMsg] /\ lost = 0 /\ echoes = 0 /\ met = {}
  BY DEF IcmpInit
<1>3. IcmpTypeInv
  BY <1>1, <1>2 DEF IcmpTypeInv
<1>4. \A t \in Stations : queue[t] = <<>> /\ Len(queue[t]) = 0 /\ asleep[t] = NoMsg /\ shell[t] = NoMsg /\ cache[t] = {}
  BY <1>2
<1>5. MetInv /\ \A t \in Stations : MessageInv(t)
  BY <1>2, <1>4 DEF MetInv, MessageInv, Waiting
<1>6. \A t \in Stations : Exchange(t)
  <2> SUFFICES ASSUME NEW t \in Stations  PROVE Exchange(t)
    OBVIOUS
  <2>1. Peer(t) \in Stations
    BY PeerIs
  <2>2. ~SomeTo(queue[t], Global(t)) /\ ~Sleeps(t, Global(t)) /\ InTurn(queue[Peer(t)], t, cache[Peer(t)])
    BY <2>1, <1>4 DEF SomeTo, Sleeps, InTurn
  <2> QED
    BY <2>1, <2>2, <1>2, <1>4 DEF Exchange, Asked
<1>7. \A t \in Stations : \A type : Count(queue[t], type) = 0
  <2> SUFFICES ASSUME NEW t \in Stations, NEW type  PROVE Count(queue[t], type) = 0
    OBVIOUS
  <2>1. Places(queue[t], type) = {}
    BY <1>4 DEF Places
  <2> QED
    BY <2>1, FS_EmptySet DEF Count
<1>8. EchoInv
  BY <1>1, <1>2, <1>7 DEF EchoInv
<1> QED
  BY <1>3, <1>5, <1>6, <1>8 DEF IcmpInv

\* Nothing the invariant speaks of changes when the variables stay.
LEMMA IcmpStutters ==
  ASSUME IcmpInv, UNCHANGED ivars
  PROVE  IcmpInv'
BY DEF ivars, IcmpInv, IcmpTypeInv, MetInv, MessageInv, EchoInv, Exchange, Asked, Heard, Sleeps

LEMMA IcmpStep ==
  ASSUME IcmpInv, IcmpNext
  PROVE  IcmpInv'
<1>1. ASSUME NEW s \in Stations, Netin6(s)
      PROVE  IcmpInv'
  BY <1>1, NeighbourSolicitInv, SolicitBackInv, NeighbourAdvertInv, RouterSolicitInv, RouterAdvertInv,
     EchoRequestInv, EchoResponseInv, IgnoredInv DEF Netin6
<1>2. ASSUME NEW s \in Stations, Sendnsolicit(s) \/ SendSecond(s) \/ Sendnadvert(s)
      PROVE  IcmpInv'
  BY <1>2, SendnsolicitInv, SendSecondInv, CommandInv
<1> QED
  BY <1>1, <1>2, RouterOutsideInv, CommandInv DEF IcmpNext

\* A message that waits is one the receiver accepts.
LEMMA AcceptedIs ==
  ASSUME IcmpInv
  PROVE  SentIsAccepted
<1> SUFFICES ASSUME NEW s \in Stations, NEW k \in DOMAIN queue[s], queue[s][k].type # "zero"
             PROVE  Accepted(queue[s][k])
  BY DEF SentIsAccepted
<1> DEFINE m == queue[s][k]
<1>1. queue[s] \in Seq(Messages) /\ Waiting(s, queue[s])
  BY DEF IcmpInv, IcmpTypeInv, MessageInv
<1>2. k \in 1..Len(queue[s])
  BY <1>1, LenProperties
<1>3. Message(s, m) /\ m.type # "zero"
  BY <1>1, <1>2 DEF Waiting
<1> HIDE DEF m
<1>4. m.type \in {"NS", "NA"} /\ m.src \in Mine(Peer(s)) => Accepted(m)
  <2> SUFFICES ASSUME m.type \in {"NS", "NA"} /\ m.src \in Mine(Peer(s))  PROVE Accepted(m)
    OBVIOUS
  <2>1. m.src # Unspecified
    BY PeerIs, AddressesIs
  <2> QED
    BY <2>1 DEF Accepted, NsolicitValid
<1>5. m = ROUTERS => Accepted(m)
  BY DEF ROUTERS, Msg, Accepted, RsolicitValid
<1>6. m.type \in {"ECHOREQ", "ECHORESP"} => Accepted(m)
  BY DEF Accepted
<1>7. m.type = "RA" /\ m.sum => Accepted(m)
  BY DEF Accepted, RadvertValid
<1> QED
  BY <1>3, <1>4, <1>5, <1>6, <1>7 DEF Message, m

\* When all is quiet, both have heard of each other.
LEMMA KnownIs ==
  ASSUME IcmpInv
  PROVE  BothKnow
<1> SUFFICES ASSUME Quiet, lost = 0, NEW q \in met
             PROVE  q[1] \in cache[q[2][1]] /\ q[2] \in cache[q[1][1]]
  BY DEF BothKnow
<1>1. PICK s \in Stations : q[1] \in Mine(s) /\ q[2] = LinkLocal(Peer(s))
  BY DEF IcmpInv, MetInv
<1> DEFINE p == Peer(s)
<1>2. p \in Stations /\ Peer(p) = s
  BY PeerIs
<1>3. q[1][1] = s /\ q[2][1] = p
  BY <1>1, <1>2, AddressesIs DEF Mine
<1>4. Exchange(s) /\ Exchange(p)
  BY <1>2 DEF IcmpInv
<1>5. \A t \in Stations : queue[t] = <<>> /\ asleep[t] = NoMsg /\ shell[t] = NoMsg
  BY DEF Quiet
<1>6. \A t \in Stations : \A a : ~SomeFrom(queue[t], a) /\ ~Sleeps(t, a)
  BY <1>5 DEF SomeFrom, Sleeps
<1> HIDE DEF p
<1>7. q[1] \in cache[p]
  BY <1>1, <1>2, <1>4, <1>5, <1>6 DEF Exchange, Asked, p
<1>8. Heard(p)
  BY <1>2, <1>4, <1>6, <1>7 DEF Exchange
<1>9. LinkLocal(p) \in cache[s]
  BY <1>2, <1>6, <1>8 DEF Heard
<1> QED
  BY <1>1, <1>3, <1>7, <1>9 DEF p

\* The two stations understand each other: what is sent is accepted; and while no message was
\* lost, solicitations end with both in each other's neighbour cache, and every echo request
\* is on its way, or its response is, or it has been answered (icmpv6_in, nsolicit_handler).
THEOREM ExchangesUnderstood == IcmpSpec => []ExchangesRight
<1>1. IcmpInit => IcmpInv
  BY IcmpInitInv
<1>2. IcmpInv /\ [IcmpNext]_ivars => IcmpInv'
  BY IcmpStep, IcmpStutters
<1>3. IcmpInv => ExchangesRight
  <2> SUFFICES ASSUME IcmpInv  PROVE EchoesAnswered
    BY AcceptedIs, KnownIs DEF ExchangesRight
  <2>1. \A s \in Stations : queue[s] \in Seq(Messages)
    BY DEF IcmpInv, IcmpTypeInv
  <2>2. \A s \in Stations : DOMAIN queue[s] = 1..Len(queue[s])
    BY <2>1, LenProperties
  <2>3. Box \in Stations /\ Host \in Stations
    BY DEF Stations
  <2>4. lost = 0 => EchoInv
    BY DEF IcmpInv
  <2> QED
    BY <2>2, <2>3, <2>4 DEF EchoesAnswered, EchoInv, Count, Places
<1> QED
  BY <1>1, <1>2, <1>3, PTL DEF IcmpSpec

-----------------------------------------------------------------------------
(* The invariant of the table and of the datagrams *)

EntriesOf(id) == [id : {id}, list : Seq(Pieces(id)), age : Nat, over : Nat, last : BOOLEAN]
Entries == UNION {EntriesOf(id) : id \in Ids}
Lists == UNION {Seq(Pieces(id)) : id \in Ids}
Timers == [pc : {"sleep", "test", "remove"}, at : Slots, slept : 0..REASSEMBLY_MAX_TIME]

\* Every fragment is behind those with a smaller offset.
Sorted(list) == \A j \in 1..Len(list) : \A k \in 1..Len(list) : j < k => list[j].off <= list[k].off
ReassembledRight(list) ==
  \E id \in Ids : ToSet(list) = Pieces(id) /\ Len(list) = Cardinality(Pieces(id)) /\ Copies(list)

EntryInv(e) ==
  /\ Len(e.list) > 0 /\ e.age < 2 * REASSEMBLY_MAX_TIME
  /\ e.over <= 3 => Sorted(e.list)
  /\ e.last /\ Len(e.list) > 1 => ~Copies(e.list)
TableTypeInv ==
  /\ table \in [Slots -> Entries \cup {NoEntry}] /\ tabSize \in 0..255 /\ raced \in BOOLEAN
  /\ timer \in Timers /\ done \in Seq(Lists)
EntriesInv == \A i \in Used : EntryInv(table[i])
SizeInv == ~raced => tabSize = Cardinality(Used)
RemoveInv == ~raced /\ timer.pc = "remove" => Old(timer.at)
AgeInv ==
  /\ timer.pc = "sleep" => timer.at = 1 /\ \A i \in Used : table[i].age < REASSEMBLY_MAX_TIME + timer.slept
  /\ timer.pc # "sleep" => \A i \in Used : i < timer.at => table[i].age < REASSEMBLY_MAX_TIME
DoneInv == \A k \in 1..Len(done) : ReassembledRight(done[k])
TableInv == TableTypeInv /\ EntriesInv /\ SizeInv /\ RemoveInv /\ AgeInv /\ DoneInv
Outs == [id : Ids \cup {"none"}, len : Nat, off : Nat, known : BOOLEAN]
SendInv == bufs \in 0..IPV6OUTNBUFS /\ out \in Outs /\ out.off <= out.len
DatagramsInv == TableInv /\ SendInv

-----------------------------------------------------------------------------
(* The pieces of a datagram *)

\* Full pieces up to Edge, a piece of whole units, and an odd one.
Fulls(id) == (Length[id] - (Length[id] % Unit)) \div PeerPayload
Edge(id) == Fulls(id) * PeerPayload
Rest(id) == Length[id] - Edge(id)
Odd(id) == Rest(id) % Unit
Piece(id, o, n) == [id |-> id, off |-> o, len |-> n, more |-> o + n < Length[id]]
FullPiece(id, g, k) == k \in 0..(Fulls(id) - 1) /\ g = Piece(id, k * PeerPayload, PeerPayload)
UnitPiece(id, g) == Rest(id) >= Unit /\ g = Piece(id, Edge(id), Rest(id) - Odd(id))
OddPiece(id, g) == Odd(id) # 0 /\ g = Piece(id, Length[id] - Odd(id), Odd(id))

LEMMA KindsIs ==
  ASSUME NEW id
  PROVE  \A g : g \in Pieces(id) <=> UnitPiece(id, g) \/ OddPiece(id, g) \/ \E k : FullPiece(id, g, k)
BY DEF Pieces, UnitPiece, OddPiece, FullPiece, Piece, Odd, Rest, Edge, Fulls

\* Multiples of the payload.
LEMMA TimesIs ==
  ASSUME NEW P \in Nat \ {0}
  PROVE  /\ \A k \in Nat : k * P \in Nat /\ (k + 1) * P = k * P + P
         /\ \A j, k \in Nat : j < k => j * P + P <= k * P
<1>1. \A k \in Nat : k * P \in Nat /\ (k + 1) * P = k * P + P
  OBVIOUS
<1>2. ASSUME NEW j \in Nat, NEW k \in Nat, j < k
      PROVE  j * P + P <= k * P
  <2> DEFINE d == k - j - 1
  <2>1. d \in Nat /\ k = (j + 1) + d
    BY <1>2
  <2> HIDE DEF d
  <2>2. k * P = (j + 1) * P + d * P
    BY <2>1
  <2>3. d * P \in Nat /\ (j + 1) * P = j * P + P /\ j * P \in Nat
    BY <2>1, <1>1
  <2> DEFINE x == k * P
             y == j * P
             z == d * P
             w == (j + 1) * P
  <2>4. x = w + z /\ z \in Nat /\ w = y + P /\ y \in Nat
    BY <2>2, <2>3
  <2> HIDE DEF x, y, z, w
  <2>5. y + P <= x
    BY <2>4
  <2> QED
    BY <2>5 DEF x, y
<1> QED
  BY <1>1, <1>2

\* The places where a datagram is cut.
LEMMA EdgesIs ==
  ASSUME NEW id \in Ids
  PROVE  /\ Unit \in Nat \ {0} /\ PeerPayload \in Nat \ {0} /\ Length[id] \in Nat \ {0}
         /\ Fulls(id) \in Nat /\ Edge(id) \in Nat /\ Edge(id) <= Length[id]
         /\ Rest(id) \in Nat /\ Length[id] = Edge(id) + Rest(id)
         /\ Odd(id) \in Nat /\ Odd(id) < Unit /\ Odd(id) <= Rest(id) /\ (Rest(id) < Unit => Odd(id) = Rest(id))
<1>1. Unit \in Nat \ {0} /\ PeerPayload \in Nat \ {0} /\ Length[id] \in Nat \ {0}
  BY FragmentsAssump, DatagramsAssump
<1> DEFINE L == Length[id]
           n == L - (L % Unit)
           w == n \div PeerPayload
           c == w * PeerPayload
<1>2. n \in Nat /\ n <= L
  BY <1>1
<1> HIDE DEF n
<1>3. w \in Nat /\ c \in Nat /\ c <= n
  BY <1>1, <1>2
<1>4. Fulls(id) = w /\ Edge(id) = c /\ Rest(id) = L - c /\ Odd(id) = (L - c) % Unit
  BY DEF Fulls, Edge, Rest, Odd, n
<1> HIDE DEF w, c, L
<1>5. L \in Nat /\ L - c \in Nat /\ L = c + (L - c) /\ c <= L
  BY <1>1, <1>2, <1>3 DEF L
<1> DEFINE r == L - c
<1>6. \A x \in Nat : x % Unit \in Nat /\ x % Unit < Unit /\ x % Unit <= x /\ (x < Unit => x % Unit = x)
  BY <1>1
<1>7. r \in Nat
  BY <1>5
<1> HIDE DEF r
<1>8. r % Unit \in Nat /\ r % Unit < Unit /\ r % Unit <= r /\ (r < Unit => r % Unit = r)
  BY <1>6, <1>7
<1> QED
  BY <1>1, <1>3, <1>4, <1>5, <1>8 DEF r, L

\* A piece lies inside its datagram, and only the last one has no M flag.
LEMMA PieceIs ==
  ASSUME NEW id \in Ids, NEW g \in Pieces(id)
  PROVE  /\ g.id = id /\ g.off \in Nat /\ g.len \in Nat /\ g.len > 0
         /\ g.off + g.len <= Length[id] /\ (g.more <=> g.off + g.len < Length[id])
         /\ g = Piece(id, g.off, g.len)
<1>1. UnitPiece(id, g) \/ OddPiece(id, g) \/ \E k : FullPiece(id, g, k)
  BY KindsIs
<1>2. \A o, n : Piece(id, o, n).id = id /\ Piece(id, o, n).off = o /\ Piece(id, o, n).len = n
                /\ (Piece(id, o, n).more <=> o + n < Length[id])
  BY DEF Piece
<1>3. ASSUME NEW o, NEW n, g = Piece(id, o, n), o \in Nat, n \in Nat, n > 0, o + n <= Length[id]
      PROVE  /\ g.id = id /\ g.off \in Nat /\ g.len \in Nat /\ g.len > 0
             /\ g.off + g.len <= Length[id] /\ (g.more <=> g.off + g.len < Length[id])
             /\ g = Piece(id, g.off, g.len)
  <2>1. g.id = id /\ g.off = o /\ g.len = n /\ (g.more <=> o + n < Length[id])
    BY <1>2, <1>3
  <2> QED
    BY <2>1, <1>3
<1>4. CASE UnitPiece(id, g)
  <2>1. g = Piece(id, Edge(id), Rest(id) - Odd(id)) /\ Rest(id) >= Unit
    BY <1>4 DEF UnitPiece
  <2>2. Edge(id) \in Nat /\ Rest(id) - Odd(id) \in Nat /\ Rest(id) - Odd(id) > 0 /\ Edge(id) + (Rest(id) - Odd(id)) <= Length[id]
    BY <2>1, EdgesIs
  <2> QED
    BY <2>1, <2>2, <1>3
<1>5. CASE OddPiece(id, g)
  <2>1. g = Piece(id, Length[id] - Odd(id), Odd(id)) /\ Odd(id) # 0
    BY <1>5 DEF OddPiece
  <2>2. Length[id] - Odd(id) \in Nat /\ Odd(id) \in Nat /\ Odd(id) > 0 /\ (Length[id] - Odd(id)) + Odd(id) <= Length[id]
    BY <2>1, EdgesIs
  <2> QED
    BY <2>1, <2>2, <1>3
<1>6. ASSUME NEW k, FullPiece(id, g, k)
      PROVE  \E o \in Nat : \E n \in Nat : g = Piece(id, o, n) /\ n > 0 /\ o + n <= Length[id]
  <2>1. k \in Nat /\ k < Fulls(id) /\ g = Piece(id, k * PeerPayload, PeerPayload)
    BY <1>6, EdgesIs DEF FullPiece
  <2>2. k * PeerPayload \in Nat /\ k * PeerPayload + PeerPayload <= Edge(id)
    BY <2>1, EdgesIs, TimesIs DEF Edge
  <2> DEFINE o == k * PeerPayload
  <2>3. o \in Nat /\ o + PeerPayload <= Edge(id) /\ g = Piece(id, o, PeerPayload)
    BY <2>1, <2>2
  <2> HIDE DEF o
  <2>4. o + PeerPayload <= Length[id] /\ PeerPayload > 0 /\ PeerPayload \in Nat
    BY <2>3, EdgesIs
  <2> QED
    BY <2>3, <2>4
<1> QED
  BY <1>1, <1>3, <1>4, <1>5, <1>6

\* Two pieces are the same or do not overlap.
Before(g, h) == g.off + g.len <= h.off
LEMMA PiecesApart ==
  ASSUME NEW id \in Ids, NEW g \in Pieces(id), NEW h \in Pieces(id)
  PROVE  g = h \/ Before(g, h) \/ Before(h, g)
<1> DEFINE P == PeerPayload
<1>0. \A o, n : Piece(id, o, n).off = o /\ Piece(id, o, n).len = n
  BY DEF Piece
<1>1. \A x \in Pieces(id) : UnitPiece(id, x) \/ OddPiece(id, x) \/ \E k : FullPiece(id, x, k)
  BY KindsIs
<1>2. \A x, k : FullPiece(id, x, k) => /\ k \in Nat /\ x.off = k * P /\ x.len = P /\ x.off \in Nat
                                       /\ x.off + x.len <= Edge(id)
  <2> SUFFICES ASSUME NEW x, NEW k, FullPiece(id, x, k)
               PROVE  k \in Nat /\ x.off = k * P /\ x.len = P /\ x.off \in Nat /\ x.off + x.len <= Edge(id)
    OBVIOUS
  <2>1. k \in Nat /\ k < Fulls(id) /\ x = Piece(id, k * P, P)
    BY EdgesIs DEF FullPiece
  <2>2. k * P \in Nat /\ k * P + P <= Edge(id)
    BY <2>1, EdgesIs, TimesIs DEF Edge
  <2> QED
    BY <2>1, <2>2, <1>0
<1>3. \A x : UnitPiece(id, x) => x.off = Edge(id) /\ x.off + x.len = Length[id] - Odd(id)
  BY <1>0, EdgesIs DEF UnitPiece
<1>4. \A x : OddPiece(id, x) => x.off = Length[id] - Odd(id) /\ x.off >= Edge(id)
  BY <1>0, EdgesIs DEF OddPiece
<1>5. ASSUME NEW x, NEW y, NEW j, NEW k, FullPiece(id, x, j), FullPiece(id, y, k)
      PROVE  x = y \/ Before(x, y) \/ Before(y, x)
  <2>1. j \in Nat /\ k \in Nat /\ x.off = j * P /\ x.len = P /\ y.off = k * P /\ y.len = P
    BY <1>2, <1>5
  <2>2. CASE j = k
    BY <2>2, <1>5 DEF FullPiece
  <2>3. CASE j < k
    BY <2>1, <2>3, EdgesIs, TimesIs DEF Before
  <2>4. CASE k < j
    BY <2>1, <2>4, EdgesIs, TimesIs DEF Before
  <2> QED
    BY <2>1, <2>2, <2>3, <2>4
<1>6. ASSUME NEW x, NEW y, NEW j, FullPiece(id, x, j), UnitPiece(id, y) \/ OddPiece(id, y)
      PROVE  Before(x, y)
  <2>1. x.off + x.len <= Edge(id) /\ x.off \in Nat /\ x.len \in Nat
    BY <1>2, <1>6, EdgesIs
  <2>2. y.off >= Edge(id) /\ y.off \in Nat
    BY <1>3, <1>4, <1>6, EdgesIs
  <2> QED
    BY <2>1, <2>2, EdgesIs DEF Before
<1>7. ASSUME NEW x, NEW y, UnitPiece(id, x), OddPiece(id, y)
      PROVE  Before(x, y)
  BY <1>3, <1>4, <1>7, EdgesIs DEF Before
<1>8. \A x, y : (UnitPiece(id, x) /\ UnitPiece(id, y)) \/ (OddPiece(id, x) /\ OddPiece(id, y)) => x = y
  BY DEF UnitPiece, OddPiece
<1> QED
  BY <1>1, <1>5, <1>6, <1>7, <1>8

\* There is a first piece, and behind every piece that is not the last the next one.
LEMMA PieceAfter ==
  ASSUME NEW id \in Ids
  PROVE  /\ \E h \in Pieces(id) : h.off = 0
         /\ \A g \in Pieces(id) : g.off + g.len < Length[id] => \E h \in Pieces(id) : h.off = g.off + g.len
<1> DEFINE P == PeerPayload
<1>0. \A o, n : Piece(id, o, n).off = o /\ Piece(id, o, n).len = n
  BY DEF Piece
<1>1. Edge(id) < Length[id] => \E h \in Pieces(id) : h.off = Edge(id)
  <2>1. CASE Rest(id) >= Unit
    <3> DEFINE h == Piece(id, Edge(id), Rest(id) - Odd(id))
    <3>1. h \in Pieces(id) /\ h.off = Edge(id)
      BY <2>1, <1>0, KindsIs DEF UnitPiece
    <3> QED
      BY <3>1
  <2>2. CASE Rest(id) < Unit /\ Edge(id) < Length[id]
    <3> DEFINE h == Piece(id, Length[id] - Odd(id), Odd(id))
    <3>1. Odd(id) # 0 /\ Length[id] - Odd(id) = Edge(id)
      BY <2>2, EdgesIs
    <3>2. h \in Pieces(id) /\ h.off = Edge(id)
      BY <3>1, <1>0, KindsIs DEF OddPiece
    <3> QED
      BY <3>2
  <2> QED
    BY <2>1, <2>2, EdgesIs
<1>2. \A k \in Nat : k < Fulls(id) => \E h \in Pieces(id) : h.off = k * P
  <2> SUFFICES ASSUME NEW k \in Nat, k < Fulls(id)  PROVE \E h \in Pieces(id) : h.off = k * P
    OBVIOUS
  <2> DEFINE h == Piece(id, k * P, P)
  <2>1. k \in 0..(Fulls(id) - 1)
    BY EdgesIs
  <2>2. h \in Pieces(id) /\ h.off = k * P
    BY <2>1, <1>0, KindsIs DEF FullPiece
  <2> QED
    BY <2>2
<1>3. \A k \in Nat : k <= Fulls(id) /\ k * P < Length[id] => \E h \in Pieces(id) : h.off = k * P
  <2> SUFFICES ASSUME NEW k \in Nat, k <= Fulls(id), k * P < Length[id]  PROVE \E h \in Pieces(id) : h.off = k * P
    OBVIOUS
  <2>1. CASE k = Fulls(id)
    BY <2>1, <1>1 DEF Edge
  <2>2. CASE k # Fulls(id)
    BY <2>2, <1>2, EdgesIs
  <2> QED
    BY <2>1, <2>2
<1>4. \E h \in Pieces(id) : h.off = 0
  <2>1. 0 * P = 0
    BY EdgesIs
  <2> QED
    BY <2>1, <1>3, EdgesIs
<1>5. ASSUME NEW g \in Pieces(id), g.off + g.len < Length[id]
      PROVE  \E h \in Pieces(id) : h.off = g.off + g.len
  <2>1. CASE UnitPiece(id, g)
    <3> DEFINE h == Piece(id, Length[id] - Odd(id), Odd(id))
    <3>1. g.off + g.len = Length[id] - Odd(id) /\ Odd(id) # 0
      BY <2>1, <1>0, <1>5, EdgesIs DEF UnitPiece
    <3>2. h \in Pieces(id) /\ h.off = Length[id] - Odd(id)
      BY <3>1, <1>0, KindsIs DEF OddPiece
    <3> QED
      BY <3>1, <3>2
  <2>2. CASE OddPiece(id, g)
    BY <2>2, <1>0, <1>5, EdgesIs DEF OddPiece
  <2>3. ASSUME NEW k, FullPiece(id, g, k)
        PROVE  \E h \in Pieces(id) : h.off = g.off + g.len
    <3>1. k \in Nat /\ k + 1 \in Nat /\ k + 1 <= Fulls(id) /\ g.off = k * P /\ g.len = P
      BY <2>3, <1>0, EdgesIs DEF FullPiece
    <3>2. (k + 1) * P = g.off + g.len
      BY <3>1, EdgesIs, TimesIs
    <3> QED
      BY <3>1, <3>2, <1>3, <1>5
  <2> QED
    BY <2>1, <2>2, <2>3, KindsIs
<1> QED
  BY <1>4, <1>5

-----------------------------------------------------------------------------
(* Lists of fragments *)

\* In a list that can be copied every fragment ends before the later ones begin.
LEMMA CopiesBefore ==
  ASSUME NEW id \in Ids, NEW list \in Seq(Pieces(id)), Copies(list),
         NEW j \in 1..Len(list), NEW k \in 1..Len(list), j < k
  PROVE  Before(list[j], list[k])
<1> DEFINE Bad == {n \in Nat : n \in 1..Len(list) /\ j < n /\ ~Before(list[j], list[n])}
<1>0. Len(list) \in Nat /\ DOMAIN list = 1..Len(list) /\ j \in Nat
  BY LenProperties
<1>1. \A n \in 1..Len(list) : list[n] \in Pieces(id)
  BY ElementOfSeq
<1>2. \A n \in 1..Len(list) : list[n].off \in Nat /\ list[n].len \in Nat /\ list[n].len > 0
  BY <1>1, PieceIs
<1>3. \A n \in 1..Len(list) : n # 1 => list[n].off = list[n-1].off + list[n-1].len
  BY <1>0 DEF Copies
<1>4. ASSUME Bad # {}
      PROVE  FALSE
  <2>1. Bad \in SUBSET Nat
    OBVIOUS
  <2>2. PICK n \in Bad : \A m \in Bad : n <= m
    BY <2>1, <1>4, LeastNat
  <2>3. n \in 1..Len(list) /\ j < n /\ ~Before(list[j], list[n]) /\ n \in Nat
    OBVIOUS
  <2>4. n - 1 \in 1..Len(list) /\ n - 1 \in Nat /\ n - 1 >= j /\ n # 1
    BY <2>3, <1>0
  <2>5. n - 1 \notin Bad
    BY <2>2, <2>3
  <2>6. n - 1 = j \/ Before(list[j], list[n-1])
    BY <2>4, <2>5, <1>0
  <2>7. list[n].off = list[n-1].off + list[n-1].len
    BY <2>3, <2>4, <1>3
  <2>8. CASE n - 1 = j
    BY <2>8, <2>3, <2>7, <1>2 DEF Before
  <2>9. CASE Before(list[j], list[n-1])
    <3>1. list[n-1].off \in Nat /\ list[n-1].len \in Nat /\ list[j].off \in Nat /\ list[j].len \in Nat
      BY <2>4, <1>2
    <3>2. list[j].off + list[j].len <= list[n-1].off
      BY <2>9 DEF Before
    <3>3. list[j].off + list[j].len <= list[n].off
      <4>1. \A x, y, u, v \in Nat : x + y <= u => x + y <= u + v
        OBVIOUS
      <4>2. list[j].off + list[j].len <= list[n-1].off + list[n-1].len
        BY <3>1, <3>2, <4>1
      <4> QED
        BY <2>7, <4>2
    <3> QED
      BY <3>3, <2>3 DEF Before
  <2> QED
    BY <2>6, <2>8, <2>9
<1>5. k \in Nat
  OBVIOUS
<1> QED
  BY <1>4, <1>5

\* When one of its fragments has no M flag, it is the datagram: a piece that was not in it
\* would lie behind the last of the fragments that begin before it, and there is nothing.
LEMMA CopiesAll ==
  ASSUME NEW id \in Ids, NEW list \in Seq(Pieces(id)), Copies(list),
         NEW end \in 1..Len(list), ~list[end].more
  PROVE  ReassembledRight(list)
<1>0. Len(list) \in Nat /\ DOMAIN list = 1..Len(list)
  BY LenProperties
<1>1. \A n \in 1..Len(list) : list[n] \in Pieces(id)
  BY ElementOfSeq
<1>2. \A n \in 1..Len(list) : list[n].off \in Nat /\ list[n].len \in Nat /\ list[n].len > 0
                              /\ list[n].off + list[n].len <= Length[id] /\ Length[id] \in Nat
  BY <1>1, PieceIs, EdgesIs
<1>3. list[end].off + list[end].len = Length[id]
  <2>1. list[end].more <=> list[end].off + list[end].len < Length[id]
    BY <1>1, PieceIs
  <2>2. ~(list[end].off + list[end].len < Length[id])
    BY <2>1
  <2>3. list[end].off + list[end].len \in Nat /\ list[end].off + list[end].len <= Length[id] /\ Length[id] \in Nat
    BY <1>2
  <2> QED
    BY <2>2, <2>3
<1>4. end = Len(list)
  <2>1. ASSUME end # Len(list)
        PROVE  FALSE
    <3>1. Len(list) \in 1..Len(list) /\ end < Len(list)
      <4> DEFINE n == Len(list)
      <4>1. n \in Nat /\ end \in 1..n /\ end # n
        BY <2>1, <1>0
      <4> HIDE DEF n
      <4>2. n \in 1..n /\ end < n
        BY <4>1
      <4> QED
        BY <4>2 DEF n
    <3>2. Before(list[end], list[Len(list)])
      BY <3>1, CopiesBefore
    <3> QED
      BY <3>1, <3>2, <1>2, <1>3 DEF Before
  <2> QED
    BY <2>1
<1>5. ASSUME NEW g \in Pieces(id)
      PROVE  \E n \in 1..Len(list) : list[n] = g
  <2> DEFINE S == {n \in Nat : n \in 1..Len(list) /\ list[n].off + list[n].len > g.off}
  <2>1. g.off \in Nat /\ g.len \in Nat /\ g.len > 0 /\ g.off + g.len <= Length[id]
    BY PieceIs
  <2>2. end \in S
    BY <2>1, <1>2, <1>3
  <2>3. S \in SUBSET Nat
    OBVIOUS
  <2>4. PICK n \in S : \A m \in S : n <= m
    BY <2>2, <2>3, LeastNat
  <2>5. n \in 1..Len(list) /\ list[n].off + list[n].len > g.off
    OBVIOUS
  <2>6. list[n].off <= g.off
    <3>1. CASE n = 1
      <4>1. list[1].off = 0
        BY <3>1, <2>5, <1>0 DEF Copies
      <4> QED
        BY <4>1, <3>1, <2>1
    <3>2. CASE n # 1
      <4>1. n - 1 \in 1..Len(list) /\ n - 1 \in Nat
        BY <3>2, <2>5
      <4>2. n - 1 \notin S
        BY <2>4, <2>5
      <4>3. list[n-1].off + list[n-1].len <= g.off
        <5>1. list[n-1].off \in Nat /\ list[n-1].len \in Nat
          BY <4>1, <1>2
        <5>2. ~(list[n-1].off + list[n-1].len > g.off)
          BY <4>1, <4>2
        <5> QED
          BY <5>1, <5>2, <2>1
      <4>4. list[n].off = list[n-1].off + list[n-1].len
        BY <3>2, <2>5, <1>0 DEF Copies
      <4> QED
        BY <4>3, <4>4
    <3> QED
      BY <3>1, <3>2
  <2>7. list[n] = g \/ Before(list[n], g) \/ Before(g, list[n])
    BY <2>5, <1>1, PiecesApart
  <2>8. ~Before(list[n], g) /\ ~Before(g, list[n])
    BY <2>1, <2>5, <2>6, <1>2 DEF Before
  <2> QED
    BY <2>5, <2>7, <2>8
<1>6. ToSet(list) = Pieces(id)
  BY <1>0, <1>1, <1>5 DEF ToSet
<1>7. \A j, k \in 1..Len(list) : list[j] = list[k] => j = k
  <2>1. ASSUME NEW j \in 1..Len(list), NEW k \in 1..Len(list), j < k
        PROVE  list[j] # list[k]
    <3>1. Before(list[j], list[k])
      BY <2>1, CopiesBefore
    <3> QED
      BY <3>1, <1>2 DEF Before
  <2>2. \A j, k \in 1..Len(list) : j < k \/ j = k \/ k < j
    BY <1>0
  <2> QED
    BY <2>1, <2>2
<1>8. Len(list) = Cardinality(Pieces(id))
  <2> DEFINE f == [n \in 1..Len(list) |-> list[n]]
  <2>1. f \in Bijection(1..Len(list), Pieces(id))
    BY <1>1, <1>5, <1>7 DEF Bijection, Injection, Surjection, IsInjective
  <2>2. ExistsBijection(1..Len(list), Pieces(id))
    BY <2>1 DEF ExistsBijection
  <2>3. IsFiniteSet(1..Len(list)) /\ Cardinality(1..Len(list)) = Len(list)
    BY <1>0, CountedTo
  <2> QED
    BY <2>2, <2>3, FS_Bijection
<1> QED
  BY <1>6, <1>8 DEF ReassembledRight

\* A sorted list of all the pieces, each of them once, can be copied.
LEMMA SortedCopies ==
  ASSUME NEW id \in Ids, NEW list \in Seq(Pieces(id)), Sorted(list),
         ToSet(list) = Pieces(id), Len(list) = Cardinality(Pieces(id))
  PROVE  Copies(list)
<1>0. Len(list) \in Nat /\ DOMAIN list = 1..Len(list)
  BY LenProperties
<1>1. \A n \in 1..Len(list) : list[n] \in Pieces(id)
  BY ElementOfSeq
<1>2. \A n \in 1..Len(list) : list[n].off \in Nat /\ list[n].len \in Nat /\ list[n].len > 0
                              /\ list[n].off + list[n].len <= Length[id] /\ Length[id] \in Nat
  BY <1>1, PieceIs, EdgesIs
<1>3. \A g \in Pieces(id) : \E n \in 1..Len(list) : list[n] = g
  BY <1>0 DEF ToSet
<1>4. \A j, k \in 1..Len(list) : list[j] = list[k] => j = k
  <2> DEFINE f == [n \in 1..Len(list) |-> list[n]]
  <2>1. f \in Surjection(1..Len(list), Pieces(id))
    BY <1>1, <1>3 DEF Surjection
  <2>2. IsFiniteSet(1..Len(list)) /\ Cardinality(1..Len(list)) = Len(list)
    BY <1>0, CountedTo
  <2> HIDE DEF f
  <2>3. f \in Injection(1..Len(list), Pieces(id))
    BY <2>1, <2>2, FS_Surjection
  <2>4. \A j, k \in 1..Len(list) : f[j] = f[k] => j = k
    BY <2>3 DEF Injection, IsInjective
  <2> QED
    BY <2>4 DEF f
<1>5. \A j, k \in 1..Len(list) : j < k => Before(list[j], list[k])
  <2> SUFFICES ASSUME NEW j \in 1..Len(list), NEW k \in 1..Len(list), j < k
               PROVE  Before(list[j], list[k])
    OBVIOUS
  <2>1. list[j].off <= list[k].off
    BY DEF Sorted
  <2>2. list[j] # list[k]
    BY <1>4
  <2>3. Before(list[j], list[k]) \/ Before(list[k], list[j])
    BY <2>2, <1>1, PiecesApart
  <2> QED
    BY <2>1, <2>3, <1>2 DEF Before
<1>6. ASSUME NEW k \in 1..Len(list), k = 1
      PROVE  list[k].off = 0
  <2>1. PICK h \in Pieces(id) : h.off = 0
    BY PieceAfter
  <2>2. PICK n \in 1..Len(list) : list[n] = h
    BY <1>3
  <2>3. list[k].off <= list[n].off
    <3>1. k = n \/ k < n
      BY <1>6, <1>0
    <3> QED
      BY <3>1, <1>2 DEF Sorted
  <2> QED
    BY <2>1, <2>2, <2>3, <1>2
<1>7. ASSUME NEW k \in 1..Len(list), k # 1
      PROVE  list[k].off = list[k-1].off + list[k-1].len
  <2>1. k - 1 \in 1..Len(list) /\ k - 1 < k
    BY <1>0, <1>7
  <2>2. Before(list[k-1], list[k])
    BY <2>1, <1>5
  <2>3. list[k-1].off + list[k-1].len < Length[id]
    BY <2>1, <2>2, <1>2 DEF Before
  <2>4. PICK h \in Pieces(id) : h.off = list[k-1].off + list[k-1].len
    BY <2>1, <2>3, <1>1, PieceAfter
  <2>5. PICK n \in 1..Len(list) : list[n] = h
    BY <1>3
  <2>6. n >= k
    <3>1. ASSUME n < k
          PROVE  FALSE
      <4>1. n = k - 1 \/ n < k - 1
        BY <3>1, <1>0
      <4>2. list[n].off <= list[k-1].off
        BY <4>1, <2>1, <1>2 DEF Sorted
      <4> QED
        BY <4>2, <2>1, <2>4, <2>5, <1>2
    <3> QED
      BY <3>1, <1>0
  <2>7. list[k].off <= list[n].off
    <3>1. k = n \/ k < n
      BY <2>6, <1>0
    <3> QED
      BY <3>1, <1>2 DEF Sorted
  <2> QED
    BY <2>1, <2>2, <2>4, <2>5, <2>7, <1>2 DEF Before
<1> QED
  BY <1>0, <1>6, <1>7 DEF Copies

-----------------------------------------------------------------------------
(* Inserting a fragment *)

\* The least of some numbers is one of them.
LEMMA LeastIs ==
  ASSUME NEW S \in SUBSET Nat, S # {}
  PROVE  Min(S) \in S /\ \A x \in S : Min(S) <= x
BY LeastNat DEF Min

\* Where f goes: behind all but the last n fragments, of which all lie behind f.
LEMMA InsertPlace ==
  ASSUME NEW T, NEW list \in Seq(T), NEW f \in T
  PROVE  \E n \in 0..Len(list) :
           /\ Inserted(T, Insert(list, f), list, Len(list) - n + 1, f)
           /\ n <= 3
           /\ \A j \in 0..(n - 1) : ~(f.off >= list[Len(list) - j].off)
           /\ n = 3 \/ n = Len(list) \/ f.off >= list[Len(list) - n].off
<1> DEFINE S == {3, Len(list)} \cup {j \in 0..(Len(list) - 1) : f.off >= list[Len(list) - j].off}
           n == Min(S)
<1>0. Len(list) \in Nat
  BY LenProperties
<1>1. S \in SUBSET Nat /\ S # {} /\ 3 \in S /\ Len(list) \in S
  BY <1>0
<1>2. n \in S /\ \A x \in S : n <= x
  BY <1>1, LeastIs
<1>3. n \in 0..Len(list) /\ n <= 3
  BY <1>0, <1>1, <1>2
<1>4. n = 3 \/ n = Len(list) \/ f.off >= list[Len(list) - n].off
  BY <1>2
<1>5. \A j \in 0..(n - 1) : ~(f.off >= list[Len(list) - j].off)
  <2> SUFFICES ASSUME NEW j \in 0..(n - 1), f.off >= list[Len(list) - j].off  PROVE FALSE
    OBVIOUS
  <2>1. j \in 0..(Len(list) - 1) /\ j < n
    BY <1>0, <1>3
  <2>2. j \in S
    BY <2>1
  <2> QED
    BY <2>1, <2>2, <1>2, <1>3
<1>6. Insert(list, f) = SubSeq(list, 1, (Len(list) - n + 1) - 1) \o <<f>> \o SubSeq(list, Len(list) - n + 1, Len(list))
  BY DEF Insert, InsertAt
<1> HIDE DEF n, S
<1>7. Len(list) - n + 1 \in 1..(Len(list) + 1)
  BY <1>0, <1>3
<1>8. Inserted(T, Insert(list, f), list, Len(list) - n + 1, f)
  BY <1>6, <1>7, InsertIs
<1> QED
  BY <1>3, <1>4, <1>5, <1>8

\* A fragment joins a list; a sorted list stays so if at most three have overtaken the
\* fragment.
LEMMA InsertKeeps ==
  ASSUME NEW id \in Ids, NEW list \in Seq(Pieces(id)), NEW f \in Pieces(id)
  PROVE  /\ Insert(list, f) \in Seq(Pieces(id)) /\ Len(Insert(list, f)) = Len(list) + 1
         /\ \E k \in 1..Len(Insert(list, f)) : Insert(list, f)[k] = f
         /\ Sorted(list) /\ Cardinality({k \in DOMAIN list : list[k].off > f.off}) <= 3 => Sorted(Insert(list, f))
<1> DEFINE r == Insert(list, f)
           l == Len(list)
<1>0. l \in Nat /\ DOMAIN list = 1..l
  BY LenProperties
<1>1. PICK n \in 0..l :
        /\ Inserted(Pieces(id), r, list, l - n + 1, f)
        /\ n <= 3
        /\ \A j \in 0..(n - 1) : ~(f.off >= list[l - j].off)
        /\ n = 3 \/ n = l \/ f.off >= list[l - n].off
  BY InsertPlace
<1>2. \A k \in 1..l : list[k] \in Pieces(id) /\ list[k].off \in Nat
  BY ElementOfSeq, PieceIs
<1>3. f.off \in Nat
  BY PieceIs
<1> DEFINE p == l - n + 1
<1>4. p \in 1..(l + 1) /\ n \in Nat /\ p \in Nat
  BY <1>0
<1>5. /\ r \in Seq(Pieces(id)) /\ Len(r) = l + 1
      /\ \A k \in 1..(l + 1) : r[k] = IF k < p THEN list[k] ELSE IF k = p THEN f ELSE list[k-1]
  BY <1>1 DEF Inserted
<1>6. r[p] = f
  BY <1>4, <1>5
<1>7. ASSUME Sorted(list), Cardinality({k \in 1..l : list[k].off > f.off}) <= 3
      PROVE  Sorted(r)
  <2>1. \A k \in 1..l : k >= p => f.off < list[k].off
    <3> SUFFICES ASSUME NEW k \in 1..l, k >= p  PROVE f.off < list[k].off
      OBVIOUS
    <3>1. l - k \in 0..(n - 1) /\ l - (l - k) = k
      BY <1>0, <1>4
    <3>2. ~(f.off >= list[k].off)
      BY <3>1, <1>1
    <3> QED
      BY <3>2, <1>2, <1>3
  <2>2. \A k \in 1..l : k < p => list[k].off <= f.off
    <3> SUFFICES ASSUME NEW k \in 1..l, k < p  PROVE list[k].off <= f.off
      OBVIOUS
    <3>0. n # l /\ l - n \in 1..l /\ k <= l - n
      <4>1. k < l - n + 1 /\ k \in 1..l /\ l \in Nat /\ n \in Nat
        BY <1>0, <1>4
      <4> HIDE DEF l
      <4> QED
        BY <4>1
    <3>1. CASE f.off >= list[l - n].off
      <4>1. list[k].off <= list[l - n].off
        <5>1. k = l - n \/ k < l - n
          <6> DEFINE x == l - n
          <6>1. x \in Int /\ k <= x /\ k \in Int
            BY <3>0
          <6>2. k = x \/ k < x
            BY <6>1
          <6> QED
            BY <6>2 DEF x
        <5>2. CASE k = l - n
          BY <5>2, <3>0, <1>2
        <5>3. CASE k < l - n
          BY <5>3, <3>0, <1>7 DEF Sorted
        <5> QED
          BY <5>1, <5>2, <5>3
      <4> QED
        BY <3>0, <3>1, <4>1, <1>2, <1>3
    <3>2. CASE n = 3 /\ ~(f.off >= list[l - n].off)
      <4> DEFINE X == {j \in 1..l : list[j].off > f.off}
      <4>1. l >= 4 /\ l - 3 >= 1
        BY <3>0, <3>2, <1>0
      <4>2. list[l - 3].off > f.off
        BY <3>0, <3>2, <1>2, <1>3
      <4>3. \A j \in (l - 3)..l : j \in 1..l /\ (j = l - 3 \/ j >= p)
        <5>1. l \in Nat /\ l >= 4 /\ p = l - 2
          BY <4>1, <3>2, <1>0
        <5> HIDE DEF l, p
        <5> QED
          BY <5>1
      <4>4. (l - 3)..l \in SUBSET X
        <5> SUFFICES ASSUME NEW j \in (l - 3)..l  PROVE j \in X
          OBVIOUS
        <5>1. j \in 1..l /\ list[j].off \in Nat
          BY <4>3, <1>2
        <5>2. list[j].off > f.off
          BY <5>1, <4>2, <4>3, <2>1, <1>3
        <5> QED
          BY <5>1, <5>2
      <4>5. IsFiniteSet(X)
        <5>1. X \in SUBSET (1..l) /\ IsFiniteSet(1..l)
          BY <1>0, CountedTo
        <5> QED
          BY <5>1, FS_Subset
      <4> HIDE DEF X
      <4>6. Cardinality((l - 3)..l) <= Cardinality(X)
        BY <4>4, <4>5, FS_Subset
      <4>7. Cardinality((l - 3)..l) = 4
        <5>1. l - 3 \in Int /\ l \in Int
          BY <1>0
        <5>2. Cardinality((l - 3)..l) = IF l - 3 > l THEN 0 ELSE l - (l - 3) + 1
          BY ONLY <5>1, FS_Interval
        <5>3. ~(l - 3 > l) /\ l - (l - 3) + 1 = 4
          BY <1>0
        <5> QED
          BY ONLY <5>2, <5>3
      <4>8. Cardinality(X) \in Nat /\ Cardinality(X) <= 3
        BY <4>5, <1>7, FS_CardinalityType DEF X
      <4> QED
        BY <4>6, <4>7, <4>8
    <3> QED
      BY <3>0, <3>1, <3>2, <1>1
  <2>3. ASSUME NEW j \in 1..(l + 1), NEW k \in 1..(l + 1), j < k
        PROVE  r[j].off <= r[k].off
    <3> HIDE DEF p, r, l
    <3>1. CASE j < p /\ k < p
      <4>1. r[j] = list[j] /\ r[k] = list[k] /\ j \in 1..l /\ k \in 1..l
        BY <3>1, <1>0, <1>4, <1>5
      <4> QED
        BY <4>1, <2>3, <1>7 DEF Sorted, l
    <3>2. CASE j < p /\ k = p
      <4>1. r[j] = list[j] /\ r[k] = f /\ j \in 1..l
        BY <3>2, <1>0, <1>4, <1>5, <1>6
      <4> QED
        BY <4>1, <3>2, <2>2
    <3>3. CASE j < p /\ k > p
      <4>1. r[j] = list[j] /\ r[k] = list[k-1] /\ j \in 1..l /\ k - 1 \in 1..l /\ k - 1 >= p
        BY <3>3, <1>0, <1>4, <1>5
      <4>2. list[j].off <= f.off /\ f.off < list[k-1].off
        BY <4>1, <3>3, <2>1, <2>2
      <4> QED
        BY <4>1, <4>2, <1>2, <1>3
    <3>4. CASE j = p /\ k > p
      <4>1. r[j] = f /\ r[k] = list[k-1] /\ k - 1 \in 1..l /\ k - 1 >= p
        BY <3>4, <1>0, <1>4, <1>5, <1>6
      <4>2. f.off < list[k-1].off
        BY <4>1, <2>1
      <4> QED
        BY <4>1, <4>2, <1>2, <1>3
    <3>5. CASE j > p /\ k > p
      <4>0. l \in Nat /\ p \in Nat /\ p >= 1 /\ j \in 1..(l + 1) /\ k \in 1..(l + 1)
        BY <1>0, <1>4
      <4>1. j - 1 \in 1..l /\ k - 1 \in 1..l /\ j - 1 < k - 1 /\ ~(j < p) /\ j # p /\ ~(k < p) /\ k # p
        BY ONLY <3>5, <2>3, <4>0
      <4>2. r[j] = list[j-1] /\ r[k] = list[k-1]
        BY <4>1, <1>5
      <4>3. list[j-1].off <= list[k-1].off
        BY <4>1, <1>7 DEF Sorted, l
      <4> QED
        BY <4>2, <4>3
    <3> QED
      BY <2>3, <1>4, <3>1, <3>2, <3>3, <3>4, <3>5
  <2> QED
    BY <2>3, <1>5 DEF Sorted
<1> QED
  BY <1>0, <1>4, <1>5, <1>6, <1>7

-----------------------------------------------------------------------------
(* The table *)

\* The entries in use.
LEMMA EntriesAre ==
  ASSUME TableTypeInv, NEW i \in Used
  PROVE  /\ i \in Slots /\ table[i] \in Entries /\ table[i].id \in Ids /\ table[i] \in EntriesOf(table[i].id)
         /\ table[i].list \in Seq(Pieces(table[i].id)) /\ table[i].age \in Nat /\ table[i].over \in Nat
<1>1. i \in Slots /\ table[i] \in Entries
  BY DEF TableTypeInv, Used
<1>2. PICK id \in Ids : table[i] \in EntriesOf(id)
  BY <1>1 DEF Entries
<1>3. table[i].id = id
  BY <1>2 DEF EntriesOf
<1> QED
  BY <1>1, <1>2, <1>3 DEF EntriesOf

LEMMA UsedIs ==
  /\ Used \in SUBSET Slots /\ IsFiniteSet(Used) /\ Cardinality(Used) \in 0..255
  /\ \A i \in Slots : i \notin Used => Cardinality(Used) < 255
<1>0. Used \in SUBSET Slots /\ REASSEMBLY_TABLE_MAX_SIZE \in 1..255
  BY ReassemblyAssump DEF Used
<1>1. IsFiniteSet(Slots) /\ Cardinality(Slots) = REASSEMBLY_TABLE_MAX_SIZE
  <2> DEFINE n == REASSEMBLY_TABLE_MAX_SIZE
  <2>1. n \in Nat
    BY <1>0
  <2>2. IsFiniteSet(1..n) /\ Cardinality(1..n) = n
    BY <2>1, CountedTo
  <2> QED
    BY <2>2 DEF Slots
<1>2. IsFiniteSet(Used) /\ Cardinality(Used) <= Cardinality(Slots) /\ Cardinality(Used) \in Nat
  BY <1>0, <1>1, FS_Subset, FS_CardinalityType
<1>3. Cardinality(Used) = Cardinality(Slots) => Used = Slots
  BY <1>0, <1>1, FS_Subset
<1> QED
  BY <1>0, <1>1, <1>2, <1>3

\* The lookups.
LEMMA LookupsAre ==
  /\ \A id : CheckReassemblyTable(id) = 0 \/ (CheckReassemblyTable(id) \in Used /\ table[CheckReassemblyTable(id)].id = id)
  /\ FindHole = 0 \/ FindHole \in Slots \ Used
<1>1. Slots \in SUBSET Nat /\ Used \in SUBSET Nat
  BY DEF Slots, Used
<1>2. ASSUME NEW id
      PROVE  CheckReassemblyTable(id) = 0 \/ (CheckReassemblyTable(id) \in Used /\ table[CheckReassemblyTable(id)].id = id)
  <2> DEFINE S == {i \in Used : i <= tabSize /\ table[i].id = id}
  <2>1. S \in SUBSET Nat
    BY <1>1
  <2>2. S # {} => Min(S) \in S
    BY <2>1, LeastIs
  <2> QED
    BY <2>2 DEF CheckReassemblyTable, MinOr
<1>3. FindHole = 0 \/ FindHole \in Slots \ Used
  <2> DEFINE S == Slots \ Used
  <2>1. S # {} => Min(S) \in S
    BY <1>1, LeastIs
  <2> QED
    BY <2>1 DEF FindHole, MinOr
<1> QED
  BY <1>2, <1>3

\* An entry is put into slot i, or cleared.
Put(i, e) == table' = [table EXCEPT ![i] = e]
LEMMA PutIs ==
  ASSUME TableTypeInv, EntriesInv, NEW i \in Slots, NEW e,
         (e \in Entries /\ EntryInv(e)) \/ e = NoEntry, Put(i, e)
  PROVE  /\ table' \in [Slots -> Entries \cup {NoEntry}] /\ table'[i] = e
         /\ \A j \in Slots : j # i => table'[j] = table[j]
         /\ EntriesInv'
         /\ Used' = IF e = NoEntry THEN Used \ {i} ELSE Used \cup {i}
<1>1. table \in [Slots -> Entries \cup {NoEntry}]
  BY DEF TableTypeInv
<1>2. table' \in [Slots -> Entries \cup {NoEntry}] /\ table'[i] = e /\ \A j \in Slots : j # i => table'[j] = table[j]
  BY <1>1 DEF Put
<1>3. \A j : j \in Used' <=> j \in Slots /\ table'[j] # NoEntry
  BY DEF Used
<1>4. \A j : j \in Used <=> j \in Slots /\ table[j] # NoEntry
  BY DEF Used
<1>5. \A j : j \in Used' <=> j \in (IF e = NoEntry THEN Used \ {i} ELSE Used \cup {i})
  BY <1>2, <1>3, <1>4
<1>6. EntriesInv'
  <2> SUFFICES ASSUME NEW j \in Used'  PROVE EntryInv(table'[j])
    BY DEF EntriesInv, EntryInv
  <2>1. CASE j = i
    BY <2>1, <1>2, <1>3
  <2>2. CASE j # i
    BY <2>2, <1>2, <1>3, <1>4 DEF EntriesInv
  <2> QED
    BY <2>1, <2>2
<1> QED
  BY <1>2, <1>5, <1>6

\* The age of an entry that netin puts is that of the entry before, or none.
LEMMA TouchedIs ==
  ASSUME TableTypeInv, EntriesInv, RemoveInv, AgeInv, NEW i \in Slots, NEW e,
         (e \in Entries /\ EntryInv(e) /\ (e.age = 0 \/ (i \in Used /\ e.age = table[i].age))) \/ e = NoEntry,
         Put(i, e), Touch(i), UNCHANGED timer
  PROVE  RemoveInv' /\ AgeInv' /\ raced' \in BOOLEAN /\ (~raced' => ~raced)
<1>1. /\ table'[i] = e /\ \A j \in Slots : j # i => table'[j] = table[j]
      /\ Used' = IF e = NoEntry THEN Used \ {i} ELSE Used \cup {i}
  BY PutIs
<1>2. timer' = timer /\ timer.at \in Slots /\ timer.slept \in Nat /\ REASSEMBLY_MAX_TIME \in Nat \ {0}
  BY ReassemblyAssump DEF TableTypeInv, Timers
<1>3. raced \in BOOLEAN /\ raced' = (raced \/ (timer.pc = "remove" /\ timer.at = i))
  BY DEF Touch, TableTypeInv
<1>4. raced' \in BOOLEAN /\ (~raced' => ~raced /\ (timer.pc = "remove" => timer.at # i))
  BY <1>3
<1>5. RemoveInv'
  <2> SUFFICES ASSUME ~raced', timer'.pc = "remove"  PROVE Old(timer.at)'
    BY DEF RemoveInv
  <2>1. Old(timer.at) /\ timer.at # i
    BY <1>2, <1>4 DEF RemoveInv
  <2>2. table'[timer.at] = table[timer.at]
    BY <2>1, <1>1, <1>2
  <2> QED
    BY <2>1, <2>2, <1>2 DEF Old
<1>6. \A j \in Used' : /\ j \in Slots
                       /\ table'[j].age = 0 \/ (j \in Used /\ table'[j].age = table[j].age)
  <2> SUFFICES ASSUME NEW j \in Used'
               PROVE  j \in Slots /\ (table'[j].age = 0 \/ (j \in Used /\ table'[j].age = table[j].age))
    OBVIOUS
  <2>1. j \in Slots /\ (j # i => j \in Used) /\ (j = i => e # NoEntry)
    BY <1>1 DEF Used
  <2>2. CASE j = i
    BY <2>1, <2>2, <1>1
  <2>3. CASE j # i
    BY <2>1, <2>3, <1>1
  <2> QED
    BY <2>2, <2>3
<1>7. AgeInv'
  <2>1. ASSUME timer.pc = "sleep"
        PROVE  timer.at = 1 /\ \A j \in Used' : table'[j].age < REASSEMBLY_MAX_TIME + timer.slept
    BY <2>1, <1>2, <1>6 DEF AgeInv
  <2>2. ASSUME timer.pc # "sleep", NEW j \in Used', j < timer.at
        PROVE  table'[j].age < REASSEMBLY_MAX_TIME
    BY <2>2, <1>2, <1>6 DEF AgeInv
  <2> QED
    BY <2>1, <2>2, <1>2 DEF AgeInv
<1> QED
  BY <1>4, <1>5, <1>7

\* The first fragment of a datagram.
LEMMA Append1Inv ==
  ASSUME TableInv, NEW id \in Ids, NEW f \in Pieces(id), Append1(f)
  PROVE  TableInv' /\ UNCHANGED done /\ Used \subseteq Used'
<1> DEFINE e == [id |-> f.id, list |-> <<f>>, age |-> 0, over |-> 0, last |-> ~f.more]
           i == FindHole
<1>0. TableTypeInv /\ EntriesInv /\ SizeInv /\ RemoveInv /\ AgeInv /\ DoneInv
  BY DEF TableInv
<1>1. i \in Slots /\ i \notin Used
  BY LookupsAre DEF Append1
<1>2. f.id = id /\ <<f>> \in Seq(Pieces(id)) /\ Len(<<f>>) = 1
  BY PieceIs
<1>3. REASSEMBLY_MAX_TIME \in Nat \ {0}
  BY ReassemblyAssump
<1>4. e.id = id /\ e.list = <<f>> /\ e.age = 0 /\ e.over = 0 /\ e \in EntriesOf(id)
  BY <1>2 DEF EntriesOf
<1>5. e \in Entries
  BY <1>4 DEF Entries
<1>6. Put(i, e) /\ Touch(i) /\ UNCHANGED <<timer, done>> /\ tabSize' = (tabSize + 1) % 256
  BY DEF Append1, Put
<1> HIDE DEF i, e
<1>7. EntryInv(e)
  <2>1. Sorted(e.list)
    BY <1>2, <1>4 DEF Sorted
  <2> QED
    BY <2>1, <1>2, <1>3, <1>4 DEF EntryInv
<1>8. e # NoEntry
  <2>1. NoEntry.list = <<>> /\ e.list # <<>>
    BY <1>4 DEF NoEntry
  <2> QED
    BY <2>1
<1>9. table' \in [Slots -> Entries \cup {NoEntry}] /\ EntriesInv' /\ Used' = Used \cup {i}
  BY <1>0, <1>1, <1>5, <1>6, <1>7, <1>8, PutIs
<1>10. RemoveInv' /\ AgeInv' /\ raced' \in BOOLEAN /\ (~raced' => ~raced)
  BY <1>0, <1>1, <1>4, <1>5, <1>6, <1>7, TouchedIs
<1>11. tabSize \in 0..255 /\ tabSize' \in 0..255
  BY <1>0, <1>6 DEF TableTypeInv
<1>12. SizeInv'
  <2> SUFFICES ASSUME ~raced'  PROVE tabSize' = Cardinality(Used')
    BY DEF SizeInv
  <2>1. tabSize = Cardinality(Used) /\ tabSize < 255
    BY <1>0, <1>1, <1>10, UsedIs DEF SizeInv
  <2>2. Cardinality(Used') = tabSize + 1
    BY <2>1, <1>1, <1>9, UsedIs, FS_AddElement
  <2>3. tabSize + 1 \in 0..255
    BY <2>1, <1>11
  <2> QED
    BY <2>2, <2>3, <1>6
<1>13. TableTypeInv' /\ DoneInv'
  BY <1>0, <1>6, <1>9, <1>10, <1>11 DEF TableTypeInv, DoneInv
<1> QED
  BY <1>6, <1>9, <1>10, <1>12, <1>13 DEF TableInv

\* Entry i is removed.
LEMMA RemovedIs ==
  ASSUME TableTypeInv, EntriesInv, SizeInv, NEW i \in Slots, ~raced => i \in Used, RemoveReaEntry(i)
  PROVE  /\ Put(i, NoEntry) /\ EntriesInv' /\ tabSize' \in 0..255 /\ Used' = Used \ {i}
         /\ table' \in [Slots -> Entries \cup {NoEntry}]
         /\ ~raced => tabSize' = Cardinality(Used')
<1>1. Put(i, NoEntry) /\ tabSize' = (tabSize - 1) % 256
  BY DEF RemoveReaEntry, Put
<1>2. table' \in [Slots -> Entries \cup {NoEntry}] /\ EntriesInv' /\ Used' = Used \ {i}
  BY <1>1, PutIs
<1>3. tabSize \in 0..255 /\ tabSize' \in 0..255
  BY <1>1 DEF TableTypeInv
<1>4. ASSUME ~raced
      PROVE  tabSize' = Cardinality(Used')
  <2>1. tabSize = Cardinality(Used) /\ i \in Used
    BY <1>4 DEF SizeInv
  <2>2. IsFiniteSet(Used)
    BY UsedIs
  <2>3. Cardinality(Used') = tabSize - 1
    BY <2>1, <2>2, <1>2, FS_RemoveElement
  <2>4. tabSize - 1 \in 0..255
    <3>1. IsFiniteSet(Used') /\ Cardinality(Used') \in Nat
      BY <2>2, <1>2, FS_RemoveElement, FS_CardinalityType
    <3> QED
      BY <3>1, <2>3, <1>3
  <2> QED
    BY <2>3, <2>4, <1>1
<1> QED
  BY <1>1, <1>2, <1>3, <1>4

\* Another fragment of a datagram.
LEMMA AddedInv ==
  ASSUME TableInv, NEW id \in Ids, NEW f \in Pieces(id), Added(f)
  PROVE  /\ TableInv'
         /\ \/ UNCHANGED done /\ Used' = Used
            \/ \E list \in Lists : done' = Append(done, list) /\ Len(list) > 0 /\ ReassembledRight(list)
<1> DEFINE i == CheckReassemblyTable(f.id)
           old == table[i]
           list == Insert(old.list, f)
<1>0. TableTypeInv /\ EntriesInv /\ SizeInv /\ RemoveInv /\ AgeInv /\ DoneInv
  BY DEF TableInv
<1>1. i \in Used /\ i \in Slots /\ old.id = id
  <2>1. f.id = id /\ i # 0
    BY PieceIs DEF Added
  <2>2. i \in Used /\ old.id = id
    BY <2>1, LookupsAre
  <2> QED
    BY <2>2 DEF Used
<1>2. /\ old \in EntriesOf(id) /\ old.list \in Seq(Pieces(id)) /\ old.age \in Nat /\ old.over \in Nat
      /\ EntryInv(old)
  BY <1>0, <1>1, EntriesAre DEF EntriesInv
<1>3. Touch(i) /\ UNCHANGED timer
  BY DEF Added
<1>4. /\ list \in Seq(Pieces(id)) /\ Len(list) = Len(old.list) + 1
      /\ \E k \in 1..Len(list) : list[k] = f
      /\ Sorted(old.list) /\ Overtakers(i, f) <= 3 => Sorted(list)
  BY <1>2, InsertKeeps DEF Overtakers
<1>5. Len(old.list) \in Nat /\ Len(old.list) > 0 /\ Len(list) > 1
  BY <1>2, <1>4, LenProperties DEF EntryInv
<1>6. CASE ~f.more /\ Copies(list)
  <2>1. RemoveReaEntry(i) /\ done' = Append(done, list)
    BY <1>6 DEF Added
  <2> HIDE DEF list, old, i
  <2>2. ReassembledRight(list)
    BY <1>4, <1>6, CopiesAll
  <2>3. list \in Lists
    BY <1>4 DEF Lists
  <2>4. /\ Put(i, NoEntry) /\ EntriesInv' /\ tabSize' \in 0..255
        /\ table' \in [Slots -> Entries \cup {NoEntry}]
        /\ ~raced => tabSize' = Cardinality(Used')
    BY <2>1, <1>0, <1>1, RemovedIs
  <2>5. RemoveInv' /\ AgeInv' /\ raced' \in BOOLEAN /\ (~raced' => ~raced)
    BY <2>4, <1>0, <1>1, <1>3, TouchedIs
  <2>6. done \in Seq(Lists)
    BY <1>0 DEF TableTypeInv
  <2>7. done' \in Seq(Lists) /\ DoneInv'
    <3>1. /\ done' \in Seq(Lists) /\ Len(done') = Len(done) + 1 /\ Len(done) \in Nat
          /\ \A k \in 1..Len(done) : done'[k] = done[k]
          /\ done'[Len(done) + 1] = list
      BY <2>1, <2>3, <2>6, AppendProperties, LenProperties
    <3>2. \A k \in 1..Len(done') : k \in 1..Len(done) \/ k = Len(done) + 1
      BY <3>1
    <3> SUFFICES ASSUME NEW k \in 1..Len(done')  PROVE ReassembledRight(done'[k])
      BY <3>1 DEF DoneInv, ReassembledRight
    <3> QED
      BY <3>1, <3>2, <2>2, <1>0 DEF DoneInv
  <2>8. TableTypeInv' /\ SizeInv'
    BY <2>4, <2>5, <2>7, <1>0, <1>3 DEF TableTypeInv, SizeInv
  <2> QED
    BY <2>1, <2>2, <2>3, <2>4, <2>5, <2>7, <2>8, <1>5 DEF TableInv
<1>7. CASE ~(~f.more /\ Copies(list))
  <2> DEFINE n == Overtakers(i, f)
             e == [old EXCEPT !.list = list, !.over = IF n > @ THEN n ELSE @, !.last = ~f.more]
  <2>1. /\ table' = [table EXCEPT ![i].list = list, ![i].over = IF n > @ THEN n ELSE @, ![i].last = ~f.more]
        /\ UNCHANGED <<tabSize, done>>
    BY <1>7 DEF Added
  <2>2. n \in Nat
    <3> DEFINE X == {k \in DOMAIN old.list : old.list[k].off > f.off}
    <3>1. X \in SUBSET (1..Len(old.list)) /\ IsFiniteSet(1..Len(old.list))
      <4>1. DOMAIN old.list = 1..Len(old.list)
        BY <1>2, LenProperties
      <4>2. IsFiniteSet(1..Len(old.list))
        BY <1>5, CountedTo
      <4> QED
        BY <4>1, <4>2
    <3>2. Cardinality(X) \in Nat
      BY <3>1, FS_Subset, FS_CardinalityType
    <3> QED
      BY <3>2 DEF Overtakers
  <2>3. table \in [Slots -> Entries \cup {NoEntry}]
    BY <1>0 DEF TableTypeInv
  <2>4. Put(i, e)
    BY <2>1, <2>3, <1>1 DEF Put
  <2> HIDE DEF n, list, old, i
  <2>5. /\ e \in EntriesOf(id) /\ e.list = list /\ e.age = old.age /\ e.last = ~f.more
        /\ e.over = IF n > old.over THEN n ELSE old.over
    BY <2>2, <1>2, <1>4 DEF EntriesOf
  <2> HIDE DEF e
  <2>6. e \in Entries
    BY <2>5 DEF Entries
  <2>7. EntryInv(e)
    <3>1. e.over <= 3 => Sorted(list)
      <4> SUFFICES ASSUME e.over <= 3  PROVE Sorted(list)
        OBVIOUS
      <4>1. n <= 3 /\ old.over <= 3
        BY <2>2, <2>5, <1>2
      <4> QED
        BY <4>1, <1>2, <1>4 DEF EntryInv, n
    <3>2. e.last => ~Copies(list)
      BY <2>5, <1>7
    <3> QED
      BY <3>1, <3>2, <2>5, <1>2, <1>5 DEF EntryInv
  <2>8. e # NoEntry
    BY <2>5, <1>5 DEF NoEntry
  <2>9. table' \in [Slots -> Entries \cup {NoEntry}] /\ EntriesInv' /\ Used' = Used
    <3>1. table' \in [Slots -> Entries \cup {NoEntry}] /\ EntriesInv' /\ Used' = Used \cup {i}
      BY <2>4, <2>6, <2>7, <2>8, <1>0, <1>1, PutIs
    <3> QED
      BY <3>1, <1>1
  <2>10. RemoveInv' /\ AgeInv' /\ raced' \in BOOLEAN /\ (~raced' => ~raced)
    BY <2>4, <2>5, <2>6, <2>7, <1>0, <1>1, <1>3, TouchedIs DEF old
  <2>11. TableTypeInv' /\ SizeInv' /\ DoneInv'
    BY <2>1, <2>9, <2>10, <1>0, <1>3 DEF TableTypeInv, SizeInv, DoneInv
  <2> QED
    BY <2>1, <2>9, <2>10, <2>11 DEF TableInv
<1> QED
  BY <1>6, <1>7

-----------------------------------------------------------------------------
(* The timer *)

\* The timer goes on to the next entry, or to sleep, when the entry it leaves is young.
LEMMA GoOnIs ==
  ASSUME TableTypeInv, TimerGoOn, timer.pc # "sleep",
         \A j \in Used' : /\ table'[j].age \in Nat
                          /\ j <= timer.at => table'[j].age < REASSEMBLY_MAX_TIME
  PROVE  timer' \in Timers /\ AgeInv' /\ timer'.pc # "remove"
<1>0. REASSEMBLY_TABLE_MAX_SIZE \in 1..255 /\ REASSEMBLY_MAX_TIME \in Nat \ {0}
  BY ReassemblyAssump
<1>01. REASSEMBLY_TABLE_MAX_SIZE \in Nat
  BY ONLY <1>0
<1>02. timer \in Timers
  BY DEF TableTypeInv
<1>1. timer \in Timers /\ REASSEMBLY_MAX_TIME \in Nat \ {0} /\ REASSEMBLY_TABLE_MAX_SIZE \in Nat
  BY ONLY <1>0, <1>01, <1>02
<1>2. timer.at \in 1..REASSEMBLY_TABLE_MAX_SIZE /\ timer.slept \in 0..REASSEMBLY_MAX_TIME
  BY <1>1 DEF Timers, Slots
<1>3. CASE timer.at < REASSEMBLY_TABLE_MAX_SIZE
  <2>1. timer' = [timer EXCEPT !.pc = "test", !.at = timer.at + 1]
    BY <1>3 DEF TimerGoOn
  <2>2. timer.at + 1 \in Slots
    BY <1>1, <1>2, <1>3 DEF Slots
  <2>3. timer' \in Timers /\ timer'.pc = "test" /\ timer'.at = timer.at + 1
    BY <2>1, <2>2, <1>1 DEF Timers
  <2>4. \A j \in Used' : j < timer'.at => j <= timer.at
    <3>1. \A j \in Used' : j \in Nat
      BY DEF Used, Slots
    <3> QED
      BY <3>1, <2>3, <1>2
  <2> QED
    BY <2>3, <2>4 DEF AgeInv
<1>4. CASE ~(timer.at < REASSEMBLY_TABLE_MAX_SIZE)
  <2>1. timer' = [pc |-> "sleep", at |-> 1, slept |-> 0]
    BY <1>4 DEF TimerGoOn
  <2>2. 1 \in Slots /\ 0 \in 0..REASSEMBLY_MAX_TIME
    BY <1>1, <1>2 DEF Slots
  <2>3. timer' \in Timers /\ timer'.pc = "sleep" /\ timer'.at = 1 /\ timer'.slept = 0
    BY <2>1, <2>2 DEF Timers
  <2>4. \A j \in Used' : j <= timer.at
    <3>1. \A j \in Used' : j \in 1..REASSEMBLY_TABLE_MAX_SIZE
      BY DEF Used, Slots
    <3> QED
      BY <3>1, <1>1, <1>2, <1>4
  <2>5. \A j \in Used' : table'[j].age < REASSEMBLY_MAX_TIME + timer'.slept
    BY <2>3, <2>4, <1>1
  <2> QED
    BY <2>3, <2>5 DEF AgeInv
<1> QED
  BY <1>3, <1>4

LEMMA TimerInv ==
  ASSUME TableInv, TimerNext
  PROVE  TableInv'
<1>0. TableTypeInv /\ EntriesInv /\ SizeInv /\ RemoveInv /\ AgeInv /\ DoneInv
  BY DEF TableInv
<1>1. timer \in Timers /\ REASSEMBLY_MAX_TIME \in Nat \ {0}
  BY <1>0, ReassemblyAssump DEF TableTypeInv
<1>2. timer.at \in Slots /\ timer.at \in Nat /\ timer.slept \in 0..REASSEMBLY_MAX_TIME
  BY <1>1 DEF Timers, Slots
<1>3. \A j \in Used : j \in Nat /\ table[j].age \in Nat
  BY <1>0, EntriesAre DEF Used, Slots
<1>4. ASSUME UNCHANGED <<table, tabSize, done, raced>>, timer' \in Timers, AgeInv', RemoveInv'
      PROVE  TableInv'
  BY <1>0, <1>4 DEF TableInv, TableTypeInv, EntriesInv, EntryInv, SizeInv, DoneInv, ReassembledRight, Used
<1>5. CASE TimerWake
  <2>1. UNCHANGED <<table, tabSize, done, raced>> /\ timer.pc = "sleep" /\ timer' = [timer EXCEPT !.pc = "test"]
    BY <1>5 DEF TimerWake
  <2>2. timer' \in Timers /\ timer'.pc = "test" /\ timer'.at = timer.at
    BY <2>1, <1>1 DEF Timers
  <2>3. timer'.at = 1
    BY <2>1, <2>2, <1>0 DEF AgeInv
  <2>4. \A j \in Used' : ~(j < timer'.at)
    BY <2>3 DEF Used, Slots
  <2>5. AgeInv' /\ RemoveInv'
    BY <2>2, <2>4 DEF AgeInv, RemoveInv
  <2> QED
    BY <2>1, <2>2, <2>5, <1>4
<1>6. CASE TimerTest
  <2>1. UNCHANGED <<table, tabSize, done, raced>> /\ timer.pc = "test" /\ Used' = Used
    BY <1>6 DEF TimerTest, Used
  <2>2. CASE Old(timer.at)
    <3>1. timer' = [timer EXCEPT !.pc = "remove"]
      BY <1>6, <2>2 DEF TimerTest
    <3>2. timer' \in Timers /\ timer'.pc = "remove" /\ timer'.at = timer.at
      BY <3>1, <1>1 DEF Timers
    <3>3. RemoveInv' /\ AgeInv'
      BY <3>2, <2>1, <2>2, <1>0 DEF RemoveInv, AgeInv, Old
    <3> QED
      BY <3>2, <3>3, <2>1, <1>4
  <2>3. CASE ~Old(timer.at)
    <3>1. TimerGoOn
      BY <1>6, <2>3 DEF TimerTest
    <3>2. \A j \in Used' : /\ table'[j].age \in Nat
                           /\ j <= timer.at => table'[j].age < REASSEMBLY_MAX_TIME
      <4> SUFFICES ASSUME NEW j \in Used, j <= timer.at  PROVE table[j].age < REASSEMBLY_MAX_TIME
        BY <2>1, <1>3
      <4>1. CASE j = timer.at
        <5>1. table[j] # NoEntry /\ table[j].age \in Nat
          BY <1>3 DEF Used
        <5> QED
          BY <5>1, <4>1, <2>3, <1>1 DEF Old
      <4>2. CASE j # timer.at
        <5>1. j < timer.at
          BY <4>2, <1>2, <1>3
        <5> QED
          BY <5>1, <2>1, <1>0 DEF AgeInv
      <4> QED
        BY <4>1, <4>2
    <3>3. timer' \in Timers /\ AgeInv' /\ timer'.pc # "remove"
      BY <3>1, <3>2, <2>1, <1>0, GoOnIs
    <3> QED
      BY <3>3, <2>1, <1>4 DEF RemoveInv
  <2> QED
    BY <2>2, <2>3
<1>7. CASE TimerRemove
  <2>1. timer.pc = "remove" /\ RemoveReaEntry(timer.at) /\ TimerGoOn /\ UNCHANGED <<done, raced>>
    BY <1>7 DEF TimerRemove
  <2>2. ~raced => timer.at \in Used
    BY <2>1, <1>0, <1>2 DEF RemoveInv, Old, Used
  <2>3. /\ Put(timer.at, NoEntry) /\ EntriesInv' /\ tabSize' \in 0..255 /\ Used' = Used \ {timer.at}
        /\ table' \in [Slots -> Entries \cup {NoEntry}]
        /\ ~raced => tabSize' = Cardinality(Used')
    BY <2>1, <2>2, <1>0, <1>2, RemovedIs
  <2>4. \A j \in Used' : j \in Used /\ j # timer.at /\ table'[j] = table[j]
    <3>1. \A j \in Slots : j # timer.at => table'[j] = table[j]
      BY <2>3, <1>0, <1>2, PutIs
    <3> QED
      BY <3>1, <2>3 DEF Used
  <2>5. \A j \in Used' : /\ table'[j].age \in Nat
                         /\ j <= timer.at => table'[j].age < REASSEMBLY_MAX_TIME
    <3> SUFFICES ASSUME NEW j \in Used, j # timer.at, j <= timer.at  PROVE table[j].age < REASSEMBLY_MAX_TIME
      BY <2>4, <1>3
    <3>1. j < timer.at
      BY <1>2, <1>3
    <3> QED
      BY <3>1, <2>1, <1>0 DEF AgeInv
  <2>6. timer' \in Timers /\ AgeInv' /\ timer'.pc # "remove"
    BY <2>1, <2>5, <1>0, GoOnIs
  <2>7. TableTypeInv' /\ SizeInv' /\ RemoveInv' /\ DoneInv'
    BY <2>1, <2>3, <2>6, <1>0 DEF TableTypeInv, SizeInv, RemoveInv, DoneInv, ReassembledRight
  <2> QED
    BY <2>3, <2>6, <2>7 DEF TableInv
<1> QED
  BY <1>5, <1>6, <1>7 DEF TimerNext

\* A second passes: the entries are one older, and so is the timer's sleep.
LEMMA TickInv ==
  ASSUME TableInv, Tick
  PROVE  TableInv' /\ Used' = Used
<1> DEFINE T == REASSEMBLY_MAX_TIME
           older(j) == Min({table[j].age + 1, 2 * T})
<1>0. TableTypeInv /\ EntriesInv /\ SizeInv /\ RemoveInv /\ AgeInv /\ DoneInv
  BY DEF TableInv
<1>1. /\ timer.pc = "sleep" /\ timer.slept < T /\ timer' = [timer EXCEPT !.slept = @ + 1]
      /\ table' = [j \in Slots |-> IF j \in Used THEN [table[j] EXCEPT !.age = older(j)] ELSE NoEntry]
      /\ UNCHANGED <<tabSize, done, raced>>
  BY DEF Tick
<1>2. T \in Nat \ {0} /\ timer \in Timers /\ timer.slept \in 0..T
  BY <1>0, ReassemblyAssump DEF TableTypeInv, Timers
<1>3. timer' \in Timers /\ timer'.pc = "sleep" /\ timer'.at = timer.at /\ timer'.slept = timer.slept + 1
  BY <1>1, <1>2 DEF Timers
<1>4. ASSUME NEW j \in Used
      PROVE  /\ table'[j] \in Entries /\ EntryInv(table'[j]) /\ table'[j] # NoEntry
             /\ table'[j].age < T + timer'.slept
  <2>1. j \in Slots /\ table[j].id \in Ids /\ table[j] \in EntriesOf(table[j].id) /\ table[j].age \in Nat /\ EntryInv(table[j])
    BY <1>0, EntriesAre DEF EntriesInv
  <2>2. table[j].age < T + timer.slept
    BY <1>0, <1>1 DEF AgeInv
  <2>3. older(j) = table[j].age + 1
    <3> DEFINE S == {table[j].age + 1, 2 * T}
    <3>1. S \in SUBSET Nat /\ S # {} /\ table[j].age + 1 \in S /\ 2 * T \in S
      BY <2>1, <1>2
    <3>2. Min(S) \in S /\ \A x \in S : Min(S) <= x
      BY <3>1, LeastIs
    <3>3. table[j].age + 1 < 2 * T
      BY <2>1, <2>2, <1>1, <1>2
    <3> HIDE DEF T
    <3>4. Min(S) = table[j].age + 1
      BY <3>1, <3>2, <3>3, <2>1
    <3> QED
      BY <3>4
  <2>4. table[j].age + 1 < 2 * T /\ table[j].age + 1 < T + timer'.slept
    BY <2>1, <2>2, <1>1, <1>2, <1>3
  <2> DEFINE e == [table[j] EXCEPT !.age = table[j].age + 1]
  <2>5. table'[j] = e
    BY <2>1, <2>3, <1>1
  <2>6. /\ e \in EntriesOf(table[j].id) /\ e.list = table[j].list /\ e.over = table[j].over /\ e.last = table[j].last
        /\ e.age = table[j].age + 1
    BY <2>1 DEF EntriesOf
  <2> HIDE DEF e
  <2>7. EntryInv(e)
    BY <2>1, <2>4, <2>6 DEF EntryInv
  <2>8. e \in Entries
    BY <2>1, <2>6 DEF Entries
  <2>9. e # NoEntry
    <3>1. e.list # <<>>
      BY <2>1, <2>6 DEF EntryInv, EntriesOf
    <3>2. NoEntry.list = <<>>
      BY DEF NoEntry
    <3> QED
      BY <3>1, <3>2
  <2> QED
    BY <2>4, <2>5, <2>6, <2>7, <2>8, <2>9
<1>5. \A j \in Slots \ Used : table'[j] = NoEntry
  BY <1>1
<1>6. Used' = Used
  BY <1>4, <1>5 DEF Used
<1>7. table' \in [Slots -> Entries \cup {NoEntry}]
  <2>1. \A j \in Slots : table'[j] \in Entries \cup {NoEntry}
    BY <1>4, <1>5
  <2>2. table' = [j \in Slots |-> table'[j]]
    BY <1>1
  <2> QED
    BY <2>1, <2>2
<1>8. EntriesInv'
  BY <1>4, <1>6 DEF EntriesInv, EntryInv
<1>9. AgeInv'
  BY <1>0, <1>1, <1>3, <1>4, <1>6 DEF AgeInv
<1>10. TableTypeInv' /\ SizeInv' /\ RemoveInv' /\ DoneInv'
  BY <1>0, <1>1, <1>3, <1>6, <1>7 DEF TableTypeInv, SizeInv, RemoveInv, DoneInv, ReassembledRight
<1> QED
  BY <1>6, <1>8, <1>9, <1>10 DEF TableInv

-----------------------------------------------------------------------------
(* netin *)

\* What netin does with a fragment, and what is completed by it.
LEMMA ReceiveInv ==
  ASSUME TableInv, NEW id \in Ids, NEW f \in Pieces(id), Receive(f)
  PROVE  /\ TableInv'
         /\ \/ Completed = <<>> /\ Used \subseteq Used'
            \/ Completed \in Lists /\ Len(Completed) > 0 /\ Completed # <<>>
<1>1. done \in Seq(Lists) /\ Len(done) \in Nat
  BY LenProperties DEF TableInv, TableTypeInv
<1>2. UNCHANGED done => Completed = <<>>
  <2>1. ~(Len(done) > Len(done))
    BY <1>1
  <2> QED
    BY <2>1 DEF Completed
<1>3. CASE Append1(f)
  BY <1>2, <1>3, Append1Inv
<1>4. CASE Dropped(f)
  <2>1. UNCHANGED <<table, tabSize, timer, done, raced>>
    BY <1>4 DEF Dropped, rvars
  <2>2. TableInv'
    BY <2>1 DEF TableInv, TableTypeInv, EntriesInv, EntryInv, SizeInv, RemoveInv, Old, AgeInv, DoneInv, ReassembledRight, Used
  <2> QED
    BY <2>1, <2>2, <1>2 DEF Used
<1>5. CASE Added(f)
  <2>1. TableInv'
    BY <1>5, AddedInv
  <2>2. CASE UNCHANGED done /\ Used' = Used
    BY <2>1, <2>2, <1>2
  <2>3. ASSUME NEW list \in Lists, done' = Append(done, list), Len(list) > 0
        PROVE  Completed \in Lists /\ Len(Completed) > 0 /\ Completed # <<>>
    <3>1. Len(done') = Len(done) + 1 /\ done'[Len(done) + 1] = list
      BY <1>1, <2>3, AppendProperties
    <3>2. Len(done') > Len(done)
      BY <3>1, <1>1
    <3>3. Completed = list
      BY <3>1, <3>2 DEF Completed
    <3>4. list # <<>>
      BY <2>3
    <3> QED
      BY <2>3, <3>3, <3>4
  <2> QED
    BY <2>1, <2>2, <2>3, <1>5, AddedInv
<1> QED
  BY <1>3, <1>4, <1>5 DEF Receive

LEMMA SendToIs ==
  ASSUME NEW id \in Ids, NEW n \in Nat, SendTo(id, n)
  PROVE  out' \in Outs /\ out'.off <= out'.len
<1>1. CASE out' = NoDatagram
  BY <1>1 DEF Outs, NoDatagram
<1>2. ASSUME NEW known \in BOOLEAN, out' = [id |-> id, len |-> n, off |-> 0, known |-> known]
      PROVE  out' \in Outs /\ out'.off <= out'.len
  BY <1>2 DEF Outs
<1> QED
  BY <1>1, <1>2 DEF SendTo

LEMMA NetinInv ==
  ASSUME DatagramsInv, NEW id \in Ids, NEW f \in Pieces(id), Netin(f)
  PROVE  DatagramsInv' /\ (Completed = <<>> => Used \subseteq Used')
<1>0. TableInv /\ SendInv
  BY DEF DatagramsInv
<1>1. Receive(f) /\ ProcessDatagram(Completed) /\ UNCHANGED <<bufs, sent>>
  BY DEF Netin
<1>2. /\ TableInv'
      /\ \/ Completed = <<>> /\ Used \subseteq Used'
         \/ Completed \in Lists /\ Len(Completed) > 0 /\ Completed # <<>>
  BY <1>0, <1>1, ReceiveInv
<1> DEFINE list == Completed
           g == list[1]
           last == list[Len(list)]
           len == last.off + last.len
<1>3. SendInv'
  <2>1. CASE UNCHANGED out
    BY <2>1, <1>0, <1>1 DEF SendInv, Outs
  <2>2. CASE list # <<>> /\ SendTo(g.id, len)
    <3>1. PICK x \in Ids : list \in Seq(Pieces(x))
      BY <2>2, <1>2 DEF Lists
    <3>2. Len(list) \in Nat /\ Len(list) > 0
      BY <3>1, <2>2, <1>2, LenProperties
    <3>3. g \in Pieces(x) /\ last \in Pieces(x)
      BY <3>1, <3>2, ElementOfSeq
    <3> HIDE DEF list
    <3>4. g.id \in Ids /\ len \in Nat
      BY <3>3, PieceIs
    <3>5. SendTo(g.id, len)
      BY <2>2
    <3> HIDE DEF g, len
    <3>6. out' \in Outs /\ out'.off <= out'.len
      BY <3>4, <3>5, SendToIs
    <3> QED
      BY <3>6, <1>0, <1>1 DEF SendInv, Outs
  <2> QED
    BY <2>1, <2>2, <1>1 DEF ProcessDatagram
<1> QED
  BY <1>2, <1>3 DEF DatagramsInv

\* A fragment is no longer than what remains.
LEMMA NextLenIs ==
  ASSUME NEW r \in Nat
  PROVE  NextLen(r) \in Nat /\ NextLen(r) <= r
<1>1. Unit \in Nat \ {0} /\ MTU - HeadersLen - FragmentHeaderLen \in Nat
  BY FragmentsAssump
<1>2. \A n \in Nat : CheckLength(n) \in Nat /\ CheckLength(n) <= n
  BY <1>1 DEF CheckLength
<1>3. MaxPayload \in Nat
  BY <1>1, <1>2 DEF MaxPayload
<1>4. Smaller(r, MaxPayload) \in Nat /\ Smaller(r, MaxPayload) <= r
  BY <1>3 DEF Smaller
<1> QED
  BY <1>2, <1>4 DEF NextLen

LEMMA NetinSendsInv ==
  ASSUME DatagramsInv, NetinSends
  PROVE  DatagramsInv' /\ UNCHANGED rvars
<1>0. TableInv /\ SendInv
  BY DEF DatagramsInv
<1>1. SendFragment /\ UNCHANGED <<table, tabSize, timer, done, raced>>
  BY DEF NetinSends, rvars
<1>2. TableInv'
  BY <1>0, <1>1 DEF TableInv, TableTypeInv, EntriesInv, EntryInv, SizeInv, RemoveInv, Old, AgeInv, DoneInv, ReassembledRight, Used
<1> DEFINE next == out.off + NextLen(out.len - out.off)
<1>3. out \in Outs /\ out.len \in Nat /\ out.off \in Nat /\ out.len - out.off \in Nat
  BY <1>0 DEF SendInv, Outs
<1>4. next \in Nat /\ next <= out.len
  BY <1>3, NextLenIs
<1>5. bufs > 0 /\ bufs' = bufs - 1 /\ out' = IF next = out.len THEN NoDatagram ELSE [out EXCEPT !.off = next]
  BY <1>1 DEF SendFragment
<1> HIDE DEF next
<1>6. bufs' \in 0..IPV6OUTNBUFS
  BY <1>0, <1>5, FragmentsAssump DEF SendInv
<1>7. out' \in Outs /\ out'.off <= out'.len
  BY <1>3, <1>4, <1>5 DEF Outs, NoDatagram
<1> QED
  BY <1>1, <1>2, <1>6, <1>7 DEF DatagramsInv, SendInv, Outs, rvars

-----------------------------------------------------------------------------
(* Datagrams *)

LEMMA DatagramsInitInv ==
  ASSUME DatagramsInit
  PROVE  DatagramsInv
<1>1. /\ table = [i \in Slots |-> NoEntry] /\ tabSize = 0 /\ timer = [pc |-> "sleep", at |-> 1, slept |-> 0]
      /\ done = <<>> /\ raced = FALSE
  BY DEF DatagramsInit, ReassemblyInit
<1>2. 1 \in Slots /\ 0 \in 0..REASSEMBLY_MAX_TIME
  BY ReassemblyAssump DEF Slots
<1>3. Used = {}
  BY <1>1 DEF Used
<1>4. timer \in Timers /\ timer.pc = "sleep" /\ timer.at = 1
  BY <1>1, <1>2 DEF Timers
<1>5. done \in Seq(Lists) /\ Len(done) = 0
  BY <1>1, EmptySeq
<1>6. TableTypeInv
  <2>1. table \in [Slots -> Entries \cup {NoEntry}]
    BY <1>1
  <2>2. tabSize \in 0..255
    BY <1>1
  <2>3. raced \in BOOLEAN
    BY <1>1
  <2> QED
    BY <2>1, <2>2, <2>3, <1>4, <1>5 DEF TableTypeInv
<1>7. EntriesInv /\ SizeInv /\ RemoveInv /\ AgeInv /\ DoneInv
  BY <1>1, <1>3, <1>4, <1>5, FS_EmptySet DEF EntriesInv, SizeInv, RemoveInv, AgeInv, DoneInv
<1>8. SendInv
  BY FragmentsAssump DEF DatagramsInit, FragmentsInit, SendInv, Outs, NoDatagram
<1> QED
  BY <1>6, <1>7, <1>8 DEF DatagramsInv, TableInv

LEMMA DatagramsStutter ==
  ASSUME DatagramsInv, UNCHANGED dvars
  PROVE  DatagramsInv'
<1>1. UNCHANGED <<table, tabSize, timer, done, raced, out, bufs>>
  BY DEF dvars, rvars, fvars
<1>2. TableInv'
  BY <1>1 DEF DatagramsInv, TableInv, TableTypeInv, EntriesInv, EntryInv, SizeInv, RemoveInv, Old, AgeInv, DoneInv, ReassembledRight, Used
<1> QED
  BY <1>1, <1>2 DEF DatagramsInv, SendInv, Outs

\* An entry goes when it is complete or old.
OldOnes == \A i \in Used : table'[i] = NoEntry /\ Completed = <<>> /\ ~raced => table[i].age >= REASSEMBLY_MAX_TIME
LEMMA DatagramsStep ==
  ASSUME DatagramsInv, DatagramsNext
  PROVE  DatagramsInv' /\ (OldOnes \/ UNCHANGED rvars)
<1>0. TableInv /\ SendInv
  BY DEF DatagramsInv
<1>1. ASSUME NEW id \in Ids, NEW f \in Pieces(id), Netin(f)
      PROVE  DatagramsInv' /\ OldOnes
  BY <1>1, NetinInv DEF OldOnes, Used
<1>2. ASSUME NetinSends
      PROVE  DatagramsInv' /\ UNCHANGED rvars
  BY <1>2, NetinSendsInv
<1>3. ASSUME Timer
      PROVE  DatagramsInv' /\ OldOnes
  <2>1. TimerNext /\ UNCHANGED <<out, bufs>>
    BY <1>3 DEF Timer, fvars
  <2>2. DatagramsInv'
    BY <2>1, <1>0, TimerInv DEF DatagramsInv, SendInv, Outs
  <2>3. CASE UNCHANGED table
    BY <2>2, <2>3 DEF OldOnes, Used
  <2>4. CASE TimerRemove
    <3>1. timer.pc = "remove" /\ table' = [table EXCEPT ![timer.at] = NoEntry]
      BY <2>4 DEF TimerRemove, RemoveReaEntry
    <3>2. ~raced => table[timer.at].age >= REASSEMBLY_MAX_TIME
      BY <3>1, <1>0 DEF TableInv, RemoveInv, Old
    <3>3. \A i \in Used : i # timer.at => table'[i] # NoEntry
      BY <3>1, <1>0 DEF TableInv, TableTypeInv, Used
    <3> QED
      BY <2>2, <3>2, <3>3 DEF OldOnes
  <2> QED
    BY <2>1, <2>2, <2>3, <2>4 DEF TimerNext, TimerWake, TimerTest
<1>4. ASSUME Second
      PROVE  DatagramsInv' /\ OldOnes
  <2>1. Tick /\ UNCHANGED <<out, bufs>>
    BY <1>4 DEF Second, fvars
  <2>2. TableInv' /\ Used' = Used
    BY <2>1, <1>0, TickInv
  <2> QED
    BY <2>1, <2>2, <1>0 DEF DatagramsInv, SendInv, Outs, OldOnes, Used
<1> QED
  BY <1>1, <1>2, <1>3, <1>4 DEF DatagramsNext

LEMMA DatagramsInvariant == DatagramsSpec => []DatagramsInv
<1>1. DatagramsInit => DatagramsInv
  BY DatagramsInitInv
<1>2. DatagramsInv /\ [DatagramsNext]_dvars => DatagramsInv'
  BY DatagramsStep, DatagramsStutter
<1> QED
  BY <1>1, <1>2, PTL DEF DatagramsSpec

\* A datagram that is handed to processDatagram is the one that was sent, whole and in
\* order (reassembly.c:80), whatever the network loses, repeats or reorders.
THEOREM DatagramsWhole == DatagramsSpec => []DeliveredWhole
<1>1. DatagramsInv => DeliveredWhole
  <2> SUFFICES ASSUME DatagramsInv  PROVE DeliveredWhole
    OBVIOUS
  <2>1. done \in Seq(Lists) /\ \A k \in 1..Len(done) : ReassembledRight(done[k])
    BY DEF DatagramsInv, TableInv, TableTypeInv, DoneInv
  <2>2. DOMAIN done = 1..Len(done)
    BY <2>1, LenProperties
  <2> QED
    BY <2>1, <2>2 DEF DeliveredWhole, ReassembledRight
<1> QED
  BY <1>1, DatagramsInvariant, PTL

\* The size counts the entries until a race, no entry gets twice as old as the limit, and
\* one with all its fragments, the last one last and none overtaken by more than three, is
\* not left in the table (ipv6.c:342, reassembly.c:315).
THEOREM TableIsSound == DatagramsSpec => []TableSound
<1>1. DatagramsInv => TableSound
  <2> SUFFICES ASSUME DatagramsInv  PROVE TableSound
    OBVIOUS
  <2>1. TableTypeInv /\ EntriesInv /\ SizeInv /\ SendInv
    BY DEF DatagramsInv, TableInv
  <2>2. \A i \in Used : DOMAIN table[i].list = 1..Len(table[i].list)
    BY <2>1, EntriesAre, LenProperties
  <2>3. DatagramsTypeOK
    <3>1. ASSUME NEW i \in Used
          PROVE  table[i].id \in Ids /\ \A f \in ToSet(table[i].list) : f \in Pieces(table[i].id)
      <4>1. table[i].id \in Ids /\ table[i].list \in Seq(Pieces(table[i].id))
        BY <2>1, EntriesAre
      <4>2. \A k \in 1..Len(table[i].list) : table[i].list[k] \in Pieces(table[i].id)
        BY <4>1, ElementOfSeq
      <4> QED
        BY <4>1, <4>2, <2>2 DEF ToSet
    <3>2. tabSize \in 0..255 /\ timer.at \in Slots /\ timer.slept \in 0..REASSEMBLY_MAX_TIME
      BY <2>1 DEF TableTypeInv, Timers
    <3>3. bufs \in 0..IPV6OUTNBUFS /\ out.off \in 0..out.len
      BY <2>1 DEF SendInv, Outs
    <3> QED
      BY <3>1, <3>2, <3>3 DEF DatagramsTypeOK
  <2>4. EntriesExpire
    BY <2>1 DEF EntriesInv, EntryInv, EntriesExpire
  <2>5. OvertakenByThree
    <3> SUFFICES ASSUME NEW i \in Used, Len(table[i].list) > 1, ToSet(table[i].list) = Pieces(table[i].id),
                        Len(table[i].list) = Cardinality(Pieces(table[i].id)), table[i].last, table[i].over <= 3
                 PROVE  FALSE
      BY DEF OvertakenByThree
    <3>1. table[i].id \in Ids /\ table[i].list \in Seq(Pieces(table[i].id))
      BY <2>1, EntriesAre
    <3>2. Sorted(table[i].list) /\ ~Copies(table[i].list)
      BY <2>1 DEF EntriesInv, EntryInv
    <3> QED
      BY <3>1, <3>2, SortedCopies
  <2> QED
    BY <2>1, <2>3, <2>4, <2>5 DEF TableSound, SizeCountsEntries, SizeInv
<1> QED
  BY <1>1, DatagramsInvariant, PTL

\* The timer removes no entry before its time (ipv6.c:350), unless netin has put another
\* in its place between the timer's test and the removal.
THEOREM OnlyOldGo == DatagramsSpec => OnlyOldRemoved
<1>1. DatagramsInv /\ [DatagramsNext]_dvars => [OldOnes]_rvars
  BY DatagramsStep DEF dvars
<1> QED
  BY <1>1, DatagramsInvariant, PTL DEF DatagramsSpec, OnlyOldRemoved, OldOnes

-----------------------------------------------------------------------------
(* The forwarding table *)

FwdSpec == FwdInit /\ [][FwdNext]_fwdVars

\* The prefix length the a-th pointer of ptr leads to.
LenAt(ptr, a) == fwdTab[ptr[a]].prefixLen
Injective(ptr) == \A a, b \in Idx : ptr[a] = ptr[b] => a = b
\* The last i rows have their places.
Placed(ptr, i) == \A a, b \in Idx : b >= MAXFWDTABENTRIES - i /\ a < b => LenAt(ptr, a) >= LenAt(ptr, b)
\* Row j is the shortest of those the pass has seen.
Lowest(ptr, j) == \A a \in 0..j : LenAt(ptr, a) >= LenAt(ptr, j)

\* The pointers as they will be when the swap in progress is done.
Swapped(q) == [fwdTabPTR EXCEPT ![at[q].j + 1] = at[q].temp]

\* The inductive invariant: what the passes have reached, and what a swap in
\* its middle owes.
SortInv(q) ==
    /\ FwdTypeOK
    /\ pc[q] # "swap2" => Injective(fwdTabPTR)
    /\ pc[q] \in {"idle", "find", "fill"} => Placed(fwdTabPTR, MAXFWDTABENTRIES)
    /\ pc[q] \in {"sort", "swap1", "swap2"} =>
         at[q].i \in 0..(MAXFWDTABENTRIES - 1) /\ at[q].j \in 0..(MAXFWDTABENTRIES - 1 - at[q].i)
    /\ pc[q] \in {"sort", "swap1"} => Placed(fwdTabPTR, at[q].i) /\ Lowest(fwdTabPTR, at[q].j)
    /\ pc[q] \in {"swap1", "swap2"} => at[q].j + 1 <= MAXFWDTABENTRIES - 1 - at[q].i
    /\ pc[q] = "swap1" => at[q].temp = fwdTabPTR[at[q].j] /\ LenAt(fwdTabPTR, at[q].j) < LenAt(fwdTabPTR, at[q].j + 1)
    /\ pc[q] = "swap2" =>
         /\ Injective(Swapped(q))
         /\ Placed(Swapped(q), at[q].i)
         /\ Lowest(Swapped(q), at[q].j + 1)

-----------------------------------------------------------------------------
(* The replies *)

\* A datagram that was handed on ends where the one that was sent ends.
LEMMA WholeIs ==
  ASSUME NEW id \in Ids, NEW list \in Seq(Pieces(id)), Len(list) > 0, ReassembledRight(list)
  PROVE  list[1].id = id /\ list[Len(list)].off + list[Len(list)].len = Length[id]
<1> DEFINE last == list[Len(list)]
<1>0. Len(list) \in Nat /\ DOMAIN list = 1..Len(list) /\ 1 \in 1..Len(list) /\ Len(list) \in 1..Len(list)
  BY LenProperties
<1>1. \A n \in 1..Len(list) : list[n] \in Pieces(id)
  BY ElementOfSeq
<1>2. list[1].id = id /\ last \in Pieces(id)
  BY <1>0, <1>1, PieceIs
<1>3. PICK x \in Ids : ToSet(list) = Pieces(x) /\ Copies(list)
  BY DEF ReassembledRight
<1>4. list[1] \in Pieces(x)
  BY <1>0, <1>3 DEF ToSet
<1>5. x = id
  BY <1>2, <1>3, <1>4, PieceIs
<1>6. last.off \in Nat /\ last.len \in Nat /\ last.len > 0 /\ last.off + last.len <= Length[id] /\ Length[id] \in Nat
  BY <1>2, PieceIs, EdgesIs
<1>7. ~(last.off + last.len < Length[id])
  <2> SUFFICES ASSUME last.off + last.len < Length[id]  PROVE FALSE
    OBVIOUS
  <2>1. PICK h \in Pieces(id) : h.off = last.off + last.len
    BY <1>2, PieceAfter
  <2>2. PICK n \in 1..Len(list) : list[n] = h
    BY <1>0, <1>3, <1>5 DEF ToSet
  <2>3. n # Len(list)
    <3> HIDE DEF last
    <3> SUFFICES ASSUME n = Len(list)  PROVE FALSE
      OBVIOUS
    <3>1. h = last
      BY <2>2 DEF last
    <3> QED
      BY <2>1, <3>1, <1>6
  <2>4. n < Len(list)
    <3>1. \A l \in Nat : \A k \in 1..l : k # l => k < l
      OBVIOUS
    <3> QED
      BY <1>0, <2>3, <3>1
  <2>5. Before(h, last)
    BY <1>0, <1>3, <2>2, <2>4, CopiesBefore
  <2>6. h.off \in Nat /\ h.len \in Nat /\ h.len > 0 /\ h.off + h.len <= last.off
    BY <2>1, <2>5, PieceIs DEF Before
  <2> HIDE DEF last
  <2> QED
    BY <2>1, <2>6, <1>6
<1> HIDE DEF last
<1>8. last.off + last.len = Length[id]
  BY <1>6, <1>7
<1> QED
  BY <1>2, <1>8 DEF last

\* Division of what is given as a quotient and a remainder.
LEMMA DivMod ==
    ASSUME NEW x \in Nat, NEW d \in Nat \ {0}, NEW r \in 0..d-1
    PROVE  /\ (x * d + r) \div d = x
           /\ (x * d + r) % d = r
  OBVIOUS

LEMMA WholeNumber ==
    ASSUME NEW d \in Nat \ {0}, NEW n \in Nat, n % d = 0
    PROVE  n \div d \in Nat /\ n = d * (n \div d)
  OBVIOUS

LEMMA WholeSum ==
  ASSUME NEW d \in Nat \ {0}, NEW a \in Nat, NEW b \in Nat, a % d = 0, b % d = 0
  PROVE  (a + b) % d = 0
<1>1. PICK x \in Nat : a = d * x
  BY WholeNumber
<1>2. PICK y \in Nat : b = d * y
  BY WholeNumber
<1>3. d * x = x * d /\ d * y = y * d /\ x * d + y * d = (x + y) * d /\ (x + y) * d + 0 = (x + y) * d
  OBVIOUS
<1>4. x + y \in Nat /\ 0 \in 0..d-1
  OBVIOUS
<1>5. ((x + y) * d + 0) % d = 0
  BY <1>4, DivMod
<1> QED
  BY <1>1, <1>2, <1>3, <1>5

\* The next fragment fits, begins where the bytes already sent end, and leaves a whole number of
\* units sent unless it is the last one.
LEMMA NextFits ==
  ASSUME NEW r \in Nat, r > 0
  PROVE  /\ NextLen(r) \in Nat /\ NextLen(r) > 0 /\ NextLen(r) <= r
         /\ HeadersLen + FragmentHeaderLen + NextLen(r) <= MTU
         /\ NextLen(r) = r \/ NextLen(r) % Unit = 0
<1> DEFINE u == Unit
           m == MTU - HeadersLen - FragmentHeaderLen
<1>1. u \in Nat \ {0} /\ m \in Nat /\ m >= u /\ HeadersLen \in Nat /\ FragmentHeaderLen \in Nat /\ MTU \in Nat
  BY FragmentsAssump
<1>2. \A n \in Nat : n > 0 => /\ CheckLength(n) \in Nat /\ CheckLength(n) <= n /\ CheckLength(n) > 0
                              /\ CheckLength(n) = n \/ CheckLength(n) % u = 0
                              /\ n >= u => CheckLength(n) % u = 0
  <2> TAKE n \in Nat
  <2>1. n > u => n - (n % u) \in Nat /\ n - (n % u) <= n /\ n - (n % u) > 0 /\ (n - (n % u)) % u = 0
    <3> DEFINE q == n \div u
    <3>1. q \in Nat /\ n % u \in Nat /\ n % u < u /\ n = u * q + (n % u)
      BY <1>1
    <3>2. n - (n % u) = u * q /\ u * q \in Nat
      BY <1>1, <3>1
    <3>3. (u * q) % u = 0
      BY <1>1, <3>1
    <3>4. n > u => n - (n % u) > 0 /\ n - (n % u) <= n
      BY <1>1, <3>1
    <3> HIDE DEF q, u
    <3> QED
      BY <3>2, <3>3, <3>4
  <2>2. u % u = 0
    BY <1>1
  <2> HIDE DEF u
  <2>3. n > u \/ n <= u
    BY <1>1
  <2>4. CASE n > u
    BY <2>1, <2>4, <1>1 DEF CheckLength, u
  <2>5. CASE n <= u
    <3>1. CheckLength(n) = n
      BY <2>5, <1>1 DEF CheckLength, u
    <3>2. n >= u => n = u
      BY <2>5, <1>1
    <3> QED
      BY <3>1, <3>2, <2>2
  <2> QED
    BY <2>3, <2>4, <2>5
<1> DEFINE p == MaxPayload
<1>3. p \in Nat /\ p > 0 /\ p <= m /\ p % u = 0
  <2>1. MaxPayload = CheckLength(m)
    BY DEF MaxPayload
  <2>2. m > 0
    BY <1>1
  <2> HIDE DEF u, m
  <2> QED
    BY <2>1, <2>2, <1>1, <1>2
<1> HIDE DEF p, u, m
<1>4. CASE r < p
  <2>1. NextLen(r) = CheckLength(r)
    BY <1>4 DEF NextLen, Smaller, p
  <2> QED
    BY <2>1, <1>1, <1>2, <1>3, <1>4 DEF m, u
<1>5. CASE ~(r < p)
  <2>1. NextLen(r) = IF p = r THEN CheckLength(p) ELSE p
    BY <1>5 DEF NextLen, Smaller, p
  <2>2. p <= r
    BY <1>3, <1>5
  <2> QED
    BY <2>1, <2>2, <1>1, <1>2, <1>3 DEF m, u
<1> QED
  BY <1>4, <1>5

\* The fragments sent so far, and where the reply in sendto's loop is.
Sents == [id : Echo, off : Nat, len : Nat \ {0}, more : BOOLEAN]
Fits(f) ==
  /\ f.off % Unit = 0 /\ HeadersLen + FragmentHeaderLen + f.len <= MTU
  /\ f.off + f.len <= Length[f.id] /\ f.more = (f.off + f.len < Length[f.id])
Follows(f, k) == IF k = 1 \/ ~sent[k-1].more THEN f.off = 0
                 ELSE f.id = sent[k-1].id /\ f.off = sent[k-1].off + sent[k-1].len
Underway(d) == d.id \in Echo /\ d.len = Length[d.id] /\ d.off \in Nat /\ d.off < d.len /\ d.off % Unit = 0
Reaches(f, d) == f.more /\ f.id = d.id /\ f.off + f.len = d.off
ReplyInv ==
  /\ sent \in Seq(Sents)
  /\ \A k \in 1..Len(sent) : Fits(sent[k]) /\ Follows(sent[k], k)
  /\ out # NoDatagram => Underway(out)
  /\ Unfinished => out # NoDatagram /\ out.known /\ out.off > 0
  /\ out # NoDatagram /\ out.known /\ out.off > 0 => Len(sent) > 0 /\ Reaches(sent[Len(sent)], out)

LEMMA ReplyTilesIs ==
  ASSUME ReplyInv
  PROVE  ReplyTiles
<1>1. sent \in Seq(Sents) /\ \A k \in 1..Len(sent) : Fits(sent[k]) /\ Follows(sent[k], k)
  BY DEF ReplyInv
<1>2. DOMAIN sent = 1..Len(sent)
  BY <1>1, LenProperties
<1>3. \A k \in 1..Len(sent) : sent[k] \in Sents
  BY <1>1, ElementOfSeq
<1>4. \A k \in 1..Len(sent) : sent[k].id \in Echo /\ sent[k].len > 0
  BY <1>3 DEF Sents
<1> QED
  BY <1>1, <1>2, <1>4 DEF ReplyTiles, Fits, Follows, ReplyInv

LEMMA ReplyInit ==
  ASSUME DatagramsInit
  PROVE  ReplyInv
<1>1. out = NoDatagram /\ sent = <<>> /\ Len(sent) = 0
  BY DEF DatagramsInit, FragmentsInit
<1>2. sent \in Seq(Sents)
  BY <1>1
<1> QED
  BY <1>1, <1>2 DEF ReplyInv, Unfinished

\* A completed echo request is given to sendto with its own length.
LEMMA ReplyNetin ==
  ASSUME DatagramsInv, ReplyInv, NEW id \in Ids, NEW f \in Pieces(id), Netin(f)
  PROVE  ReplyInv'
<1>1. Receive(f) /\ ProcessDatagram(Completed) /\ UNCHANGED <<bufs, sent>> /\ out = NoDatagram
  BY DEF Netin
<1>2. TableInv /\ DatagramsInv'
  BY NetinInv DEF DatagramsInv
<1>3. Completed = <<>> \/ (Completed \in Lists /\ Len(Completed) > 0 /\ Completed # <<>>)
  BY <1>1, <1>2, ReceiveInv
<1>4. ~Unfinished /\ ~Unfinished'
  BY <1>1 DEF ReplyInv, Unfinished
<1> DEFINE list == Completed
<1>5. CASE UNCHANGED out
  BY <1>5, <1>1, <1>4 DEF ReplyInv, Follows
<1>6. CASE list # <<>> /\ list[1].id \in Echo /\ SendTo(list[1].id, list[Len(list)].off + list[Len(list)].len)
  <2>1. PICK x \in Ids : list \in Seq(Pieces(x))
    BY <1>3, <1>6 DEF Lists
  <2>2. ReassembledRight(list)
    <3>1. Len(done') > Len(done) /\ list = done'[Len(done')]
      BY <1>6 DEF Completed
    <3>2. done' \in Seq(Lists) /\ done \in Seq(Lists) /\ \A k \in 1..Len(done') : ReassembledRight(done'[k])
      BY <1>2 DEF DatagramsInv, TableInv, TableTypeInv, DoneInv, ReassembledRight
    <3>3. Len(done') \in Nat /\ Len(done) \in Nat
      BY <3>2, LenProperties
    <3>4. Len(done') \in 1..Len(done')
      BY <3>1, <3>3
    <3> HIDE DEF list
    <3> QED
      BY <3>1, <3>2, <3>4
  <2>3. list[1].id = x /\ list[Len(list)].off + list[Len(list)].len = Length[x]
    BY <2>1, <2>2, <1>3, <1>6, WholeIs
  <2> HIDE DEF list
  <2>4. x \in Echo /\ SendTo(x, Length[x])
    BY <1>6, <2>3
  <2>5. Length[x] \in Nat /\ 0 < Length[x] /\ 0 % Unit = 0
    BY DatagramsAssump, FragmentsAssump
  <2>6. CASE out' = NoDatagram
    BY <2>6, <1>1, <1>4 DEF ReplyInv, Follows
  <2>7. ASSUME NEW known \in BOOLEAN, out' = [id |-> x, len |-> Length[x], off |-> 0, known |-> known]
        PROVE  ReplyInv'
    <3>1. Underway(out)' /\ out'.off = 0
      BY <2>4, <2>5, <2>7 DEF Underway
    <3> QED
      BY <3>1, <1>1, <1>4 DEF ReplyInv, Follows
  <2> QED
    BY <2>4, <2>6, <2>7 DEF SendTo
<1> QED
  BY <1>1, <1>5, <1>6 DEF ProcessDatagram

LEMMA ReplySends ==
  ASSUME DatagramsInv, ReplyInv, NetinSends
  PROVE  ReplyInv'
<1> DEFINE n == NextLen(out.len - out.off)
           next == out.off + n
           f == Fragment(out)
<1>1. /\ out # NoDatagram /\ sent' = IF out.known THEN Append(sent, f) ELSE sent
      /\ out' = IF next = out.len THEN NoDatagram ELSE [out EXCEPT !.off = next]
  BY DEF NetinSends, SendFragment
<1>2. Underway(out) /\ out \in Outs
  BY <1>1 DEF ReplyInv, DatagramsInv, SendInv
<1>3. /\ out.id \in Echo /\ out.len = Length[out.id] /\ out.off \in Nat /\ out.len \in Nat /\ out.off < out.len
      /\ out.off % Unit = 0 /\ out.known \in BOOLEAN /\ out.len - out.off \in Nat /\ out.len - out.off > 0
  BY <1>2 DEF Underway, Outs
<1>4. /\ n \in Nat /\ n > 0 /\ n <= out.len - out.off /\ HeadersLen + FragmentHeaderLen + n <= MTU
      /\ n = out.len - out.off \/ n % Unit = 0
  BY <1>3, NextFits
<1>5. Unit \in Nat \ {0}
  BY FragmentsAssump
<1>6. f = [id |-> out.id, off |-> out.off, len |-> n, more |-> next < out.len]
  <2>1. out.off - (out.off % Unit) = out.off
    BY <1>3
  <2> QED
    BY <2>1 DEF Fragment
<1> HIDE DEF n, f
<1>7. /\ next \in Nat /\ next <= out.len /\ next > 0 /\ (next # out.len => next < out.len /\ n % Unit = 0)
      /\ (next < out.len <=> next # out.len)
  BY <1>3, <1>4
<1>8. next # out.len => next % Unit = 0
  <2>1. n % Unit = 0 => (out.off + n) % Unit = 0
    <3> DEFINE o == out.off
    <3>1. o \in Nat /\ o % Unit = 0 /\ n \in Nat
      BY <1>3, <1>4
    <3> HIDE DEF o
    <3>2. n % Unit = 0 => (o + n) % Unit = 0
      BY <1>5, <3>1, WholeSum
    <3> QED
      BY <3>2 DEF o
  <2> QED
    BY <2>1, <1>7
<1>9. f \in Sents /\ Fits(f) /\ (f.more <=> next # out.len)
  <2>1. f.id = out.id /\ f.off = out.off /\ f.len = n /\ f.off + f.len = next
    BY <1>6
  <2>2. f.more = (next < out.len)
    BY <1>6
  <2>3. f \in Sents
    BY <1>3, <1>4, <1>6 DEF Sents
  <2> HIDE DEF next
  <2> QED
    BY <2>1, <2>2, <2>3, <1>3, <1>4, <1>7 DEF Fits
<1> HIDE DEF next
<1>10. sent \in Seq(Sents) /\ Len(sent) \in Nat /\ \A k \in 1..Len(sent) : Fits(sent[k]) /\ Follows(sent[k], k)
  BY LenProperties DEF ReplyInv
<1>11. Unfinished <=> Len(sent) > 0 /\ sent[Len(sent)].more
  BY <1>10, EmptySeq DEF Unfinished
<1>12. out' # NoDatagram => Underway(out)' /\ out'.off = next /\ out'.known = out.known /\ out'.id = out.id /\ next # out.len
  <2>1. CASE next # out.len
    <3>1. out'.off = next /\ out'.known = out.known /\ out'.id = out.id /\ out'.len = out.len
      BY <1>1, <1>2, <2>1 DEF Outs
    <3> QED
      BY <3>1, <2>1, <1>3, <1>7, <1>8 DEF Underway
  <2> QED
    BY <2>1, <1>1
<1>13. next # out.len => out' # NoDatagram
  BY <1>1, <1>2, <1>3, <1>7 DEF Outs, NoDatagram
<1>14. CASE ~out.known
  <2>1. ~Unfinished /\ UNCHANGED sent
    BY <1>14, <1>1 DEF ReplyInv
  <2>2. \A k \in 1..Len(sent) : Follows(sent[k], k)'
    BY <2>1, <1>10 DEF Follows
  <2> QED
    BY <2>1, <2>2, <1>10, <1>12, <1>14 DEF ReplyInv, Unfinished
<1>15. CASE out.known
  <2>1. /\ sent' \in Seq(Sents) /\ Len(sent') = Len(sent) + 1 /\ sent'[Len(sent) + 1] = f
        /\ \A k \in 1..Len(sent) : sent'[k] = sent[k]
    BY <1>1, <1>9, <1>10, <1>15, AppendProperties
  <2>2. Follows(f, Len(sent) + 1)
    <3>1. f.id = out.id /\ f.off = out.off
      BY <1>6
    <3>2. CASE out.off = 0
      <4>1. ~Unfinished
        BY <3>2 DEF ReplyInv
      <4> QED
        BY <4>1, <3>1, <3>2, <1>10, <1>11 DEF Follows
    <3>3. CASE out.off > 0
      <4>1. Len(sent) > 0 /\ Reaches(sent[Len(sent)], out)
        BY <3>3, <1>1, <1>15 DEF ReplyInv
      <4>2. Len(sent) + 1 # 1 /\ Len(sent) + 1 - 1 = Len(sent)
        BY <1>10, <4>1
      <4> QED
        BY <4>1, <4>2, <3>1 DEF Follows, Reaches
    <3> QED
      BY <3>2, <3>3, <1>3
  <2>3. \A k \in 1..Len(sent') : Fits(sent'[k]) /\ Follows(sent[k], k)'
    <3> TAKE k \in 1..Len(sent')
    <3>1. k = Len(sent) + 1 \/ k \in 1..Len(sent)
      BY <1>10, <2>1
    <3>2. k = 1 \/ k - 1 \in 1..Len(sent)
      BY <1>10, <2>1
    <3>3. Follows(sent[k], k)' <=> Follows(sent'[k], k)
      BY <3>2, <2>1 DEF Follows
    <3> QED
      BY <3>1, <3>3, <2>1, <2>2, <1>9, <1>10
  <2>4. Len(sent') > 0 /\ sent'[Len(sent')] = f
    BY <2>1, <1>10
  <2>5. Unfinished' => next # out.len
    BY <2>4, <1>9 DEF Unfinished
  <2>6. next # out.len => out' # NoDatagram /\ out'.known /\ out'.off > 0
    BY <1>7, <1>12, <1>13, <1>15
  <2>7. out' # NoDatagram => Reaches(f, out')
    BY <1>6, <1>9, <1>12 DEF Reaches, next
  <2> QED
    BY <2>1, <2>3, <2>4, <2>5, <2>6, <2>7, <1>12 DEF ReplyInv
<1> QED
  BY <1>3, <1>14, <1>15

\* The fragments of the replies that are sent make up whole datagrams (sendto.c:107): they
\* fit the MTU, begin on whole units where the one before ends, and the M flag is missing
\* in the last one only.
THEOREM RepliesTile == DatagramsSpec => []ReplyTiles
<1>1. DatagramsInit => ReplyInv
  BY ReplyInit
<1>2. DatagramsInv /\ ReplyInv /\ [DatagramsNext]_dvars => ReplyInv'
  <2> SUFFICES ASSUME DatagramsInv, ReplyInv, [DatagramsNext]_dvars  PROVE ReplyInv'
    OBVIOUS
  <2>1. CASE UNCHANGED <<out, sent>>
    BY <2>1 DEF ReplyInv, Follows, Unfinished
  <2>2. CASE Timer \/ Second \/ UNCHANGED dvars
    BY <2>1, <2>2 DEF Timer, Second, dvars, fvars
  <2> QED
    BY <2>2, ReplyNetin, ReplySends DEF DatagramsNext
<1> QED
  BY <1>1, <1>2, ReplyTilesIs, DatagramsInvariant, PTL DEF DatagramsSpec

-----------------------------------------------------------------------------
LEMMA SizeIsNat == MAXFWDTABENTRIES \in Nat \ {0} /\ 0 \in Ifaces
  BY FwdAssump

LEMMA LensAreNat == PrefixLens \cup {0} \subseteq Nat
  BY FwdAssump

LEMMA LensPositive == \A len \in PrefixLens : len \in Nat /\ len > 0
<1> TAKE len \in PrefixLens
<1>1. len \in 1..(BYTE * IPV6_ASIZE)
  BY FwdAssump
<1> QED
  BY <1>1

LEMMA NoRowIsRow == NoRow \in Rows
  BY SizeIsNat DEF NoRow, Rows

LEMMA SortInvInit ==
    ASSUME NEW q, Procs = {q}, FwdInit
    PROVE  SortInv(q)
<1> USE SizeIsNat DEF FwdInit, Idx
<1>1. FwdTypeOK
  BY NoRowIsRow DEF FwdTypeOK
<1>2. pc[q] = "idle" /\ Injective(fwdTabPTR)
  BY DEF Injective
<1>3. Placed(fwdTabPTR, MAXFWDTABENTRIES)
  BY DEF Placed, LenAt, NoRow
<1> QED
  BY <1>1, <1>2, <1>3 DEF SortInv

\* A place that is taken lies behind the two that are being swapped.
LEMMA TakenBehind ==
    ASSUME NEW i \in 0..(MAXFWDTABENTRIES - 1), NEW j \in Nat, j + 1 <= MAXFWDTABENTRIES - 1 - i
    PROVE  /\ j \in Idx /\ j + 1 \in Idx
           /\ \A b \in Idx : b >= MAXFWDTABENTRIES - i => b > j + 1
  BY SizeIsNat DEF Idx

LEMMA LensNat ==
    ASSUME NEW ptr \in [Idx -> Idx], fwdTab \in [Idx -> Rows]
    PROVE  \A a \in Idx : LenAt(ptr, a) \in Nat
<1> SUFFICES ASSUME NEW a \in Idx PROVE LenAt(ptr, a) \in Nat
  OBVIOUS
<1>1. fwdTab[ptr[a]] \in Rows
  OBVIOUS
<1> QED
  BY <1>1 DEF LenAt, Rows

\* new is ptr with the neighbours j and j + 1 swapped.
Exchanged(ptr, new, j) ==
    \A a \in Idx : new[a] = IF a = j THEN ptr[j + 1] ELSE IF a = j + 1 THEN ptr[j] ELSE ptr[a]

\* Swapping two neighbours that are out of order keeps what is placed and
\* makes the second one the lowest.
LEMMA SwapKeeps ==
    ASSUME NEW ptr \in [Idx -> Idx], NEW new \in [Idx -> Idx], fwdTab \in [Idx -> Rows],
           NEW i \in 0..(MAXFWDTABENTRIES - 1), NEW j \in Nat, j + 1 <= MAXFWDTABENTRIES - 1 - i,
           Injective(ptr), Placed(ptr, i), Lowest(ptr, j), LenAt(ptr, j) < LenAt(ptr, j + 1),
           Exchanged(ptr, new, j)
    PROVE  Injective(new) /\ Placed(new, i) /\ Lowest(new, j + 1)
<1>1. /\ j \in Idx /\ j + 1 \in Idx
      /\ \A b \in Idx : b >= MAXFWDTABENTRIES - i => b > j + 1
  BY TakenBehind
<1>2. j # j + 1
  OBVIOUS
<1>3. Injective(new)
  BY <1>1, <1>2 DEF Injective, Exchanged
<1>4. /\ LenAt(new, j) = LenAt(ptr, j + 1) /\ LenAt(new, j + 1) = LenAt(ptr, j)
      /\ \A a \in Idx : a # j /\ a # j + 1 => LenAt(new, a) = LenAt(ptr, a)
  BY <1>1, <1>2 DEF LenAt, Exchanged
<1>5. \A a \in Idx : LenAt(ptr, a) \in Nat
  BY LensNat
<1>6. Placed(new, i)
  <2> SUFFICES ASSUME NEW a \in Idx, NEW b \in Idx, b >= MAXFWDTABENTRIES - i, a < b
               PROVE  LenAt(new, a) >= LenAt(new, b)
    BY DEF Placed
  <2>1. b > j + 1
    BY <1>1
  <2>2. b # j /\ b # j + 1 /\ j < b
    BY <1>1, <2>1 DEF Idx
  <2>3. LenAt(new, b) = LenAt(ptr, b)
    BY <1>4, <2>2
  <2>4. LenAt(ptr, j) >= LenAt(ptr, b) /\ LenAt(ptr, j + 1) >= LenAt(ptr, b) /\ LenAt(ptr, a) >= LenAt(ptr, b)
    BY <1>1, <2>1, <2>2 DEF Placed
  <2>5. LenAt(new, a) \in {LenAt(ptr, j), LenAt(ptr, j + 1), LenAt(ptr, a)}
    BY <1>4
  <2> QED
    BY <2>3, <2>4, <2>5
<1>7. Lowest(new, j + 1)
  <2> SUFFICES ASSUME NEW a \in 0..(j + 1) PROVE LenAt(new, a) >= LenAt(ptr, j)
    BY <1>4 DEF Lowest
  <2>1. CASE a = j + 1
    BY <1>1, <1>4, <1>5, <2>1
  <2>2. CASE a = j
    BY <1>1, <1>4, <1>5, <2>2
  <2>3. CASE a # j /\ a # j + 1
    <3>1. a \in 0..j /\ a \in Idx
      BY <1>1, <2>3, SizeIsNat DEF Idx
    <3> QED
      BY <1>4, <2>3, <3>1 DEF Lowest
  <2> QED
    BY <2>1, <2>2, <2>3
<1> QED
  BY <1>3, <1>6, <1>7

\* at, as a process's step leaves it.
AtTypes == [index : Idx, i : Nat, j : Nat, temp : Idx]

LEMMA TypesNext ==
    ASSUME NEW q, Procs = {q}, FwdTypeOK, FwdNext,
           pc[q] \in {"swap1", "swap2"} => at[q].j \in Idx /\ at[q].j + 1 \in Idx
    PROVE  FwdTypeOK'
<1> DEFINE States == {"idle", "find", "fill", "sort", "swap1", "swap2"}
<1>1. /\ fwdTab \in [Idx -> Rows] /\ fwdTabPTR \in [Idx -> Idx] /\ pc \in [Procs -> States]
      /\ arg \in [Procs -> Rows] /\ at \in [Procs -> AtTypes]
  BY DEF FwdTypeOK, AtTypes
<1>2. at[q] \in AtTypes /\ at[q].index \in Idx /\ at[q].i \in Nat /\ at[q].j \in Nat /\ at[q].temp \in Idx
  BY <1>1 DEF AtTypes
<1> HIDE DEF States
<1>3. ASSUME NEW ip \in Addrs, NEW len \in PrefixLens, NEW iface \in Ifaces, Call(q, ip, len, iface)
      PROVE  FwdTypeOK'
  <2>1. arg' \in [Procs -> Rows]
    BY <1>1, <1>3, LensAreNat DEF Call, Rows
  <2>2. pc' \in [Procs -> States]
    BY <1>1, <1>3 DEF Call, States
  <2> QED
    BY <1>1, <1>3, <2>1, <2>2 DEF Call, FwdTypeOK, AtTypes, States
<1>4. ASSUME Find(q) PROVE FwdTypeOK'
  <2>1. pc' \in [Procs -> States]
    BY <1>1, <1>4 DEF Find, States
  <2>2. at' \in [Procs -> AtTypes]
    <3>1. CASE at' = at
      BY <1>1, <3>1
    <3>2. ASSUME NEW k \in Idx, at' = [at EXCEPT ![q].index = k] PROVE at' \in [Procs -> AtTypes]
      <4>1. [at[q] EXCEPT !.index = k] \in AtTypes
        BY <1>2 DEF AtTypes
      <4> QED
        BY <1>1, <3>2, <4>1
    <3> QED
      BY <1>4, <3>1, <3>2 DEF Find
  <2> QED
    BY <1>1, <1>4, <2>1, <2>2 DEF Find, FwdTypeOK, AtTypes, States
<1>5. ASSUME Fill(q) PROVE FwdTypeOK'
  <2>1. pc' \in [Procs -> States]
    BY <1>1, <1>5 DEF Fill, States
  <2>2. at' \in [Procs -> AtTypes]
    <3>1. [at[q] EXCEPT !.i = 0, !.j = 0] \in AtTypes
      BY <1>2 DEF AtTypes
    <3> QED
      BY <1>1, <1>5, <3>1 DEF Fill
  <2>3. fwdTab' \in [Idx -> Rows]
    BY <1>1, <1>5 DEF Fill
  <2> QED
    BY <1>1, <1>5, <2>1, <2>2, <2>3 DEF Fill, FwdTypeOK, AtTypes, States
<1>6. ASSUME Sort(q) PROVE FwdTypeOK'
  <2>1. pc' \in [Procs -> States]
    BY <1>1, <1>6 DEF Sort, States
  <2>2. at' \in [Procs -> AtTypes]
    <3>1. [at[q] EXCEPT !.i = at[q].i + 1, !.j = 0] \in AtTypes
      <4>1. at[q].i + 1 \in Nat
        BY <1>2
      <4> QED
        BY <1>2, <4>1, Zenon DEF AtTypes
    <3>2. [at[q] EXCEPT !.j = at[q].j + 1] \in AtTypes
      BY <1>2 DEF AtTypes
    <3>3. at[q].i < MAXFWDTABENTRIES - 1 /\ at[q].j < MAXFWDTABENTRIES - at[q].i - 1
          => [at[q] EXCEPT !.temp = fwdTabPTR[at[q].j]] \in AtTypes
      <4> SUFFICES ASSUME at[q].i < MAXFWDTABENTRIES - 1, at[q].j < MAXFWDTABENTRIES - at[q].i - 1
                   PROVE  [at[q] EXCEPT !.temp = fwdTabPTR[at[q].j]] \in AtTypes
        OBVIOUS
      <4>1. at[q].j \in Idx
        BY <1>2, SizeIsNat DEF Idx
      <4>2. fwdTabPTR[at[q].j] \in Idx
        BY <1>1, <4>1
      <4> QED
        BY <1>2, <4>2 DEF AtTypes
    <3> QED
      BY <1>1, <1>6, <3>1, <3>2, <3>3 DEF Sort
  <2> QED
    BY <1>1, <1>6, <2>1, <2>2 DEF Sort, FwdTypeOK, AtTypes, States
<1>7. ASSUME Swap1(q) PROVE FwdTypeOK'
  <2>1. fwdTabPTR' \in [Idx -> Idx]
    BY <1>1, <1>7 DEF Swap1
  <2>2. pc' \in [Procs -> States]
    BY <1>1, <1>7 DEF Swap1, States
  <2> QED
    BY <1>1, <1>7, <2>1, <2>2 DEF Swap1, FwdTypeOK, AtTypes, States
<1>8. ASSUME Swap2(q) PROVE FwdTypeOK'
  <2>1. fwdTabPTR' \in [Idx -> Idx]
    BY <1>1, <1>2, <1>8 DEF Swap2
  <2>2. pc' \in [Procs -> States]
    BY <1>1, <1>8 DEF Swap2, States
  <2>3. at' \in [Procs -> AtTypes]
    <3>1. [at[q] EXCEPT !.j = at[q].j + 1] \in AtTypes
      BY <1>2 DEF AtTypes
    <3> QED
      BY <1>1, <1>8, <3>1 DEF Swap2
  <2> QED
    BY <1>1, <1>8, <2>1, <2>2, <2>3 DEF Swap2, FwdTypeOK, AtTypes, States
<1> QED
  BY <1>3, <1>4, <1>5, <1>6, <1>7, <1>8 DEF FwdNext

LEMMA SortInvNext ==
    ASSUME NEW q, Procs = {q}, SortInv(q), FwdNext
    PROVE  SortInv(q)'
<1> USE SizeIsNat
<1>0. FwdTypeOK'
  <2>1. pc[q] \in {"swap1", "swap2"} => at[q].j \in Idx /\ at[q].j + 1 \in Idx
    <3> SUFFICES ASSUME pc[q] \in {"swap1", "swap2"}
                 PROVE  at[q].j \in Idx /\ at[q].j + 1 \in Idx
      OBVIOUS
    <3>1. /\ at[q].i \in 0..(MAXFWDTABENTRIES - 1) /\ at[q].j \in Nat
          /\ at[q].j + 1 <= MAXFWDTABENTRIES - 1 - at[q].i
      BY DEF SortInv, FwdTypeOK
    <3> QED
      BY <3>1, TakenBehind
  <2> QED
    BY <2>1, TypesNext DEF SortInv
<1>1. ASSUME NEW ip \in Addrs, NEW len \in PrefixLens, NEW iface \in Ifaces, Call(q, ip, len, iface)
      PROVE SortInv(q)'
  <2>1. FwdTypeOK'
    BY <1>0
  <2>2. pc[q] = "idle" /\ pc'[q] = "find" /\ UNCHANGED <<fwdTab, fwdTabPTR, at>>
    BY <1>1 DEF Call, SortInv, FwdTypeOK
  <2> QED
    BY <2>1, <2>2 DEF SortInv, Injective, Placed, LenAt
<1>2. CASE Find(q)
  <2>1. FwdTypeOK'
    BY <1>0
  <2>2. pc[q] = "find" /\ pc'[q] \in {"idle", "fill"} /\ UNCHANGED <<fwdTab, fwdTabPTR>>
    BY <1>2 DEF Find, SortInv, FwdTypeOK
  <2> QED
    BY <2>1, <2>2 DEF SortInv, Injective, Placed, LenAt
<1>3. CASE Fill(q)
  <2>1. FwdTypeOK'
    BY <1>0
  <2>2. /\ pc[q] = "fill" /\ pc'[q] = "sort" /\ fwdTabPTR' = fwdTabPTR
        /\ at'[q].i = 0 /\ at'[q].j = 0
    BY <1>3 DEF Fill, SortInv, FwdTypeOK
  <2>3. Placed(fwdTabPTR, 0)'
    BY <2>2 DEF Placed, Idx
  <2>4. Lowest(fwdTabPTR, 0)'
    <3>1. fwdTab'[fwdTabPTR'[0]] \in Rows
      BY <2>1 DEF FwdTypeOK, Idx
    <3> QED
      BY <3>1 DEF Lowest, LenAt, Rows
  <2> QED
    BY <2>1, <2>2, <2>3, <2>4 DEF SortInv, Injective
<1>4. CASE Sort(q)
  <2> DEFINE i == at[q].i
             j == at[q].j
  <2>1. FwdTypeOK'
    BY <1>0
  <2>2. /\ pc[q] = "sort" /\ UNCHANGED <<fwdTab, fwdTabPTR>>
        /\ i \in 0..(MAXFWDTABENTRIES - 1) /\ j \in 0..(MAXFWDTABENTRIES - 1 - i)
        /\ Injective(fwdTabPTR) /\ Placed(fwdTabPTR, i) /\ Lowest(fwdTabPTR, j)
        /\ \A a \in Idx : LenAt(fwdTabPTR, a) \in Nat
    BY <1>4 DEF Sort, SortInv, FwdTypeOK, LenAt, Rows
  <2>3. ASSUME i >= MAXFWDTABENTRIES - 1, pc'[q] = "idle"
        PROVE  SortInv(q)'
    <3>1. Placed(fwdTabPTR, MAXFWDTABENTRIES)
      BY <2>2, <2>3 DEF Placed, Idx
    <3> QED
      BY <2>1, <2>2, <2>3, <3>1 DEF SortInv, Injective, Placed, LenAt
  <2>4. ASSUME i < MAXFWDTABENTRIES - 1, j >= MAXFWDTABENTRIES - i - 1,
               at'[q].i = i + 1, at'[q].j = 0, pc'[q] = "sort"
        PROVE  SortInv(q)'
    <3>1. Placed(fwdTabPTR, i + 1) /\ Lowest(fwdTabPTR, 0)
      BY <2>2, <2>4 DEF Placed, Lowest, Idx
    <3> QED
      BY <2>1, <2>2, <2>4, <3>1 DEF SortInv, Injective, Placed, Lowest, LenAt
  <2>5. ASSUME i < MAXFWDTABENTRIES - 1, j < MAXFWDTABENTRIES - i - 1, OutOfOrder(j),
               at'[q] = [at[q] EXCEPT !.temp = fwdTabPTR[j]], pc'[q] = "swap1"
        PROVE  SortInv(q)'
    <3>1. at'[q].i = i /\ at'[q].j = j /\ at'[q].temp = fwdTabPTR[j]
      BY <2>5 DEF SortInv, FwdTypeOK
    <3>2. LenAt(fwdTabPTR, j) < LenAt(fwdTabPTR, j + 1)
      BY <2>5 DEF OutOfOrder, Row, LenAt
    <3> QED
      BY <2>1, <2>2, <2>5, <3>1, <3>2 DEF SortInv, Injective, Placed, Lowest, LenAt
  <2>6. ASSUME i < MAXFWDTABENTRIES - 1, j < MAXFWDTABENTRIES - i - 1, ~OutOfOrder(j),
               at'[q].i = i, at'[q].j = j + 1, pc'[q] = "sort"
        PROVE  SortInv(q)'
    <3>1. LenAt(fwdTabPTR, j) >= LenAt(fwdTabPTR, j + 1)
      BY <2>2, <2>6 DEF OutOfOrder, Row, LenAt, Idx
    <3>2. Lowest(fwdTabPTR, j + 1)
      BY <2>2, <2>6, <3>1 DEF Lowest, Idx
    <3> QED
      BY <2>1, <2>2, <2>6, <3>2 DEF SortInv, Injective, Placed, Lowest, LenAt
  <2>7. \/ i >= MAXFWDTABENTRIES - 1 /\ pc'[q] = "idle"
        \/ /\ i < MAXFWDTABENTRIES - 1 /\ j >= MAXFWDTABENTRIES - i - 1
           /\ at'[q].i = i + 1 /\ at'[q].j = 0 /\ pc'[q] = "sort"
        \/ /\ i < MAXFWDTABENTRIES - 1 /\ j < MAXFWDTABENTRIES - i - 1 /\ OutOfOrder(j)
           /\ at'[q] = [at[q] EXCEPT !.temp = fwdTabPTR[j]] /\ pc'[q] = "swap1"
        \/ /\ i < MAXFWDTABENTRIES - 1 /\ j < MAXFWDTABENTRIES - i - 1 /\ ~OutOfOrder(j)
           /\ at'[q].i = i /\ at'[q].j = j + 1 /\ pc'[q] = "sort"
    BY <1>4, <2>2 DEF Sort, SortInv, FwdTypeOK
  <2> QED
    BY <2>3, <2>4, <2>5, <2>6, <2>7
<1>5. CASE Swap1(q)
  <2> DEFINE j == at[q].j
  <2>1. FwdTypeOK'
    BY <1>0
  <2>2. /\ pc[q] = "swap1" /\ pc'[q] = "swap2" /\ UNCHANGED <<fwdTab, at>>
        /\ fwdTabPTR' = [fwdTabPTR EXCEPT ![j] = fwdTabPTR[j + 1]]
    BY <1>5 DEF Swap1, SortInv, FwdTypeOK
  <2>3. /\ fwdTabPTR \in [Idx -> Idx] /\ fwdTab \in [Idx -> Rows]
        /\ at[q].i \in 0..(MAXFWDTABENTRIES - 1) /\ j \in Nat /\ j + 1 <= MAXFWDTABENTRIES - 1 - at[q].i
        /\ at[q].temp = fwdTabPTR[j]
    BY <2>2 DEF SortInv, FwdTypeOK
  <2>4. j \in Idx /\ j + 1 \in Idx /\ j # j + 1 /\ fwdTabPTR' \in [Idx -> Idx]
    BY <2>1, <2>3, TakenBehind DEF FwdTypeOK
  <2>5. Swapped(q)' = [fwdTabPTR' EXCEPT ![j + 1] = fwdTabPTR[j]]
    BY <2>2, <2>3 DEF Swapped
  <2>6. Swapped(q)' \in [Idx -> Idx] /\ Exchanged(fwdTabPTR, Swapped(q)', j)
    BY <2>2, <2>3, <2>4, <2>5 DEF Exchanged
  <2>7. Injective(fwdTabPTR) /\ Placed(fwdTabPTR, at[q].i) /\ Lowest(fwdTabPTR, j)
        /\ LenAt(fwdTabPTR, j) < LenAt(fwdTabPTR, j + 1)
    BY <2>2 DEF SortInv
  <2> DEFINE swapped == Swapped(q)'
  <2>8. Injective(swapped) /\ Placed(swapped, at[q].i) /\ Lowest(swapped, j + 1)
    <3> HIDE DEF swapped
    <3>1. swapped \in [Idx -> Idx] /\ Exchanged(fwdTabPTR, swapped, j)
      BY <2>6 DEF swapped
    <3> QED
      BY <2>3, <2>7, <3>1, SwapKeeps
  <2>9. Injective(Swapped(q))' /\ Placed(Swapped(q), at[q].i)' /\ Lowest(Swapped(q), at[q].j + 1)'
    BY <2>2, <2>8 DEF Injective, Placed, Lowest, LenAt
  <2> QED
    BY <2>1, <2>2, <2>3, <2>9 DEF SortInv
<1>6. CASE Swap2(q)
  <2>1. FwdTypeOK'
    BY <1>0
  <2>2. /\ pc[q] = "swap2" /\ pc'[q] = "sort" /\ UNCHANGED fwdTab
        /\ fwdTabPTR' = Swapped(q)
        /\ at'[q].i = at[q].i /\ at'[q].j = at[q].j + 1
    BY <1>6 DEF Swap2, Swapped, SortInv, FwdTypeOK
  <2> QED
    BY <2>1, <2>2 DEF SortInv, Injective, Placed, Lowest, LenAt
<1> QED
  BY <1>1, <1>2, <1>3, <1>4, <1>5, <1>6 DEF FwdNext

LEMMA SortInvStutters ==
    ASSUME NEW q, SortInv(q), UNCHANGED fwdVars
    PROVE  SortInv(q)'
  BY DEF SortInv, FwdTypeOK, Injective, Placed, Lowest, LenAt, Swapped, fwdVars

LEMMA SortInvAlways ==
    ASSUME NEW q, Procs = {q}
    PROVE  FwdSpec => []SortInv(q)
<1>1. FwdInit => SortInv(q)
  BY SortInvInit
<1>2. SortInv(q) /\ [FwdNext]_fwdVars => SortInv(q)'
  BY SortInvNext, SortInvStutters
<1> QED
  BY <1>1, <1>2, PTL DEF FwdSpec

\* With one inserting process (Procs = {q}) the pointers of a table of any
\* size are a permutation between insertions (sortFwdTab).
THEOREM PointersPermute ==
    ASSUME NEW q, Procs = {q}
    PROVE  FwdSpec => []PointersArePermutation
<1>1. SortInv(q) => PointersArePermutation
  BY DEF SortInv, PointersArePermutation, AtRest, Injective
<1> QED
  BY <1>1, SortInvAlways, PTL

\* With one inserting process the bubble sort sorts a table of any size: the
\* rows stand from longest to shortest prefix between insertions (sortFwdTab).
THEOREM BubbleSorts ==
    ASSUME NEW q, Procs = {q}
    PROVE  FwdSpec => []SortedAtRest
<1>1. SortInv(q) => SortedAtRest
  BY SizeIsNat DEF SortInv, SortedAtRest, AtRest, Placed, LenAt, Row, Idx
<1> QED
  BY <1>1, SortInvAlways, PTL

\* Both together, with the types: the table is a sorted permutation.
THEOREM TableSorted ==
    ASSUME NEW q, Procs = {q}
    PROVE  FwdSpec => []SortedPermutation
<1>1. SortInv(q) /\ PointersArePermutation /\ SortedAtRest => SortedPermutation
  BY DEF SortInv, SortedPermutation
<1> QED
  BY <1>1, SortInvAlways, PointersPermute, BubbleSorts, PTL

-----------------------------------------------------------------------------
(***************************************************************************)
(* The lookup.  Entries are filled in the order of the rows, and the sort  *)
(* keeps the order of those with equally long prefixes.                    *)
(***************************************************************************)

\* The callers' prefixes end at a byte: getNextHop compares no single bits.
WholeBytes == \A len \in PrefixLens : len % BYTE = 0

N == Len(accepted)

\* Pointers of free rows have not moved, each row has one, and older entries
\* come first among those of one prefix length.
Ordered(ptr) ==
    /\ \A k \in Idx : k >= N => ptr[k] = k
    /\ \A k \in Idx : \E a \in Idx : ptr[a] = k
    /\ \A a, b \in Idx : a < b /\ LenAt(ptr, a) = LenAt(ptr, b) => ptr[a] < ptr[b]

\* An entry a caller has asked for.
IsEntry(e) == e \in Rows /\ e.ttl = 900 /\ e.prefixLen \in PrefixLens /\ e.ipAddr \in Addrs

\* Row k holds the entry that was accepted as number k + 1.
LookupInv(q) ==
    /\ SortInv(q)
    /\ accepted \in Seq(Rows) /\ N <= MAXFWDTABENTRIES
    /\ \A k \in Idx : fwdTab[k] = IF k < N THEN accepted[k + 1] ELSE NoRow
    /\ \A k \in 1..N : IsEntry(accepted[k])
    /\ pc[q] \in {"find", "fill"} => IsEntry(arg[q])
    /\ pc[q] = "fill" => at[q].index = N /\ N < MAXFWDTABENTRIES
    /\ Ordered(IF pc[q] = "swap2" THEN Swapped(q) ELSE fwdTabPTR)

LEMMA LookupInvInit ==
    ASSUME NEW q, Procs = {q}, FwdInit
    PROVE  LookupInv(q)
<1> USE SizeIsNat
<1>1. SortInv(q)
  BY SortInvInit
<1>2. accepted = << >> /\ N = 0 /\ pc[q] = "idle"
  BY DEF FwdInit, N
<1>3. Ordered(fwdTabPTR)
  BY DEF FwdInit, Ordered, Idx
<1> QED
  BY <1>1, <1>2, <1>3 DEF LookupInv, FwdInit, Idx

\* Where the rows are when no swap is in progress: the used ones first.
LEMMA UsedFirst ==
    ASSUME NEW q, LookupInv(q), pc[q] # "swap2", NEW a \in Idx
    PROVE  /\ N \in Nat /\ N <= MAXFWDTABENTRIES /\ a \in Nat /\ fwdTabPTR[a] \in Idx
           /\ a < N => fwdTabPTR[a] < N /\ Row(a) = accepted[fwdTabPTR[a] + 1] /\ IsEntry(Row(a))
           /\ a >= N => Row(a) = NoRow
<1> USE SizeIsNat
<1>1. /\ N \in Nat /\ N <= MAXFWDTABENTRIES /\ fwdTabPTR \in [Idx -> Idx] /\ Injective(fwdTabPTR)
      /\ \A k \in Idx : k >= N => fwdTabPTR[k] = k
      /\ \A k \in Idx : fwdTab[k] = IF k < N THEN accepted[k + 1] ELSE NoRow
      /\ \A k \in 1..N : IsEntry(accepted[k])
  BY LenProperties DEF LookupInv, SortInv, FwdTypeOK, Ordered, N
<1>2. a \in Nat /\ fwdTabPTR[a] \in Idx /\ fwdTabPTR[a] \in Nat
  BY <1>1 DEF Idx
<1>3. a < N => fwdTabPTR[a] < N
  BY <1>1, <1>2 DEF Injective
<1>4. ASSUME a < N
      PROVE  Row(a) = accepted[fwdTabPTR[a] + 1] /\ IsEntry(Row(a))
  <2>1. fwdTabPTR[a] + 1 \in 1..N
    BY <1>1, <1>2, <1>3, <1>4
  <2> QED
    BY <1>1, <1>2, <1>3, <1>4, <2>1 DEF Row
<1>5. a >= N => Row(a) = NoRow
  <2>1. a >= N => fwdTabPTR[a] = a /\ ~(a < N)
    BY <1>1, <1>2
  <2> QED
    BY <1>1, <2>1 DEF Row
<1> QED
  BY <1>1, <1>2, <1>3, <1>4, <1>5

\* Swapping two neighbours that are out of order keeps what Ordered says.
LEMMA SwapOrders ==
    ASSUME NEW q, LookupInv(q), pc[q] = "swap1", NEW new \in [Idx -> Idx],
           Exchanged(fwdTabPTR, new, at[q].j)
    PROVE  Ordered(new)
<1> USE SizeIsNat
<1> DEFINE j == at[q].j
<1>1. /\ fwdTabPTR \in [Idx -> Idx] /\ fwdTab \in [Idx -> Rows] /\ j \in Nat
      /\ at[q].i \in 0..(MAXFWDTABENTRIES - 1) /\ j + 1 <= MAXFWDTABENTRIES - 1 - at[q].i
      /\ LenAt(fwdTabPTR, j) < LenAt(fwdTabPTR, j + 1)
  BY DEF LookupInv, SortInv, FwdTypeOK
<1>2. j \in Idx /\ j + 1 \in Idx
  BY <1>1, TakenBehind
<1>3. \A a \in Idx : LenAt(fwdTabPTR, a) \in Nat
  BY <1>1, LensNat
<1>4. N \in Nat /\ j + 1 < N
  <2>1. N \in Nat
    BY <1>2, UsedFirst
  <2>2. LenAt(fwdTabPTR, j + 1) # 0
    BY <1>1, <1>2, <1>3
  <2>3. j + 1 >= N => Row(j + 1) = NoRow
    BY <1>2, UsedFirst
  <2>4. ~(j + 1 >= N)
    BY <2>2, <2>3 DEF LenAt, Row, NoRow
  <2>5. j + 1 \in Nat
    BY <1>1
  <2> QED
    BY <2>1, <2>4, <2>5
<1>5. Ordered(fwdTabPTR)
  BY DEF LookupInv
<1>6. /\ new[j] = fwdTabPTR[j + 1] /\ new[j + 1] = fwdTabPTR[j]
      /\ \A a \in Idx : a # j /\ a # j + 1 => new[a] = fwdTabPTR[a]
  BY <1>2 DEF Exchanged, Idx
<1> HIDE DEF j
<1>7. /\ LenAt(new, j) = LenAt(fwdTabPTR, j + 1) /\ LenAt(new, j + 1) = LenAt(fwdTabPTR, j)
      /\ \A a \in Idx : a # j /\ a # j + 1 => LenAt(new, a) = LenAt(fwdTabPTR, a)
  BY <1>6 DEF LenAt
<1>8. \A k \in Idx : k >= N => new[k] = k
  <2>1. \A k \in Idx : k \in Nat /\ (k >= N => fwdTabPTR[k] = k)
    BY <1>5 DEF Ordered, Idx
  <2>2. j \in Nat
    BY <1>2 DEF Idx
  <2>3. \A k \in Idx : k >= N => k # j /\ k # j + 1
    BY <1>4, <2>1, <2>2
  <2> QED
    BY <1>6, <2>1, <2>3
<1>9. \A k \in Idx : \E a \in Idx : new[a] = k
  <2> TAKE k \in Idx
  <2>1. PICK a \in Idx : fwdTabPTR[a] = k
    BY <1>5 DEF Ordered
  <2>2. CASE a = j
    BY <1>2, <1>6, <2>1, <2>2
  <2>3. CASE a = j + 1
    BY <1>2, <1>6, <2>1, <2>3
  <2>4. CASE a # j /\ a # j + 1
    BY <1>6, <2>1, <2>4
  <2> QED
    BY <2>2, <2>3, <2>4
<1>10. ASSUME NEW a \in Idx, NEW b \in Idx, a < b, LenAt(new, a) = LenAt(new, b)
       PROVE  new[a] < new[b]
  <2>1. \A c, d \in Idx : c < d /\ LenAt(fwdTabPTR, c) = LenAt(fwdTabPTR, d) => fwdTabPTR[c] < fwdTabPTR[d]
    BY <1>5 DEF Ordered
  <2>2. a \in Nat /\ b \in Nat /\ j \in Nat
    BY <1>1 DEF Idx
  <2>3. CASE a = j
    BY <1>1, <1>2, <1>3, <1>6, <1>7, <1>10, <2>1, <2>2, <2>3
  <2>4. CASE a = j + 1
    <3>1. j < b /\ b # j /\ b # j + 1
      BY <1>10, <2>2, <2>4
    <3> QED
      BY <1>2, <1>6, <1>7, <1>10, <2>1, <2>4, <3>1
  <2>5. CASE a # j /\ a # j + 1
    <3>1. CASE b = j
      <4>1. a < j + 1
        BY <1>10, <2>2, <3>1
      <4> QED
        BY <1>2, <1>6, <1>7, <1>10, <2>1, <2>5, <3>1, <4>1
    <3>2. CASE b = j + 1
      <4>1. a < j
        BY <1>10, <2>2, <2>5, <3>2
      <4> QED
        BY <1>2, <1>6, <1>7, <1>10, <2>1, <2>5, <3>2, <4>1
    <3>3. CASE b # j /\ b # j + 1
      BY <1>6, <1>7, <1>10, <2>1, <2>5, <3>3
    <3> QED
      BY <3>1, <3>2, <3>3
  <2> QED
    BY <2>3, <2>4, <2>5
<1> QED
  BY <1>8, <1>9, <1>10 DEF Ordered

LEMMA LookupInvNext ==
    ASSUME NEW q, Procs = {q}, LookupInv(q), FwdNext
    PROVE  LookupInv(q)'
<1> USE SizeIsNat
<1>0. /\ SortInv(q)' /\ SortInv(q) /\ FwdTypeOK /\ FwdTypeOK'
      /\ fwdTab \in [Idx -> Rows] /\ fwdTabPTR \in [Idx -> Idx]
      /\ pc \in [Procs -> {"idle", "find", "fill", "sort", "swap1", "swap2"}]
      /\ arg \in [Procs -> Rows] /\ at \in [Procs -> AtTypes]
      /\ N \in Nat
  <2>1. SortInv(q)' /\ SortInv(q)
    BY SortInvNext DEF LookupInv
  <2>2. FwdTypeOK /\ FwdTypeOK'
    BY <2>1 DEF SortInv
  <2>3. N \in Nat
    BY LenProperties DEF LookupInv, N
  <2> QED
    BY <2>1, <2>2, <2>3 DEF FwdTypeOK, AtTypes
<1>1. ASSUME NEW ip \in Addrs, NEW len \in PrefixLens, NEW iface \in Ifaces, Call(q, ip, len, iface)
      PROVE  LookupInv(q)'
  <2>1. /\ pc[q] = "idle" /\ pc'[q] = "find"
        /\ UNCHANGED fwdTab /\ UNCHANGED fwdTabPTR /\ UNCHANGED at /\ UNCHANGED accepted
        /\ arg'[q] = [ttl |-> 900, iface |-> iface, prefixLen |-> len, ipAddr |-> ip]
    BY <1>0, <1>1 DEF Call
  <2>2. IsEntry(arg[q])'
    BY <2>1, LensAreNat DEF IsEntry, Rows
  <2> QED
    BY <1>0, <2>1, <2>2 DEF LookupInv, IsEntry, Ordered, LenAt, N
<1>2. CASE Find(q)
  <2>1. /\ pc[q] = "find" /\ UNCHANGED fwdTab /\ UNCHANGED fwdTabPTR /\ UNCHANGED arg /\ UNCHANGED accepted
        /\ \/ pc'[q] = "idle"
           \/ /\ pc'[q] = "fill" /\ at'[q].index \in Idx
              /\ Free(at'[q].index) /\ \A k \in 0..at'[q].index - 1 : ~Free(k)
    BY <1>0, <1>2 DEF Find, AtTypes
  <2>2. pc'[q] = "fill" => at'[q].index = N /\ N < MAXFWDTABENTRIES
    <3> SUFFICES ASSUME pc'[q] = "fill" PROVE at'[q].index = N /\ N < MAXFWDTABENTRIES
      OBVIOUS
    <3>1. /\ at'[q].index \in Idx /\ Free(at'[q].index) /\ \A k \in 0..at'[q].index - 1 : ~Free(k)
      BY <2>1
    <3>2. \A a \in Idx : /\ a < N => ~Free(a)
                         /\ a >= N => Free(a)
      <4> TAKE a \in Idx
      <4>1. /\ a < N => IsEntry(Row(a))
            /\ a >= N => Row(a) = NoRow
        BY <2>1, UsedFirst
      <4> QED
        BY <4>1 DEF IsEntry, NoRow, Free
    <3>3. at'[q].index >= N
      BY <1>0, <3>1, <3>2 DEF Idx
    <3>4. ~(at'[q].index > N)
      <4> SUFFICES ASSUME at'[q].index > N PROVE FALSE
        OBVIOUS
      <4>1. N \in Idx /\ N \in 0..at'[q].index - 1 /\ N >= N
        <5>1. PICK x \in Idx : x = at'[q].index
          BY <3>1
        <5>2. x > N
          BY <5>1
        <5>3. x \in Nat /\ x < MAXFWDTABENTRIES
          BY DEF Idx
        <5>4. N \in Idx /\ N \in 0..x - 1 /\ N >= N
          BY <1>0, <5>2, <5>3 DEF Idx
        <5> QED
          BY <5>1, <5>4
      <4>2. Free(N)
        BY <3>2, <4>1
      <4> QED
        BY <3>1, <4>1, <4>2
    <3> QED
      BY <1>0, <3>1, <3>3, <3>4 DEF Idx
  <2> QED
    BY <1>0, <2>1, <2>2 DEF LookupInv, IsEntry, Ordered, LenAt, N
<1>3. CASE Fill(q)
  <2> DEFINE e == arg[q]
  <2>1. pc[q] = "fill" /\ at[q].index = N /\ N < MAXFWDTABENTRIES /\ N \in Idx /\ IsEntry(e)
    BY <1>0, <1>3 DEF Fill, LookupInv, Idx
  <2>2. fwdTabPTR[N] = N
    BY <1>0, <2>1 DEF LookupInv, Ordered
  <2>3. /\ pc'[q] = "sort" /\ UNCHANGED fwdTabPTR
        /\ fwdTab' = [fwdTab EXCEPT ![N] = e] /\ accepted' = Append(accepted, e)
    BY <1>0, <1>3, <2>1, <2>2 DEF Fill
  <2>4. accepted \in Seq(Rows) /\ e \in Rows
    BY <2>1 DEF LookupInv, IsEntry
  <2> HIDE DEF e
  <2>5. /\ accepted' \in Seq(Rows) /\ N' = N + 1 /\ accepted'[N + 1] = e
        /\ \A k \in 1..N : accepted'[k] = accepted[k]
    BY <2>3, <2>4, AppendProperties DEF N
  <2>6. \A k \in 1..N' : IsEntry(accepted'[k])
    <3> TAKE k \in 1..N'
    <3>1. k = N + 1 \/ k \in 1..N
      BY <1>0, <2>5
    <3>2. \A l \in 1..N : IsEntry(accepted[l])
      BY DEF LookupInv
    <3> QED
      BY <2>1, <2>5, <3>1, <3>2 DEF e
  <2>7. \A k \in Idx : fwdTab'[k] = IF k < N' THEN accepted'[k + 1] ELSE NoRow
    <3> TAKE k \in Idx
    <3>1. fwdTab[k] = IF k < N THEN accepted[k + 1] ELSE NoRow
      BY DEF LookupInv
    <3>2. k \in Nat
      BY DEF Idx
    <3>3. CASE k = N
      <4>1. fwdTab'[k] = e
        BY <1>0, <2>1, <2>3, <3>3
      <4>2. accepted'[k + 1] = e
        BY <2>5, <3>3
      <4>3. k < N'
        BY <1>0, <2>5, <3>3
      <4> QED
        BY <4>1, <4>2, <4>3
    <3>4. CASE k < N
      <4>1. k + 1 \in 1..N /\ k # N
        BY <1>0, <3>2, <3>4
      <4>2. fwdTab'[k] = fwdTab[k]
        BY <1>0, <2>1, <2>3, <4>1
      <4>3. accepted'[k + 1] = accepted[k + 1]
        BY <2>5, <4>1
      <4>4. k < N'
        BY <1>0, <2>5, <3>2, <3>4
      <4> QED
        BY <3>1, <3>4, <4>2, <4>3, <4>4
    <3>5. CASE k > N
      BY <1>0, <2>3, <2>5, <3>1, <3>2, <3>5
    <3> QED
      BY <1>0, <3>2, <3>3, <3>4, <3>5
  <2>8. \A a \in Idx : LenAt(fwdTabPTR, a)' = IF a = N THEN e.prefixLen ELSE LenAt(fwdTabPTR, a)
    <3>1. Injective(fwdTabPTR)
      BY <1>0, <2>1 DEF SortInv
    <3> QED
      BY <1>0, <2>1, <2>2, <2>3, <3>1 DEF LenAt, Injective
  <2>9. \A a \in Idx : /\ a < N => fwdTabPTR[a] < N
                       /\ a > N => LenAt(fwdTabPTR, a) = 0 /\ fwdTabPTR[a] = a
    <3> TAKE a \in Idx
    <3>1. /\ a < N => fwdTabPTR[a] < N
          /\ a >= N => Row(a) = NoRow
      BY <2>1, UsedFirst
    <3>2. a >= N => fwdTabPTR[a] = a
      BY <2>1 DEF LookupInv, Ordered
    <3>3. a > N => a >= N
      BY <1>0 DEF Idx
    <3> QED
      BY <3>1, <3>2, <3>3 DEF LenAt, Row, NoRow
  <2>10. e.prefixLen \in Nat /\ e.prefixLen > 0
    BY <2>1, LensPositive DEF IsEntry, e
  <2>11. Ordered(fwdTabPTR)'
    <3>1. Ordered(fwdTabPTR)
      BY <2>1 DEF LookupInv
    <3>2. \A k \in Idx : k >= N' => fwdTabPTR'[k] = k
      <4> TAKE k \in Idx
      <4>1. k >= N' => k >= N
        BY <1>0, <2>5 DEF Idx
      <4> QED
        BY <2>3, <3>1, <4>1 DEF Ordered
    <3>3. ASSUME NEW a \in Idx, NEW b \in Idx, a < b, LenAt(fwdTabPTR, a)' = LenAt(fwdTabPTR, b)'
          PROVE  fwdTabPTR[a] < fwdTabPTR[b]
      <4>1. a \in Nat /\ b \in Nat
        BY DEF Idx
      <4>2. CASE a = N
        <5>1. b > N /\ b # N
          BY <3>3, <4>1, <4>2
        <5> QED
          BY <2>8, <2>9, <2>10, <3>3, <4>2, <5>1
      <4>3. CASE b = N
        BY <2>2, <2>9, <3>3, <4>3
      <4>4. CASE a # N /\ b # N
        BY <2>8, <3>1, <3>3, <4>4 DEF Ordered
      <4> QED
        BY <4>2, <4>3, <4>4
    <3> QED
      BY <2>3, <3>1, <3>2, <3>3 DEF Ordered
  <2>12. N' <= MAXFWDTABENTRIES
    BY <1>0, <2>1, <2>5
  <2>13. /\ pc'[q] \notin {"find", "fill"} /\ pc'[q] # "swap2"
    BY <2>3
  <2>14. Ordered(IF pc[q] = "swap2" THEN Swapped(q) ELSE fwdTabPTR)'
    BY <2>11, <2>13
  <2>15. SortInv(q)'
    BY <1>0
  <2>16. accepted' \in Seq(Rows)
    BY <2>5
  <2> QED
    BY <2>6, <2>7, <2>12, <2>13, <2>14, <2>15, <2>16 DEF LookupInv
<1>4. CASE Sort(q)
  <2>1. /\ pc[q] = "sort" /\ pc'[q] \in {"idle", "sort", "swap1"}
        /\ UNCHANGED fwdTab /\ UNCHANGED fwdTabPTR /\ UNCHANGED accepted
    BY <1>0, <1>4 DEF Sort
  <2> QED
    BY <1>0, <2>1 DEF LookupInv, IsEntry, Ordered, LenAt, N
<1>5. CASE Swap1(q)
  <2> DEFINE j == at[q].j
  <2>1. /\ pc[q] = "swap1" /\ pc'[q] = "swap2"
        /\ UNCHANGED fwdTab /\ UNCHANGED at /\ UNCHANGED accepted
        /\ fwdTabPTR' = [fwdTabPTR EXCEPT ![j] = fwdTabPTR[j + 1]]
    BY <1>0, <1>5 DEF Swap1
  <2>2. /\ at[q].i \in 0..(MAXFWDTABENTRIES - 1) /\ j \in Nat /\ j + 1 <= MAXFWDTABENTRIES - 1 - at[q].i
        /\ at[q].temp = fwdTabPTR[j]
    BY <1>0, <2>1 DEF SortInv, FwdTypeOK
  <2>3. j \in Idx /\ j + 1 \in Idx /\ j # j + 1 /\ fwdTabPTR' \in [Idx -> Idx]
    BY <1>0, <2>2, TakenBehind DEF FwdTypeOK
  <2>4. Swapped(q)' = [fwdTabPTR' EXCEPT ![j + 1] = fwdTabPTR[j]]
    BY <2>1, <2>2 DEF Swapped
  <2>5. Swapped(q)' \in [Idx -> Idx] /\ Exchanged(fwdTabPTR, Swapped(q)', j)
    BY <1>0, <2>1, <2>3, <2>4 DEF Exchanged
  <2> DEFINE swapped == Swapped(q)'
  <2>6. Ordered(swapped)
    <3> HIDE DEF swapped
    <3>1. swapped \in [Idx -> Idx] /\ Exchanged(fwdTabPTR, swapped, at[q].j)
      BY <2>5 DEF swapped
    <3> QED
      BY <2>1, <3>1, SwapOrders
  <2>7. Ordered(Swapped(q))'
    BY <2>1, <2>6 DEF Ordered, LenAt, N
  <2> QED
    BY <1>0, <2>1, <2>7 DEF LookupInv, IsEntry, N
<1>6. CASE Swap2(q)
  <2>1. /\ pc[q] = "swap2" /\ pc'[q] = "sort"
        /\ UNCHANGED fwdTab /\ UNCHANGED accepted /\ fwdTabPTR' = Swapped(q)
    BY <1>0, <1>6 DEF Swap2, Swapped
  <2>2. Ordered(Swapped(q))
    BY <2>1 DEF LookupInv
  <2>3. Ordered(fwdTabPTR)'
    BY <2>1, <2>2 DEF Ordered, LenAt, N
  <2> QED
    BY <1>0, <2>1, <2>3 DEF LookupInv, IsEntry, N
<1> QED
  BY <1>1, <1>2, <1>3, <1>4, <1>5, <1>6 DEF FwdNext

LEMMA LookupInvAlways ==
    ASSUME NEW q, Procs = {q}
    PROVE  FwdSpec => []LookupInv(q)
<1>1. FwdInit => LookupInv(q)
  BY LookupInvInit
<1>2. ASSUME LookupInv(q), UNCHANGED fwdVars PROVE LookupInv(q)'
  <2>1. SortInv(q)'
    BY <1>2, SortInvStutters DEF LookupInv
  <2> QED
    BY <1>2, <2>1 DEF LookupInv, IsEntry, Ordered, LenAt, Swapped, N, fwdVars
<1>3. LookupInv(q) /\ [FwdNext]_fwdVars => LookupInv(q)'
  BY <1>2, LookupInvNext
<1> QED
  BY <1>1, <1>3, PTL DEF FwdSpec

LEMMA DivBound ==
    ASSUME NEW x \in Nat, NEW d \in Nat \ {0}, NEW m \in Nat, x < d * m
    PROVE  x \div d \in 0..m-1
  OBVIOUS

\* A product grows with its factor.
LEMMA Multiples ==
    ASSUME NEW d \in Nat \ {0}, NEW x \in Nat, NEW m \in Nat, x + 1 <= m, NEW r \in 0..d-1
    PROVE  x * d + r \in 0..(d * m)-1
<1>1. (x + 1) * d <= m * d
  OBVIOUS
<1> QED
  BY <1>1

\* The bits up to the end of a byte agree when the bytes do.
LEMMA CoversIsMatch ==
    ASSUME WholeBytes, NEW ip \in Addrs, NEW e, IsEntry(e)
    PROVE  Covers(e, ip) <=> Match(ip, e.ipAddr, e.prefixLen \div BYTE)
<1> DEFINE m == e.prefixLen \div BYTE
           a == e.ipAddr
<1>1. BYTE \in Nat \ {0} /\ IPV6_ASIZE \in Nat
  BY FwdAssump
<1>2. e.prefixLen \in Nat /\ e.prefixLen % BYTE = 0 /\ e.prefixLen <= BYTE * IPV6_ASIZE
  <2>1. e.prefixLen \in PrefixLens
    BY DEF IsEntry
  <2>2. e.prefixLen \in 1..(BYTE * IPV6_ASIZE)
    BY <2>1, FwdAssump
  <2>3. e.prefixLen % BYTE = 0
    BY <2>1 DEF WholeBytes
  <2>4. BYTE * IPV6_ASIZE \in Nat
    BY <1>1
  <2> QED
    BY <2>2, <2>3, <2>4
<1>3. m \in Nat /\ e.prefixLen = BYTE * m
  BY <1>1, <1>2, WholeNumber
<1>4. a \in Addrs
  BY DEF IsEntry
<1> HIDE DEF m, a
<1>5. m <= IPV6_ASIZE
  <2> SUFFICES ASSUME m >= IPV6_ASIZE + 1 PROVE FALSE
    BY <1>1, <1>3
  <2>1. BYTE * m >= BYTE * (IPV6_ASIZE + 1)
    BY <1>1, <1>3
  <2> QED
    BY <1>1, <1>2, <1>3, <2>1
<1>6. ASSUME Match(ip, a, m), NEW n \in 1..e.prefixLen
      PROVE  Bit(a, n) = Bit(ip, n)
  <2>1. (n - 1) \div BYTE \in 0..m-1
    <3>1. n - 1 \in Nat /\ n - 1 < e.prefixLen
      BY <1>2
    <3> DEFINE x == n - 1
    <3>2. x \in Nat /\ x < BYTE * m
      BY <1>3, <3>1
    <3> HIDE DEF x
    <3>3. x \div BYTE \in 0..m-1
      BY <1>1, <1>3, <3>2, DivBound
    <3> QED
      BY <3>3 DEF x
  <2>2. ((n - 1) \div BYTE) + 1 \in 1..m
    BY <1>3, <2>1
  <2>3. ip[((n - 1) \div BYTE) + 1] = a[((n - 1) \div BYTE) + 1]
    BY <1>6, <2>2 DEF Match
  <2> QED
    BY <2>3 DEF Bit
<1>7. ASSUME Covers(e, ip), NEW b \in 1..m
      PROVE  ip[b] = a[b]
  <2>1. b \in 1..IPV6_ASIZE /\ b - 1 \in Nat
    BY <1>1, <1>3, <1>5
  <2>2. ip[b] \in 0..2^BYTE-1 /\ a[b] \in 0..2^BYTE-1
    BY <1>4, <2>1 DEF Addrs
  <2>3. ASSUME NEW k \in 0..BYTE-1
        PROVE  (ip[b] \div 2^k) % 2 = (a[b] \div 2^k) % 2
    <3> DEFINE r == BYTE - 1 - k
               x == (b - 1) * BYTE + r
               n == x + 1
    <3>1. r \in 0..BYTE-1 /\ BYTE - 1 - r = k
      BY <1>1
    <3>2. n - 1 = x /\ n \in 1..e.prefixLen
      <4>1. x \in 0..(BYTE * m)-1
        <5> HIDE DEF r
        <5>1. (b - 1) + 1 <= m
          BY <1>3, <2>1
        <5> QED
          BY <1>1, <1>3, <2>1, <3>1, <5>1, Multiples
      <4>2. BYTE * m \in Nat
        BY <1>1, <1>3
      <4> HIDE DEF x
      <4> QED
        BY <1>2, <1>3, <4>1, <4>2
    <3>3. (n - 1) \div BYTE = b - 1 /\ (n - 1) % BYTE = r
      <4>1. x \div BYTE = b - 1 /\ x % BYTE = r
        <5> HIDE DEF r
        <5> QED
          BY <1>1, <2>1, <3>1, DivMod
      <4> HIDE DEF r, x, n
      <4> QED
        BY <3>2, <4>1
    <3>4. Bit(a, n) = Bit(ip, n)
      <4> HIDE DEF n
      <4> QED
        BY <1>7, <3>2 DEF Covers, a
    <3>5. ((n - 1) \div BYTE) + 1 = b /\ BYTE - 1 - ((n - 1) % BYTE) = k
      <4> HIDE DEF r, x, n
      <4> QED
        BY <2>1, <3>1, <3>3
    <3> HIDE DEF r, x, n
    <3> QED
      BY <3>4, <3>5 DEF Bit
  <2> QED
    BY <1>1, <2>2, <2>3, SameBits
<1> QED
  BY <1>6, <1>7 DEF Covers, Match, m, a

\* The lookup at rest: the used rows are the accepted entries, from long to
\* short and from old to new, so that the first that matches is the best.
LEMMA FirstIsBest ==
    ASSUME NEW q, WholeBytes, LookupInv(q), pc[q] \in {"idle", "find"}, NEW ip \in Addrs
    PROVE  BestRoute(ip) = IF GetNextHop(ip) = -1 THEN NoRow ELSE Row(GetNextHop(ip))
<1> USE SizeIsNat
<1> DEFINE used == {j \in Idx : \A k \in 0..j : Row(k).prefixLen # 0}
           hits == {j \in used : Match(ip, Row(j).ipAddr, Row(j).prefixLen \div BYTE)}
           covering == {k \in DOMAIN accepted : Covers(accepted[k], ip)}
<1>1. /\ N \in Nat /\ N <= MAXFWDTABENTRIES /\ DOMAIN accepted = 1..N
      /\ fwdTabPTR \in [Idx -> Idx] /\ Ordered(fwdTabPTR)
      /\ Placed(fwdTabPTR, MAXFWDTABENTRIES)
      /\ \A k \in 1..N : IsEntry(accepted[k])
      /\ \A a \in Idx : LenAt(fwdTabPTR, a) \in Nat
  BY LenProperties, LensNat DEF LookupInv, SortInv, FwdTypeOK, N
<1>2. ASSUME NEW a \in Idx
      PROVE  /\ a < N => /\ fwdTabPTR[a] + 1 \in 1..N /\ Row(a) = accepted[fwdTabPTR[a] + 1]
                         /\ IsEntry(Row(a)) /\ Row(a).prefixLen # 0
             /\ a >= N => Row(a).prefixLen = 0
  <2>1. /\ a < N => fwdTabPTR[a] < N /\ Row(a) = accepted[fwdTabPTR[a] + 1] /\ IsEntry(Row(a))
        /\ a >= N => Row(a) = NoRow
        /\ fwdTabPTR[a] \in Nat
    BY UsedFirst DEF Idx
  <2>2. a < N => Row(a).prefixLen # 0
    BY <2>1, LensPositive DEF IsEntry
  <2>3. a < N => fwdTabPTR[a] + 1 \in 1..N
    BY <1>1, <2>1
  <2> QED
    BY <2>1, <2>2, <2>3 DEF NoRow
<1>3. used = {j \in Idx : j < N}
  <2>1. ASSUME NEW j \in Idx, j < N, NEW k \in 0..j PROVE Row(k).prefixLen # 0
    <3>1. j \in Nat /\ j < MAXFWDTABENTRIES /\ N \in Nat
      BY <1>1 DEF Idx
    <3>2. k \in Idx /\ k < N
      BY <2>1, <3>1 DEF Idx
    <3> QED
      BY <1>2, <3>2
  <2>2. ASSUME NEW j \in Idx, \A k \in 0..j : Row(k).prefixLen # 0 PROVE j < N
    <3>1. Row(j).prefixLen # 0 /\ j \in Nat
      BY <2>2 DEF Idx
    <3> QED
      BY <1>1, <1>2, <3>1
  <2> QED
    BY <2>1, <2>2
<1>4. ASSUME NEW j \in Idx PROVE j \in hits <=> j < N /\ fwdTabPTR[j] + 1 \in covering
  <2>1. j < N => (Covers(Row(j), ip) <=> Match(ip, Row(j).ipAddr, Row(j).prefixLen \div BYTE))
    BY <1>2, CoversIsMatch
  <2> QED
    BY <1>1, <1>2, <1>3, <2>1
<1>5. ASSUME NEW l \in covering
      PROVE  \E a \in hits : a \in Idx /\ a < N /\ fwdTabPTR[a] + 1 = l
  <2>1. l \in 1..N /\ l - 1 \in Idx /\ l - 1 < N
    <3>1. l \in 1..N
      BY <1>1
    <3>2. N \in Nat /\ N <= MAXFWDTABENTRIES
      BY <1>1
    <3> QED
      BY <3>1, <3>2 DEF Idx
  <2>2. PICK a \in Idx : fwdTabPTR[a] = l - 1
    BY <1>1, <2>1 DEF Ordered
  <2>3. a < N /\ a \in Nat
    BY <1>1, <2>1, <2>2 DEF Ordered, Idx
  <2>4. fwdTabPTR[a] + 1 = l
    BY <2>1, <2>2
  <2>5. a \in hits
    BY <1>4, <2>3, <2>4
  <2> QED
    BY <2>3, <2>4, <2>5
<1>6. hits \subseteq Idx /\ hits \subseteq Nat
  BY DEF Idx
<1> DEFINE best == CHOOSE k \in covering : \A l \in covering : Better(k, l)
           first == CHOOSE j \in hits : \A k \in hits : j <= k
<1>7. /\ BestRoute(ip) = IF covering = {} THEN NoRow ELSE accepted[best]
      /\ GetNextHop(ip) = IF hits = {} THEN -1 ELSE first
  BY DEF BestRoute, GetNextHop
<1> HIDE DEF used, hits, covering
<1>8. CASE hits = {}
  <2>1. covering = {}
    BY <1>5, <1>8
  <2> QED
    BY <1>7, <1>8, <2>1
<1>9. CASE hits # {}
  <2>1. \E j \in hits : \A k \in hits : j <= k
    BY <1>6, <1>9, LeastNat
  <2>2. first \in hits /\ \A k \in hits : first <= k
    BY <2>1
  <2> HIDE DEF first
  <2>3. first \in Idx /\ first \in Nat /\ first < N
    BY <1>4, <1>6, <2>2
  <2> DEFINE c == fwdTabPTR[first] + 1
  <2>4. c \in covering /\ c \in 1..N /\ Row(first) = accepted[c]
    BY <1>2, <1>4, <2>2, <2>3
  <2>5. ASSUME NEW l \in covering PROVE Better(c, l)
    <3>1. PICK a \in hits : a \in Idx /\ a < N /\ fwdTabPTR[a] + 1 = l
      BY <1>5
    <3>2. first <= a /\ a \in Nat
      BY <1>6, <2>2
    <3>3. LenAt(fwdTabPTR, first) = accepted[c].prefixLen /\ LenAt(fwdTabPTR, a) = accepted[l].prefixLen
      BY <1>2, <2>3, <2>4, <3>1 DEF LenAt, Row
    <3>4. CASE first = a
      BY <2>4, <3>1, <3>4 DEF Better
    <3>5. CASE first < a
      <4>1. LenAt(fwdTabPTR, first) >= LenAt(fwdTabPTR, a)
        <5>1. a >= MAXFWDTABENTRIES - MAXFWDTABENTRIES
          BY <3>2
        <5> QED
          BY <1>1, <2>3, <3>1, <3>5, <5>1 DEF Placed
      <4>2. LenAt(fwdTabPTR, first) = LenAt(fwdTabPTR, a) => fwdTabPTR[first] < fwdTabPTR[a]
        BY <1>1, <2>3, <3>1, <3>5 DEF Ordered
      <4>3. fwdTabPTR[first] \in Nat /\ fwdTabPTR[a] \in Nat
        <5>1. fwdTabPTR[first] \in Idx /\ fwdTabPTR[a] \in Idx
          BY <1>1, <2>3, <3>1
        <5> QED
          BY <5>1 DEF Idx
      <4>4. LenAt(fwdTabPTR, first) = LenAt(fwdTabPTR, a) => c <= l
        BY <3>1, <4>2, <4>3
      <4>5. LenAt(fwdTabPTR, first) \in Nat /\ LenAt(fwdTabPTR, a) \in Nat
        BY <1>1, <2>3, <3>1
      <4> QED
        BY <3>3, <4>1, <4>4, <4>5 DEF Better
    <3> QED
      BY <2>3, <3>2, <3>4, <3>5
  <2>6. best \in covering /\ \A l \in covering : Better(best, l)
    BY <2>4, <2>5
  <2> HIDE DEF best
  <2>7. best = c
    <3> HIDE DEF c
    <3>1. best \in 1..N /\ c \in 1..N
      BY <1>1, <2>4, <2>6 DEF covering
    <3>2. Better(best, c) /\ Better(c, best)
      BY <2>4, <2>5, <2>6
    <3>3. accepted[best].prefixLen \in Nat /\ accepted[c].prefixLen \in Nat
      BY <1>1, <3>1, LensPositive DEF IsEntry
    <3> QED
      BY <3>1, <3>2, <3>3 DEF Better
  <2>8. first # -1 /\ covering # {}
    BY <2>3, <2>4
  <2> QED
    BY <1>7, <1>9, <2>4, <2>7, <2>8
<1> QED
  BY <1>8, <1>9

\* With one inserting process and prefixes of whole bytes, getNextHop finds the
\* longest matching prefix in a table of any size, the oldest of several, and
\* the default router exactly when no entry covers the address.
THEOREM LookupRight ==
    ASSUME NEW q, Procs = {q}, WholeBytes
    PROVE  FwdSpec => []LongestPrefixMatch
<1>1. LookupInv(q) => LongestPrefixMatch
  <2> SUFFICES ASSUME LookupInv(q), AtRest, NEW ip \in Addrs
               PROVE  BestRoute(ip) = IF GetNextHop(ip) = -1 THEN NoRow ELSE Row(GetNextHop(ip))
    BY DEF LongestPrefixMatch
  <2>1. pc[q] \in {"idle", "find"}
    BY DEF AtRest
  <2> QED
    BY <2>1, FirstIsBest
<1> QED
  BY <1>1, LookupInvAlways, PTL
=============================================================================
