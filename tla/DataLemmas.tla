----------------------------- MODULE DataLemmas ----------------------------
(***************************************************************************)
(* Facts about natural numbers and sequences that several proofs need.     *)
(***************************************************************************)
EXTENDS Integers, FiniteSetTheorems, SequenceTheorems, TLAPS

\* A set of natural numbers that is not empty has a least element.  The sets
\* 1..n, ordered by inclusion, are well founded; the least of them is the one of
\* the least n.
LEMMA LeastNat ==
  ASSUME NEW S \in SUBSET Nat, S # {}
  PROVE  \E n \in S : \A m \in S : n <= m
<1> DEFINE T == {1..n : n \in S}
<1>1. IsWellFoundedOn(StrictSubsetOrdering(Nat), FiniteSubsetsOf(Nat))
  BY FS_StrictSubsetOrderingWellFounded
<1>2. \A n \in S : 1..n \in FiniteSubsetsOf(Nat)
  <2> TAKE n \in S
  <2>1. IsFiniteSet(1..n)
    BY FS_Interval
  <2> QED
    BY <2>1 DEF FiniteSubsetsOf
<1>3. T \subseteq FiniteSubsetsOf(Nat) /\ T # {}
  BY <1>2
<1>4. PICK x \in T : \A y \in T : <<y, x>> \notin StrictSubsetOrdering(Nat)
  BY <1>1, <1>3, WFMin
<1>5. PICK n \in S : x = 1..n
  OBVIOUS
<1>6. ASSUME NEW m \in S, m < n PROVE FALSE
  <2>1. 1..m \subseteq 1..n /\ n \in 1..n /\ n \notin 1..m
    BY <1>6
  <2>2. <<1..m, 1..n>> \in StrictSubsetOrdering(Nat)
    BY <2>1 DEF StrictSubsetOrdering
  <2> QED
    BY <1>4, <1>5, <2>2
<1> QED
  BY <1>6

\* Doubling, from the number of subsets of 1..n.
LEMMA PowersDouble ==
  ASSUME NEW n \in Nat
  PROVE  2^n \in Nat /\ 2^n > 0 /\ 2^(n + 1) = 2 * 2^n
<1> DEFINE S == SUBSET (1..n)
           T == {A \cup {n + 1} : A \in S}
<1>1. /\ IsFiniteSet(1..n) /\ Cardinality(1..n) = n
      /\ IsFiniteSet(1..(n + 1)) /\ Cardinality(1..(n + 1)) = n + 1
  <2>1. \A m \in Nat : IsFiniteSet(1..m) /\ Cardinality(1..m) = m
    BY FS_Interval
  <2> QED
    BY <2>1
<1>2. /\ IsFiniteSet(S) /\ Cardinality(S) = 2^n
      /\ Cardinality(SUBSET (1..(n + 1))) = 2^(n + 1)
  BY <1>1, FS_SUBSET
<1>3. SUBSET (1..(n + 1)) = S \cup T
  <2>1. 1..(n + 1) = (1..n) \cup {n + 1}
    OBVIOUS
  <2>2. ASSUME NEW B \in SUBSET (1..(n + 1)) PROVE B \in S \cup T
    <3>1. CASE n + 1 \in B
      <4>1. B \ {n + 1} \in S /\ B = (B \ {n + 1}) \cup {n + 1}
        BY <2>1, <3>1
      <4> QED
        BY <4>1
    <3>2. CASE n + 1 \notin B
      BY <2>1, <3>2
    <3> QED
      BY <3>1, <3>2
  <2>3. S \subseteq SUBSET (1..(n + 1)) /\ T \subseteq SUBSET (1..(n + 1))
    BY <2>1
  <2> QED
    BY <2>2, <2>3
<1>4. S \cap T = {}
  <2>1. \A A \in S : n + 1 \notin A
    OBVIOUS
  <2> QED
    BY <2>1
<1>5. IsFiniteSet(T) /\ Cardinality(T) = Cardinality(S)
  <2> DEFINE f == [A \in S |-> A \cup {n + 1}]
  <2>1. \A A \in S : n + 1 \notin A
    OBVIOUS
  <2>2. f \in Bijection(S, T)
    <3>1. f \in Surjection(S, T)
      <4>1. f \in [S -> T] /\ \A B \in T : \E A \in S : f[A] = B
        OBVIOUS
      <4> HIDE DEF f, S, T
      <4> QED
        BY <4>1 DEF Surjection
    <3>2. ASSUME NEW A \in S, NEW B \in S, f[A] = f[B] PROVE A = B
      <4>1. A \cup {n + 1} = B \cup {n + 1}
        BY <3>2
      <4> QED
        BY <2>1, <4>1
    <3>3. f \in Injection(S, T)
      <4>1. f \in [S -> T]
        OBVIOUS
      <4> HIDE DEF f, S, T
      <4> QED
        BY <3>2, <4>1 DEF Injection, IsInjective
    <3> HIDE DEF f, S, T
    <3> QED
      BY <3>1, <3>3 DEF Bijection
  <2>3. ExistsBijection(S, T)
    BY <2>2 DEF ExistsBijection
  <2> QED
    BY <1>2, <2>3, FS_Bijection
<1>6. Cardinality(S \cup T) = Cardinality(S) + Cardinality(T) - Cardinality(S \cap T)
  BY <1>2, <1>5, FS_Union
<1>7. Cardinality(S \cap T) = 0
  BY <1>4, FS_EmptySet
<1>8. Cardinality(S) \in Nat /\ Cardinality(S) # 0
  <2>1. Cardinality(S) \in Nat
    BY <1>2, FS_CardinalityType
  <2>2. S # {}
    OBVIOUS
  <2> QED
    BY <1>2, <2>1, <2>2, FS_EmptySet
<1>9. 2^(n + 1) = Cardinality(S \cup T) /\ Cardinality(S) = 2^n
  BY <1>2, <1>3, Zenon
<1> HIDE DEF S, T
<1> QED
  BY <1>5, <1>6, <1>7, <1>8, <1>9

\* Dividing by 2 and then by d is dividing by 2d.
LEMMA Halves ==
  ASSUME NEW x \in Nat, NEW d \in Nat \ {0}
  PROVE  (x \div 2) \div d = x \div (2 * d)
<1> DEFINE h == x \div 2
           q == h \div d
           r == h % d
<1>1. h \in Nat /\ x - 2 * h \in 0..1
  OBVIOUS
<1>2. q \in Nat /\ r \in 0..d-1 /\ h = d * q + r
  OBVIOUS
<1> HIDE DEF h, q, r
<1>3. x - (2 * d) * q \in 0..(2 * d) - 1
  <2>1. x - (2 * d) * q = (x - 2 * h) + 2 * r
    BY <1>1, <1>2
  <2> QED
    BY <1>1, <1>2, <2>1
<1>4. x \div (2 * d) = q
  BY <1>2, <1>3
<1> QED
  BY <1>4 DEF q, h

\* Numbers with the same n bits are the same.
LEMMA SameBits ==
  ASSUME NEW n \in Nat, NEW x \in 0..2^n-1, NEW y \in 0..2^n-1,
         \A k \in 0..n-1 : (x \div 2^k) % 2 = (y \div 2^k) % 2
  PROVE  x = y
<1> DEFINE Agree(m) == \A a, b \in 0..2^m-1 :
             (\A k \in 0..m-1 : (a \div 2^k) % 2 = (b \div 2^k) % 2) => a = b
           Bad == {m \in Nat : ~Agree(m)}
<1> SUFFICES ASSUME Bad # {} PROVE FALSE
  <2>1. Agree(n)
    <3> HIDE DEF Agree
    <3> QED
      OBVIOUS
  <2> QED
    BY <2>1
<1>1. PICK m \in Bad : \A l \in Bad : m <= l
  BY LeastNat
<1>2. m # 0
  <2>1. Agree(0)
    <3>1. 2^0 = 1
      OBVIOUS
    <3>2. 0..2^0-1 = {0}
      BY <3>1
    <3> QED
      BY <3>2
  <2> HIDE DEF Agree
  <2> QED
    BY <2>1
<1>3. m - 1 \in Nat /\ Agree(m - 1)
  <2> HIDE DEF Agree
  <2> QED
    BY <1>1, <1>2
<1> DEFINE l == m - 1
<1>4. PICK a, b \in 0..2^m-1 :
        (\A k \in 0..m-1 : (a \div 2^k) % 2 = (b \div 2^k) % 2) /\ a # b
  OBVIOUS
<1>5. 2^l \in Nat /\ 2^l > 0 /\ 2^m = 2 * 2^l
  BY <1>3, PowersDouble
<1>6. a \div 2 \in 0..2^l-1 /\ b \div 2 \in 0..2^l-1
  BY <1>5
<1>7. ASSUME NEW k \in 0..l-1
      PROVE  ((a \div 2) \div 2^k) % 2 = ((b \div 2) \div 2^k) % 2
  <2>1. k \in Nat /\ k + 1 \in 0..m-1
    BY <1>3
  <2>2. 2^k \in Nat \ {0} /\ 2^(k + 1) = 2 * 2^k
    BY <2>1, PowersDouble
  <2>3. a \in Nat /\ b \in Nat
    BY <1>5
  <2>4. (a \div 2) \div 2^k = a \div 2^(k + 1) /\ (b \div 2) \div 2^k = b \div 2^(k + 1)
    BY <2>2, <2>3, Halves
  <2> QED
    BY <1>4, <2>1, <2>4
<1>8. a \div 2 = b \div 2
  BY <1>3, <1>6, <1>7
<1>9. a % 2 = b % 2
  <2>1. 2^0 = 1 /\ 0 \in 0..m-1
    BY <1>2
  <2>2. a \div 1 = a /\ b \div 1 = b
    BY <1>5
  <2>3. (a \div 2^0) % 2 = (b \div 2^0) % 2
    BY <1>4, <2>1
  <2> QED
    BY <2>1, <2>2, <2>3
<1> QED
  BY <1>4, <1>5, <1>8, <1>9

\* What is left of a sequence without its first n elements, and the first n.
LEMMA SuffixIs ==
    ASSUME NEW T, NEW q \in Seq(T), NEW n \in 0..Len(q)
    PROVE  /\ SubSeq(q, n+1, Len(q)) \in Seq(T)
           /\ Len(SubSeq(q, n+1, Len(q))) = Len(q) - n
           /\ \A i \in 1..Len(q)-n : SubSeq(q, n+1, Len(q))[i] = q[n+i]
           /\ SubSeq(q, 1, n) \in Seq(T)
           /\ Len(SubSeq(q, 1, n)) = n
           /\ \A i \in 1..n : SubSeq(q, 1, n)[i] = q[i]
<1>0. n \in Int /\ n + 1 \in Int /\ Len(q) \in Nat /\ n >= 0 /\ n <= Len(q)
  OBVIOUS
<1>1. \A i \in 1..Len(q) : q[i] \in T
  BY ElementOfSeq
<1>2. /\ SubSeq(q, n+1, Len(q)) \in Seq(T)
      /\ Len(SubSeq(q, n+1, Len(q))) = IF n+1 <= Len(q) THEN Len(q)-(n+1)+1 ELSE 0
      /\ \A i \in 1..Len(q)-(n+1)+1 : SubSeq(q, n+1, Len(q))[i] = q[(n+1)+i-1]
  <2>1. \A i \in n+1..Len(q) : q[i] \in T
    BY <1>0, <1>1
  <2> QED
    BY <1>0, <2>1, SubSeqProperties
<1>3. /\ SubSeq(q, 1, n) \in Seq(T)
      /\ Len(SubSeq(q, 1, n)) = IF 1 <= n THEN n-1+1 ELSE 0
      /\ \A i \in 1..n-1+1 : SubSeq(q, 1, n)[i] = q[1+i-1]
  <2>1. \A i \in 1..n : q[i] \in T
    BY <1>0, <1>1
  <2> QED
    BY <1>0, <2>1, SubSeqProperties
<1> QED
  BY <1>0, <1>2, <1>3

\* A sequence without its n-th element.
LEMMA CutIs ==
    ASSUME NEW T, NEW q \in Seq(T), NEW n \in 1..Len(q)
    PROVE  LET d == SubSeq(q, 1, n-1) \o SubSeq(q, n+1, Len(q)) IN
           /\ d \in Seq(T)
           /\ Len(d) = Len(q) - 1
           /\ \A i \in 1..Len(q)-1 : d[i] = IF i < n THEN q[i] ELSE q[i+1]
<1> DEFINE a == SubSeq(q, 1, n-1)
           b == SubSeq(q, n+1, Len(q))
<1>0. n \in Int /\ n - 1 \in 0..Len(q) /\ n \in 0..Len(q) /\ Len(q) \in Nat /\ n >= 1 /\ n <= Len(q)
  OBVIOUS
<1>1. a \in Seq(T) /\ Len(a) = n - 1 /\ \A i \in 1..n-1 : a[i] = q[i]
  BY <1>0, SuffixIs
<1>2. b \in Seq(T) /\ Len(b) = Len(q) - n /\ \A i \in 1..Len(q)-n : b[i] = q[n+i]
  BY <1>0, SuffixIs
<1> HIDE DEF a, b
<1> DEFINE d == a \o b
<1>5. /\ d \in Seq(T) /\ Len(d) = Len(a) + Len(b)
      /\ \A i \in 1..Len(a) + Len(b) : d[i] = IF i <= Len(a) THEN a[i] ELSE b[i - Len(a)]
  BY <1>1, <1>2, ConcatProperties
<1>6. SubSeq(q, 1, n-1) \o SubSeq(q, n+1, Len(q)) = d
  BY DEF a, b
<1> HIDE DEF d
<1>7. Len(d) = Len(q) - 1
  BY <1>0, <1>1, <1>2, <1>5
<1>8. ASSUME NEW i \in 1..Len(q)-1
      PROVE  d[i] = IF i < n THEN q[i] ELSE q[i+1]
  <2>1. i \in 1..Len(a) + Len(b) /\ i \in Int
    BY <1>0, <1>1, <1>2
  <2>2. CASE i < n
    <3>1. i \in 1..n-1 /\ i <= Len(a)
      BY <1>0, <1>1, <2>1, <2>2
    <3> QED
      BY <1>1, <1>5, <2>1, <2>2, <3>1
  <2>3. CASE ~(i < n)
    <3>1. ~(i <= Len(a)) /\ i - Len(a) \in 1..Len(q)-n /\ n + (i - Len(a)) = i + 1
      BY <1>0, <1>1, <2>1, <2>3
    <3> QED
      BY <1>2, <1>5, <2>1, <2>3, <3>1
  <2> QED
    BY <2>2, <2>3
<1> QED
  BY <1>5, <1>6, <1>7, <1>8

\* r is q with e put in before its n-th element.
Inserted(T, r, q, n, e) ==
    /\ r \in Seq(T) /\ Len(r) = Len(q) + 1
    /\ \A i \in 1..Len(q)+1 : r[i] = IF i < n THEN q[i] ELSE IF i = n THEN e ELSE q[i-1]

LEMMA InsertIs ==
    ASSUME NEW T, NEW q \in Seq(T), NEW n \in 1..Len(q)+1, NEW e \in T
    PROVE  Inserted(T, SubSeq(q, 1, n-1) \o <<e>> \o SubSeq(q, n, Len(q)), q, n, e)
<1> DEFINE a == SubSeq(q, 1, n-1)
           b == SubSeq(q, n, Len(q))
<1>0. n \in Int /\ n - 1 \in Int /\ Len(q) \in Nat /\ n >= 1 /\ n <= Len(q) + 1
  OBVIOUS
<1>1. /\ a \in Seq(T) /\ Len(a) = n - 1
      /\ \A i \in 1..n-1 : a[i] = q[i]
  <2>1. \A i \in 1..n-1 : q[i] \in T
    BY <1>0, ElementOfSeq
  <2>2. /\ a \in Seq(T)
        /\ Len(a) = IF 1 <= n-1 THEN (n-1)-1+1 ELSE 0
        /\ \A i \in 1..(n-1)-1+1 : a[i] = q[1+i-1]
    BY <1>0, <2>1, SubSeqProperties
  <2> QED
    BY <1>0, <2>2
<1>2. /\ b \in Seq(T) /\ Len(b) = Len(q) - n + 1
      /\ \A i \in 1..Len(q)-n+1 : b[i] = q[n+i-1]
  <2>1. \A i \in n..Len(q) : q[i] \in T
    BY <1>0, ElementOfSeq
  <2>2. /\ b \in Seq(T)
        /\ Len(b) = IF n <= Len(q) THEN Len(q)-n+1 ELSE 0
        /\ \A i \in 1..Len(q)-n+1 : b[i] = q[n+i-1]
    BY <1>0, <2>1, SubSeqProperties
  <2> QED
    BY <1>0, <2>2
<1> HIDE DEF a, b
<1>3. <<e>> \in Seq(T) /\ Len(<<e>>) = 1 /\ <<e>>[1] = e
  OBVIOUS
<1> DEFINE c == a \o <<e>>
<1>4. /\ c \in Seq(T) /\ Len(c) = n
      /\ \A i \in 1..n : c[i] = IF i < n THEN q[i] ELSE e
  <2>1. /\ c \in Seq(T) /\ Len(c) = Len(a) + Len(<<e>>)
        /\ \A i \in 1..Len(a) + Len(<<e>>) : c[i] = IF i <= Len(a) THEN a[i] ELSE <<e>>[i - Len(a)]
    BY <1>1, <1>3, ConcatProperties
  <2> QED
    BY <1>0, <1>1, <1>3, <2>1
<1> HIDE DEF c
<1> DEFINE d == c \o b
<1>5. /\ d \in Seq(T) /\ Len(d) = Len(c) + Len(b)
      /\ \A i \in 1..Len(c) + Len(b) : d[i] = IF i <= Len(c) THEN c[i] ELSE b[i - Len(c)]
  BY <1>2, <1>4, ConcatProperties
<1>6. SubSeq(q, 1, n-1) \o <<e>> \o SubSeq(q, n, Len(q)) = d
  BY DEF a, b, c
<1> HIDE DEF d
<1>7. Len(d) = Len(q) + 1
  BY <1>0, <1>2, <1>4, <1>5
<1>8. ASSUME NEW i \in 1..Len(q)+1
      PROVE  d[i] = IF i < n THEN q[i] ELSE IF i = n THEN e ELSE q[i-1]
  <2>1. i \in Int /\ i \in 1..Len(c) + Len(b)
    BY <1>0, <1>2, <1>4
  <2>2. CASE i <= n
    <3>1. i \in 1..n /\ i <= Len(c)
      BY <1>0, <1>4, <2>1, <2>2
    <3> QED
      BY <1>4, <1>5, <2>1, <2>2, <3>1
  <2>3. CASE ~(i <= n)
    <3>1. ~(i <= Len(c)) /\ i - Len(c) \in 1..Len(q)-n+1 /\ n + (i - Len(c)) - 1 = i - 1
      BY <1>0, <1>4, <2>1, <2>3
    <3>2. d[i] = b[i - Len(c)]
      BY <1>5, <2>1, <3>1
    <3>3. b[i - Len(c)] = q[n + (i - Len(c)) - 1]
      BY <1>2, <3>1
    <3> QED
      BY <1>0, <2>1, <2>3, <3>1, <3>2, <3>3
  <2> QED
    BY <2>2, <2>3
<1> QED
  BY <1>5, <1>6, <1>7, <1>8 DEF Inserted

\* The remainder of what is one turn away at most.
LEMMA TurnIs ==
  ASSUME NEW n \in Nat \ {0}, NEW x \in Int, NEW r \in 0..(n - 1), x = r \/ x = r + n \/ x = r - n
  PROVE  x % n = r
<1>1. x % n \in 0..(n - 1) /\ x = n * (x \div n) + (x % n)
  OBVIOUS
<1> DEFINE q == x \div n
           y == x % n
<1>2. q \in Int /\ y \in 0..(n - 1) /\ x = n * q + y
  BY <1>1
<1> HIDE DEF q, y
<1>3. CASE x = r
  BY <1>2, <1>3 DEF y
<1>4. CASE x = r + n
  BY <1>2, <1>4 DEF y
<1>5. CASE x = r - n
  BY <1>2, <1>5 DEF y
<1> QED
  BY <1>3, <1>4, <1>5

\* An image under what tells its elements apart has as many elements.
LEMMA ImageCount ==
  ASSUME NEW S, IsFiniteSet(S), NEW f, \A x, y \in S : f[x] = f[y] => x = y,
         NEW T, \A t : t \in T <=> \E x \in S : t = f[x]
  PROVE  IsFiniteSet(T) /\ Cardinality(T) = Cardinality(S)
<1> DEFINE g == [x \in S |-> f[x]]
<1>1. g \in [S -> T] /\ (\A x, y \in S : g[x] = g[y] => x = y) /\ \A t \in T : \E x \in S : g[x] = t
  OBVIOUS
<1> HIDE DEF g
<1>2. g \in Bijection(S, T)
  BY <1>1 DEF Bijection, Injection, Surjection, IsInjective
<1> QED
  BY <1>2, FS_Bijection DEF ExistsBijection

LEMMA ApartCount ==
  ASSUME NEW S, IsFiniteSet(S), NEW T, IsFiniteSet(T), S \cap T = {}
  PROVE  IsFiniteSet(S \cup T) /\ Cardinality(S \cup T) = Cardinality(S) + Cardinality(T)
<1>1. /\ IsFiniteSet(S \cup T)
      /\ Cardinality(S \cup T) = Cardinality(S) + Cardinality(T) - Cardinality(S \cap T)
  BY FS_Union
<1>2. Cardinality(S \cap T) = 0 /\ Cardinality(S) \in Nat /\ Cardinality(T) \in Nat
  BY FS_EmptySet, FS_CardinalityType
<1> QED
  BY <1>1, <1>2

=============================================================================
