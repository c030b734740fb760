--------------------------- MODULE ServicesProofs ---------------------------
(***************************************************************************)
(* The heap and the buffer pools stay sound, whatever memory the boot      *)
(* loader lists, whatever is asked for and however calls follow each other;*)
(* and ports keep their messages, whatever is deleted, reset and created   *)
(* again.                                                                  *)
(***************************************************************************)
EXTENDS Memory, Ports, DataLemmas


-----------------------------------------------------------------------------
(* Free lists *)

Block == [addr : Nat, len : Nat]
End(b) == b.addr + b.len

\* The blocks of a free list are not empty and in order, and no two of them touch.
GoodList(l) ==
  /\ l \in Seq(Block)
  /\ \A i \in DOMAIN l : l[i].len > 0
  /\ \A i, j \in DOMAIN l : i < j => End(l[i]) < l[j].addr

FreeCells(l) == UNION {Cells(l[i].addr, l[i].len) : i \in DOMAIN l}

\* What can be used of a good list without looking into it.
LEMMA ListIs ==
  ASSUME NEW l, GoodList(l)
  PROVE  /\ l \in Seq(Block) /\ Len(l) \in Nat /\ DOMAIN l = 1..Len(l)
         /\ \A i \in 1..Len(l) : l[i] \in Block /\ l[i].addr \in Nat /\ l[i].len \in Nat /\ l[i].len > 0
         /\ \A i, j \in 1..Len(l) : i < j => End(l[i]) < l[j].addr
         /\ \A c : c \in FreeCells(l) <=>
              c \in Nat /\ \E i \in 1..Len(l) : l[i].addr <= c /\ c < End(l[i])
<1>1. l \in Seq(Block) /\ Len(l) \in Nat /\ DOMAIN l = 1..Len(l)
  BY DEF GoodList
<1>2. \A i \in 1..Len(l) : l[i] \in Block
  BY <1>1, ElementOfSeq
<1>3. \A i \in 1..Len(l) : l[i].addr \in Nat /\ l[i].len \in Nat /\ l[i].len > 0
  BY <1>1, <1>2 DEF GoodList, Block
<1>4. \A i, j \in 1..Len(l) : i < j => End(l[i]) < l[j].addr
  BY <1>1 DEF GoodList
<1>5. ASSUME NEW c
      PROVE  c \in FreeCells(l) <=> c \in Nat /\ \E i \in 1..Len(l) : l[i].addr <= c /\ c < End(l[i])
  <2>1. c \in FreeCells(l) <=> \E i \in 1..Len(l) : c \in Cells(l[i].addr, l[i].len)
    BY <1>1 DEF FreeCells
  <2>2. ASSUME NEW i \in 1..Len(l)
        PROVE  c \in Cells(l[i].addr, l[i].len) <=> c \in Nat /\ l[i].addr <= c /\ c < End(l[i])
    BY <1>3, <2>2 DEF Cells, End
  <2> QED
    BY <2>1, <2>2
<1> QED
  BY <1>1, <1>2, <1>3, <1>4, <1>5

LEMMA CellsAre ==
  ASSUME NEW a \in Nat, NEW n \in Nat
  PROVE  \A c : c \in Cells(a, n) <=> c \in Nat /\ a <= c /\ c < a + n
  BY DEF Cells

\* A list without its i-th block.
LEMMA WithoutIs ==
  ASSUME NEW T, NEW l \in Seq(T), NEW i \in 1..Len(l)
  PROVE  /\ Without(l, i) \in Seq(T)
         /\ Len(Without(l, i)) = Len(l) - 1
         /\ \A k \in 1..Len(l)-1 : Without(l, i)[k] = IF k < i THEN l[k] ELSE l[k+1]
  BY CutIs DEF Without

\* A block leaves the list.
LEMMA WithoutGood ==
  ASSUME NEW l, GoodList(l), NEW i \in 1..Len(l)
  PROVE  /\ GoodList(Without(l, i))
         /\ FreeCells(Without(l, i)) = FreeCells(l) \ Cells(l[i].addr, l[i].len)
<1> DEFINE r == Without(l, i)
<1>1. /\ l \in Seq(Block) /\ Len(l) \in Nat /\ DOMAIN l = 1..Len(l)
      /\ \A k \in 1..Len(l) : l[k] \in Block /\ l[k].addr \in Nat /\ l[k].len \in Nat /\ l[k].len > 0
      /\ \A j, k \in 1..Len(l) : j < k => End(l[j]) < l[k].addr
      /\ \A c : c \in FreeCells(l) <=> c \in Nat /\ \E k \in 1..Len(l) : l[k].addr <= c /\ c < End(l[k])
  BY ListIs
<1>2. /\ r \in Seq(Block) /\ Len(r) = Len(l) - 1
      /\ \A k \in 1..Len(l)-1 : r[k] = IF k < i THEN l[k] ELSE l[k+1]
  <2>1. l \in Seq(Block)
    BY <1>1
  <2> HIDE DEF r
  <2>2. r = Without(l, i)
    BY DEF r
  <2> QED
    BY <2>1, <2>2, WithoutIs
<1> HIDE DEF r
<1>3. DOMAIN r = 1..Len(r) /\ Len(r) = Len(l) - 1
  BY <1>2
<1>4. GoodList(r)
  <2>1. \A k \in 1..Len(r) : r[k].len > 0
    BY <1>1, <1>2
  <2>2. \A j, k \in 1..Len(r) : j < k => End(r[j]) < r[k].addr
    BY <1>1, <1>2
  <2> QED
    BY <1>2, <1>3, <2>1, <2>2 DEF GoodList
<1>5. \A c : c \in FreeCells(r) <=> c \in Nat /\ \E k \in 1..Len(r) : r[k].addr <= c /\ c < End(r[k])
  BY <1>4, ListIs
<1>6. ASSUME NEW c \in Nat
      PROVE  (\E k \in 1..Len(r) : r[k].addr <= c /\ c < End(r[k])) <=>
               (\E k \in 1..Len(l) : k # i /\ l[k].addr <= c /\ c < End(l[k]))
  <2>1. ASSUME NEW k \in 1..Len(r), r[k].addr <= c, c < End(r[k])
        PROVE  \E j \in 1..Len(l) : j # i /\ l[j].addr <= c /\ c < End(l[j])
    <3>1. CASE k < i
      BY <1>1, <1>2, <2>1, <3>1
    <3>2. CASE ~(k < i)
      <4>1. k + 1 \in 1..Len(l) /\ k + 1 # i /\ r[k] = l[k + 1]
        BY <1>1, <1>2, <3>2
      <4> QED
        BY <2>1, <4>1
    <3> QED
      BY <3>1, <3>2
  <2>2. ASSUME NEW k \in 1..Len(l), k # i, l[k].addr <= c, c < End(l[k])
        PROVE  \E j \in 1..Len(r) : r[j].addr <= c /\ c < End(r[j])
    <3>1. CASE k < i
      <4>1. k \in 1..Len(r) /\ k \in 1..Len(l)-1 /\ r[k] = l[k]
        BY <1>1, <1>2, <3>1
      <4> QED
        BY <2>2, <4>1
    <3>2. CASE k > i
      <4>1. k - 1 \in 1..Len(r) /\ k - 1 \in 1..Len(l)-1 /\ ~(k - 1 < i) /\ (k - 1) + 1 = k
        BY <1>1, <1>2, <3>2
      <4>2. r[k - 1] = l[k]
        BY <1>2, <4>1
      <4> QED
        BY <2>2, <4>1, <4>2
    <3> QED
      BY <2>2, <3>1, <3>2
  <2> QED
    BY <2>1, <2>2
<1>7. ASSUME NEW c
      PROVE  c \in FreeCells(r) <=> c \in FreeCells(l) \ Cells(l[i].addr, l[i].len)
  <2>1. c \in Cells(l[i].addr, l[i].len) <=> c \in Nat /\ l[i].addr <= c /\ c < End(l[i])
    BY <1>1 DEF Cells, End
  <2>2. ASSUME NEW k \in 1..Len(l), k # i, c \in Nat, l[k].addr <= c, c < End(l[k])
        PROVE  ~(l[i].addr <= c /\ c < End(l[i]))
    BY <1>1, <2>2 DEF End
  <2> QED
    BY <1>1, <1>5, <1>6, <2>1, <2>2
<1> QED
  BY <1>4, <1>7 DEF r

\* In list r, a block m stands for the blocks of l between the p-th and the s-th.
Spliced(r, l, p, s, m) ==
  /\ r \in Seq(Block) /\ Len(r) = Len(l) + p + 2 - s
  /\ \A j \in 1..Len(r) : r[j] = IF j <= p THEN l[j] ELSE IF j = p + 1 THEN m ELSE l[j + s - p - 2]

LEMMA SplicedGood ==
  ASSUME NEW l, GoodList(l), NEW p \in 0..Len(l), NEW s \in p+1..Len(l)+1, NEW m \in Block, m.len > 0,
         NEW r, Spliced(r, l, p, s, m),
         p > 0 => End(l[p]) < m.addr,
         s <= Len(l) => End(m) < l[s].addr
  PROVE  /\ GoodList(r)
         /\ \A c : c \in FreeCells(r) <=>
              \/ c \in Cells(m.addr, m.len)
              \/ c \in Nat /\ \E k \in 1..Len(l) : (k <= p \/ k >= s) /\ l[k].addr <= c /\ c < End(l[k])
<1>1. /\ l \in Seq(Block) /\ Len(l) \in Nat /\ DOMAIN l = 1..Len(l)
      /\ \A k \in 1..Len(l) : l[k] \in Block /\ l[k].addr \in Nat /\ l[k].len \in Nat /\ l[k].len > 0
      /\ \A j, k \in 1..Len(l) : j < k => End(l[j]) < l[k].addr
  BY ListIs
<1>2. /\ r \in Seq(Block) /\ Len(r) = Len(l) + p + 2 - s /\ DOMAIN r = 1..Len(r) /\ Len(r) \in Nat
      /\ \A j \in 1..Len(r) : r[j] = IF j <= p THEN l[j] ELSE IF j = p + 1 THEN m ELSE l[j + s - p - 2]
  BY DEF Spliced
<1>3. m.addr \in Nat /\ m.len \in Nat /\ End(m) \in Nat /\ m.addr < End(m)
  BY DEF Block, End
<1>4. \A k \in 1..Len(l) : End(l[k]) \in Nat /\ l[k].addr < End(l[k])
  BY <1>1 DEF End
<1>5. \A k \in 1..Len(l) : k <= p => End(l[k]) < m.addr
  <2> TAKE k \in 1..Len(l)
  <2> HAVE k <= p
  <2>1. p \in 1..Len(l) /\ End(l[p]) < m.addr
    BY <1>1
  <2>2. CASE k = p
    BY <2>1, <2>2
  <2>3. CASE k < p
    BY <1>1, <1>3, <1>4, <2>1, <2>3
  <2> QED
    BY <2>2, <2>3
<1>6. \A k \in 1..Len(l) : k >= s => End(m) < l[k].addr
  <2> TAKE k \in 1..Len(l)
  <2> HAVE k >= s
  <2>1. s \in 1..Len(l) /\ End(m) < l[s].addr
    BY <1>1
  <2>2. CASE k = s
    BY <2>1, <2>2
  <2>3. CASE k > s
    BY <1>1, <1>3, <1>4, <2>1, <2>3
  <2> QED
    BY <2>2, <2>3
<1>7. ASSUME NEW j \in 1..Len(r)
      PROVE  /\ j <= p => j \in 1..Len(l) /\ r[j] = l[j]
             /\ j = p + 1 => r[j] = m
             /\ j > p + 1 => j + s - p - 2 \in 1..Len(l) /\ j + s - p - 2 >= s /\ r[j] = l[j + s - p - 2]
  BY <1>1, <1>2
<1>8. GoodList(r)
  <2>1. \A j \in 1..Len(r) : r[j].len > 0
    BY <1>1, <1>2, <1>7
  <2>2. ASSUME NEW j \in 1..Len(r), NEW k \in 1..Len(r), j < k
        PROVE  End(r[j]) < r[k].addr
    <3>1. CASE k <= p
      BY <1>1, <1>7, <2>2, <3>1
    <3>2. CASE k = p + 1
      BY <1>5, <1>7, <2>2, <3>2
    <3>3. CASE k > p + 1 /\ j <= p
      <4> DEFINE t == k + s - p - 2
      <4>1. t \in 1..Len(l) /\ j < t /\ r[k] = l[t] /\ r[j] = l[j] /\ j \in 1..Len(l)
        BY <1>7, <2>2, <3>3
      <4> QED
        BY <1>1, <4>1
    <3>4. CASE k > p + 1 /\ j = p + 1
      BY <1>6, <1>7, <3>4
    <3>5. CASE j > p + 1
      <4> DEFINE t == k + s - p - 2
                 u == j + s - p - 2
      <4>1. t \in 1..Len(l) /\ u \in 1..Len(l) /\ u < t /\ r[k] = l[t] /\ r[j] = l[u]
        BY <1>7, <2>2, <3>5
      <4> QED
        BY <1>1, <4>1
    <3> QED
      BY <2>2, <3>1, <3>2, <3>3, <3>4, <3>5
  <2> QED
    BY <1>2, <2>1, <2>2 DEF GoodList
<1>9. \A c : c \in FreeCells(r) <=> c \in Nat /\ \E j \in 1..Len(r) : r[j].addr <= c /\ c < End(r[j])
  BY <1>8, ListIs
<1>10. \A c : c \in Cells(m.addr, m.len) <=> c \in Nat /\ m.addr <= c /\ c < End(m)
  BY <1>3 DEF Cells, End
<1>11. ASSUME NEW c, c \in Nat, NEW j \in 1..Len(r), r[j].addr <= c, c < End(r[j])
       PROVE  \/ c \in Cells(m.addr, m.len)
              \/ \E k \in 1..Len(l) : (k <= p \/ k >= s) /\ l[k].addr <= c /\ c < End(l[k])
  <2>1. CASE j <= p
    BY <1>7, <1>11, <2>1
  <2>2. CASE j = p + 1
    BY <1>7, <1>10, <1>11, <2>2
  <2>3. CASE j > p + 1
    BY <1>7, <1>11, <2>3
  <2> QED
    BY <2>1, <2>2, <2>3
<1>12. ASSUME NEW c, c \in Cells(m.addr, m.len)
       PROVE  c \in FreeCells(r)
  <2>1. p + 1 \in 1..Len(r) /\ r[p + 1] = m
    BY <1>1, <1>2
  <2> QED
    BY <1>9, <1>10, <1>12, <2>1
<1>13. ASSUME NEW c, c \in Nat, NEW k \in 1..Len(l), k <= p \/ k >= s, l[k].addr <= c, c < End(l[k])
       PROVE  c \in FreeCells(r)
  <2>1. CASE k <= p
    <3>1. k \in 1..Len(r) /\ r[k] = l[k]
      BY <1>1, <1>2, <2>1
    <3> QED
      BY <1>9, <1>13, <3>1
  <2>2. CASE k >= s
    <3> DEFINE j == k - s + p + 2
    <3>1. j \in 1..Len(r) /\ ~(j <= p) /\ j # p + 1 /\ j + s - p - 2 = k
      BY <1>1, <1>2, <2>2
    <3> HIDE DEF j
    <3>2. r[j] = l[k]
      BY <1>2, <3>1
    <3> QED
      BY <1>9, <1>13, <3>1, <3>2
  <2> QED
    BY <1>13, <2>1, <2>2
<1> QED
  BY <1>8, <1>9, <1>11, <1>12, <1>13

\* Block i of the list is made smaller.
LEMMA ShrunkGood ==
  ASSUME NEW l, GoodList(l), NEW i \in 1..Len(l), NEW m \in Block, m.len > 0,
         l[i].addr <= m.addr, End(m) <= End(l[i]),
         NEW r, r = [l EXCEPT ![i] = m]
  PROVE  /\ GoodList(r)
         /\ \A c : c \in FreeCells(r) <=>
              c \in Cells(m.addr, m.len) \/ (c \in FreeCells(l) /\ c \notin Cells(l[i].addr, l[i].len))
<1>1. l \in Seq(Block)
  BY ListIs
<1>2. /\ Len(l) \in Nat /\ DOMAIN l = 1..Len(l)
      /\ \A k \in 1..Len(l) : l[k] \in Block /\ l[k].addr \in Nat /\ l[k].len \in Nat /\ l[k].len > 0
      /\ \A j, k \in 1..Len(l) : j < k => End(l[j]) < l[k].addr
      /\ \A c : c \in FreeCells(l) <=> c \in Nat /\ \E k \in 1..Len(l) : l[k].addr <= c /\ c < End(l[k])
  BY ListIs
<1>3. r \in Seq(Block) /\ Len(r) = Len(l) /\ \A j \in 1..Len(l) : r[j] = IF j = i THEN m ELSE l[j]
  BY <1>1, ExceptSeq
<1>4. Spliced(r, l, i - 1, i + 1, m)
  <2>1. Len(r) = Len(l) + (i - 1) + 2 - (i + 1)
    BY <1>2, <1>3
  <2>2. ASSUME NEW j \in 1..Len(r)
        PROVE  r[j] = IF j <= i - 1 THEN l[j] ELSE IF j = (i - 1) + 1 THEN m ELSE l[j + (i + 1) - (i - 1) - 2]
    <3>1. j + (i + 1) - (i - 1) - 2 = j /\ (i - 1) + 1 = i /\ (j = i => ~(j <= i - 1)) /\ j \in 1..Len(l)
      BY <1>2, <1>3
    <3> QED
      BY <1>3, <3>1
  <2> QED
    BY <1>3, <2>1, <2>2 DEF Spliced
<1>5. i - 1 \in 0..Len(l) /\ i + 1 \in (i - 1)+1..Len(l)+1 /\ i \in 1..Len(l)
  BY <1>2
<1>6. m.addr \in Nat /\ m.len \in Nat /\ \A k \in 1..Len(l) : End(l[k]) \in Nat
  BY <1>2 DEF Block, End
<1>7. i - 1 > 0 => End(l[i - 1]) < m.addr
  <2> HAVE i - 1 > 0
  <2>1. i - 1 \in 1..Len(l) /\ End(l[i - 1]) < l[i].addr
    BY <1>2
  <2> QED
    BY <1>2, <1>6, <2>1
<1>8. i + 1 <= Len(l) => End(m) < l[i + 1].addr
  <2> HAVE i + 1 <= Len(l)
  <2>1. i + 1 \in 1..Len(l) /\ End(l[i]) < l[i + 1].addr
    BY <1>2
  <2> QED
    BY <1>2, <1>6, <2>1 DEF End
<1>9. /\ GoodList(r)
      /\ \A c : c \in FreeCells(r) <=>
           \/ c \in Cells(m.addr, m.len)
           \/ c \in Nat /\ \E k \in 1..Len(l) : (k <= i - 1 \/ k >= i + 1) /\ l[k].addr <= c /\ c < End(l[k])
  <2> DEFINE p == i - 1
             t == i + 1
  <2>1. /\ p \in 0..Len(l) /\ t \in p+1..Len(l)+1 /\ Spliced(r, l, p, t, m)
        /\ p > 0 => End(l[p]) < m.addr
        /\ t <= Len(l) => End(m) < l[t].addr
    BY <1>4, <1>5, <1>7, <1>8
  <2> HIDE DEF p, t
  <2>2. /\ GoodList(r)
        /\ \A c : c \in FreeCells(r) <=>
             \/ c \in Cells(m.addr, m.len)
             \/ c \in Nat /\ \E k \in 1..Len(l) : (k <= p \/ k >= t) /\ l[k].addr <= c /\ c < End(l[k])
    BY <2>1, SplicedGood
  <2> QED
    BY <2>2 DEF p, t
<1>10. \A c : c \in Cells(l[i].addr, l[i].len) <=> c \in Nat /\ l[i].addr <= c /\ c < End(l[i])
  BY <1>2 DEF Cells, End
<1>11. ASSUME NEW c, c \in Nat, NEW k \in 1..Len(l), l[k].addr <= c, c < End(l[k])
       PROVE  (k <= i - 1 \/ k >= i + 1) <=> ~(l[i].addr <= c /\ c < End(l[i]))
  <2>1. CASE k = i
    BY <1>2, <1>11, <2>1
  <2>2. CASE k < i
    <3>1. End(l[k]) < l[i].addr
      BY <1>2, <2>2
    <3> QED
      BY <1>2, <1>6, <1>11, <2>2, <3>1
  <2>3. CASE k > i
    <3>1. End(l[i]) < l[k].addr
      BY <1>2, <2>3
    <3> QED
      BY <1>2, <1>6, <1>11, <2>3, <3>1
  <2> QED
    BY <1>2, <2>1, <2>2, <2>3
<1>12. ASSUME NEW c
       PROVE  (c \in Nat /\ \E k \in 1..Len(l) : (k <= i - 1 \/ k >= i + 1) /\ l[k].addr <= c /\ c < End(l[k]))
                <=> c \in FreeCells(l) /\ c \notin Cells(l[i].addr, l[i].len)
  BY <1>2, <1>10, <1>11
<1> QED
  BY <1>9, <1>12

\* Of block b, the R cells from a are taken, at one of its ends, and block m is left.
Leaves(b, a, R, m) ==
  /\ m \in Block /\ a \in Nat /\ R \in Nat /\ R > 0 /\ R < b.len /\ m.len = b.len - R
  /\ \/ a = b.addr /\ m.addr = b.addr + R
     \/ m.addr = b.addr /\ a = b.addr + m.len

LEMMA LeavesIs ==
  ASSUME NEW b \in Block, NEW a, NEW R, NEW m, Leaves(b, a, R, m)
  PROVE  /\ m \in Block /\ m.len > 0 /\ b.addr <= m.addr /\ End(m) <= End(b)
         /\ \A c : c \in Cells(b.addr, b.len) <=> c \in Cells(m.addr, m.len) \/ c \in Cells(a, R)
         /\ \A c : ~(c \in Cells(m.addr, m.len) /\ c \in Cells(a, R))
<1>1. PICK x \in Nat, y \in Nat, u \in Nat, v \in Nat : b.addr = x /\ b.len = y /\ m.addr = u /\ m.len = v
  BY DEF Leaves, Block
<1>2. /\ m \in Block /\ a \in Nat /\ R \in Nat /\ R > 0 /\ R < y /\ v = y - R
      /\ \/ a = x /\ u = x + R
         \/ u = x /\ a = x + v
  BY <1>1 DEF Leaves
<1>3. End(b) = x + y /\ End(m) = u + v
  BY <1>1 DEF End
<1>4. v > 0 /\ x <= u /\ u + v <= x + y
  BY <1>1, <1>2
<1>5. /\ \A c : c \in Cells(x, y) <=> c \in Nat /\ x <= c /\ c < x + y
      /\ \A c : c \in Cells(u, v) <=> c \in Nat /\ u <= c /\ c < u + v
      /\ \A c : c \in Cells(a, R) <=> c \in Nat /\ a <= c /\ c < a + R
  BY <1>2, CellsAre
<1>6. ASSUME NEW c \in Nat
      PROVE  /\ (x <= c /\ c < x + y) <=> ((u <= c /\ c < u + v) \/ (a <= c /\ c < a + R))
             /\ ~(u <= c /\ c < u + v /\ a <= c /\ c < a + R)
  <2>1. CASE a = x /\ u = x + R
    BY <1>2, <2>1
  <2>2. CASE u = x /\ a = x + v
    BY <1>2, <2>2
  <2> QED
    BY <1>2, <2>1, <2>2
<1> QED
  BY <1>1, <1>2, <1>3, <1>4, <1>5, <1>6

LEMMA TakenGood ==
  ASSUME NEW l, GoodList(l), NEW i \in 1..Len(l), NEW a, NEW R, NEW m, Leaves(l[i], a, R, m)
  PROVE  /\ GoodList([l EXCEPT ![i] = m])
         /\ \A c : c \in FreeCells([l EXCEPT ![i] = m]) <=> c \in FreeCells(l) /\ c \notin Cells(a, R)
<1> DEFINE r == [l EXCEPT ![i] = m]
<1>1. l[i] \in Block
  BY ListIs
<1>2. /\ m \in Block /\ m.len > 0 /\ l[i].addr <= m.addr /\ End(m) <= End(l[i])
      /\ \A c : c \in Cells(l[i].addr, l[i].len) <=> c \in Cells(m.addr, m.len) \/ c \in Cells(a, R)
      /\ \A c : ~(c \in Cells(m.addr, m.len) /\ c \in Cells(a, R))
  BY <1>1, LeavesIs
<1> HIDE DEF r
<1>r. r = [l EXCEPT ![i] = m]
  BY DEF r
<1>3. /\ GoodList(r)
      /\ \A c : c \in FreeCells(r) <=>
           c \in Cells(m.addr, m.len) \/ (c \in FreeCells(l) /\ c \notin Cells(l[i].addr, l[i].len))
  BY <1>2, <1>r, ShrunkGood
<1>4. \A c : c \in Cells(l[i].addr, l[i].len) => c \in FreeCells(l)
  <2>1. DOMAIN l = 1..Len(l)
    BY ListIs
  <2> QED
    BY <2>1 DEF FreeCells
<1> QED
  BY <1>2, <1>3, <1>4 DEF r

-----------------------------------------------------------------------------
(* getmem and getstk *)

LEMMA Quotient ==
  ASSUME NEW x \in Nat, NEW d \in Nat \ {0}, NEW q, q = x \div d, NEW r, r = x % d
  PROVE  q \in Nat /\ r \in 0..d-1 /\ q * d \in Nat /\ q * d + r = x
<1>1. q \in Nat /\ r \in 0..d-1 /\ x = d * q + r
  OBVIOUS
<1>2. q * d = d * q /\ q * d \in Nat
  BY <1>1
<1> QED
  BY <1>1, <1>2

\* A request is rounded up.
LEMMA RoundIs ==
  ASSUME NEW n \in Nat
  PROVE  Round(n) \in Nat /\ Round(n) >= n
<1> DEFINE x == n + MB - 1
           q == x \div MB
           r == x % MB
<1>1. MB \in Nat \ {0} /\ x \in Nat
  BY MemoryAssump
<1>2. q \in Nat /\ r \in 0..MB-1 /\ q * MB \in Nat /\ q * MB + r = x
  <2> HIDE DEF x
  <2> QED
    BY <1>1, Quotient
<1>3. Round(n) = q * MB
  BY DEF Round
<1> HIDE DEF q, r
<1> QED
  BY <1>1, <1>2, <1>3

LEMMA LowestIs ==
  ASSUME NEW S \in SUBSET Nat, S # {}
  PROVE  Lowest(S) \in S /\ \A y \in S : Lowest(S) <= y
  BY LeastNat DEF Lowest

LEMMA HighestIs ==
  ASSUME NEW S \in SUBSET Nat, S # {}, NEW n \in Nat, \A y \in S : y <= n
  PROVE  Highest(S) \in S /\ \A y \in S : Highest(S) >= y
<1> DEFINE U == {b \in Nat : \A y \in S : y <= b}
<1>1. n \in U
  OBVIOUS
<1>2. PICK b \in U : \A u \in U : b <= u
  BY <1>1, LeastNat
<1>3. b \in S
  <2> SUFFICES ASSUME b \notin S
               PROVE  FALSE
    OBVIOUS
  <2>1. b > 0
    <3>1. PICK y \in S : TRUE
      OBVIOUS
    <3>2. y \in Nat /\ b \in Nat /\ y <= b /\ y # b
      BY <1>2, <3>1
    <3> QED
      BY <3>2
  <2>2. b - 1 \in U
    BY <1>2, <2>1
  <2> QED
    BY <1>2, <2>2
<1>4. \E x \in S : \A y \in S : x >= y
  BY <1>2, <1>3
<1> QED
  BY <1>4 DEF Highest

\* getmem takes memory from the free list, and leaves a good list.
LEMMA GetmemTakes ==
  ASSUME GoodList(freelist), NEW n \in Nat, GetmemAddr(n) # NULL
  PROVE  /\ n > 0 /\ GetmemAddr(n) \in Nat
         /\ GoodList(GetmemList(n))
         /\ Cells(GetmemAddr(n), Round(n)) \subseteq FreeCells(freelist)
         /\ FreeCells(GetmemList(n)) = FreeCells(freelist) \ Cells(GetmemAddr(n), Round(n))
<1> DEFINE i == Lowest(Fits(n))
           R == Round(n)
           m == [addr |-> freelist[i].addr + R, len |-> freelist[i].len - R]
<1>1. /\ Len(freelist) \in Nat /\ DOMAIN freelist = 1..Len(freelist)
      /\ \A k \in 1..Len(freelist) :
           freelist[k].addr \in Nat /\ freelist[k].len \in Nat /\ freelist[k].len > 0
      /\ \A c : c \in FreeCells(freelist) <=>
           c \in Nat /\ \E k \in 1..Len(freelist) : freelist[k].addr <= c /\ c < End(freelist[k])
  BY ListIs
<1>2. n > 0 /\ Fits(n) # {} /\ GetmemAddr(n) = freelist[i].addr
  BY DEF GetmemAddr
<1>3. i \in 1..Len(freelist) /\ freelist[i].len >= R
  <2>1. Fits(n) \in SUBSET Nat /\ \A k \in Fits(n) : k \in 1..Len(freelist) /\ freelist[k].len >= Round(n)
    BY <1>1 DEF Fits
  <2>2. Lowest(Fits(n)) \in Fits(n)
    BY <1>2, <2>1, LowestIs
  <2> QED
    BY <2>1, <2>2
<1>4. R \in Nat /\ R > 0
  BY <1>2, RoundIs
<1>5. GetmemList(n) = IF freelist[i].len = R THEN Without(freelist, i) ELSE [freelist EXCEPT ![i] = m]
  BY DEF GetmemList
<1> HIDE DEF i, R
<1>6. \A c : c \in Cells(freelist[i].addr, R) <=> c \in Nat /\ freelist[i].addr <= c /\ c < freelist[i].addr + R
  BY <1>1, <1>3, <1>4 DEF Cells
<1>7. Cells(freelist[i].addr, R) \subseteq FreeCells(freelist)
  BY <1>1, <1>3, <1>4, <1>6 DEF End
<1>8. CASE freelist[i].len = R
  BY <1>3, <1>5, <1>8, WithoutGood, <1>7, <1>2, <1>1 DEF R
<1>9. CASE freelist[i].len # R
  <2>1. Leaves(freelist[i], freelist[i].addr, R, m)
    BY <1>1, <1>3, <1>4, <1>9 DEF Leaves, Block
  <2> HIDE DEF m
  <2>2. GetmemList(n) = [freelist EXCEPT ![i] = m]
    BY <1>5, <1>9
  <2>3. /\ GoodList([freelist EXCEPT ![i] = m])
        /\ \A c : c \in FreeCells([freelist EXCEPT ![i] = m])
              <=> c \in FreeCells(freelist) /\ c \notin Cells(freelist[i].addr, R)
    BY <1>3, <2>1, TakenGood
  <2> QED
    BY <1>1, <1>2, <1>3, <1>7, <2>2, <2>3 DEF R
<1> QED
  BY <1>8, <1>9

\* getstk takes it too, from the other end of the last block that fits.
LEMMA GetstkTakes ==
  ASSUME GoodList(freelist), NEW n \in Nat, n > 0, Fits(n) # {},
         NEW i, i = Highest(Fits(n)),
         NEW a, a = freelist[i].addr + freelist[i].len - Round(n),
         NEW r, r = IF freelist[i].len = Round(n) THEN Without(freelist, i)
                    ELSE [freelist EXCEPT ![i].len = @ - Round(n)]
  PROVE  /\ a \in Nat /\ GoodList(r)
         /\ Cells(a, Round(n)) \subseteq FreeCells(freelist)
         /\ FreeCells(r) = FreeCells(freelist) \ Cells(a, Round(n))
<1> DEFINE R == Round(n)
           m == [addr |-> freelist[i].addr, len |-> freelist[i].len - R]
<1>0. GoodList(freelist)
  OBVIOUS
<1>1. /\ Len(freelist) \in Nat /\ DOMAIN freelist = 1..Len(freelist)
      /\ \A k \in 1..Len(freelist) :
           freelist[k] \in Block /\ freelist[k].addr \in Nat /\ freelist[k].len \in Nat /\ freelist[k].len > 0
      /\ \A c : c \in FreeCells(freelist) <=>
           c \in Nat /\ \E k \in 1..Len(freelist) : freelist[k].addr <= c /\ c < End(freelist[k])
  BY ListIs
<1>3. i \in 1..Len(freelist) /\ freelist[i].len >= R
  <2>1. Fits(n) \in SUBSET Nat /\ \A k \in Fits(n) : k \in 1..Len(freelist) /\ freelist[k].len >= Round(n)
    BY <1>1 DEF Fits
  <2>2. \A k \in Fits(n) : k <= Len(freelist)
    BY <1>1, <2>1
  <2>3. Highest(Fits(n)) \in Fits(n)
    BY <1>1, <2>1, <2>2, HighestIs
  <2> QED
    BY <2>1, <2>3
<1>4. R \in Nat /\ R > 0
  BY RoundIs
<1>5. r = IF freelist[i].len = R THEN Without(freelist, i) ELSE [freelist EXCEPT ![i].len = @ - R]
  OBVIOUS
<1> HIDE DEF R
<1>a. a = freelist[i].addr + freelist[i].len - R
  BY DEF R
<1>b. a \in Nat /\ a >= freelist[i].addr /\ a + R = End(freelist[i])
  BY <1>1, <1>3, <1>4, <1>a DEF End
<1>6. \A c : c \in Cells(a, R) <=> c \in Nat /\ a <= c /\ c < End(freelist[i])
  BY <1>4, <1>b DEF Cells
<1>7. Cells(a, R) \subseteq FreeCells(freelist)
  BY <1>1, <1>3, <1>4, <1>b, <1>6
<1>8. CASE freelist[i].len = R
  <2>1. r = Without(freelist, i) /\ a = freelist[i].addr
    BY <1>1, <1>3, <1>4, <1>5, <1>8, <1>a
  <2> QED
    BY <1>3, <1>7, <1>8, <1>b, <2>1, WithoutGood DEF R
<1>9. CASE freelist[i].len # R
  <2>1. Leaves(freelist[i], a, R, m)
    BY <1>1, <1>3, <1>4, <1>9, <1>a, <1>b DEF Leaves, Block
  <2>2. r = [freelist EXCEPT ![i] = m]
    <3>1. [freelist[i] EXCEPT !.len = @ - R] = m
      BY <1>1, <1>3 DEF Block
    <3>2. r = [freelist EXCEPT ![i] = [freelist[i] EXCEPT !.len = @ - R]]
      BY <1>5, <1>9
    <3> HIDE DEF m
    <3> QED
      BY <3>1, <3>2
  <2> HIDE DEF m
  <2>3. /\ GoodList([freelist EXCEPT ![i] = m])
        /\ \A c : c \in FreeCells([freelist EXCEPT ![i] = m])
              <=> c \in FreeCells(freelist) /\ c \notin Cells(a, R)
    BY ONLY <1>0, <1>3, <2>1, TakenGood
  <2> QED
    BY <1>7, <1>b, <2>2, <2>3 DEF R
<1> QED
  BY <1>8, <1>9

-----------------------------------------------------------------------------
(* freemem *)

\* A set of the first numbers of 1..n is told by how many they are.
LEMMA Initial ==
  ASSUME NEW n \in Nat, NEW S \in SUBSET (1..n), \A i \in S, j \in 1..n : j < i => j \in S
  PROVE  Cardinality(S) \in 0..n /\ S = 1..Cardinality(S)
<1>1. CASE S = {}
  BY <1>1, FS_EmptySet
<1>2. CASE S # {}
  <2> DEFINE h == Highest(S)
  <2>1. S \in SUBSET Nat /\ \A y \in S : y <= n
    OBVIOUS
  <2>2. h \in S /\ \A y \in S : h >= y
    BY <1>2, <2>1, HighestIs
  <2> HIDE DEF h
  <2>3. S = 1..h /\ h \in 1..n
    <3>1. h \in 1..n /\ S \subseteq 1..h
      BY <2>2
    <3>2. ASSUME NEW j \in 1..h
          PROVE  j \in S
      BY <2>2, <3>1
    <3> QED
      BY <3>1, <3>2
  <2>4. Cardinality(1..h) = h
    <3>1. h \in Int /\ 1 \in Int /\ h >= 1
      BY <2>3
    <3>2. Cardinality(1..h) = IF 1 > h THEN 0 ELSE h - 1 + 1
      BY <3>1, FS_Interval
    <3> QED
      BY <3>1, <3>2
  <2> QED
    BY <2>3, <2>4
<1> QED
  BY <1>1, <1>2

LEMMA BeforeIs ==
  ASSUME NEW l, GoodList(l), NEW a \in Nat
  PROVE  /\ Before(l, a) \in 0..Len(l)
         /\ \A i \in 1..Len(l) : l[i].addr < a <=> i <= Before(l, a)
<1> DEFINE S == {i \in DOMAIN l : l[i].addr < a}
<1>1. /\ Len(l) \in Nat /\ DOMAIN l = 1..Len(l)
      /\ \A i \in 1..Len(l) : l[i].addr \in Nat /\ l[i].len \in Nat
      /\ \A i, j \in 1..Len(l) : i < j => End(l[i]) < l[j].addr
  BY ListIs
<1>2. S \in SUBSET (1..Len(l))
  BY <1>1
<1>3. ASSUME NEW i \in S, NEW j \in 1..Len(l), j < i
      PROVE  j \in S
  BY <1>1, <1>3 DEF End
<1>4. Before(l, a) = Cardinality(S)
  BY DEF Before
<1>5. \A i \in 1..Len(l) : l[i].addr < a <=> i \in S
  BY <1>1
<1> HIDE DEF S
<1>6. Cardinality(S) \in 0..Len(l) /\ S = 1..Cardinality(S)
  BY <1>1, <1>2, <1>3, Initial
<1> QED
  BY <1>1, <1>4, <1>5, <1>6

\* The place c is in one of the blocks of l after the p-th and before the s-th.
InBlocks(l, p, s, c) == \E i \in 1..Len(l) : p < i /\ i < s /\ l[i].addr <= c /\ c < End(l[i])

\* The end of the list once the freed cells are joined with the block before them.
Joined(r, l, k, p, b) ==
  /\ r \in Seq(Block) /\ Len(r) = p + 1 /\ r[p + 1] = b /\ b \in Block
  /\ \A j \in 1..p : r[j] = l[j]
  /\ p \in 0..k /\ (p > 0 => End(l[p]) < b.addr)

LEMMA LongerIs ==
  ASSUME NEW b \in Block, NEW z
  PROVE  [b EXCEPT !.len = @ + z] = [addr |-> b.addr, len |-> b.len + z]
  BY DEF Block

LEMMA JoinPreviousIs ==
  ASSUME NEW l, GoodList(l), NEW a \in Nat \ {0}, NEW n \in Nat, n > 0,
         NEW k, k = Before(l, a), k > 0 => End(l[k]) <= a
  PROVE  \E p \in 0..k, b \in Block :
           /\ Joined(JoinPrevious(l, a, n), l, k, p, b)
           /\ End(b) = a + Round(n) /\ b.len > 0
           /\ \A c : c \in Cells(b.addr, b.len) <=> c \in Cells(a, Round(n)) \/ (c \in Nat /\ InBlocks(l, p, k + 1, c))
<1> DEFINE R == Round(n)
           front == SubSeq(l, 1, k)
           r == JoinPrevious(l, a, n)
<1>1. /\ Len(l) \in Nat /\ DOMAIN l = 1..Len(l)
      /\ \A i \in 1..Len(l) : l[i] \in Block /\ l[i].addr \in Nat /\ l[i].len \in Nat /\ l[i].len > 0
      /\ \A i, j \in 1..Len(l) : i < j => End(l[i]) < l[j].addr
  BY ListIs
<1>2. k \in 0..Len(l)
  BY BeforeIs
<1>3. l \in Seq(Block)
  BY ListIs
<1>4. front \in Seq(Block) /\ Len(front) = k /\ \A i \in 1..k : front[i] = l[i]
  BY <1>2, <1>3, SuffixIs
<1>5. R \in Nat /\ R > 0
  BY RoundIs
<1>6. r = IF Top(l, a) = a THEN [front EXCEPT ![k].len = @ + R]
          ELSE Append(front, [addr |-> a, len |-> R])
  BY DEF JoinPrevious
<1>7. Top(l, a) = IF k = 0 THEN 0 ELSE End(l[k])
  BY DEF Top, End, NULL
<1> HIDE DEF R, front, r
<1>8. CASE Top(l, a) = a
  <2> DEFINE p == k - 1
             b == [addr |-> l[k].addr, len |-> l[k].len + R]
  <2>1. k > 0 /\ k \in 1..Len(l) /\ k \in 1..Len(front) /\ p \in 0..k /\ End(l[k]) = a
    BY <1>1, <1>2, <1>4, <1>7, <1>8
  <2>2. b \in Block /\ b.addr = l[k].addr /\ b.len = l[k].len + R /\ b.len > 0
    BY <1>1, <1>5, <2>1 DEF Block
  <2>3. r = [front EXCEPT ![k] = b]
    <3>1. front[k] = l[k] /\ [l[k] EXCEPT !.len = @ + R] = b
      BY <1>1, <1>4, <2>1 DEF Block
    <3>2. r = [front EXCEPT ![k] = [front[k] EXCEPT !.len = @ + R]]
      BY <1>6, <1>8
    <3> HIDE DEF b
    <3> QED
      BY <3>1, <3>2
  <2> HIDE DEF b
  <2>4. r \in Seq(Block) /\ Len(r) = k /\ \A j \in 1..k : r[j] = IF j = k THEN b ELSE l[j]
    BY <1>4, <2>1, <2>2, <2>3, ExceptSeq
  <2>5. p > 0 => End(l[p]) < b.addr
    BY <1>1, <2>1, <2>2
  <2>6. p + 1 = k /\ \A j \in 1..p : j \in 1..k /\ j # k
    BY <2>1
  <2>7. Joined(r, l, k, p, b)
    BY <2>1, <2>2, <2>4, <2>5, <2>6 DEF Joined
  <2>8. End(b) = a + R
    <3>1. PICK x \in Nat, y \in Nat : l[k].addr = x /\ l[k].len = y /\ End(l[k]) = x + y
      BY <1>1, <2>1 DEF End
    <3>2. b.addr = x /\ b.len = y + R /\ x + y = a
      BY <2>1, <2>2, <3>1
    <3>3. End(b) = b.addr + b.len
      BY DEF End
    <3> QED
      BY ONLY <1>5, <3>1, <3>2, <3>3
  <2>9. ASSUME NEW c
        PROVE  c \in Cells(b.addr, b.len) <=> c \in Cells(a, R) \/ (c \in Nat /\ InBlocks(l, p, k + 1, c))
    <3>1. InBlocks(l, p, k + 1, c) <=> l[k].addr <= c /\ c < End(l[k])
      BY <2>1 DEF InBlocks
    <3>2. /\ c \in Cells(b.addr, b.len) <=> c \in Nat /\ b.addr <= c /\ c < b.addr + b.len
          /\ c \in Cells(a, R) <=> c \in Nat /\ a <= c /\ c < a + R
      <4>1. b.addr \in Nat /\ b.len \in Nat /\ a \in Nat /\ R \in Nat
        BY <1>5, <2>2 DEF Block
      <4> QED
        BY ONLY <4>1, CellsAre
    <3>3. b.addr = l[k].addr /\ b.addr + b.len = a + R /\ End(l[k]) = a /\ l[k].addr \in Nat /\ l[k].addr <= a
      <4>1. PICK x \in Nat, y \in Nat : l[k].addr = x /\ l[k].len = y /\ End(l[k]) = x + y
        BY <1>1, <2>1 DEF End
      <4>2. b.addr = x /\ b.len = y + R /\ x + y = a
        BY <2>1, <2>2, <4>1
      <4> QED
        BY <1>5, <2>1, <4>1, <4>2
    <3> QED
      BY <1>5, <3>1, <3>2, <3>3
  <2> HIDE DEF p
  <2> QED
    BY <2>1, <2>2, <2>7, <2>8, <2>9 DEF R, r
<1>9. CASE Top(l, a) # a
  <2> DEFINE b == [addr |-> a, len |-> R]
  <2>1. b \in Block /\ b.addr = a /\ b.len = R /\ b.len > 0
    BY <1>5 DEF Block
  <2> HIDE DEF b
  <2>2. r = Append(front, b)
    BY <1>6, <1>9 DEF b
  <2>3. /\ r \in Seq(Block) /\ Len(r) = k + 1 /\ r[k + 1] = b
        /\ \A i \in 1..k : r[i] = l[i]
    BY <1>4, <2>1, <2>2, AppendProperties
  <2>4. k > 0 => End(l[k]) < b.addr
    <3> HAVE k > 0
    <3>1. End(l[k]) # a /\ End(l[k]) <= a /\ l[k].addr \in Nat /\ l[k].len \in Nat
      BY <1>1, <1>2, <1>7, <1>9
    <3>2. End(l[k]) \in Nat
      BY <3>1 DEF End
    <3> QED
      BY <2>1, <3>1, <3>2
  <2>5. Joined(r, l, k, k, b)
    BY <1>2, <2>1, <2>3, <2>4 DEF Joined
  <2>6. End(b) = a + R
    BY <2>1 DEF End
  <2>7. \A c : ~InBlocks(l, k, k + 1, c)
    BY <1>1, <1>2 DEF InBlocks
  <2>8. k \in 0..k
    BY <1>2
  <2> QED
    BY <2>1, <2>5, <2>6, <2>7, <2>8 DEF R, r
<1> QED
  BY <1>8, <1>9

LEMMA JoinNextIs ==
  ASSUME NEW l, GoodList(l), NEW k \in 0..Len(l), NEW p, NEW b, NEW r, Joined(r, l, k, p, b),
         b.len > 0, k < Len(l) => End(b) <= l[k + 1].addr
  PROVE  \E s \in k+1..Len(l)+1, m \in Block :
           /\ Spliced(JoinNext(r, SubSeq(l, k + 1, Len(l))), l, p, s, m)
           /\ m.addr = b.addr /\ m.len > 0
           /\ s <= Len(l) => End(m) < l[s].addr
           /\ \A c : c \in Cells(m.addr, m.len) <=> c \in Cells(b.addr, b.len) \/ (c \in Nat /\ InBlocks(l, k, s, c))
<1> DEFINE next == SubSeq(l, k + 1, Len(l))
           t == JoinNext(r, next)
<1>1. /\ Len(l) \in Nat /\ DOMAIN l = 1..Len(l)
      /\ \A i \in 1..Len(l) : l[i] \in Block /\ l[i].addr \in Nat /\ l[i].len \in Nat /\ l[i].len > 0
      /\ \A i, j \in 1..Len(l) : i < j => End(l[i]) < l[j].addr
  BY ListIs
<1>2. l \in Seq(Block)
  BY ListIs
<1>3. next \in Seq(Block) /\ Len(next) = Len(l) - k /\ \A i \in 1..Len(l)-k : next[i] = l[k + i]
  BY <1>2, SuffixIs
<1>4. /\ r \in Seq(Block) /\ Len(r) = p + 1 /\ r[p + 1] = b /\ b \in Block /\ p \in 0..k
      /\ \A j \in 1..p : r[j] = l[j]
  BY DEF Joined
<1>5. t = IF next # <<>> /\ r[Len(r)].addr + r[Len(r)].len = next[1].addr
          THEN [r EXCEPT ![Len(r)].len = @ + next[1].len] \o Tail(next)
          ELSE r \o next
  BY DEF JoinNext
<1>6. b.addr \in Nat /\ b.len \in Nat /\ End(b) = b.addr + b.len /\ p \in Nat /\ k \in Nat
  BY <1>4 DEF Block, End
<1>7. next # <<>> <=> k < Len(l)
  <2>1. next \in Seq(Block) /\ Len(next) = Len(l) - k
    BY <1>3
  <2>2. next = <<>> <=> Len(next) = 0
    BY <2>1, EmptySeq
  <2>3. k \in Nat /\ Len(l) \in Nat /\ k <= Len(l)
    BY <1>1
  <2> QED
    BY <2>1, <2>2, <2>3
<1> HIDE DEF next, t
<1>8. CASE next # <<>> /\ End(b) = next[1].addr
  <2> DEFINE m == [addr |-> b.addr, len |-> b.len + next[1].len]
             q == [r EXCEPT ![p + 1] = m]
  <2>1. /\ k + 1 \in 1..Len(l) /\ next[1] = l[k + 1]
        /\ l[k + 1].addr \in Nat /\ l[k + 1].len \in Nat /\ l[k + 1].len > 0 /\ End(b) = l[k + 1].addr
    <3>1. k < Len(l)
      BY <1>7, <1>8
    <3>2. k + 1 \in 1..Len(l) /\ 1 \in 1..Len(l)-k
      BY <1>1, <1>6, <3>1
    <3>3. next[1] = l[k + 1]
      BY <1>3, <3>2
    <3> QED
      BY <1>1, <1>8, <3>2, <3>3
  <2>2. m \in Block /\ m.addr = b.addr /\ m.len = b.len + l[k + 1].len /\ m.len > 0
    BY <1>6, <2>1 DEF Block
  <2>3. t = q \o Tail(next)
    <3>1. r[p + 1] = b /\ [b EXCEPT !.len = @ + next[1].len] = m
      BY <1>4, LongerIs
    <3>2. t = [r EXCEPT ![p + 1].len = @ + next[1].len] \o Tail(next)
      <4>1. r[Len(r)].addr + r[Len(r)].len = next[1].addr
        BY <1>4, <1>6, <1>8
      <4> QED
        BY <1>4, <1>5, <1>8, <4>1
    <3>3. [r EXCEPT ![p + 1].len = @ + next[1].len] = [r EXCEPT ![p + 1] = [r[p + 1] EXCEPT !.len = @ + next[1].len]]
      OBVIOUS
    <3> HIDE DEF m
    <3> QED
      BY <3>1, <3>2, <3>3
  <2> HIDE DEF m
  <2>4. q \in Seq(Block) /\ Len(q) = p + 1 /\ \A j \in 1..p+1 : q[j] = IF j = p + 1 THEN m ELSE l[j]
    <3>1. p + 1 \in 1..Len(r)
      BY <1>4, <1>6
    <3>2. q \in Seq(Block) /\ Len(q) = Len(r) /\ \A j \in 1..Len(r) : q[j] = IF j = p + 1 THEN m ELSE r[j]
      BY <1>4, <2>2, <3>1, ExceptSeq
    <3>3. \A j \in 1..p+1 : j # p + 1 => j \in 1..p
      BY <1>6
    <3> QED
      BY <1>4, <3>2, <3>3
  <2>5. /\ Tail(next) \in Seq(Block) /\ Len(Tail(next)) = Len(l) - k - 1
        /\ \A i \in 1..Len(l)-k-1 : Tail(next)[i] = l[k + 1 + i]
    <3>1. /\ Tail(next) \in Seq(Block) /\ Len(Tail(next)) = Len(next) - 1
          /\ \A i \in 1..Len(Tail(next)) : Tail(next)[i] = next[i + 1]
      BY <1>3, <1>8, HeadTailProperties
    <3>2. Len(Tail(next)) = Len(l) - k - 1
      <4>1. Len(next) = Len(l) - k
        BY <1>3
      <4>2. Len(Tail(next)) = Len(next) - 1 /\ Len(l) \in Nat /\ k \in Nat
        BY <1>1, <1>6, <3>1
      <4> QED
        BY ONLY <4>1, <4>2
    <3>3. ASSUME NEW i \in 1..Len(l)-k-1
          PROVE  Tail(next)[i] = l[k + 1 + i]
      <4>1. i + 1 \in 1..Len(l)-k /\ k + (i + 1) = k + 1 + i
        BY <1>1, <1>6
      <4> QED
        BY <1>3, <3>1, <3>2, <4>1
    <3> QED
      BY <3>1, <3>2, <3>3
  <2> HIDE DEF q
  <2>6. /\ t \in Seq(Block) /\ Len(t) = (p + 1) + (Len(l) - k - 1)
        /\ \A i \in 1..(p + 1) + (Len(l) - k - 1) :
             t[i] = IF i <= p + 1 THEN q[i] ELSE Tail(next)[i - (p + 1)]
    BY <2>3, <2>4, <2>5, ConcatProperties, SMTT(30)
  <2>7. Spliced(t, l, p, k + 2, m)
    <3>1. Len(t) = Len(l) + p + 2 - (k + 2)
      BY <1>1, <1>6, <2>6, SMTT(30)
    <3>2. ASSUME NEW j \in 1..Len(t)
          PROVE  t[j] = IF j <= p THEN l[j] ELSE IF j = p + 1 THEN m ELSE l[j + (k + 2) - p - 2]
      <4>1. CASE j <= p + 1
        BY <1>6, <2>4, <2>6, <4>1
      <4>2. CASE j > p + 1
        <5>1. j - (p + 1) \in 1..Len(l)-k-1 /\ k + 1 + (j - (p + 1)) = j + (k + 2) - p - 2
              /\ ~(j <= p + 1) /\ ~(j <= p) /\ j # p + 1
          BY <1>1, <1>6, <2>6, <4>2
        <5> QED
          BY <2>5, <2>6, <5>1
      <4> QED
        BY <1>6, <4>1, <4>2
    <3> QED
      BY <2>6, <3>1, <3>2 DEF Spliced
  <2>8. k + 2 <= Len(l) => End(m) < l[k + 2].addr
    <3> HAVE k + 2 <= Len(l)
    <3>1. k + 2 \in 1..Len(l) /\ End(l[k + 1]) < l[k + 2].addr
      BY <1>1, <1>6, <2>1
    <3>2. End(m) = End(l[k + 1])
      BY <1>6, <2>1, <2>2 DEF End
    <3> QED
      BY <3>1, <3>2
  <2>9. ASSUME NEW c
        PROVE  c \in Cells(m.addr, m.len) <=> c \in Cells(b.addr, b.len) \/ (c \in Nat /\ InBlocks(l, k, k + 2, c))
    <3>1. InBlocks(l, k, k + 2, c) <=> l[k + 1].addr <= c /\ c < End(l[k + 1])
      <4>1. \A i \in 1..Len(l) : k < i /\ i < k + 2 <=> i = k + 1
        BY <1>1, <1>6
      <4> QED
        BY <2>1, <4>1 DEF InBlocks
    <3>2. PICK x \in Nat, y \in Nat, z \in Nat :
             b.addr = x /\ b.len = y /\ l[k + 1].len = z /\ l[k + 1].addr = x + y /\ End(l[k + 1]) = x + y + z
      BY <1>6, <2>1 DEF End
    <3>3. m.addr = x /\ m.len = y + z
      BY <2>2, <3>2
    <3>4. /\ c \in Cells(x, y + z) <=> c \in Nat /\ x <= c /\ c < x + (y + z)
          /\ c \in Cells(x, y) <=> c \in Nat /\ x <= c /\ c < x + y
      BY <3>2, CellsAre
    <3>5. InBlocks(l, k, k + 2, c) <=> x + y <= c /\ c < x + y + z
      BY <3>1, <3>2
    <3>6. c \in Nat => (x <= c /\ c < x + (y + z) <=> (x <= c /\ c < x + y) \/ (x + y <= c /\ c < x + y + z))
      OBVIOUS
    <3> QED
      BY <3>2, <3>3, <3>4, <3>5, <3>6
  <2>10. k + 2 \in k+1..Len(l)+1
    BY <1>1, <1>6, <2>1
  <2> QED
    BY <2>2, <2>7, <2>8, <2>9, <2>10 DEF t, next
<1>9. CASE ~(next # <<>> /\ End(b) = next[1].addr)
  <2>1. t = r \o next
    <3>1. r[Len(r)].addr + r[Len(r)].len = End(b)
      BY <1>4, <1>6
    <3> QED
      BY <1>5, <1>9, <3>1
  <2>2. /\ t \in Seq(Block) /\ Len(t) = (p + 1) + (Len(l) - k)
        /\ \A i \in 1..(p + 1) + (Len(l) - k) :
             t[i] = IF i <= p + 1 THEN r[i] ELSE next[i - (p + 1)]
    <3>1. r \in Seq(Block) /\ next \in Seq(Block) /\ Len(r) = p + 1 /\ Len(next) = Len(l) - k
      BY <1>3, <1>4
    <3>2. /\ t \in Seq(Block) /\ Len(t) = Len(r) + Len(next)
          /\ \A i \in 1..Len(r) + Len(next) : t[i] = IF i <= Len(r) THEN r[i] ELSE next[i - Len(r)]
      BY <2>1, <3>1, ConcatProperties
    <3> QED
      BY <3>1, <3>2
  <2>3. Spliced(t, l, p, k + 1, b)
    <3>1. Len(t) = Len(l) + p + 2 - (k + 1)
      BY <1>1, <1>6, <2>2
    <3>2. ASSUME NEW j \in 1..Len(t)
          PROVE  t[j] = IF j <= p THEN l[j] ELSE IF j = p + 1 THEN b ELSE l[j + (k + 1) - p - 2]
      <4>1. CASE j <= p
        <5>1. j \in 1..p /\ j <= p + 1 /\ j \in 1..(p + 1) + (Len(l) - k)
          BY <1>6, <2>2, <4>1
        <5> QED
          BY <1>4, <2>2, <4>1, <5>1
      <4>2. CASE j = p + 1
        <5>1. ~(j <= p) /\ j <= p + 1 /\ j \in 1..(p + 1) + (Len(l) - k)
          BY <1>6, <2>2, <4>2
        <5> QED
          BY <1>4, <2>2, <4>2, <5>1
      <4>3. CASE j > p + 1
        <5>1. j - (p + 1) \in 1..Len(l)-k /\ k + (j - (p + 1)) = j + (k + 1) - p - 2
              /\ ~(j <= p + 1) /\ ~(j <= p) /\ j # p + 1
          BY <1>1, <1>6, <2>2, <4>3
        <5> QED
          BY <1>3, <2>2, <5>1
      <4> QED
        BY <1>6, <4>1, <4>2, <4>3
    <3> QED
      BY <2>2, <3>1, <3>2 DEF Spliced
  <2>4. k + 1 <= Len(l) => End(b) < l[k + 1].addr
    <3> HAVE k + 1 <= Len(l)
    <3>1. k < Len(l) /\ k + 1 \in 1..Len(l) /\ 1 \in 1..Len(l)-k
      BY <1>1, <1>6
    <3>2. next[1] = l[k + 1] /\ End(b) # l[k + 1].addr /\ End(b) <= l[k + 1].addr
      BY <1>3, <1>7, <1>9, <3>1
    <3>3. End(b) \in Nat /\ l[k + 1].addr \in Nat
      BY <1>1, <1>6, <3>1
    <3> QED
      BY <3>2, <3>3
  <2>5. \A c : ~InBlocks(l, k, k + 1, c)
    BY <1>1, <1>6 DEF InBlocks
  <2>6. k + 1 \in k+1..Len(l)+1
    BY <1>1, <1>6
  <2> QED
    BY <1>4, <2>3, <2>4, <2>5, <2>6 DEF t, next
<1> QED
  BY <1>8, <1>9

\* freemem of cells that are not in the list puts them in.
LEMMA FreememGives ==
  ASSUME NEW l, GoodList(l), NEW a \in Nat, a >= MinHeap, ~(a > MaxHeap), NEW n \in Nat, n > 0,
         \A c : ~(c \in Cells(a, Round(n)) /\ c \in FreeCells(l))
  PROVE  /\ ~Refused(l, a, n) /\ GoodList(FreememList(l, a, n))
         /\ \A c : c \in FreeCells(FreememList(l, a, n)) <=> c \in FreeCells(l) \/ c \in Cells(a, Round(n))
<1> DEFINE R == Round(n)
           k == Before(l, a)
           behind == SubSeq(l, k + 1, Len(l))
           r == JoinPrevious(l, a, n)
           t == JoinNext(r, behind)
<1>1. /\ Len(l) \in Nat /\ DOMAIN l = 1..Len(l)
      /\ \A i \in 1..Len(l) : l[i] \in Block /\ l[i].addr \in Nat /\ l[i].len \in Nat /\ l[i].len > 0
      /\ \A i, j \in 1..Len(l) : i < j => End(l[i]) < l[j].addr
      /\ \A c : c \in FreeCells(l) <=> c \in Nat /\ \E i \in 1..Len(l) : l[i].addr <= c /\ c < End(l[i])
  BY ListIs
<1>2. R \in Nat /\ R > 0
  BY RoundIs
<1>3. a \in Nat \ {0}
  BY MemoryAssump
<1>4. k \in 0..Len(l) /\ \A i \in 1..Len(l) : l[i].addr < a <=> i <= k
  BY BeforeIs
<1>5. l \in Seq(Block)
  BY ListIs
<1>6. behind \in Seq(Block) /\ Len(behind) = Len(l) - k /\ \A i \in 1..Len(l)-k : behind[i] = l[k + i]
  BY <1>4, <1>5, SuffixIs
<1>7. /\ Behind(l, a) = behind
      /\ Top(l, a) = IF k = 0 THEN 0 ELSE End(l[k])
      /\ FreememList(l, a, n) = IF Refused(l, a, n) THEN l ELSE t
      /\ Refused(l, a, n) <=> \/ n = 0 \/ a < MinHeap \/ a > MaxHeap
                              \/ k > 0 /\ a < Top(l, a)
                              \/ behind # <<>> /\ a + R > behind[1].addr
  BY DEF Behind, Top, FreememList, Refused, End, NULL
<1> HIDE DEF k, behind, R, r, t
<1>k. k \in Nat /\ k <= Len(l)
  BY <1>1, <1>4
\* The freed cells lie between the k-th block and the next.
<1>8. ASSUME NEW i \in 1..Len(l)
      PROVE  End(l[i]) <= a \/ a + R <= l[i].addr
  <2>1. PICK x \in Nat, y \in Nat : l[i].addr = x /\ l[i].len = y /\ End(l[i]) = x + y /\ y > 0
    BY <1>1 DEF End
  <2> DEFINE c == IF x < a THEN a ELSE x
  <2>2. c \in Nat /\ (c \in Cells(a, R) <=> a <= c /\ c < a + R)
    BY <1>2, CellsAre
  <2>3. ~(a <= c /\ c < a + R) \/ ~(x <= c /\ c < x + y)
    BY <1>1, <2>1, <2>2 DEF R
  <2> QED
    BY <1>2, <2>1, <2>3
<1>9. k > 0 => End(l[k]) <= a
  <2> HAVE k > 0
  <2>1. k \in 1..Len(l) /\ l[k].addr < a
    BY <1>1, <1>k, <1>4
  <2>2. l[k].addr \in Nat
    BY <1>1, <2>1
  <2> QED
    BY <1>2, <1>8, <2>1, <2>2
<1>10. k < Len(l) => a + R <= l[k + 1].addr
  <2> HAVE k < Len(l)
  <2>1. k + 1 \in 1..Len(l) /\ ~(k + 1 <= k)
    BY <1>1, <1>k
  <2>2. l[k + 1].addr \in Nat /\ l[k + 1].len \in Nat /\ l[k + 1].len > 0 /\ ~(l[k + 1].addr < a)
    BY <1>1, <1>4, <2>1
  <2>3. End(l[k + 1]) \in Nat /\ End(l[k + 1]) > l[k + 1].addr
    BY <2>2 DEF End
  <2> QED
    BY <1>8, <2>1, <2>2, <2>3
<1>11. ~Refused(l, a, n)
  <2>1. ~(k > 0 /\ a < Top(l, a))
    <3> SUFFICES ASSUME k > 0
                 PROVE  ~(a < Top(l, a))
      OBVIOUS
    <3>1. Top(l, a) = End(l[k]) /\ End(l[k]) <= a /\ k \in 1..Len(l)
      BY <1>1, <1>7, <1>9, <1>k
    <3>2. End(l[k]) \in Nat
      BY <1>1, <3>1 DEF End
    <3> QED
      BY <3>1, <3>2
  <2>2. ~(behind # <<>> /\ a + R > behind[1].addr)
    <3> SUFFICES ASSUME behind # <<>>
                 PROVE  ~(a + R > behind[1].addr)
      OBVIOUS
    <3>1. Len(behind) \in Nat \ {0}
      BY <1>6, EmptySeq
    <3>2. k < Len(l) /\ 1 \in 1..Len(l)-k /\ k + 1 \in 1..Len(l)
      <4>1. Len(behind) = Len(l) - k /\ Len(l) \in Nat
        BY <1>1, <1>6
      <4>2. k < Len(l)
        BY <1>k, <3>1, <4>1
      <4> QED
        BY <1>k, <4>1, <4>2
    <3>3. behind[1] = l[k + 1] /\ a + R <= l[k + 1].addr /\ l[k + 1].addr \in Nat
      BY <1>1, <1>6, <1>10, <3>2
    <3> QED
      BY <1>2, <3>3
  <2>3. n # 0 /\ ~(a < MinHeap) /\ ~(a > MaxHeap)
    BY MemoryAssump
  <2> QED
    BY <1>7, <2>1, <2>2, <2>3
<1>12. PICK p \in 0..k, b \in Block :
         /\ Joined(r, l, k, p, b)
         /\ End(b) = a + R /\ b.len > 0
         /\ \A c : c \in Cells(b.addr, b.len) <=> c \in Cells(a, R) \/ (c \in Nat /\ InBlocks(l, p, k + 1, c))
  <2>1. k = Before(l, a)
    BY DEF k
  <2> QED
    BY <1>3, <1>9, <2>1, JoinPreviousIs DEF r, R
<1>13. k < Len(l) => End(b) <= l[k + 1].addr
  BY <1>10, <1>12
<1>14. PICK s \in k+1..Len(l)+1, m \in Block :
         /\ Spliced(t, l, p, s, m)
         /\ m.addr = b.addr /\ m.len > 0
         /\ s <= Len(l) => End(m) < l[s].addr
         /\ \A c : c \in Cells(m.addr, m.len) <=> c \in Cells(b.addr, b.len) \/ (c \in Nat /\ InBlocks(l, k, s, c))
  BY <1>4, <1>12, <1>13, JoinNextIs DEF t, behind
<1>15. /\ GoodList(t)
       /\ \A c : c \in FreeCells(t) <=>
            \/ c \in Cells(m.addr, m.len)
            \/ c \in Nat /\ \E i \in 1..Len(l) : (i <= p \/ i >= s) /\ l[i].addr <= c /\ c < End(l[i])
  <2>1. p \in 0..Len(l) /\ s \in p+1..Len(l)+1
    BY <1>1, <1>k
  <2>2. p > 0 => End(l[p]) < m.addr
    BY <1>12, <1>14 DEF Joined
  <2> QED
    BY <1>14, <2>1, <2>2, SplicedGood
<1>16. ASSUME NEW c \in Nat
       PROVE  (\E i \in 1..Len(l) : l[i].addr <= c /\ c < End(l[i])) <=>
                 \/ \E i \in 1..Len(l) : (i <= p \/ i >= s) /\ l[i].addr <= c /\ c < End(l[i])
                 \/ InBlocks(l, p, k + 1, c)
                 \/ InBlocks(l, k, s, c)
  <2>1. \A i \in 1..Len(l) : (i <= p \/ i >= s) \/ (p < i /\ i < k + 1) \/ (k < i /\ i < s)
    BY <1>1, <1>k
  <2> QED
    BY <2>1 DEF InBlocks
<1>17. ASSUME NEW c
       PROVE  c \in FreeCells(t) <=> c \in FreeCells(l) \/ c \in Cells(a, R)
  <2>1. c \in Cells(m.addr, m.len) <=>
          c \in Cells(a, R) \/ (c \in Nat /\ (InBlocks(l, p, k + 1, c) \/ InBlocks(l, k, s, c)))
    BY <1>12, <1>14
  <2> QED
    BY <1>1, <1>15, <1>16, <2>1
<1> QED
  BY <1>7, <1>11, <1>15, <1>17 DEF R

\* freemem of memory that is free already is refused.
LEMMA FreememTwice ==
  ASSUME NEW l, GoodList(l), NEW a \in Nat, NEW n \in Nat, n > 0, NEW i \in 1..Len(l),
         l[i].addr <= a, a + n <= End(l[i])
  PROVE  Refused(l, a, n)
<1> DEFINE k == Before(l, a)
           behind == SubSeq(l, k + 1, Len(l))
<1>1. /\ Len(l) \in Nat /\ l \in Seq(Block)
      /\ \A j \in 1..Len(l) : l[j].addr \in Nat /\ l[j].len \in Nat
      /\ \A j, h \in 1..Len(l) : j < h => End(l[j]) < l[h].addr
  BY ListIs
<1>2. k \in 0..Len(l) /\ \A j \in 1..Len(l) : l[j].addr < a <=> j <= k
  BY BeforeIs
<1>3. behind \in Seq(Block) /\ Len(behind) = Len(l) - k /\ \A j \in 1..Len(l)-k : behind[j] = l[k + j]
  <2>1. l \in Seq(Block)
    BY <1>1
  <2> QED
    BY <1>2, <2>1, SuffixIs
<1>4. Refused(l, a, n) <=> \/ n = 0 \/ a < MinHeap \/ a > MaxHeap
                           \/ k > 0 /\ a < (IF k = 0 THEN 0 ELSE End(l[k]))
                           \/ behind # <<>> /\ a + Round(n) > behind[1].addr
  BY DEF Behind, Top, Refused, End, NULL
<1> HIDE DEF k, behind
<1>5. Round(n) \in Nat /\ Round(n) > 0
  <2>1. Round(n) \in Nat /\ Round(n) >= n
    BY RoundIs
  <2>2. n \in Nat /\ n > 0
    OBVIOUS
  <2> QED
    BY ONLY <2>1, <2>2
<1>6. k \in Nat /\ k <= Len(l) /\ l[i].addr \in Nat /\ End(l[i]) \in Nat
  <2>1. k \in Nat /\ k <= Len(l)
    BY <1>1, <1>2
  <2>2. l[i].addr \in Nat /\ l[i].len \in Nat
    BY <1>1
  <2> QED
    BY ONLY <2>1, <2>2 DEF End
<1>7. CASE l[i].addr < a
  <2>1. i <= k /\ k \in 1..Len(l)
    BY <1>1, <1>2, <1>6, <1>7
  <2>2. k = i
    <3> SUFFICES ASSUME i < k
                 PROVE  FALSE
      BY <1>6, <2>1
    <3>1. End(l[i]) < l[k].addr /\ l[k].addr < a /\ l[k].addr \in Nat
      BY <1>1, <1>2, <2>1
    <3> QED
      BY <1>6, <3>1
  <2>3. a < End(l[k]) /\ k > 0
    BY <1>6, <2>1, <2>2
  <2> QED
    BY <1>4, <2>3
<1>8. CASE l[i].addr = a
  <2>1. k < i
    BY <1>2, <1>6, <1>8
  <2>2. k + 1 \in 1..Len(l) /\ 1 \in 1..Len(l)-k /\ Len(behind) # 0
    BY <1>1, <1>3, <1>6, <2>1
  <2>3. behind # <<>> /\ behind[1] = l[k + 1] /\ l[k + 1].addr \in Nat
    BY <1>1, <1>3, <2>2, EmptySeq
  <2>4. l[k + 1].addr <= a
    <3>1. CASE k + 1 = i
      BY <1>6, <1>8, <3>1
    <3>2. CASE k + 1 < i
      <4>1. End(l[k + 1]) < l[i].addr /\ l[k + 1].len \in Nat
        BY <1>1, <2>2, <3>2
      <4>2. End(l[k + 1]) \in Nat /\ l[k + 1].addr <= End(l[k + 1])
        BY ONLY <2>3, <4>1 DEF End
      <4> QED
        BY ONLY <1>6, <1>8, <2>3, <4>1, <4>2
    <3> QED
      BY <1>6, <2>1, <3>1, <3>2
  <2>5. a + Round(n) > behind[1].addr
    <3>1. a \in Nat
      OBVIOUS
    <3> QED
      BY ONLY <1>5, <2>3, <2>4, <3>1
  <2> QED
    BY <1>4, <2>3, <2>5
<1> QED
  BY <1>6, <1>7, <1>8

-----------------------------------------------------------------------------
(* Counting *)

LEMMA FreeFinite ==
  ASSUME NEW l, GoodList(l)
  PROVE  IsFiniteSet(FreeCells(l))
<1>1. /\ Len(l) \in Nat
      /\ \A i \in 1..Len(l) : l[i].addr \in Nat /\ l[i].len \in Nat
      /\ \A i, j \in 1..Len(l) : i < j => End(l[i]) < l[j].addr
      /\ \A c : c \in FreeCells(l) <=> c \in Nat /\ \E i \in 1..Len(l) : l[i].addr <= c /\ c < End(l[i])
  BY ListIs
<1>2. CASE Len(l) = 0
  <2>1. FreeCells(l) = {}
    BY <1>1, <1>2
  <2> QED
    BY <2>1, FS_EmptySet
<1>3. CASE Len(l) > 0
  <2> DEFINE h == End(l[Len(l)])
  <2>1. \A i \in 1..Len(l) : End(l[i]) \in Nat
    BY <1>1 DEF End
  <2>2. Len(l) \in 1..Len(l) /\ h \in Nat
    BY <1>1, <1>3, <2>1
  <2>3. ASSUME NEW i \in 1..Len(l)
        PROVE  End(l[i]) <= h
    <3>1. CASE i = Len(l)
      BY <2>1, <3>1
    <3>2. CASE i < Len(l)
      <4>1. End(l[i]) < l[Len(l)].addr /\ l[Len(l)].addr <= h
        BY <1>1, <2>2, <3>2 DEF End
      <4> QED
        BY <1>1, <2>1, <2>2, <4>1
    <3> QED
      BY <1>1, <3>1, <3>2
  <2> HIDE DEF h
  <2>4. FreeCells(l) \in SUBSET Nat
    BY <1>1
  <2>5. \A c \in FreeCells(l) : c <= h
    BY <1>1, <2>1, <2>2, <2>3
  <2> QED
    BY <2>2, <2>4, <2>5, FS_BoundedSetOfNaturals
<1> QED
  BY <1>1, <1>2, <1>3

LEMMA CellsCount ==
  ASSUME NEW a \in Nat, NEW n \in Nat
  PROVE  IsFiniteSet(Cells(a, n)) /\ Cardinality(Cells(a, n)) = n
<1>1. a \in Int /\ a + n - 1 \in Int
  OBVIOUS
<1>2. /\ IsFiniteSet(a..(a + n - 1))
      /\ Cardinality(a..(a + n - 1)) = IF a > a + n - 1 THEN 0 ELSE (a + n - 1) - a + 1
  BY <1>1, FS_Interval
<1> QED
  BY <1>2 DEF Cells

LEMMA CountTaken ==
  ASSUME NEW F, IsFiniteSet(F), NEW a \in Nat, NEW n \in Nat, Cells(a, n) \subseteq F,
         NEW G, \A c : c \in G <=> c \in F /\ c \notin Cells(a, n)
  PROVE  Cardinality(G) = Cardinality(F) - n
<1>1. G = F \ Cells(a, n) /\ F \cap Cells(a, n) = Cells(a, n)
  OBVIOUS
<1>2. Cardinality(F \ Cells(a, n)) = Cardinality(F) - Cardinality(F \cap Cells(a, n))
  BY FS_Difference
<1> QED
  BY <1>1, <1>2, CellsCount

LEMMA CountGiven ==
  ASSUME NEW F, IsFiniteSet(F), NEW a \in Nat, NEW n \in Nat, \A c : ~(c \in Cells(a, n) /\ c \in F),
         NEW G, \A c : c \in G <=> c \in F \/ c \in Cells(a, n)
  PROVE  Cardinality(G) = Cardinality(F) + n
<1>1. G = F \cup Cells(a, n) /\ F \cap Cells(a, n) = {}
  OBVIOUS
<1>2. Cardinality(F \cup Cells(a, n)) =
        Cardinality(F) + Cardinality(Cells(a, n)) - Cardinality(F \cap Cells(a, n))
  BY CellsCount, FS_Union
<1>3. Cardinality(F) \in Nat
  BY FS_CardinalityType
<1> QED
  <2>1. Cardinality(F \cap Cells(a, n)) = 0
    BY <1>1, FS_EmptySet
  <2>2. Cardinality(Cells(a, n)) = n
    BY CellsCount
  <2> QED
    BY <1>1, <1>2, <1>3, <2>1, <2>2

\* The free memory in all is the number of free cells.
LEMMA TotalIs ==
  ASSUME NEW l, GoodList(l)
  PROVE  Total(l) = Cardinality(FreeCells(l))
<1> DEFINE S == FreeCells(l)
           T == UNION {{i} \X (1..l[i].len) : i \in DOMAIN l}
           At(c) == CHOOSE i \in 1..Len(l) : l[i].addr <= c /\ c < End(l[i])
           g == [c \in S |-> <<At(c), c - l[At(c)].addr + 1>>]
<1>1. /\ Len(l) \in Nat /\ DOMAIN l = 1..Len(l)
      /\ \A i \in 1..Len(l) : l[i].addr \in Nat /\ l[i].len \in Nat
      /\ \A i, j \in 1..Len(l) : i < j => End(l[i]) < l[j].addr
      /\ \A c : c \in FreeCells(l) <=> c \in Nat /\ \E i \in 1..Len(l) : l[i].addr <= c /\ c < End(l[i])
  BY ListIs
<1>2. \A c \in S : c \in Nat /\ At(c) \in 1..Len(l) /\ l[At(c)].addr <= c /\ c < End(l[At(c)])
  BY <1>1
<1>3. \A c, i : <<i, c>> \in T <=> i \in 1..Len(l) /\ c \in 1..l[i].len
  BY <1>1
<1>4. \A x \in T : x = <<x[1], x[2]>>
  OBVIOUS
<1> HIDE DEF S, T, At
<1>5. g \in [S -> T]
  <2> SUFFICES ASSUME NEW c \in S
               PROVE  <<At(c), c - l[At(c)].addr + 1>> \in T
    OBVIOUS
  <2>1. PICK i \in 1..Len(l) : At(c) = i /\ l[i].addr <= c /\ c < End(l[i]) /\ c \in Nat
    BY <1>2
  <2>2. c - l[i].addr + 1 \in 1..l[i].len
    BY <1>1, <2>1 DEF End
  <2> QED
    BY <1>3, <2>1, <2>2
<1>6. ASSUME NEW c \in S, NEW d \in S, g[c] = g[d]
      PROVE  c = d
  <2>1. At(c) = At(d) /\ c - l[At(c)].addr + 1 = d - l[At(d)].addr + 1
    BY <1>6
  <2>2. PICK x \in Nat : l[At(c)].addr = x /\ l[At(d)].addr = x
    BY <1>1, <1>2, <2>1
  <2> QED
    BY <1>2, <2>1, <2>2
<1>7. ASSUME NEW x \in T
      PROVE  \E c \in S : g[c] = x
  <2>1. PICK i, k : x = <<i, k>> /\ i \in 1..Len(l) /\ k \in 1..l[i].len
    BY <1>3, <1>4
  <2> DEFINE c == l[i].addr + k - 1
  <2>2. c \in Nat /\ l[i].addr <= c /\ c < End(l[i]) /\ c - l[i].addr + 1 = k
    BY <1>1, <2>1 DEF End
  <2> HIDE DEF c
  <2>3. c \in S
    BY <1>1, <2>1, <2>2 DEF S
  <2>4. At(c) = i
    <3>1. At(c) \in 1..Len(l) /\ l[At(c)].addr <= c /\ c < End(l[At(c)])
      BY <1>2, <2>3
    <3>2. \A j \in 1..Len(l) : End(l[j]) \in Nat
      BY <1>1 DEF End
    <3>3. ~(At(c) < i) /\ ~(i < At(c))
      BY <1>1, <2>1, <2>2, <3>1, <3>2, SMTT(30)
    <3> QED
      BY <1>1, <2>1, <3>1, <3>3
  <2> QED
    BY <2>1, <2>2, <2>3, <2>4
<1> HIDE DEF g
<1>8. ExistsBijection(S, T)
  <2>1. g \in Bijection(S, T)
    BY <1>5, <1>6, <1>7 DEF Bijection, Injection, Surjection, IsInjective
  <2> QED
    BY <2>1 DEF ExistsBijection
<1>9. IsFiniteSet(S)
  BY FreeFinite DEF S
<1>10. Cardinality(T) = Cardinality(S)
  BY <1>8, <1>9, FS_Bijection
<1> QED
  BY <1>10 DEF Total, S, T

-----------------------------------------------------------------------------
(* Who has which cells *)

OwnCells(b) == Cells(b.addr, Round(b.len))
PoolCells(b) == Cells(b.addr, Round(b.n * (b.size + 1)))
HeapCells == UNION {Cells(FreeBlock(Regions[i]).addr, FreeBlock(Regions[i]).len) : i \in DOMAIN Regions}

\* Free cells F, the blocks handed out O and the pools Q share no cell, and together are the heap.
Apart(F, O, Q) ==
  /\ \A b \in O : \A c : c \in OwnCells(b) => c \notin F
  /\ \A i \in DOMAIN Q : \A c : c \in PoolCells(Q[i]) => c \notin F
  /\ \A b, d \in O : \A c : c \in OwnCells(b) /\ c \in OwnCells(d) => b = d
  /\ \A i, j \in DOMAIN Q : \A c : c \in PoolCells(Q[i]) /\ c \in PoolCells(Q[j]) => i = j
  /\ \A b \in O, i \in DOMAIN Q : \A c : ~(c \in OwnCells(b) /\ c \in PoolCells(Q[i]))
Covered(F, O, Q) ==
  \A c : c \in HeapCells <=>
    c \in F \/ (\E b \in O : c \in OwnCells(b)) \/ (\E i \in DOMAIN Q : c \in PoolCells(Q[i]))
Tiled(F, O, Q) == Apart(F, O, Q) /\ Covered(F, O, Q)

LEMMA TiledTaken ==
  ASSUME NEW F, NEW O, NEW Q, Tiled(F, O, Q), NEW b, OwnCells(b) \subseteq F, OwnCells(b) # {},
         NEW G, \A c : c \in G <=> c \in F /\ c \notin OwnCells(b)
  PROVE  b \notin O /\ Tiled(G, O \cup {b}, Q)
<1>1. Apart(F, O, Q) /\ Covered(F, O, Q)
  BY DEF Tiled
<1>2. b \notin O
  BY <1>1 DEF Apart
<1>3. Apart(G, O \cup {b}, Q)
  BY <1>1 DEF Apart
<1>4. Covered(G, O \cup {b}, Q)
  BY <1>1 DEF Covered
<1> QED
  BY <1>2, <1>3, <1>4 DEF Tiled

LEMMA TiledGiven ==
  ASSUME NEW F, NEW O, NEW Q, Tiled(F, O, Q), NEW b \in O,
         NEW G, \A c : c \in G <=> c \in F \/ c \in OwnCells(b)
  PROVE  Tiled(G, O \ {b}, Q)
<1>1. Apart(F, O, Q) /\ Covered(F, O, Q)
  BY DEF Tiled
<1>2. Apart(G, O \ {b}, Q)
  BY <1>1 DEF Apart
<1>3. Covered(G, O \ {b}, Q)
  BY <1>1 DEF Covered
<1> QED
  BY <1>2, <1>3 DEF Tiled

LEMMA TiledPool ==
  ASSUME NEW F, NEW O, NEW Q, Tiled(F, O, Q), NEW n \in Nat, DOMAIN Q = 1..n,
         NEW P, DOMAIN P = 1..n+1, \A i \in 1..n : P[i] = Q[i], PoolCells(P[n + 1]) \subseteq F,
         NEW G, \A c : c \in G <=> c \in F /\ c \notin PoolCells(P[n + 1])
  PROVE  Tiled(G, O, P)
<1>1. Apart(F, O, Q) /\ Covered(F, O, Q)
  BY DEF Tiled
<1>2. \A i : i \in DOMAIN P <=> i \in DOMAIN Q \/ i = n + 1
  OBVIOUS
<1>3. \A i \in DOMAIN Q : P[i] = Q[i] /\ i # n + 1
  OBVIOUS
<1>4. Apart(G, O, P)
  <2>1. \A b \in O : \A c : c \in OwnCells(b) => c \notin G
    BY <1>1 DEF Apart
  <2>2. \A i \in DOMAIN P : \A c : c \in PoolCells(P[i]) => c \notin G
    BY <1>1, <1>2, <1>3 DEF Apart
  <2>3. \A b, d \in O : \A c : c \in OwnCells(b) /\ c \in OwnCells(d) => b = d
    BY <1>1 DEF Apart
  <2>4. \A i, j \in DOMAIN P : \A c : c \in PoolCells(P[i]) /\ c \in PoolCells(P[j]) => i = j
    BY <1>1, <1>2, <1>3 DEF Apart
  <2>5. \A b \in O, i \in DOMAIN P : \A c : ~(c \in OwnCells(b) /\ c \in PoolCells(P[i]))
    BY <1>1, <1>2, <1>3 DEF Apart
  <2> QED
    BY <2>1, <2>2, <2>3, <2>4, <2>5 DEF Apart
<1>5. Covered(G, O, P)
  BY <1>1, <1>2, <1>3 DEF Covered
<1> QED
  BY <1>4, <1>5 DEF Tiled

\* Only where the pools are matters, and only which cells are free.
LEMMA TiledSame ==
  ASSUME NEW F, NEW O, NEW Q, Tiled(F, O, Q), NEW G, \A c : c \in G <=> c \in F,
         NEW P, DOMAIN P = DOMAIN Q,
         \A i \in DOMAIN Q : P[i].addr = Q[i].addr /\ P[i].n = Q[i].n /\ P[i].size = Q[i].size
  PROVE  Tiled(G, O, P)
<1>1. \A i \in DOMAIN Q : PoolCells(P[i]) = PoolCells(Q[i])
  BY DEF PoolCells
<1>2. Apart(G, O, P)
  BY <1>1 DEF Tiled, Apart
<1>3. Covered(G, O, P)
  BY <1>1 DEF Tiled, Covered
<1> QED
  BY <1>2, <1>3 DEF Tiled

LEMMA SameMultiple ==
  ASSUME NEW d \in Nat \ {0}, NEW q \in Nat, NEW w \in Nat, q * d > w * d - d, q * d < w * d + d
  PROVE  q = w
<1>1. CASE q < w
  <2>1. q * d <= (w - 1) * d
    BY <1>1
  <2>2. (w - 1) * d = w * d - d
    OBVIOUS
  <2> QED
    BY <2>1, <2>2
<1>2. CASE q > w
  <2>1. q * d >= (w + 1) * d
    BY <1>2
  <2>2. (w + 1) * d = w * d + d
    OBVIOUS
  <2> QED
    BY <2>1, <2>2
<1> QED
  BY <1>1, <1>2

\* What is rounded up at one end and cut off at the other make up for each other.
LEMMA RoundTrunc ==
  ASSUME NEW s \in Nat, NEW t \in Nat, (s + t) % MB = 0
  PROVE  Trunc(t) \in Nat /\ Round(s) + Trunc(t) = s + t
<1> DEFINE x == s + MB - 1
           y == s + t
           u == x \div MB
           v == t \div MB
           q == y \div MB
           ru == x % MB
           rv == t % MB
           rq == y % MB
<1>1. MB \in Nat \ {0} /\ x \in Nat /\ y \in Nat /\ rq = 0
  BY MemoryAssump
<1>2. x = s + MB - 1 /\ y = s + t
  OBVIOUS
<1>3. Round(s) = u * MB /\ Trunc(t) = v * MB
  BY DEF Round, Trunc
<1> HIDE DEF x, y
<1>a. u = x \div MB /\ ru = x % MB /\ v = t \div MB /\ rv = t % MB /\ q = y \div MB /\ rq = y % MB
  OBVIOUS
<1> HIDE DEF u, v, q, ru, rv, rq
<1>4. u \in Nat /\ ru \in 0..MB-1 /\ u * MB \in Nat /\ u * MB + ru = x
  <2>1. u = x \div MB /\ ru = x % MB /\ x \in Nat /\ MB \in Nat \ {0}
    BY <1>1, <1>a
  <2> QED
    BY ONLY <2>1, Quotient, Zenon
<1>5. v \in Nat /\ rv \in 0..MB-1 /\ v * MB \in Nat /\ v * MB + rv = t
  <2>1. v = t \div MB /\ rv = t % MB /\ t \in Nat /\ MB \in Nat \ {0}
    BY <1>1, <1>a
  <2> QED
    BY ONLY <2>1, Quotient, Zenon
<1>6. q \in Nat /\ q * MB \in Nat /\ q * MB = y
  <2>1. q \in Nat /\ rq \in 0..MB-1 /\ q * MB \in Nat /\ q * MB + rq = y
    BY <1>1, <1>a, Quotient
  <2> QED
    BY <1>1, <2>1
<1>7. (u + v) * MB = u * MB + v * MB /\ u + v \in Nat
  BY <1>1, <1>4, <1>5
<1>8. q * MB > (u + v) * MB - MB /\ q * MB < (u + v) * MB + MB
  BY <1>1, <1>2, <1>4, <1>5, <1>6, <1>7
<1>9. q = u + v
  BY <1>1, <1>6, <1>7, <1>8, SameMultiple
<1> QED
  BY <1>1, <1>2, <1>3, <1>5, <1>6, <1>7, <1>9

\* The list at the start is good; its cells lie between the end of the image and that of memory.
LEMMA HeapIs ==
  ASSUME NEW l, l = [i \in DOMAIN Regions |-> FreeBlock(Regions[i])]
  PROVE  /\ GoodList(l) /\ FreeCells(l) = HeapCells
         /\ MaxHeap \in Nat
         /\ \A c \in HeapCells : c \in Nat /\ c >= MinHeap /\ c < MaxHeap
<1> DEFINE n == Len(Regions)
           top(i) == Regions[i].base + Regions[i].len
<1>1. /\ Regions \in Seq([base : Nat, len : Nat]) /\ n \in Nat \ {0} /\ DOMAIN Regions = 1..n
      /\ \A i \in 1..n : Regions[i].base \in Nat /\ Regions[i].len \in Nat
  <2>1. Regions \in Seq([base : Nat, len : Nat]) /\ Regions # <<>>
    BY MemoryAssump
  <2>2. n \in Nat \ {0} /\ DOMAIN Regions = 1..n
    BY <2>1, EmptySeq
  <2>3. \A i \in 1..n : Regions[i] \in [base : Nat, len : Nat]
    BY <2>1, ElementOfSeq
  <2> QED
    BY <2>1, <2>2, <2>3
<1>2. MB \in Nat \ {0} /\ MinHeap \in Nat \ {0}
  BY MemoryAssump
<1>3. ASSUME NEW i \in 1..n
      PROVE  /\ FreeBlock(Regions[i]) \in Block /\ FreeBlock(Regions[i]).len > 0
             /\ FreeBlock(Regions[i]).addr >= MinHeap
             /\ End(FreeBlock(Regions[i])) = top(i)
  <2> DEFINE r == Regions[i]
             b == FreeBlock(r)
             s == IF r.base <= MinHeap THEN MinHeap ELSE r.base
             t == IF r.base <= MinHeap THEN r.base + r.len - MinHeap ELSE r.len
  <2>1. r.base + r.len > MinHeap /\ (r.base + r.len) % MB = 0 /\ b.len > 0
    BY <1>1, MemoryAssump
  <2>2. s \in Nat /\ t \in Nat /\ s >= MinHeap /\ s + t = r.base + r.len
    <3>1. PICK x \in Nat, y \in Nat : r.base = x /\ r.len = y /\ x + y > MinHeap
      BY <1>1, <2>1
    <3>2. CASE x <= MinHeap
      <4>1. s = MinHeap /\ t = x + y - MinHeap
        BY <3>1, <3>2
      <4> HIDE DEF s, t
      <4> QED
        BY <1>2, <3>1, <4>1
    <3>3. CASE ~(x <= MinHeap)
      <4>1. s = x /\ t = y
        BY <3>1, <3>3
      <4> HIDE DEF s, t
      <4> QED
        BY <1>2, <3>1, <3>3, <4>1
    <3> QED
      BY <3>2, <3>3
  <2>3. b = [addr |-> Round(s), len |-> Trunc(t)]
    BY DEF FreeBlock
  <2>4. Trunc(t) \in Nat /\ Round(s) \in Nat /\ Round(s) >= s /\ Round(s) + Trunc(t) = s + t
    <3>1. (s + t) % MB = 0
      BY <2>1, <2>2
    <3> HIDE DEF s, t
    <3> QED
      BY <2>2, <3>1, RoundIs, RoundTrunc
  <2> HIDE DEF s, t, b
  <2>5. b \in Block /\ b.addr >= MinHeap
    BY <1>2, <2>2, <2>3, <2>4 DEF Block
  <2>6. End(b) = r.base + r.len
    BY <2>2, <2>3, <2>4 DEF End
  <2> QED
    BY <2>1, <2>5, <2>6 DEF b
<1>4. \A i, j \in 1..n : i < j => top(i) < FreeBlock(Regions[j]).addr
  BY <1>1, MemoryAssump
<1>5. l \in Seq(Block) /\ Len(l) = n /\ DOMAIN l = 1..n /\ \A i \in 1..n : l[i] = FreeBlock(Regions[i])
  <2>1. l \in [1..n -> Block]
    BY <1>1, <1>3
  <2>2. l \in Seq(Block) /\ Len(l) = n
    BY <1>1, <2>1
  <2> QED
    BY <1>1, <2>2
<1> HIDE DEF n
<1>6. GoodList(l)
  <2>1. \A i \in 1..n : l[i].len > 0
    BY <1>3, <1>5
  <2>2. \A i, j \in 1..n : i < j => End(l[i]) < l[j].addr
    BY <1>3, <1>4, <1>5
  <2> QED
    BY <1>5, <2>1, <2>2 DEF GoodList
<1>7. FreeCells(l) = HeapCells
  BY <1>1, <1>5 DEF FreeCells, HeapCells
<1>8. \A i \in 1..n : top(i) \in Nat
  BY <1>1
<1>9. n \in 1..n /\ \A i \in 1..n : top(i) <= top(n)
  <2>1. n \in 1..n
    BY <1>1
  <2>2. ASSUME NEW i \in 1..n, i # n
        PROVE  top(i) <= top(n)
    <3>1. top(i) < FreeBlock(Regions[n]).addr
      BY <1>1, <1>4, <2>1, <2>2
    <3>2. PICK x \in Nat, y \in Nat : FreeBlock(Regions[n]).addr = x /\ FreeBlock(Regions[n]).len = y /\ top(n) = x + y
      BY <1>3, <2>1 DEF Block, End
    <3> HIDE DEF top
    <3> QED
      BY <1>8, <2>1, <3>1, <3>2
  <2> HIDE DEF top
  <2> QED
    BY <1>8, <2>1, <2>2
<1>10. MaxHeap = top(n)
  <2> DEFINE S == {Regions[i].base + Regions[i].len : i \in DOMAIN Regions}
  <2>1. S \in SUBSET Nat /\ top(n) \in S /\ \A y \in S : y <= top(n)
    BY <1>1, <1>8, <1>9
  <2>2. MaxHeap = Highest(S)
    BY DEF MaxHeap
  <2> HIDE DEF S, top
  <2>3. Highest(S) \in S /\ \A y \in S : Highest(S) >= y
    BY <1>8, <1>9, <2>1, HighestIs
  <2>4. Highest(S) = top(n)
    <3>1. PICK h \in Nat, m \in Nat : h = Highest(S) /\ m = top(n)
      BY <2>1, <2>3
    <3>2. h <= m /\ h >= m
      BY <2>1, <2>3, <3>1
    <3> QED
      BY <3>1, <3>2
  <2> QED
    BY <2>2, <2>4
<1>11. ASSUME NEW c \in HeapCells
       PROVE  c \in Nat /\ c >= MinHeap /\ c < MaxHeap
  <2>1. PICK i \in 1..n : c \in Nat /\ l[i].addr <= c /\ c < End(l[i])
    BY <1>5, <1>6, <1>7, ListIs
  <2>2. l[i].addr \in Nat /\ l[i].addr >= MinHeap /\ End(l[i]) = top(i) /\ top(i) <= MaxHeap
    BY <1>3, <1>5, <1>9, <1>10 DEF Block
  <2> HIDE DEF top
  <2> QED
    BY <1>2, <1>8, <1>9, <1>10, <2>1, <2>2
<1> QED
  BY <1>6, <1>7, <1>8, <1>9, <1>10, <1>11

-----------------------------------------------------------------------------
(* The heap *)

Pool == [addr : Nat, size : Nat, n : Nat \ {0}, bufs : Seq(Nat), sem : Int, q : Seq(PoolUsers),
         go : SUBSET PoolUsers, held : [PoolUsers -> SUBSET Nat]]

OwnedInv == IsFiniteSet(owned) /\ owned \subseteq [addr : Nat, len : Sizes] /\ \A b \in owned : b.len > 0
HeapInv ==
  /\ GoodList(freelist)
  /\ mlength = Cardinality(FreeCells(freelist))
  /\ OwnedInv
  /\ Tiled(FreeCells(freelist), owned, buftab)

\* Block b, taken out of the free list, is handed out.
LEMMA HandedOut ==
  ASSUME HeapInv, NEW l, GoodList(l), NEW b \in [addr : Nat, len : Sizes], b.len > 0,
         OwnCells(b) \subseteq FreeCells(freelist),
         FreeCells(l) = FreeCells(freelist) \ OwnCells(b),
         freelist' = l, owned' = owned \cup {b}, mlength' = mlength - Round(b.len), buftab' = buftab
  PROVE  HeapInv'
<1>1. b.addr \in Nat /\ b.len \in Nat /\ Round(b.len) \in Nat /\ Round(b.len) > 0
  <2>1. b.addr \in Nat /\ b.len \in Nat
    BY MemoryAssump
  <2> QED
    BY <2>1, RoundIs
<1>2. OwnCells(b) # {}
  <2>1. b.addr \in Cells(b.addr, Round(b.len))
    BY <1>1, CellsAre
  <2> QED
    BY <2>1 DEF OwnCells
<1>3. /\ GoodList(freelist) /\ mlength = Cardinality(FreeCells(freelist)) /\ OwnedInv
      /\ Tiled(FreeCells(freelist), owned, buftab)
  BY DEF HeapInv
<1>4. Tiled(FreeCells(l), owned \cup {b}, buftab)
  BY <1>2, <1>3, TiledTaken
<1>5. Cardinality(FreeCells(l)) = Cardinality(FreeCells(freelist)) - Round(b.len)
  <2>1. IsFiniteSet(FreeCells(freelist))
    BY <1>3, FreeFinite
  <2>2. \A c : c \in FreeCells(l) <=> c \in FreeCells(freelist) /\ c \notin Cells(b.addr, Round(b.len))
    BY DEF OwnCells
  <2>3. Cells(b.addr, Round(b.len)) \subseteq FreeCells(freelist)
    BY DEF OwnCells
  <2> QED
    BY <1>1, <2>1, <2>2, <2>3, CountTaken
<1>6. OwnedInv'
  <2>1. IsFiniteSet(owned \cup {b})
    BY <1>3, FS_AddElement DEF OwnedInv
  <2> QED
    BY <1>3, <2>1 DEF OwnedInv
<1>7. GoodList(freelist') /\ mlength' = Cardinality(FreeCells(freelist')) /\ Tiled(FreeCells(freelist'), owned', buftab')
  BY <1>3, <1>4, <1>5
<1> QED
  BY <1>6, <1>7 DEF HeapInv

LEMMA GetmemKeeps ==
  ASSUME HeapInv, NEW n \in Sizes, Getmem(n)
  PROVE  HeapInv'
<1> DEFINE a == GetmemAddr(n)
           l == GetmemList(n)
           b == [addr |-> a, len |-> n]
<1>1. /\ a # NULL /\ owned' = owned \cup {b} /\ freelist' = l
      /\ mlength' = mlength - Round(n) /\ buftab' = buftab
  BY DEF Getmem
<1>2. n \in Nat
  BY MemoryAssump
<1>3. GoodList(freelist)
  BY DEF HeapInv
<1>4. /\ n > 0 /\ a \in Nat /\ GoodList(l)
      /\ Cells(a, Round(n)) \subseteq FreeCells(freelist)
      /\ FreeCells(l) = FreeCells(freelist) \ Cells(a, Round(n))
  BY <1>1, <1>2, <1>3, GetmemTakes
<1> HIDE DEF a, l
<1>5. b \in [addr : Nat, len : Sizes] /\ b.len = n /\ OwnCells(b) = Cells(a, Round(n))
  BY <1>4 DEF OwnCells
<1> HIDE DEF b
<1> QED
  BY <1>1, <1>4, <1>5, HandedOut

LEMMA GetstkKeeps ==
  ASSUME HeapInv, NEW n \in Sizes, Getstk(n)
  PROVE  HeapInv'
<1> DEFINE i == Highest(Fits(n))
           a == freelist[i].addr + freelist[i].len - Round(n)
           l == IF freelist[i].len = Round(n) THEN Without(freelist, i)
                ELSE [freelist EXCEPT ![i].len = @ - Round(n)]
           b == [addr |-> a, len |-> n]
<1>1. /\ n > 0 /\ Fits(n) # {} /\ owned' = owned \cup {b} /\ freelist' = l
      /\ mlength' = mlength - Round(n) /\ buftab' = buftab
  BY DEF Getstk
<1>2. n \in Nat
  BY MemoryAssump
<1>3. GoodList(freelist)
  BY DEF HeapInv
<1>4. /\ a \in Nat /\ GoodList(l)
      /\ Cells(a, Round(n)) \subseteq FreeCells(freelist)
      /\ FreeCells(l) = FreeCells(freelist) \ Cells(a, Round(n))
  BY <1>1, <1>2, <1>3, GetstkTakes
<1> HIDE DEF a, l, i
<1>5. b \in [addr : Nat, len : Sizes] /\ b.len = n /\ OwnCells(b) = Cells(a, Round(n))
  BY <1>4 DEF OwnCells
<1> HIDE DEF b
<1> QED
  BY <1>1, <1>4, <1>5, HandedOut

\* Cells in the heap have addresses that freemem accepts.
LEMMA InHeap ==
  ASSUME HeapInv
  PROVE  /\ MaxHeap \in Nat
         /\ \A c \in FreeCells(freelist) : c \in Nat /\ c >= MinHeap /\ c < MaxHeap
         /\ \A b \in owned : \A c : c \in OwnCells(b) => c \in Nat /\ c >= MinHeap /\ c < MaxHeap
<1>1. MaxHeap \in Nat /\ \A c \in HeapCells : c \in Nat /\ c >= MinHeap /\ c < MaxHeap
  BY HeapIs
<1>2. Covered(FreeCells(freelist), owned, buftab)
  BY DEF HeapInv, Tiled
<1> QED
  BY <1>1, <1>2 DEF Covered

LEMMA FreememKeeps ==
  ASSUME HeapInv, NEW a \in MinHeap..MaxHeap, NEW n \in Sizes, Freemem(a, n)
  PROVE  HeapInv'
<1> DEFINE b == [addr |-> a, len |-> n]
           l == FreememList(freelist, a, n)
<1>1. /\ owned' = owned \ {b} /\ freelist' = l
      /\ mlength' = IF Refused(freelist, a, n) THEN mlength ELSE mlength + Round(n)
      /\ buftab' = buftab
  BY DEF Freemem
<1>2. /\ GoodList(freelist) /\ mlength = Cardinality(FreeCells(freelist)) /\ OwnedInv
      /\ Tiled(FreeCells(freelist), owned, buftab)
  BY DEF HeapInv
<1>3. /\ n \in Nat /\ MaxHeap \in Nat /\ MinHeap \in Nat /\ a \in Nat /\ a >= MinHeap /\ ~(a > MaxHeap)
  BY InHeap, MemoryAssump
<1>4. Round(n) \in Nat /\ Round(n) >= n
  BY <1>3, RoundIs
<1>5. OwnCells(b) = Cells(a, Round(n))
  BY DEF OwnCells
<1>6. OwnedInv'
  <2>1. IsFiniteSet(owned \ {b})
    BY <1>2, FS_RemoveElement DEF OwnedInv
  <2> QED
    BY <1>1, <1>2, <2>1 DEF OwnedInv
<1>7. CASE b \in owned
  <2>1. n > 0
    BY <1>2, <1>7 DEF OwnedInv
  <2>2. \A c : ~(c \in Cells(a, Round(n)) /\ c \in FreeCells(freelist))
    BY <1>2, <1>5, <1>7 DEF Tiled, Apart
  <2>3. /\ ~Refused(freelist, a, n) /\ GoodList(l)
        /\ \A c : c \in FreeCells(l) <=> c \in FreeCells(freelist) \/ c \in Cells(a, Round(n))
    BY <1>2, <1>3, <2>1, <2>2, FreememGives
  <2> HIDE DEF l, b
  <2>4. Tiled(FreeCells(l), owned \ {b}, buftab)
    BY <1>2, <1>5, <1>7, <2>3, TiledGiven
  <2>5. Cardinality(FreeCells(l)) = Cardinality(FreeCells(freelist)) + Round(n)
    <3>1. IsFiniteSet(FreeCells(freelist))
      BY <1>2, FreeFinite
    <3> QED
      BY <1>3, <1>4, <2>2, <2>3, <3>1, CountGiven
  <2> QED
    BY <1>1, <1>2, <1>6, <2>3, <2>4, <2>5 DEF HeapInv
<1>8. CASE b \notin owned
  <2>1. n > 0 /\ \E i \in DOMAIN freelist : freelist[i].addr <= a /\ a + n <= freelist[i].addr + freelist[i].len
    BY <1>8 DEF Freemem
  <2>2. DOMAIN freelist = 1..Len(freelist)
    BY <1>2, ListIs
  <2>3. Refused(freelist, a, n)
    <3>1. PICK i \in 1..Len(freelist) : freelist[i].addr <= a /\ a + n <= End(freelist[i])
      BY <2>1, <2>2 DEF End
    <3> QED
      BY <1>2, <1>3, <2>1, <3>1, FreememTwice
  <2>4. l = freelist /\ owned \ {b} = owned
    BY <1>8, <2>3 DEF FreememList
  <2> QED
    BY <1>1, <1>2, <1>6, <2>3, <2>4 DEF HeapInv
<1> QED
  BY <1>7, <1>8

\* A pool is cut out of the free list, or is not made and leaves it as it was.
LEMMA MkbufpoolKeeps ==
  ASSUME HeapInv, buftab \in Seq(Pool), NEW s \in BufSizes, NEW n \in NumBufs, NEW sem \in BOOLEAN,
         Mkbufpool(s, n, sem)
  PROVE  HeapInv'
<1> DEFINE m == n * (s + 1)
           a == GetmemAddr(m)
           l == GetmemList(m)
           p == [addr |-> a, size |-> s, n |-> n,
                 bufs |-> [i \in 1..n |-> a + (i - 1) * (s + 1)],
                 sem |-> n, q |-> <<>>, go |-> {}, held |-> [u \in PoolUsers |-> {}]]
<1>1. /\ n >= 1 /\ a # NULL /\ owned' = owned
      /\ sem => buftab' = Append(buftab, p) /\ freelist' = l /\ mlength' = mlength - Round(m)
      /\ ~sem => freelist' = FreememList(l, a, m) /\ buftab' = buftab /\ mlength' = mlength
  BY DEF Mkbufpool
<1>2. s \in Nat /\ n \in Nat
  BY MemoryAssump
<1>3. m \in Nat
  BY <1>2
<1>4. p.addr = a /\ p.n * (p.size + 1) = m
  OBVIOUS
<1> HIDE DEF m, p
<1>5. /\ GoodList(freelist) /\ mlength = Cardinality(FreeCells(freelist)) /\ OwnedInv
      /\ Tiled(FreeCells(freelist), owned, buftab)
  BY DEF HeapInv
<1>6. /\ m > 0 /\ a \in Nat /\ GoodList(l)
      /\ Cells(a, Round(m)) \subseteq FreeCells(freelist)
      /\ FreeCells(l) = FreeCells(freelist) \ Cells(a, Round(m))
  BY <1>1, <1>3, <1>5, GetmemTakes
<1> HIDE DEF a, l
<1>7. Round(m) \in Nat /\ Round(m) > 0
  BY <1>3, <1>6, RoundIs
<1>8. OwnedInv'
  BY <1>1, <1>5 DEF OwnedInv
<1>9. CASE sem
  <2>1. PoolCells(p) = Cells(a, Round(m))
    BY <1>4 DEF PoolCells
  <2>2. /\ Len(buftab) \in Nat /\ DOMAIN buftab = 1..Len(buftab)
    OBVIOUS
  <2> DEFINE t == Append(buftab, p)
  <2>3. /\ DOMAIN t = 1..Len(buftab)+1 /\ t[Len(buftab) + 1] = p
        /\ \A i \in 1..Len(buftab) : t[i] = buftab[i]
    BY <2>2
  <2> HIDE DEF t
  <2>4. Tiled(FreeCells(l), owned, t)
    BY <1>5, <1>6, <2>1, <2>2, <2>3, TiledPool
  <2>5. Cardinality(FreeCells(l)) = Cardinality(FreeCells(freelist)) - Round(m)
    <3>1. IsFiniteSet(FreeCells(freelist))
      BY <1>5, FreeFinite
    <3> QED
      BY <1>6, <1>7, <3>1, CountTaken
  <2> QED
    BY <1>1, <1>5, <1>6, <1>8, <1>9, <2>4, <2>5 DEF HeapInv, t
<1>10. CASE ~sem
  <2>1. a \in FreeCells(freelist)
    <3>1. a \in Cells(a, Round(m))
      BY <1>6, <1>7, CellsAre, SMTT(30)
    <3> QED
      BY <1>6, <3>1
  <2>2. a >= MinHeap /\ ~(a > MaxHeap)
    BY <2>1, InHeap, MemoryAssump
  <2> DEFINE t == FreememList(l, a, m)
  <2>3. \A c : ~(c \in Cells(a, Round(m)) /\ c \in FreeCells(l))
    BY <1>6
  <2>4. /\ GoodList(t)
        /\ \A c : c \in FreeCells(t) <=> c \in FreeCells(l) \/ c \in Cells(a, Round(m))
    BY <1>3, <1>6, <2>2, <2>3, FreememGives
  <2> HIDE DEF t
  <2>5. \A c : c \in FreeCells(t) <=> c \in FreeCells(freelist)
    BY <1>6, <2>4
  <2>6. FreeCells(t) = FreeCells(freelist)
    BY <2>5
  <2> QED
    BY <1>1, <1>5, <1>8, <1>10, <2>4, <2>6 DEF HeapInv, t
<1> QED
  BY <1>9, <1>10

-----------------------------------------------------------------------------
(* The buffer pools *)

HeldBy(h) == UNION {h[p] : p \in PoolUsers}

\* Of a pool's n buffers at the places P, each is once in the list s or with one process.
BufsInv(P, n, s, h) ==
  /\ s \in Seq(Nat) /\ h \in [PoolUsers -> SUBSET Nat]
  /\ \A j, k \in 1..Len(s) : s[j] = s[k] => j = k
  /\ \A k \in 1..Len(s), p \in PoolUsers : s[k] \notin h[p]
  /\ \A p, r \in PoolUsers : \A x : x \in h[p] /\ x \in h[r] => p = r
  /\ IsFiniteSet(HeldBy(h)) /\ n = Len(s) + Cardinality(HeldBy(h))
  /\ \A x : x \in P <=> (\E k \in 1..Len(s) : x = s[k]) \/ (\E p \in PoolUsers : x \in h[p])

\* The m buffers of the list are there for those who were let through and those who may come;
\* a process waits once, or was let through.
SemInv(m, sem, q, go) ==
  /\ sem \in Int /\ q \in Seq(PoolUsers) /\ go \subseteq PoolUsers /\ IsFiniteSet(go)
  /\ m = Cardinality(go) + (IF sem > 0 THEN sem ELSE 0)
  /\ Len(q) = (IF sem < 0 THEN -sem ELSE 0)
  /\ \A j, k \in 1..Len(q) : q[j] = q[k] => j = k
  /\ \A k \in 1..Len(q) : q[k] \notin go

LEMMA BufTaken ==
  ASSUME NEW P, NEW n, NEW s, NEW h, BufsInv(P, n, s, h), s # <<>>, NEW p \in PoolUsers
  PROVE  BufsInv(P, n, Tail(s), [h EXCEPT ![p] = @ \cup {s[1]}])
<1> DEFINE t == Tail(s)
           g == [h EXCEPT ![p] = @ \cup {s[1]}]
<1>1. /\ s \in Seq(Nat) /\ h \in [PoolUsers -> SUBSET Nat]
      /\ \A j, k \in 1..Len(s) : s[j] = s[k] => j = k
      /\ \A k \in 1..Len(s), r \in PoolUsers : s[k] \notin h[r]
      /\ \A r, u \in PoolUsers : \A x : x \in h[r] /\ x \in h[u] => r = u
      /\ IsFiniteSet(HeldBy(h)) /\ n = Len(s) + Cardinality(HeldBy(h))
      /\ \A x : x \in P <=> (\E k \in 1..Len(s) : x = s[k]) \/ (\E r \in PoolUsers : x \in h[r])
  BY DEF BufsInv
<1>2. s \in Seq(Nat) /\ Len(s) \in Nat \ {0} /\ 1 \in 1..Len(s) /\ s[1] \in Nat
  <2>1. s \in Seq(Nat)
    BY <1>1
  <2>2. Len(s) \in Nat \ {0}
    BY <2>1, EmptySeq
  <2>3. 1 \in 1..Len(s)
    BY <2>2
  <2> QED
    BY <2>1, <2>2, <2>3, ElementOfSeq
<1>3. t \in Seq(Nat) /\ Len(t) = Len(s) - 1 /\ \A k \in 1..Len(s)-1 : t[k] = s[k + 1]
  <2>1. /\ t \in Seq(Nat) /\ Len(t) = Len(s) - 1
        /\ \A k \in 1..Len(t) : t[k] = s[k + 1]
    BY <1>2, HeadTailProperties
  <2> QED
    BY <2>1
<1>4. /\ g \in [PoolUsers -> SUBSET Nat]
      /\ \A r \in PoolUsers : \A x : x \in g[r] <=> x \in h[r] \/ (r = p /\ x = s[1])
  BY <1>1, <1>2
<1> HIDE DEF t, g
<1>a. Len(t) \in Nat
  BY <1>2, <1>3
<1>6. ASSUME NEW k \in 1..Len(t)
      PROVE  k + 1 \in 1..Len(s) /\ t[k] = s[k + 1] /\ t[k] # s[1]
  <2>1. k + 1 \in 1..Len(s) /\ t[k] = s[k + 1] /\ k + 1 # 1
    BY <1>2, <1>3
  <2> QED
    BY <1>1, <1>2, <2>1
<1>5. ASSUME NEW j \in 1..Len(t), NEW k \in 1..Len(t), t[j] = t[k]
      PROVE  j = k
  <2>1. j + 1 \in 1..Len(s) /\ k + 1 \in 1..Len(s) /\ s[j + 1] = s[k + 1]
    BY <1>5, <1>6
  <2>2. j + 1 = k + 1
    BY <1>1, <2>1
  <2> QED
    BY <1>a, <2>2
<1>7. ASSUME NEW k \in 1..Len(t), NEW r \in PoolUsers
      PROVE  t[k] \notin g[r]
  <2>1. s[k + 1] \notin h[r]
    BY <1>1, <1>6
  <2> QED
    BY <1>4, <1>6, <2>1
<1>8. \A r, u \in PoolUsers : \A x : x \in g[r] /\ x \in g[u] => r = u
  BY <1>1, <1>2, <1>4
<1>9. HeldBy(g) = HeldBy(h) \cup {s[1]} /\ s[1] \notin HeldBy(h)
  <2>1. ASSUME NEW x
        PROVE  x \in HeldBy(g) <=> x \in HeldBy(h) \/ x = s[1]
    BY <1>4 DEF HeldBy
  <2>2. s[1] \notin HeldBy(h)
    BY <1>1, <1>2 DEF HeldBy
  <2> QED
    BY <2>1, <2>2
<1>10. IsFiniteSet(HeldBy(g)) /\ n = Len(t) + Cardinality(HeldBy(g))
  <2>1. IsFiniteSet(HeldBy(h) \cup {s[1]}) /\ Cardinality(HeldBy(h) \cup {s[1]}) = Cardinality(HeldBy(h)) + 1
    BY <1>1, <1>9, FS_AddElement
  <2>2. Cardinality(HeldBy(h)) \in Nat
    BY <1>1, FS_CardinalityType
  <2>3. n = Len(s) + Cardinality(HeldBy(h)) /\ Len(t) = Len(s) - 1 /\ Len(s) \in Nat
    BY <1>1, <1>2, <1>3
  <2>4. IsFiniteSet(HeldBy(g)) /\ Cardinality(HeldBy(g)) = Cardinality(HeldBy(h)) + 1
    BY <1>9, <2>1
  <2> QED
    BY <2>2, <2>3, <2>4
<1>11. ASSUME NEW x
       PROVE  x \in P <=> (\E k \in 1..Len(t) : x = t[k]) \/ (\E r \in PoolUsers : x \in g[r])
  <2>1. (\E k \in 1..Len(s) : x = s[k]) <=> x = s[1] \/ (\E k \in 1..Len(t) : x = t[k])
    <3>1. ASSUME NEW k \in 1..Len(s), k # 1
          PROVE  k - 1 \in 1..Len(t) /\ t[k - 1] = s[k]
      <4>1. k - 1 \in 1..Len(s)-1 /\ (k - 1) + 1 = k
        BY <1>2, <3>1
      <4> QED
        BY <1>3, <4>1
    <3> QED
      BY <1>2, <1>6, <3>1, Zenon
  <2>2. (\E r \in PoolUsers : x \in g[r]) <=> x = s[1] \/ (\E r \in PoolUsers : x \in h[r])
    BY <1>4
  <2> QED
    BY <1>1, <2>1, <2>2
<1> QED
  BY <1>3, <1>4, <1>5, <1>7, <1>8, <1>10, <1>11 DEF BufsInv, t, g

LEMMA BufFreed ==
  ASSUME NEW P, NEW n, NEW s, NEW h, BufsInv(P, n, s, h), NEW p \in PoolUsers, NEW buf \in h[p]
  PROVE  /\ BufsInv(P, n, <<buf>> \o s, [h EXCEPT ![p] = @ \ {buf}])
         /\ Len(<<buf>> \o s) = Len(s) + 1
<1> DEFINE t == <<buf>> \o s
           g == [h EXCEPT ![p] = @ \ {buf}]
<1>1. /\ s \in Seq(Nat) /\ h \in [PoolUsers -> SUBSET Nat]
      /\ \A j, k \in 1..Len(s) : s[j] = s[k] => j = k
      /\ \A k \in 1..Len(s), r \in PoolUsers : s[k] \notin h[r]
      /\ \A r, u \in PoolUsers : \A x : x \in h[r] /\ x \in h[u] => r = u
      /\ IsFiniteSet(HeldBy(h)) /\ n = Len(s) + Cardinality(HeldBy(h))
      /\ \A x : x \in P <=> (\E k \in 1..Len(s) : x = s[k]) \/ (\E r \in PoolUsers : x \in h[r])
  BY DEF BufsInv
<1>2. s \in Seq(Nat) /\ Len(s) \in Nat /\ buf \in Nat
  BY <1>1
<1>3. /\ t \in Seq(Nat) /\ Len(t) = Len(s) + 1 /\ t[1] = buf
      /\ \A k \in 1..Len(s) : t[k + 1] = s[k]
  <2>1. <<buf>> \in Seq(Nat) /\ Len(<<buf>>) = 1 /\ <<buf>>[1] = buf
    BY <1>2
  <2> DEFINE e == <<buf>>
  <2> HIDE DEF e
  <2>2. e \in Seq(Nat) /\ Len(e) = 1 /\ e[1] = buf /\ t = e \o s
    BY <2>1 DEF e
  <2> HIDE DEF t
  <2>3. /\ t \in Seq(Nat) /\ Len(t) = Len(e) + Len(s)
        /\ \A k \in 1..Len(e) + Len(s) : t[k] = IF k <= Len(e) THEN e[k] ELSE s[k - Len(e)]
    BY <1>2, <2>2, ConcatProperties
  <2>4. t[1] = buf
    <3>1. 1 \in 1..Len(e) + Len(s) /\ 1 <= Len(e)
      BY <1>2, <2>2
    <3> QED
      BY <2>2, <2>3, <3>1
  <2>5. ASSUME NEW k \in 1..Len(s)
        PROVE  t[k + 1] = s[k]
    <3>1. k + 1 \in 1..Len(e) + Len(s) /\ ~(k + 1 <= Len(e)) /\ (k + 1) - Len(e) = k
      BY <1>2, <2>2
    <3> QED
      BY <2>3, <3>1
  <2> QED
    BY <1>2, <2>2, <2>3, <2>4, <2>5
<1>4. /\ g \in [PoolUsers -> SUBSET Nat]
      /\ \A r \in PoolUsers : \A x : x \in g[r] <=> x \in h[r] /\ ~(r = p /\ x = buf)
  BY <1>1, <1>2
<1> HIDE DEF t, g
<1>5. ASSUME NEW k \in 1..Len(t), k # 1
      PROVE  k - 1 \in 1..Len(s) /\ t[k] = s[k - 1]
  <2>1. k - 1 \in 1..Len(s) /\ (k - 1) + 1 = k
    BY <1>2, <1>3, <1>5
  <2> QED
    BY <1>3, <2>1
<1>6. \A k \in 1..Len(s) : s[k] # buf
  BY <1>1
<1>7. ASSUME NEW j \in 1..Len(t), NEW k \in 1..Len(t), t[j] = t[k]
      PROVE  j = k
  <2>1. CASE j = 1 \/ k = 1
    BY <1>3, <1>5, <1>6, <1>7, <2>1
  <2>2. CASE j # 1 /\ k # 1
    <3>1. j - 1 \in 1..Len(s) /\ k - 1 \in 1..Len(s) /\ s[j - 1] = s[k - 1]
      BY <1>5, <1>7, <2>2
    <3>2. j - 1 = k - 1
      BY <1>1, <3>1
    <3> QED
      BY <1>2, <1>3, <3>2
  <2> QED
    BY <2>1, <2>2
<1>8. ASSUME NEW k \in 1..Len(t), NEW r \in PoolUsers
      PROVE  t[k] \notin g[r]
  <2>1. CASE k = 1
    <3>1. t[k] = buf /\ (buf \in h[r] => r = p)
      BY <1>1, <1>3, <2>1
    <3> QED
      BY <1>4, <3>1
  <2>2. CASE k # 1
    <3>1. t[k] = s[k - 1] /\ s[k - 1] \notin h[r]
      BY <1>1, <1>5, <2>2
    <3> QED
      BY <1>4, <3>1
  <2> QED
    BY <2>1, <2>2
<1>9. \A r, u \in PoolUsers : \A x : x \in g[r] /\ x \in g[u] => r = u
  BY <1>1, <1>4
<1>10. HeldBy(g) = HeldBy(h) \ {buf} /\ buf \in HeldBy(h)
  <2>1. ASSUME NEW x
        PROVE  x \in HeldBy(g) <=> x \in HeldBy(h) /\ x # buf
    BY <1>1, <1>4 DEF HeldBy
  <2>2. buf \in HeldBy(h)
    BY DEF HeldBy
  <2> QED
    BY <2>1, <2>2
<1>11. IsFiniteSet(HeldBy(g)) /\ n = Len(t) + Cardinality(HeldBy(g))
  <2>1. /\ IsFiniteSet(HeldBy(h) \ {buf})
        /\ Cardinality(HeldBy(h) \ {buf}) = Cardinality(HeldBy(h)) - 1
    BY <1>1, <1>10, FS_RemoveElement
  <2>2. Cardinality(HeldBy(h)) \in Nat
    BY <1>1, FS_CardinalityType
  <2>3. n = Len(s) + Cardinality(HeldBy(h)) /\ Len(t) = Len(s) + 1 /\ Len(s) \in Nat
    BY <1>1, <1>2, <1>3
  <2>4. IsFiniteSet(HeldBy(g)) /\ Cardinality(HeldBy(g)) = Cardinality(HeldBy(h)) - 1
    BY <1>10, <2>1
  <2> QED
    BY <2>2, <2>3, <2>4
<1>12. ASSUME NEW x
       PROVE  x \in P <=> (\E k \in 1..Len(t) : x = t[k]) \/ (\E r \in PoolUsers : x \in g[r])
  <2>1. (\E k \in 1..Len(t) : x = t[k]) <=> x = buf \/ (\E k \in 1..Len(s) : x = s[k])
    <3>1. 1 \in 1..Len(t) /\ \A k \in 1..Len(s) : k + 1 \in 1..Len(t)
      BY <1>2, <1>3
    <3> QED
      BY <1>3, <1>5, <3>1, Zenon
  <2>2. (\E r \in PoolUsers : x \in h[r]) <=> x = buf \/ (\E r \in PoolUsers : x \in g[r])
    BY <1>1, <1>4
  <2> QED
    BY <1>1, <2>1, <2>2
<1> QED
  BY <1>3, <1>4, <1>7, <1>8, <1>9, <1>11, <1>12 DEF BufsInv, t, g

LEMMA SemNow ==
  ASSUME NEW m, NEW sem, NEW q, NEW go, SemInv(m, sem, q, go)
  PROVE  /\ Cardinality(go) \in Nat /\ m \in Nat /\ Len(q) \in Nat
         /\ sem > 0 => m > 0 /\ SemInv(m - 1, sem - 1, q, go)
         /\ q = <<>> => sem >= 0 /\ SemInv(m + 1, sem + 1, q, go)
<1>1. /\ sem \in Int /\ q \in Seq(PoolUsers) /\ go \subseteq PoolUsers /\ IsFiniteSet(go)
      /\ m = Cardinality(go) + (IF sem > 0 THEN sem ELSE 0)
      /\ Len(q) = (IF sem < 0 THEN -sem ELSE 0)
      /\ \A j, k \in 1..Len(q) : q[j] = q[k] => j = k
      /\ \A k \in 1..Len(q) : q[k] \notin go
  BY DEF SemInv
<1>2. Cardinality(go) \in Nat /\ Len(q) \in Nat
  BY <1>1, FS_CardinalityType
<1>3. m \in Nat
  BY <1>1, <1>2
<1>4. ASSUME sem > 0
      PROVE  m > 0 /\ SemInv(m - 1, sem - 1, q, go)
  <2>1. m > 0 /\ sem - 1 \in Int /\ m - 1 = Cardinality(go) + (IF sem - 1 > 0 THEN sem - 1 ELSE 0)
    BY <1>1, <1>2, <1>4
  <2>2. Len(q) = (IF sem - 1 < 0 THEN -(sem - 1) ELSE 0)
    BY <1>1, <1>4
  <2> HIDE <1>4
  <2> QED
    BY <1>1, <2>1, <2>2 DEF SemInv
<1>5. ASSUME q = <<>>
      PROVE  sem >= 0 /\ SemInv(m + 1, sem + 1, q, go)
  <2>1. sem >= 0
    BY <1>1, <1>5
  <2>2. sem + 1 \in Int /\ m + 1 = Cardinality(go) + (IF sem + 1 > 0 THEN sem + 1 ELSE 0)
    BY <1>1, <1>2, <2>1
  <2>3. Len(q) = (IF sem + 1 < 0 THEN -(sem + 1) ELSE 0)
    BY <1>1, <2>1
  <2> QED
    BY <1>1, <2>1, <2>2, <2>3 DEF SemInv
<1> QED
  BY <1>2, <1>3, <1>4, <1>5

\* A process waits.
LEMMA SemWait ==
  ASSUME NEW m, NEW sem, NEW q, NEW go, SemInv(m, sem, q, go), ~(sem > 0),
         NEW p \in PoolUsers, p \notin go, \A k \in 1..Len(q) : q[k] # p
  PROVE  SemInv(m, sem - 1, Append(q, p), go)
<1> DEFINE t == Append(q, p)
<1>1. /\ sem \in Int /\ q \in Seq(PoolUsers) /\ go \subseteq PoolUsers /\ IsFiniteSet(go)
      /\ m = Cardinality(go) + (IF sem > 0 THEN sem ELSE 0)
      /\ Len(q) = (IF sem < 0 THEN -sem ELSE 0)
      /\ \A j, k \in 1..Len(q) : q[j] = q[k] => j = k
      /\ \A k \in 1..Len(q) : q[k] \notin go
  BY DEF SemInv
<1>2. /\ Len(q) \in Nat /\ t \in Seq(PoolUsers) /\ Len(t) = Len(q) + 1 /\ t[Len(q) + 1] = p
      /\ \A k \in 1..Len(q) : t[k] = q[k]
  BY <1>1, AppendProperties
<1> HIDE DEF t
<1>3. \A k \in 1..Len(t) : k \in 1..Len(q) \/ k = Len(q) + 1
  BY <1>2
<1>4. \A j, k \in 1..Len(t) : t[j] = t[k] => j = k
  BY <1>1, <1>2, <1>3
<1>5. \A k \in 1..Len(t) : t[k] \notin go
  BY <1>1, <1>2, <1>3
<1>6. /\ sem - 1 \in Int /\ m = Cardinality(go) + (IF sem - 1 > 0 THEN sem - 1 ELSE 0)
      /\ Len(t) = (IF sem - 1 < 0 THEN -(sem - 1) ELSE 0)
  BY <1>1, <1>2
<1> QED
  BY <1>1, <1>2, <1>4, <1>5, <1>6 DEF SemInv, t

\* A process that was let through takes its buffer.
LEMMA SemGoesOn ==
  ASSUME NEW m, NEW sem, NEW q, NEW go, SemInv(m, sem, q, go), NEW p \in go
  PROVE  m > 0 /\ SemInv(m - 1, sem, q, go \ {p})
<1>1. /\ sem \in Int /\ q \in Seq(PoolUsers) /\ go \subseteq PoolUsers /\ IsFiniteSet(go)
      /\ m = Cardinality(go) + (IF sem > 0 THEN sem ELSE 0)
      /\ Len(q) = (IF sem < 0 THEN -sem ELSE 0)
      /\ \A j, k \in 1..Len(q) : q[j] = q[k] => j = k
      /\ \A k \in 1..Len(q) : q[k] \notin go
  BY DEF SemInv
<1>2. IsFiniteSet(go \ {p}) /\ Cardinality(go \ {p}) = Cardinality(go) - 1
  BY <1>1, FS_RemoveElement
<1>3. Cardinality(go) \in Nat /\ Cardinality(go \ {p}) \in Nat
  BY <1>1, <1>2, FS_CardinalityType
<1>4. m > 0 /\ m - 1 = Cardinality(go \ {p}) + (IF sem > 0 THEN sem ELSE 0)
  BY <1>1, <1>2, <1>3
<1>5. go \ {p} \subseteq PoolUsers /\ \A k \in 1..Len(q) : q[k] \notin go \ {p}
  BY <1>1
<1> QED
  BY <1>1, <1>2, <1>4, <1>5 DEF SemInv

\* The first of those who wait is let through.
LEMMA SemSignal ==
  ASSUME NEW m, NEW sem, NEW q, NEW go, SemInv(m, sem, q, go), q # <<>>
  PROVE  SemInv(m + 1, sem + 1, Tail(q), go \cup {Head(q)})
<1> DEFINE t == Tail(q)
           g == go \cup {Head(q)}
<1>1. /\ sem \in Int /\ q \in Seq(PoolUsers) /\ go \subseteq PoolUsers /\ IsFiniteSet(go)
      /\ m = Cardinality(go) + (IF sem > 0 THEN sem ELSE 0)
      /\ Len(q) = (IF sem < 0 THEN -sem ELSE 0)
      /\ \A j, k \in 1..Len(q) : q[j] = q[k] => j = k
      /\ \A k \in 1..Len(q) : q[k] \notin go
  BY DEF SemInv
<1>2. Len(q) \in Nat \ {0} /\ 1 \in 1..Len(q) /\ Head(q) = q[1]
  <2>1. Len(q) \in Nat \ {0}
    BY <1>1, EmptySeq
  <2> QED
    BY <1>1, <2>1
<1>3. /\ Head(q) \in PoolUsers /\ t \in Seq(PoolUsers) /\ Len(t) = Len(q) - 1
      /\ \A k \in 1..Len(t) : t[k] = q[k + 1]
  BY <1>1, HeadTailProperties
<1>4. IsFiniteSet(g) /\ Cardinality(g) = Cardinality(go) + 1 /\ Cardinality(go) \in Nat
  <2>1. Head(q) \notin go
    BY <1>1, <1>2
  <2> QED
    BY <1>1, <2>1, FS_AddElement, FS_CardinalityType
<1>5. \A x : x \in g <=> x \in go \/ x = q[1]
  BY <1>2
<1> HIDE DEF t, g
<1>6. \A k \in 1..Len(t) : k + 1 \in 1..Len(q) /\ k + 1 # 1 /\ k \in Nat
  BY <1>2, <1>3
<1>7. ASSUME NEW j \in 1..Len(t), NEW k \in 1..Len(t), t[j] = t[k]
      PROVE  j = k
  <2>1. j + 1 = k + 1 /\ j \in Nat /\ k \in Nat
    BY <1>1, <1>3, <1>6, <1>7
  <2> QED
    BY <2>1
<1>8. ASSUME NEW k \in 1..Len(t)
      PROVE  t[k] \notin g
  <2>1. t[k] = q[k + 1] /\ q[k + 1] \notin go /\ q[k + 1] # q[1]
    BY <1>1, <1>2, <1>3, <1>6
  <2> QED
    BY <1>5, <2>1
<1>9. sem < 0 /\ sem + 1 \in Int
  BY <1>1, <1>2
<1>10. /\ m + 1 = Cardinality(g) + (IF sem + 1 > 0 THEN sem + 1 ELSE 0)
       /\ Len(t) = (IF sem + 1 < 0 THEN -(sem + 1) ELSE 0)
  BY <1>1, <1>3, <1>4, <1>9
<1>11. g \subseteq PoolUsers
  BY <1>1, <1>3 DEF g
<1> QED
  BY <1>3, <1>4, <1>7, <1>8, <1>9, <1>10, <1>11 DEF SemInv, t, g

\* The parts of a pool, and what the operations on buffers make of them.
Whole(b) == [addr |-> b.addr, size |-> b.size, n |-> b.n, bufs |-> b.bufs, sem |-> b.sem,
             q |-> b.q, go |-> b.go, held |-> b.held]
LEMMA PoolWhole ==
  ASSUME NEW b \in Pool
  PROVE  b = Whole(b)
  BY DEF Pool, Whole

LEMMA PoolRecord ==
  ASSUME NEW a \in Nat, NEW s \in Nat, NEW n \in Nat \ {0}, NEW t \in Seq(Nat), NEW m \in Int,
         NEW q \in Seq(PoolUsers), NEW g \in SUBSET PoolUsers, NEW h \in [PoolUsers -> SUBSET Nat]
  PROVE  [addr |-> a, size |-> s, n |-> n, bufs |-> t, sem |-> m, q |-> q, go |-> g, held |-> h] \in Pool
  BY DEF Pool

Adds(h, p, x) == [h EXCEPT ![p] = @ \cup {x}]
Drops(h, p, x) == [h EXCEPT ![p] = @ \ {x}]
Taking(b, p) == [b EXCEPT !.sem = @ - 1, !.bufs = Tail(@), !.held[p] = @ \cup {b.bufs[1]}]
Waiting(b, p) == [b EXCEPT !.sem = @ - 1, !.q = Append(@, p)]
GoingOn(b, p) == [b EXCEPT !.go = @ \ {p}, !.bufs = Tail(@), !.held[p] = @ \cup {b.bufs[1]}]
Freeing(b, p, x) == [b EXCEPT !.held[p] = @ \ {x}, !.bufs = <<x>> \o @, !.sem = @ + 1]
Signalled(b, x) == [b EXCEPT !.q = Tail(@), !.go = @ \cup {x}]

LEMMA AfterTaking ==
  ASSUME NEW b, b = Whole(b), NEW p, NEW d, d = Taking(b, p)
  PROVE  /\ d.addr = b.addr /\ d.size = b.size /\ d.n = b.n /\ d.bufs = Tail(b.bufs)
         /\ d.sem = b.sem - 1 /\ d.q = b.q /\ d.go = b.go
         /\ d.held = Adds(b.held, p, b.bufs[1]) /\ d = Whole(d)
  BY DEF Whole, Taking, Adds

LEMMA AfterWaiting ==
  ASSUME NEW b, b = Whole(b), NEW p, NEW d, d = Waiting(b, p)
  PROVE  /\ d.addr = b.addr /\ d.size = b.size /\ d.n = b.n /\ d.bufs = b.bufs
         /\ d.sem = b.sem - 1 /\ d.q = Append(b.q, p) /\ d.go = b.go
         /\ d.held = b.held /\ d = Whole(d)
  BY DEF Whole, Waiting

LEMMA AfterGoingOn ==
  ASSUME NEW b, b = Whole(b), NEW p, NEW d, d = GoingOn(b, p)
  PROVE  /\ d.addr = b.addr /\ d.size = b.size /\ d.n = b.n /\ d.bufs = Tail(b.bufs)
         /\ d.sem = b.sem /\ d.q = b.q /\ d.go = b.go \ {p}
         /\ d.held = Adds(b.held, p, b.bufs[1]) /\ d = Whole(d)
  BY DEF Whole, GoingOn, Adds

LEMMA AfterFreeing ==
  ASSUME NEW b, b = Whole(b), NEW p, NEW x, NEW d, d = Freeing(b, p, x)
  PROVE  /\ d.addr = b.addr /\ d.size = b.size /\ d.n = b.n /\ d.bufs = <<x>> \o b.bufs
         /\ d.sem = b.sem + 1 /\ d.q = b.q /\ d.go = b.go
         /\ d.held = Drops(b.held, p, x) /\ d = Whole(d)
  BY DEF Whole, Freeing, Drops

LEMMA AfterSignal ==
  ASSUME NEW b, b = Whole(b), NEW x, NEW d, d = Signalled(b, x)
  PROVE  /\ d.addr = b.addr /\ d.size = b.size /\ d.n = b.n /\ d.bufs = b.bufs
         /\ d.sem = b.sem /\ d.q = Tail(b.q) /\ d.go = b.go \cup {x}
         /\ d.held = b.held /\ d = Whole(d)
  BY DEF Whole, Signalled

Places(b) == {b.addr + (k - 1) * (b.size + 1) : k \in 1..b.n}
PoolInv(b) ==
  /\ b \in Pool
  /\ BufsInv(Places(b), b.n, b.bufs, b.held)
  /\ SemInv(Len(b.bufs), b.sem, b.q, b.go)
PoolsInv == buftab \in Seq(Pool) /\ \A i \in 1..Len(buftab) : PoolInv(buftab[i])

LEMMA SameFactor ==
  ASSUME NEW d \in Nat \ {0}, NEW i \in Nat, NEW j \in Nat, i * d = j * d
  PROVE  i = j
<1>1. i * d > j * d - d /\ i * d < j * d + d /\ i * d \in Nat /\ j * d \in Nat
  OBVIOUS
<1> QED
  BY <1>1, SameMultiple

LEMMA ProductNat ==
  ASSUME NEW x \in Nat, NEW y \in Nat
  PROVE  x * y \in Nat
  OBVIOUS

LEMMA ProductPos ==
  ASSUME NEW x \in Nat \ {0}, NEW y \in Nat \ {0}
  PROVE  x * y \in Nat /\ x * y > 0
  OBVIOUS

LEMMA EndNat ==
  ASSUME NEW b, b.addr \in Nat, b.len \in Nat
  PROVE  End(b) \in Nat
  BY DEF End

LEMMA FirstCell ==
  ASSUME NEW a \in Nat, NEW n \in Nat, n > 0
  PROVE  a \in Cells(a, n)
  BY CellsAre

LEMMA SeqOf ==
  ASSUME NEW T, NEW n \in Nat, NEW f \in [1..n -> T]
  PROVE  f \in Seq(T) /\ Len(f) = n
  OBVIOUS

LEMMA PoolMade ==
  ASSUME NEW a \in Nat, NEW s \in Nat, NEW n \in Nat \ {0},
         NEW b, b = [addr |-> a, size |-> s, n |-> n,
                     bufs |-> [i \in 1..n |-> a + (i - 1) * (s + 1)],
                     sem |-> n, q |-> <<>>, go |-> {}, held |-> [u \in PoolUsers |-> {}]]
  PROVE  PoolInv(b)
<1> DEFINE at == [i \in 1..n |-> a + (i - 1) * (s + 1)]
           h == [u \in PoolUsers |-> {}]
<1>1. ASSUME NEW i \in 1..n
      PROVE  i - 1 \in Nat /\ (i - 1) * (s + 1) \in Nat /\ a + (i - 1) * (s + 1) \in Nat
  <2>1. i - 1 \in Nat /\ s + 1 \in Nat
    OBVIOUS
  <2>2. (i - 1) * (s + 1) \in Nat
    BY <2>1, ProductNat
  <2> QED
    BY <2>1, <2>2
<1>2. at \in Seq(Nat) /\ Len(at) = n /\ \A i \in 1..n : at[i] = a + (i - 1) * (s + 1)
  <2>1. at \in [1..n -> Nat] /\ \A i \in 1..n : at[i] = a + (i - 1) * (s + 1)
    BY <1>1
  <2> HIDE DEF at
  <2>2. at \in Seq(Nat) /\ Len(at) = n
    BY <2>1, SeqOf
  <2> QED
    BY <2>1, <2>2
<1>3. ASSUME NEW i \in 1..n, NEW j \in 1..n, at[i] = at[j]
      PROVE  i = j
  <2>1. (i - 1) * (s + 1) = (j - 1) * (s + 1)
    <3> DEFINE x == (i - 1) * (s + 1)
               y == (j - 1) * (s + 1)
    <3>1. x \in Nat /\ y \in Nat /\ a + x = a + y
      BY <1>1, <1>2, <1>3
    <3> HIDE DEF x, y
    <3>2. x = y
      BY <3>1
    <3> QED
      BY <3>2 DEF x, y
  <2>2. s + 1 \in Nat \ {0} /\ i - 1 \in Nat /\ j - 1 \in Nat
    BY <1>1
  <2>3. i - 1 = j - 1
    BY <2>1, <2>2, SameFactor
  <2> QED
    BY <2>3
<1>4. b.addr = a /\ b.size = s /\ b.n = n /\ b.bufs = at /\ b.sem = n /\ b.q = <<>> /\ b.go = {} /\ b.held = h
  OBVIOUS
<1>5. \A x : x \in Places(b) <=> \E k \in 1..n : x = at[k]
  BY <1>2, <1>4 DEF Places
<1>6. HeldBy(h) = {}
  BY DEF HeldBy
<1>7. h \in [PoolUsers -> SUBSET Nat] /\ \A u \in PoolUsers : h[u] = {}
  OBVIOUS
<1> HIDE DEF at, h
<1>8. BufsInv(Places(b), n, at, h)
  <2>1. IsFiniteSet(HeldBy(h)) /\ n = Len(at) + Cardinality(HeldBy(h))
    BY <1>2, <1>6, FS_EmptySet
  <2>2. \A j, k \in 1..Len(at) : at[j] = at[k] => j = k
    BY <1>2, <1>3
  <2> QED
    BY <1>2, <1>5, <1>7, <2>1, <2>2 DEF BufsInv
<1>9. SemInv(Len(at), n, <<>>, {})
  <2>1. <<>> \in Seq(PoolUsers) /\ Len(<<>>) = 0
    BY EmptySeq
  <2>2. IsFiniteSet({}) /\ Cardinality({}) = 0
    BY FS_EmptySet
  <2> QED
    BY <1>2, <2>1, <2>2 DEF SemInv
<1>10. b \in Pool
  <2>1. <<>> \in Seq(PoolUsers) /\ n \in Int /\ {} \in SUBSET PoolUsers
    OBVIOUS
  <2>2. b = [addr |-> a, size |-> s, n |-> n, bufs |-> at, sem |-> n, q |-> <<>>, go |-> {}, held |-> h]
    BY DEF at, h
  <2>3. at \in Seq(Nat) /\ h \in [PoolUsers -> SUBSET Nat]
    BY <1>2, <1>7
  <2> QED
    BY ONLY a \in Nat, s \in Nat, n \in Nat \ {0}, <2>1, <2>2, <2>3, PoolRecord
<1> QED
  BY <1>4, <1>8, <1>9, <1>10 DEF PoolInv

LEMMA PoolIs ==
  ASSUME PoolsInv, NEW i \in DOMAIN buftab
  PROVE  /\ DOMAIN buftab = 1..Len(buftab) /\ Len(buftab) \in Nat /\ i \in 1..Len(buftab)
         /\ PoolInv(buftab[i]) /\ buftab[i] \in Pool
  BY DEF PoolsInv, PoolInv

\* One pool changes, and stays where it is.
LEMMA PoolChanged ==
  ASSUME HeapInv, PoolsInv, NEW i \in DOMAIN buftab, NEW d, PoolInv(d),
         d.addr = buftab[i].addr, d.n = buftab[i].n, d.size = buftab[i].size,
         buftab' = [buftab EXCEPT ![i] = d], freelist' = freelist, mlength' = mlength, owned' = owned
  PROVE  HeapInv' /\ PoolsInv'
<1>1. buftab \in Seq(Pool) /\ Len(buftab) \in Nat /\ DOMAIN buftab = 1..Len(buftab) /\ i \in 1..Len(buftab)
  BY DEF PoolsInv
<1>2. \A j \in 1..Len(buftab) : PoolInv(buftab[j])
  BY DEF PoolsInv
<1>3. d \in Pool
  BY DEF PoolInv
<1> DEFINE t == [buftab EXCEPT ![i] = d]
<1>4. t \in Seq(Pool) /\ Len(t) = Len(buftab) /\ \A j \in 1..Len(buftab) : t[j] = IF j = i THEN d ELSE buftab[j]
  BY <1>1, <1>3, ExceptSeq
<1>5. DOMAIN t = DOMAIN buftab /\ \A j \in DOMAIN buftab :
        t[j].addr = buftab[j].addr /\ t[j].n = buftab[j].n /\ t[j].size = buftab[j].size
  BY <1>1, <1>4
<1>6. buftab' = t
  OBVIOUS
<1> HIDE DEF t
<1>7. PoolsInv'
  BY <1>1, <1>2, <1>4, <1>6 DEF PoolsInv
<1>8. Tiled(FreeCells(freelist), owned, t)
  <2>1. Tiled(FreeCells(freelist), owned, buftab)
    BY DEF HeapInv
  <2> QED
    BY <1>5, <2>1, TiledSame
<1>9. GoodList(freelist) /\ mlength = Cardinality(FreeCells(freelist)) /\ OwnedInv
  BY DEF HeapInv
<1>10. OwnedInv'
  BY <1>9 DEF OwnedInv
<1> QED
  BY <1>6, <1>7, <1>8, <1>9, <1>10 DEF HeapInv

\* A record of a pool is one when its parts are.
LEMMA PoolFrom ==
  ASSUME NEW b \in Pool, NEW d, d.addr = b.addr, d.size = b.size, d.n = b.n, d = Whole(d),
         BufsInv(Places(b), b.n, d.bufs, d.held), SemInv(Len(d.bufs), d.sem, d.q, d.go)
  PROVE  PoolInv(d)
<1>1. d.addr \in Nat /\ d.size \in Nat /\ d.n \in Nat \ {0}
  BY DEF Pool
<1>2. Places(d) = Places(b)
  BY DEF Places
<1>3. d.bufs \in Seq(Nat) /\ d.held \in [PoolUsers -> SUBSET Nat]
  BY DEF BufsInv
<1>4. d.sem \in Int /\ d.q \in Seq(PoolUsers) /\ d.go \in SUBSET PoolUsers
  BY DEF SemInv
<1>5. Whole(d) \in Pool
  BY <1>1, <1>3, <1>4, PoolRecord DEF Whole
<1> QED
  BY <1>2, <1>5 DEF PoolInv

LEMMA PoolParts ==
  ASSUME NEW b, PoolInv(b)
  PROVE  /\ b \in Pool /\ b = Whole(b) /\ b.bufs \in Seq(Nat) /\ b.q \in Seq(PoolUsers)
         /\ BufsInv(Places(b), b.n, b.bufs, b.held) /\ SemInv(Len(b.bufs), b.sem, b.q, b.go)
<1>1. b \in Pool /\ BufsInv(Places(b), b.n, b.bufs, b.held) /\ SemInv(Len(b.bufs), b.sem, b.q, b.go)
  BY DEF PoolInv
<1>2. b.bufs \in Seq(Nat)
  BY <1>1 DEF BufsInv
<1>3. b.q \in Seq(PoolUsers)
  BY <1>1 DEF SemInv
<1> QED
  BY <1>1, <1>2, <1>3, PoolWhole

\* The first of the list is taken when there is one.
LEMMA TailTaken ==
  ASSUME NEW b, PoolInv(b), Len(b.bufs) > 0, NEW p \in PoolUsers, NEW t, NEW h,
         t = Tail(b.bufs), h = Adds(b.held, p, b.bufs[1])
  PROVE  BufsInv(Places(b), b.n, t, h) /\ Len(t) = Len(b.bufs) - 1
<1>1. b.bufs \in Seq(Nat) /\ BufsInv(Places(b), b.n, b.bufs, b.held)
  BY PoolParts
<1>2. b.bufs # <<>>
  BY <1>1, EmptySeq
<1>3. BufsInv(Places(b), b.n, Tail(b.bufs), [b.held EXCEPT ![p] = @ \cup {b.bufs[1]}])
  BY <1>1, <1>2, BufTaken
<1>4. Len(Tail(b.bufs)) = Len(b.bufs) - 1
  BY <1>1, <1>2, HeadTailProperties
<1> QED
  BY <1>3, <1>4 DEF Adds

LEMMA GetbufKeeps ==
  ASSUME HeapInv, PoolsInv, NEW p \in PoolUsers, NEW i \in DOMAIN buftab, Getbuf(p, i)
  PROVE  HeapInv' /\ PoolsInv'
<1> DEFINE b == buftab[i]
<1>1. /\ PoolInv(b) /\ b \in Pool /\ b = Whole(b) /\ b.q \in Seq(PoolUsers)
      /\ BufsInv(Places(b), b.n, b.bufs, b.held) /\ SemInv(Len(b.bufs), b.sem, b.q, b.go)
  BY PoolIs, PoolParts
<1>2. p \notin b.go /\ (\A k \in 1..Len(b.q) : b.q[k] # p) /\ freelist' = freelist /\ mlength' = mlength /\ owned' = owned
  <2>1. \A k \in DOMAIN b.q : b.q[k] # p
    BY DEF Getbuf
  <2>2. DOMAIN b.q = 1..Len(b.q)
    BY <1>1
  <2> QED
    BY <2>1, <2>2 DEF Getbuf
<1>3. CASE b.sem > 0
  <2> DEFINE d == Taking(b, p)
  <2>1. buftab' = [buftab EXCEPT ![i] = d]
    BY <1>3 DEF Getbuf, Taking
  <2>2. /\ d.addr = b.addr /\ d.size = b.size /\ d.n = b.n /\ d.bufs = Tail(b.bufs)
        /\ d.sem = b.sem - 1 /\ d.q = b.q /\ d.go = b.go
        /\ d.held = Adds(b.held, p, b.bufs[1]) /\ d = Whole(d)
    BY <1>1, AfterTaking
  <2> HIDE DEF b, d
  <2>3. SemInv(Len(b.bufs) - 1, b.sem - 1, b.q, b.go) /\ Len(b.bufs) > 0
    BY <1>1, <1>3, SemNow
  <2>4. BufsInv(Places(b), b.n, d.bufs, d.held) /\ Len(d.bufs) = Len(b.bufs) - 1
    BY <1>1, <2>2, <2>3, TailTaken
  <2>5. SemInv(Len(d.bufs), d.sem, d.q, d.go)
    BY <2>2, <2>3, <2>4
  <2>6. PoolInv(d)
    BY <1>1, <2>2, <2>4, <2>5, PoolFrom
  <2> QED
    BY <1>2, <2>1, <2>2, <2>6, PoolChanged DEF b
<1>4. CASE ~(b.sem > 0)
  <2> DEFINE d == Waiting(b, p)
  <2>1. buftab' = [buftab EXCEPT ![i] = d]
    BY <1>4 DEF Getbuf, Waiting
  <2>2. /\ d.addr = b.addr /\ d.size = b.size /\ d.n = b.n /\ d.bufs = b.bufs
        /\ d.sem = b.sem - 1 /\ d.q = Append(b.q, p) /\ d.go = b.go
        /\ d.held = b.held /\ d = Whole(d)
    BY <1>1, AfterWaiting
  <2> HIDE DEF b, d
  <2>3. SemInv(Len(b.bufs), b.sem - 1, Append(b.q, p), b.go)
    BY <1>1, <1>2, <1>4, SemWait
  <2>4. BufsInv(Places(b), b.n, d.bufs, d.held) /\ SemInv(Len(d.bufs), d.sem, d.q, d.go)
    BY <1>1, <2>2, <2>3
  <2>5. PoolInv(d)
    BY <1>1, <2>2, <2>4, PoolFrom
  <2> QED
    BY <1>2, <2>1, <2>2, <2>5, PoolChanged DEF b
<1> QED
  BY <1>3, <1>4

LEMMA GetbufGoesOnKeeps ==
  ASSUME HeapInv, PoolsInv, NEW p \in PoolUsers, NEW i \in DOMAIN buftab, GetbufGoesOn(p, i)
  PROVE  HeapInv' /\ PoolsInv'
<1> DEFINE b == buftab[i]
           d == GoingOn(b, p)
<1>1. /\ PoolInv(b) /\ b \in Pool /\ b = Whole(b) /\ SemInv(Len(b.bufs), b.sem, b.q, b.go)
  BY PoolIs, PoolParts
<1>2. /\ p \in b.go /\ buftab' = [buftab EXCEPT ![i] = d]
      /\ freelist' = freelist /\ mlength' = mlength /\ owned' = owned
  BY DEF GetbufGoesOn, GoingOn
<1>3. /\ d.addr = b.addr /\ d.size = b.size /\ d.n = b.n /\ d.bufs = Tail(b.bufs)
      /\ d.sem = b.sem /\ d.q = b.q /\ d.go = b.go \ {p}
      /\ d.held = Adds(b.held, p, b.bufs[1]) /\ d = Whole(d)
  BY <1>1, AfterGoingOn
<1> HIDE DEF b, d
<1>4. Len(b.bufs) > 0 /\ SemInv(Len(b.bufs) - 1, b.sem, b.q, b.go \ {p})
  BY <1>1, <1>2, SemGoesOn
<1>5. BufsInv(Places(b), b.n, d.bufs, d.held) /\ Len(d.bufs) = Len(b.bufs) - 1
  BY <1>1, <1>3, <1>4, TailTaken
<1>6. SemInv(Len(d.bufs), d.sem, d.q, d.go)
  BY <1>3, <1>4, <1>5
<1>7. PoolInv(d)
  BY <1>1, <1>3, <1>5, <1>6, PoolFrom
<1> QED
  BY <1>2, <1>3, <1>7, PoolChanged DEF b

LEMMA FreebufKeeps ==
  ASSUME HeapInv, PoolsInv, NEW p \in PoolUsers, NEW i \in DOMAIN buftab,
         NEW buf \in buftab[i].held[p], Freebuf(p, i, buf)
  PROVE  HeapInv' /\ PoolsInv'
<1> DEFINE b == buftab[i]
           f == Freeing(b, p, buf)
           d == Signalled(f, Head(b.q))
<1>1. /\ PoolInv(b) /\ b \in Pool /\ b = Whole(b)
      /\ BufsInv(Places(b), b.n, b.bufs, b.held) /\ SemInv(Len(b.bufs), b.sem, b.q, b.go)
  BY PoolIs, PoolParts
<1>2. /\ buftab' = [buftab EXCEPT ![i] = IF b.q = <<>> THEN f ELSE d]
      /\ freelist' = freelist /\ mlength' = mlength /\ owned' = owned /\ buf \in b.held[p]
  BY DEF Freebuf, Freeing, Signalled
<1>3. /\ f.addr = b.addr /\ f.size = b.size /\ f.n = b.n /\ f.bufs = <<buf>> \o b.bufs
      /\ f.sem = b.sem + 1 /\ f.q = b.q /\ f.go = b.go
      /\ f.held = Drops(b.held, p, buf) /\ f = Whole(f)
  BY <1>1, AfterFreeing
<1> HIDE DEF f
<1>4. /\ d.addr = f.addr /\ d.size = f.size /\ d.n = f.n /\ d.bufs = f.bufs
      /\ d.sem = f.sem /\ d.q = Tail(f.q) /\ d.go = f.go \cup {Head(b.q)}
      /\ d.held = f.held /\ d = Whole(d)
  BY <1>3, AfterSignal
<1> HIDE DEF b, d
<1>5. BufsInv(Places(b), b.n, f.bufs, f.held) /\ Len(f.bufs) = Len(b.bufs) + 1
  <2>1. /\ BufsInv(Places(b), b.n, <<buf>> \o b.bufs, [b.held EXCEPT ![p] = @ \ {buf}])
        /\ Len(<<buf>> \o b.bufs) = Len(b.bufs) + 1
    BY <1>1, <1>2, BufFreed
  <2> QED
    BY <1>3, <2>1 DEF Drops
<1>6. CASE b.q = <<>>
  <2>1. SemInv(Len(b.bufs) + 1, b.sem + 1, b.q, b.go)
    BY <1>1, <1>6, SemNow
  <2>2. SemInv(Len(f.bufs), f.sem, f.q, f.go)
    BY <1>3, <1>5, <2>1
  <2>3. PoolInv(f)
    BY <1>1, <1>3, <1>5, <2>2, PoolFrom
  <2> QED
    BY <1>2, <1>3, <1>6, <2>3, PoolChanged DEF b
<1>7. CASE b.q # <<>>
  <2>1. SemInv(Len(b.bufs) + 1, b.sem + 1, Tail(b.q), b.go \cup {Head(b.q)})
    BY <1>1, <1>7, SemSignal
  <2>2. SemInv(Len(d.bufs), d.sem, d.q, d.go)
    BY <1>3, <1>4, <1>5, <2>1
  <2>3. BufsInv(Places(b), b.n, d.bufs, d.held)
    BY <1>4, <1>5
  <2>4. PoolInv(d)
    BY <1>1, <1>3, <1>4, <2>2, <2>3, PoolFrom
  <2> QED
    BY <1>2, <1>3, <1>4, <1>7, <2>4, PoolChanged DEF b
<1> QED
  BY <1>6, <1>7

\* A pool that is made has all its buffers in the list.
LEMMA MkbufpoolPools ==
  ASSUME HeapInv, PoolsInv, NEW s \in BufSizes, NEW n \in NumBufs, NEW sem \in BOOLEAN,
         Mkbufpool(s, n, sem)
  PROVE  PoolsInv'
<1> DEFINE m == n * (s + 1)
           a == GetmemAddr(m)
           p == [addr |-> a, size |-> s, n |-> n,
                 bufs |-> [i \in 1..n |-> a + (i - 1) * (s + 1)],
                 sem |-> n, q |-> <<>>, go |-> {}, held |-> [u \in PoolUsers |-> {}]]
<1>1. n >= 1 /\ a # NULL /\ buftab' = IF sem THEN Append(buftab, p) ELSE buftab
  BY DEF Mkbufpool
<1>2. s \in Nat /\ n \in Nat \ {0}
  BY <1>1, MemoryAssump
<1>3. m \in Nat
  BY <1>2
<1> HIDE DEF m
<1>4. a \in Nat
  <2>1. GoodList(freelist)
    BY DEF HeapInv
  <2> QED
    BY <1>1, <1>3, <2>1, GetmemTakes
<1> HIDE DEF a
<1>5. PoolInv(p)
  BY <1>2, <1>4, PoolMade
<1> HIDE DEF p
<1>6. p \in Pool
  BY <1>5 DEF PoolInv
<1>7. buftab \in Seq(Pool) /\ Len(buftab) \in Nat /\ \A i \in 1..Len(buftab) : PoolInv(buftab[i])
  BY DEF PoolsInv
<1> DEFINE t == Append(buftab, p)
<1>8. /\ t \in Seq(Pool) /\ Len(t) = Len(buftab) + 1 /\ t[Len(buftab) + 1] = p
      /\ \A i \in 1..Len(buftab) : t[i] = buftab[i]
  BY <1>6, <1>7, AppendProperties
<1> HIDE DEF t
<1>9. \A i \in 1..Len(t) : PoolInv(t[i])
  <2>1. \A i \in 1..Len(t) : i \in 1..Len(buftab) \/ i = Len(buftab) + 1
    BY <1>7, <1>8
  <2> QED
    BY <1>5, <1>7, <1>8, <2>1
<1>10. buftab' = t \/ buftab' = buftab
  BY <1>1 DEF t
<1> QED
  BY <1>7, <1>8, <1>9, <1>10 DEF PoolsInv

-----------------------------------------------------------------------------
(* The invariant and what follows from it *)

MemInv == HeapInv /\ PoolsInv

LEMMA MemInit ==
  ASSUME MemoryInit
  PROVE  MemInv
<1>1. /\ freelist = [i \in DOMAIN Regions |-> FreeBlock(Regions[i])]
      /\ mlength = Total(freelist) /\ owned = {} /\ buftab = <<>>
  BY DEF MemoryInit
<1>2. GoodList(freelist) /\ FreeCells(freelist) = HeapCells
  BY <1>1, HeapIs
<1>3. mlength = Cardinality(FreeCells(freelist))
  BY <1>1, <1>2, TotalIs
<1>4. OwnedInv
  BY <1>1, FS_EmptySet DEF OwnedInv
<1>5. buftab \in Seq(Pool) /\ Len(buftab) = 0 /\ DOMAIN buftab = {}
  BY <1>1
<1>6. Tiled(FreeCells(freelist), owned, buftab)
  BY <1>1, <1>2, <1>5 DEF Tiled, Apart, Covered
<1>7. PoolsInv
  BY <1>5 DEF PoolsInv
<1> QED
  BY <1>2, <1>3, <1>4, <1>6, <1>7 DEF MemInv, HeapInv

LEMMA PoolsSame ==
  ASSUME PoolsInv, buftab' = buftab
  PROVE  PoolsInv'
  BY DEF PoolsInv

LEMMA MemNext ==
  ASSUME MemInv, [MemoryNext]_mvars
  PROVE  MemInv'
<1>1. HeapInv /\ PoolsInv
  BY DEF MemInv
<1>2. buftab \in Seq(Pool)
  BY <1>1 DEF PoolsInv
<1>3. ASSUME NEW n \in Sizes, Getmem(n)
      PROVE  MemInv'
  <2>1. buftab' = buftab
    BY <1>3 DEF Getmem
  <2> QED
    BY <1>1, <1>3, <2>1, GetmemKeeps, PoolsSame DEF MemInv
<1>4. ASSUME NEW n \in Sizes, Getstk(n)
      PROVE  MemInv'
  <2>1. buftab' = buftab
    BY <1>4 DEF Getstk
  <2> QED
    BY <1>1, <1>4, <2>1, GetstkKeeps, PoolsSame DEF MemInv
<1>5. ASSUME NEW a \in MinHeap..MaxHeap, NEW n \in Sizes, Freemem(a, n)
      PROVE  MemInv'
  <2>1. buftab' = buftab
    BY <1>5 DEF Freemem
  <2> QED
    BY <1>1, <1>5, <2>1, FreememKeeps, PoolsSame DEF MemInv
<1>6. ASSUME NEW s \in BufSizes, NEW n \in NumBufs, NEW sem \in BOOLEAN, Mkbufpool(s, n, sem)
      PROVE  MemInv'
  BY <1>1, <1>2, <1>6, MkbufpoolKeeps, MkbufpoolPools DEF MemInv
<1>7. ASSUME NEW p \in PoolUsers, NEW i \in DOMAIN buftab, Getbuf(p, i)
      PROVE  MemInv'
  BY <1>1, <1>7, GetbufKeeps DEF MemInv
<1>8. ASSUME NEW p \in PoolUsers, NEW i \in DOMAIN buftab, GetbufGoesOn(p, i)
      PROVE  MemInv'
  BY <1>1, <1>8, GetbufGoesOnKeeps DEF MemInv
<1>9. ASSUME NEW p \in PoolUsers, NEW i \in DOMAIN buftab, NEW buf \in buftab[i].held[p], Freebuf(p, i, buf)
      PROVE  MemInv'
  BY <1>1, <1>9, FreebufKeeps DEF MemInv
<1>10. CASE UNCHANGED mvars
  <2>1. freelist' = freelist /\ mlength' = mlength /\ owned' = owned /\ buftab' = buftab
    BY <1>10 DEF mvars
  <2> QED
    BY <1>1, <2>1 DEF MemInv, HeapInv, OwnedInv, PoolsInv
<1> QED
  BY <1>3, <1>4, <1>5, <1>6, <1>7, <1>8, <1>9, <1>10 DEF MemoryNext

\* Families of sets that are not empty and share no element, and the sets in them.
Family(I, f) ==
  /\ IsFiniteSet(I) /\ \A i \in I : \E c : c \in f[i]
  /\ \A i, j \in I : \A c : c \in f[i] /\ c \in f[j] => i = j
Strangers(I, f, J, g) == \A i \in I, j \in J : \A c : ~(c \in f[i] /\ c \in g[j])
Members(A, I, f) == \A x : x \in A <=> \E i \in I : x = f[i]

\* The sets of three families are counted by what they are indexed with.
LEMMA Parts ==
  ASSUME NEW I, NEW J, NEW K, NEW f, NEW g, NEW h, Family(I, f), Family(J, g), Family(K, h),
         Strangers(I, f, J, g), Strangers(I, f, K, h), Strangers(J, g, K, h),
         NEW A, NEW B, NEW C, Members(A, I, f), Members(B, J, g), Members(C, K, h)
  PROVE  /\ \A x, y \in A \cup B \cup C : x # y => x \cap y = {}
         /\ Cardinality(A \cup B \cup C) = Cardinality(I) + Cardinality(J) + Cardinality(K)
<1> USE DEF Family, Strangers, Members
<1>1. ASSUME NEW x \in A \cup B \cup C, NEW y \in A \cup B \cup C, NEW c, c \in x, c \in y
      PROVE  x = y
  <2>1. CASE x \in A
    BY <1>1, <2>1
  <2>2. CASE x \in B
    BY <1>1, <2>2
  <2>3. CASE x \in C
    BY <1>1, <2>3
  <2> QED
    BY <2>1, <2>2, <2>3
<1>2. IsFiniteSet(A) /\ Cardinality(A) = Cardinality(I)
  <2>1. \A x, y \in I : f[x] = f[y] => x = y
    OBVIOUS
  <2> QED
    BY <2>1, ImageCount
<1>3. IsFiniteSet(B) /\ Cardinality(B) = Cardinality(J)
  <2>1. \A x, y \in J : g[x] = g[y] => x = y
    OBVIOUS
  <2> QED
    BY <2>1, ImageCount
<1>4. IsFiniteSet(C) /\ Cardinality(C) = Cardinality(K)
  <2>1. \A x, y \in K : h[x] = h[y] => x = y
    OBVIOUS
  <2> QED
    BY <2>1, ImageCount
<1>5. A \cap B = {} /\ (A \cup B) \cap C = {}
  OBVIOUS
<1>7. IsFiniteSet(A \cup B) /\ Cardinality(A \cup B) = Cardinality(A) + Cardinality(B)
  BY <1>2, <1>3, <1>5, ApartCount
<1>8. Cardinality((A \cup B) \cup C) = Cardinality(A \cup B) + Cardinality(C)
  BY <1>4, <1>5, <1>7, ApartCount
<1> QED
  BY <1>1, <1>2, <1>3, <1>4, <1>7, <1>8

LEMMA HeapTiledIs ==
  ASSUME MemInv
  PROVE  HeapTiled
<1> DEFINE free == [i \in DOMAIN freelist |-> Cells(freelist[i].addr, freelist[i].len)]
           own == [b \in owned |-> OwnCells(b)]
           pool == [i \in DOMAIN buftab |-> PoolCells(buftab[i])]
           A == {free[i] : i \in DOMAIN free}
           B == {Cells(b.addr, Round(b.len)) : b \in owned}
           C == {Cells(buftab[i].addr, Round(buftab[i].n * (buftab[i].size + 1))) : i \in DOMAIN buftab}
           H == UNION {Cells(FreeBlock(Regions[i]).addr, FreeBlock(Regions[i]).len) : i \in DOMAIN Regions}
           n == Len(freelist)
           m == Len(buftab)
<1>1. /\ GoodList(freelist) /\ OwnedInv /\ PoolsInv
      /\ Apart(FreeCells(freelist), owned, buftab) /\ Covered(FreeCells(freelist), owned, buftab)
  BY DEF MemInv, HeapInv, Tiled
<1>2. /\ n \in Nat /\ DOMAIN freelist = 1..n
      /\ \A i \in 1..n : freelist[i].addr \in Nat /\ freelist[i].len \in Nat /\ freelist[i].len > 0
      /\ \A i, j \in 1..n : i < j => End(freelist[i]) < freelist[j].addr
      /\ \A c : c \in FreeCells(freelist) <=>
           c \in Nat /\ \E i \in 1..n : freelist[i].addr <= c /\ c < End(freelist[i])
  BY <1>1, ListIs
<1>3. m \in Nat /\ DOMAIN buftab = 1..m /\ \A i \in 1..m : buftab[i] \in Pool
  BY <1>1 DEF PoolsInv
<1>0. Len(freelist) = n /\ Len(buftab) = m
  OBVIOUS
<1> HIDE DEF n, m
<1>4. A = {free[i] : i \in 1..n} /\ DOMAIN free = 1..n
  BY <1>2
<1>5. ASSUME NEW i \in 1..n
      PROVE  /\ \A c : c \in free[i] <=> c \in Nat /\ freelist[i].addr <= c /\ c < End(freelist[i])
             /\ freelist[i].addr \in free[i]
  <2>1. free[i] = Cells(freelist[i].addr, freelist[i].len)
    BY <1>2
  <2>2. \A c : c \in free[i] <=> c \in Nat /\ freelist[i].addr <= c /\ c < freelist[i].addr + freelist[i].len
    BY <1>2, <2>1, CellsAre
  <2> HIDE DEF free
  <2> QED
    BY <1>2, <2>2 DEF End
<1>6. ASSUME NEW i \in 1..n, NEW j \in 1..n, NEW c, c \in free[i], c \in free[j]
      PROVE  i = j
  <2>1. c \in Nat /\ freelist[i].addr <= c /\ c < End(freelist[i]) /\ freelist[j].addr <= c /\ c < End(freelist[j])
    BY <1>5, <1>6
  <2> HIDE DEF free
  <2>2. PICK x \in Nat, y \in Nat : End(freelist[i]) = x /\ End(freelist[j]) = y
    BY <1>2, EndNat
  <2>3. PICK u \in Nat, v \in Nat : freelist[i].addr = u /\ freelist[j].addr = v
    BY <1>2
  <2>4. (i < j => x < v) /\ (j < i => y < u) /\ u <= c /\ v <= c /\ c < x /\ c < y /\ c \in Nat
    BY <1>2, <2>1, <2>2, <2>3
  <2> QED
    BY <1>2, <2>4
<1>7. \A c : c \in FreeCells(freelist) <=> \E i \in 1..n : c \in free[i]
  BY <1>2, <1>5
<1>8. \A b \in owned : own[b] = OwnCells(b) /\ \E c : c \in own[b]
  <2> SUFFICES ASSUME NEW b \in owned PROVE b.addr \in OwnCells(b)
    OBVIOUS
  <2>1. b.addr \in Nat /\ b.len \in Nat /\ b.len > 0
    BY <1>1, MemoryAssump DEF OwnedInv
  <2>2. Round(b.len) \in Nat /\ Round(b.len) > 0
    BY <2>1, RoundIs
  <2> QED
    BY <2>1, <2>2, CellsAre DEF OwnCells
<1>9. \A i \in 1..m : pool[i] = PoolCells(buftab[i]) /\ \E c : c \in pool[i]
  <2> SUFFICES ASSUME NEW i \in 1..m PROVE buftab[i].addr \in PoolCells(buftab[i])
    BY <1>3
  <2> DEFINE b == buftab[i]
             k == b.n * (b.size + 1)
  <2>1. b.addr \in Nat /\ b.size \in Nat /\ b.n \in Nat \ {0}
    BY <1>3 DEF Pool
  <2>2. k \in Nat /\ k > 0
    <3>1. PICK x \in Nat \ {0}, y \in Nat \ {0} : b.n = x /\ b.size + 1 = y
      BY <2>1
    <3>2. x * y \in Nat /\ x * y > 0
      BY ProductPos
    <3> QED
      BY <3>1, <3>2
  <2> HIDE DEF k
  <2>3. Round(k) \in Nat /\ Round(k) > 0
    BY <2>2, RoundIs
  <2> HIDE DEF b
  <2>4. b.addr \in Cells(b.addr, Round(k))
    BY <2>1, <2>3, FirstCell
  <2> QED
    BY <2>4 DEF PoolCells, k, b
<1>10. /\ \A x : x \in A <=> \E i \in 1..n : x = free[i]
       /\ \A x : x \in B <=> \E b \in owned : x = own[b]
       /\ \A x : x \in C <=> \E i \in 1..m : x = pool[i]
  <2>1. \A x : x \in A <=> \E i \in 1..n : x = free[i]
    BY <1>4
  <2>2. B = {own[b] : b \in owned}
    BY DEF OwnCells
  <2>3. C = {pool[i] : i \in 1..m}
    BY <1>3 DEF PoolCells
  <2> HIDE DEF own, pool, B, C
  <2> QED
    BY <2>1, <2>2, <2>3
<1>11. /\ IsFiniteSet(1..n) /\ Cardinality(1..n) = n /\ IsFiniteSet(1..m) /\ Cardinality(1..m) = m
       /\ IsFiniteSet(owned)
  <2>1. \A k \in Nat : IsFiniteSet(1..k) /\ Cardinality(1..k) = k
    BY FS_Interval
  <2>2. IsFiniteSet(owned)
    BY <1>1 DEF OwnedInv
  <2> QED
    BY <1>2, <1>3, <2>1, <2>2
<1>12. /\ \A b, d \in owned : \A c : c \in own[b] /\ c \in own[d] => b = d
       /\ \A i, j \in 1..m : \A c : c \in pool[i] /\ c \in pool[j] => i = j
       /\ \A i \in 1..n, b \in owned : \A c : ~(c \in free[i] /\ c \in own[b])
       /\ \A i \in 1..n, j \in 1..m : \A c : ~(c \in free[i] /\ c \in pool[j])
       /\ \A b \in owned, i \in 1..m : \A c : ~(c \in own[b] /\ c \in pool[i])
  <2> HIDE DEF free, own, pool
  <2> QED
    BY <1>1, <1>3, <1>7, <1>8, <1>9 DEF Apart
<1>13. (\A i \in 1..n : \E c : c \in free[i]) /\ (\A b \in owned : \E c : c \in own[b]) /\ (\A i \in 1..m : \E c : c \in pool[i])
  BY <1>5, <1>8, <1>9
<1> HIDE DEF own, pool, A, B, C, free
<1>14. /\ \A x, y \in A \cup B \cup C : x # y => x \cap y = {}
       /\ Cardinality(A \cup B \cup C) = Cardinality(1..n) + Cardinality(owned) + Cardinality(1..m)
  <2> DEFINE I == 1..n
             K == 1..m
  <2>0. I = 1..n /\ K = 1..m
    OBVIOUS
  <2>1. Family(I, free)
    BY <1>6, <1>11, <1>13 DEF Family
  <2>2. Family(owned, own)
    BY <1>11, <1>12, <1>13 DEF Family
  <2>3. Family(K, pool)
    BY <1>11, <1>12, <1>13 DEF Family
  <2>4. Strangers(I, free, owned, own) /\ Strangers(I, free, K, pool) /\ Strangers(owned, own, K, pool)
    BY <1>12 DEF Strangers
  <2>5. Members(A, I, free) /\ Members(B, owned, own) /\ Members(C, K, pool)
    BY <1>10 DEF Members
  <2> HIDE DEF I, K
  <2>6. /\ \A x, y \in A \cup B \cup C : x # y => x \cap y = {}
        /\ Cardinality(A \cup B \cup C) = Cardinality(I) + Cardinality(owned) + Cardinality(K)
    BY ONLY <2>1, <2>2, <2>3, <2>4, <2>5, Parts
  <2> QED
    BY <2>0, <2>6
<1>15. UNION (A \cup B \cup C) = H
  <2>1. \A c : c \in H <=> (\E i \in 1..n : c \in free[i]) \/ (\E b \in owned : c \in own[b]) \/ (\E i \in 1..m : c \in pool[i])
    <3>1. H = HeapCells
      BY DEF HeapCells
    <3> HIDE DEF H
    <3> QED
      BY <1>1, <1>3, <1>7, <1>8, <1>9, <3>1 DEF Covered
  <2> HIDE DEF H
  <2>2. \A c : c \in UNION (A \cup B \cup C) <=> c \in H
    BY <1>10, <2>1
  <2> QED
    BY <2>2
<1>16. Len(free) = n
  BY <1>2, <1>0 DEF free
<1>17. Cardinality(A \cup B \cup C) = Len(free) + Cardinality(owned) + Len(buftab)
  BY <1>0, <1>11, <1>14, <1>16
<1> QED
  BY <1>14, <1>15, <1>17 DEF HeapTiled, free, A, B, C

LEMMA FreeListJoinedIs ==
  ASSUME MemInv
  PROVE  FreeListJoined
<1>1. GoodList(freelist) /\ mlength = Cardinality(FreeCells(freelist))
  BY DEF MemInv, HeapInv
<1>2. mlength = Total(freelist)
  BY <1>1, TotalIs
<1>3. /\ Len(freelist) \in Nat
      /\ \A i, j \in 1..Len(freelist) : i < j => End(freelist[i]) < freelist[j].addr
  BY <1>1, ListIs
<1>4. ASSUME NEW i \in 1..(Len(freelist) - 1)
      PROVE  freelist[i].addr + freelist[i].len < freelist[i + 1].addr
  <2>1. i \in 1..Len(freelist) /\ i + 1 \in 1..Len(freelist) /\ i < i + 1
    BY <1>3
  <2>2. End(freelist[i]) < freelist[i + 1].addr
    BY <1>3, <2>1
  <2> QED
    BY <2>2 DEF End
<1> QED
  BY <1>2, <1>4 DEF FreeListJoined

LEMMA BuffersCountedIs ==
  ASSUME MemInv
  PROVE  BuffersCounted
<1>1. PoolsInv
  BY DEF MemInv
<1> SUFFICES ASSUME NEW i \in DOMAIN buftab, NEW b, b = buftab[i]
             PROVE  /\ Len(b.bufs) = Cardinality(b.go) + (IF b.sem > 0 THEN b.sem ELSE 0)
                    /\ Len(b.q) = (IF b.sem < 0 THEN -b.sem ELSE 0)
                    /\ {b.addr + (k - 1) * (b.size + 1) : k \in 1..b.n} =
                         {b.bufs[k] : k \in DOMAIN b.bufs} \cup UNION {b.held[p] : p \in PoolUsers}
                    /\ b.n = Len(b.bufs) + Cardinality(UNION {b.held[p] : p \in PoolUsers})
                    /\ \A p, r \in PoolUsers : p # r => b.held[p] \cap b.held[r] = {}
  BY DEF BuffersCounted
<1>2. PoolInv(b)
  BY <1>1, PoolIs
<1>3. /\ b.bufs \in Seq(Nat) /\ BufsInv(Places(b), b.n, b.bufs, b.held)
      /\ SemInv(Len(b.bufs), b.sem, b.q, b.go)
  BY <1>2, PoolParts
<1>4. /\ Len(b.bufs) = Cardinality(b.go) + (IF b.sem > 0 THEN b.sem ELSE 0)
      /\ Len(b.q) = (IF b.sem < 0 THEN -b.sem ELSE 0)
  BY <1>3 DEF SemInv
<1>5. /\ b.n = Len(b.bufs) + Cardinality(HeldBy(b.held))
      /\ \A p, r \in PoolUsers : \A x : x \in b.held[p] /\ x \in b.held[r] => p = r
      /\ \A x : x \in Places(b) <=>
           (\E k \in 1..Len(b.bufs) : x = b.bufs[k]) \/ (\E p \in PoolUsers : x \in b.held[p])
  BY <1>3 DEF BufsInv
<1>6. Places(b) = {b.bufs[k] : k \in DOMAIN b.bufs} \cup HeldBy(b.held)
  <2>1. DOMAIN b.bufs = 1..Len(b.bufs)
    BY <1>3
  <2>2. \A x : x \in HeldBy(b.held) <=> \E p \in PoolUsers : x \in b.held[p]
    BY DEF HeldBy
  <2>3. \A x : x \in Places(b) <=> x \in {b.bufs[k] : k \in DOMAIN b.bufs} \/ x \in HeldBy(b.held)
    BY <1>5, <2>1, <2>2
  <2> QED
    BY <2>3
<1>7. \A p, r \in PoolUsers : p # r => b.held[p] \cap b.held[r] = {}
  BY <1>5
<1>8. {b.addr + (k - 1) * (b.size + 1) : k \in 1..b.n} = {b.bufs[k] : k \in DOMAIN b.bufs} \cup UNION {b.held[p] : p \in PoolUsers}
  BY <1>6 DEF Places, HeldBy
<1>9. b.n = Len(b.bufs) + Cardinality(UNION {b.held[p] : p \in PoolUsers})
  BY <1>5 DEF HeldBy
<1> QED
  BY <1>4, <1>7, <1>8, <1>9

\* A process waits once: no more wait than there are.
LEMMA SemRange ==
  ASSUME NEW m, NEW sem, NEW q, NEW go, SemInv(m, sem, q, go), NEW n \in Nat, m <= n
  PROVE  sem \in (-Cardinality(PoolUsers))..n
<1>1. /\ sem \in Int /\ q \in Seq(PoolUsers) /\ IsFiniteSet(go)
      /\ m = Cardinality(go) + (IF sem > 0 THEN sem ELSE 0)
      /\ Len(q) = (IF sem < 0 THEN -sem ELSE 0)
      /\ \A j, k \in 1..Len(q) : q[j] = q[k] => j = k
  BY DEF SemInv
<1>2. Cardinality(go) \in Nat
  BY <1>1, FS_CardinalityType
<1>3. Len(q) \in Nat /\ Cardinality(1..Len(q)) = Len(q) /\ IsFiniteSet(PoolUsers)
  <2>1. Len(q) \in Nat
    BY <1>1
  <2>2. \A k \in Nat : Cardinality(1..k) = k
    BY FS_Interval
  <2> QED
    BY <2>1, <2>2, MemoryAssump
<1>4. q \in Injection(1..Len(q), PoolUsers)
  <2>1. q \in [1..Len(q) -> PoolUsers]
    BY <1>1
  <2> QED
    BY <1>1, <2>1 DEF Injection, IsInjective
<1>5. Len(q) <= Cardinality(PoolUsers)
  BY <1>3, <1>4, FS_Injection
<1>6. Cardinality(PoolUsers) \in Nat
  BY <1>3, FS_CardinalityType
<1> QED
  BY <1>1, <1>2, <1>3, <1>5, <1>6

LEMMA MemoryTypeOKIs ==
  ASSUME MemInv
  PROVE  MemoryTypeOK
<1>1. HeapInv /\ PoolsInv /\ GoodList(freelist) /\ mlength = Cardinality(FreeCells(freelist)) /\ OwnedInv
  BY DEF MemInv, HeapInv
<1>2. mlength \in Nat
  BY <1>1, FreeFinite, FS_CardinalityType
<1>3. ASSUME NEW i \in DOMAIN freelist
      PROVE  freelist[i].addr \in MinHeap..MaxHeap
  <2>1. /\ Len(freelist) \in Nat /\ DOMAIN freelist = 1..Len(freelist)
        /\ \A k \in 1..Len(freelist) : freelist[k].addr \in Nat /\ freelist[k].len \in Nat /\ freelist[k].len > 0
        /\ \A c : c \in FreeCells(freelist) <=>
             c \in Nat /\ \E k \in 1..Len(freelist) : freelist[k].addr <= c /\ c < End(freelist[k])
    BY <1>1, ListIs
  <2>2. PICK x \in Nat, y \in Nat : freelist[i].addr = x /\ freelist[i].len = y /\ y > 0
    BY <2>1
  <2>3. End(freelist[i]) = x + y
    BY <2>2 DEF End
  <2>4. x \in FreeCells(freelist)
    <3>1. i \in 1..Len(freelist) /\ freelist[i].addr <= x /\ x < End(freelist[i])
      BY <2>1, <2>2, <2>3
    <3> QED
      BY <2>1, <3>1
  <2>5. x >= MinHeap /\ x < MaxHeap /\ MaxHeap \in Nat /\ MinHeap \in Nat
    BY <1>1, <2>4, InHeap, MemoryAssump
  <2> QED
    BY <2>2, <2>5
<1>4. \A b \in owned : b.len \in Sizes
  BY <1>1 DEF OwnedInv
<1>5. ASSUME NEW i \in DOMAIN buftab
      PROVE  buftab[i].sem \in (-Cardinality(PoolUsers))..buftab[i].n
  <2> DEFINE b == buftab[i]
  <2>1. PoolInv(b)
    BY <1>1, PoolIs
  <2> HIDE DEF b
  <2>2. /\ b \in Pool /\ b.bufs \in Seq(Nat) /\ BufsInv(Places(b), b.n, b.bufs, b.held)
        /\ SemInv(Len(b.bufs), b.sem, b.q, b.go)
    BY <2>1, PoolParts
  <2>3. b.n \in Nat /\ IsFiniteSet(HeldBy(b.held)) /\ b.n = Len(b.bufs) + Cardinality(HeldBy(b.held))
    BY <2>2 DEF BufsInv, Pool
  <2>4. Len(b.bufs) \in Nat /\ Cardinality(HeldBy(b.held)) \in Nat
    BY <2>2, <2>3, FS_CardinalityType
  <2>5. Len(b.bufs) <= b.n
    BY <2>3, <2>4
  <2>6. b.sem \in (-Cardinality(PoolUsers))..b.n
    BY <2>2, <2>3, <2>5, SemRange
  <2> QED
    BY <2>6 DEF b
<1> QED
  BY <1>2, <1>3, <1>4, <1>5 DEF MemoryTypeOK

\* getmem, getstk, freemem, mkbufpool, getbuf and freebuf, called in any order and freeing
\* whatever twice, keep every cell of the heap in one free block, one block handed out or one
\* pool; the free list in order and joined, with memlist's count of what is free; and every
\* buffer in its pool's list or with one process, as many in the list as the semaphore says.
THEOREM MemoryKept == MemorySpec => []MemorySound
<1>1. MemoryInit => MemInv
  BY MemInit
<1>2. MemInv /\ [MemoryNext]_mvars => MemInv'
  BY MemNext
<1>3. MemInv => MemorySound
  BY MemoryTypeOKIs, HeapTiledIs, FreeListJoinedIs, BuffersCountedIs DEF MemorySound
<1> QED
  BY <1>1, <1>2, <1>3, PTL DEF MemorySpec

-----------------------------------------------------------------------------
(* Ports *)

PortSem == [sem : Int, q : Seq(Procs)]
PortEntry == [state : {"free", "limbo", "alloc"}, ssem : PortSem, rsem : PortSem, queue : Seq(Nat),
              maxcnt : Nat, seq : Nat]
Call == [op : {"none", "send", "recv"}, port : Ports, seq : Nat]

\* A semaphore's queue has each process once, and as many as a negative count says.
SemOK(s) ==
  /\ s \in PortSem /\ Len(s.q) = IF s.sem < 0 THEN 0 - s.sem ELSE 0
  /\ \A i, j \in DOMAIN s.q : i # j => s.q[i] # s.q[j]
\* Those who wait in it have called op at port n as it is now; they are not ready.
WaitOK(s, op, n, t, c, r) ==
  \A p \in All(s) : p \notin r /\ c[p].op = op /\ c[p].port = n /\ (t.state = "alloc" => c[p].seq = t.seq)
\* Those of r who have called op at port n when its number was seq.
LetIn(op, n, seq, c, r) == {p \in r : c[p].op = op /\ c[p].port = n /\ c[p].seq = seq}

\* The types of the variables.
TypeInv ==
  /\ porttab \in [Ports -> PortEntry] /\ ptfree \in Nat /\ ptnextid \in Ports
  /\ call \in [Procs -> Call] /\ ready \subseteq Procs /\ IsFiniteSet(ready)
  /\ clear \in [port : 0..NPORTS, to : {"free", "alloc"}, step : {"none", "dispose", "receivers"}, walk : Nat]
  /\ msgs \in Seq([port : Ports, seq : Nat]) /\ disposed \in Seq(Nat)
  /\ received \in Seq([msg : Nat, seq : Nat])

\* A port is in limbo as long as _ptclear is at work on it.
ClearInv ==
  /\ \A n \in Ports : porttab[n].state = "limbo" <=> clear.step # "none" /\ clear.port = n
  /\ clear.step = "none" => clear = NoClear
  /\ clear.step # "none" => clear.port \in Ports
  /\ clear.step = "dispose" => clear.walk <= Len(porttab[clear.port].queue)
  /\ clear.step = "receivers" /\ clear.to = "alloc" =>
       porttab[clear.port].queue = <<>> /\ porttab[clear.port].ssem = Sem(porttab[clear.port].maxcnt)

\* A number that was recorded when a process called, or a message was sent, is not ahead of the
\* port's, and behind it unless the port is allocated.
Recorded(x) ==
  /\ x.seq <= porttab[x.port].seq
  /\ porttab[x.port].state # "alloc" => x.seq < porttab[x.port].seq
CallInv ==
  /\ \A p \in Procs : call[p].op # "none" => Recorded(call[p])
  /\ \A p \in ready : call[p].op # "none"
  /\ \A n \in Ports : LET t == porttab[n] IN
       /\ SemOK(t.ssem) /\ WaitOK(t.ssem, "send", n, t, call, ready)
       /\ SemOK(t.rsem) /\ WaitOK(t.rsem, "recv", n, t, call, ready)

\* The messages of a port are its own, in the order in which they were sent.
QueueOK(n) == LET q == porttab[n].queue IN
  /\ \A i \in DOMAIN q : /\ q[i] \in 1..Len(msgs) /\ msgs[q[i]].port = n
                         /\ porttab[n].state = "alloc" => msgs[q[i]].seq = porttab[n].seq
  /\ \A i, j \in DOMAIN q : i < j => q[i] < q[j]
QueueInv == (\A m \in 1..Len(msgs) : Recorded(msgs[m])) /\ \A n \in Ports : QueueOK(n)

\* Message a comes before b, if they were sent to one port while its number was the same.
Earlier(a, b) == msgs[a] = msgs[b] => a < b
\* Messages are received and disposed of in order, those of a port's queue last.
DoneInv ==
  /\ \A i \in DOMAIN received : received[i].msg \in 1..Len(msgs) /\ msgs[received[i].msg].seq = received[i].seq
  /\ \A i \in DOMAIN disposed : disposed[i] \in 1..Len(msgs) /\ msgs[disposed[i]].seq < porttab[msgs[disposed[i]].port].seq
  /\ \A i, j \in DOMAIN received : i < j => Earlier(received[i].msg, received[j].msg)
  /\ \A i, j \in DOMAIN disposed : i < j => Earlier(disposed[i], disposed[j])
  /\ \A i \in DOMAIN received, j \in DOMAIN disposed : Earlier(received[i].msg, disposed[j])
  /\ \A n \in Ports : \A k \in DOMAIN porttab[n].queue :
       /\ \A i \in DOMAIN received : Earlier(received[i].msg, porttab[n].queue[k])
       /\ n \in Queued /\ k > Gone(n) => \A i \in DOMAIN disposed : Earlier(disposed[i], porttab[n].queue[k])
Placed(m) ==
  \/ \E i \in DOMAIN received : received[i].msg = m
  \/ \E i \in DOMAIN disposed : disposed[i] = m
  \/ \E n \in Queued : \E i \in DOMAIN porttab[n].queue : porttab[n].queue[i] = m /\ i > Gone(n)
PlacedInv == \A m \in 1..Len(msgs) : Placed(m)
NodesInv == IsFiniteSet(Nodes) /\ ptfree + Cardinality(Nodes) = PT_MSGS

LEMMA SemIs ==
  ASSUME NEW n \in Nat
  PROVE  SemOK(Sem(n)) /\ All(Sem(n)) = {} /\ Sem(n).sem = n /\ Len(Sem(n).q) = 0
BY DEF SemOK, Sem, PortSem, All

LEMMA WaitsIs ==
  ASSUME NEW s, SemOK(s), s.sem <= 0, NEW p \in Procs, p \notin All(s)
  PROVE  /\ SemOK(Waits(s, p)) /\ All(Waits(s, p)) = All(s) \cup {p}
         /\ Waits(s, p).sem + Len(Waits(s, p).q) = s.sem + Len(s.q)
<1>1. s \in PortSem /\ s.sem \in Int /\ s.q \in Seq(Procs) /\ Len(s.q) \in Nat /\ DOMAIN s.q = 1..Len(s.q)
  BY DEF SemOK, PortSem
<1> DEFINE r == Append(s.q, p)
<1>2. r \in Seq(Procs) /\ Len(r) = Len(s.q) + 1 /\ DOMAIN r = 1..Len(s.q)+1
  BY <1>1
<1>3. r[Len(s.q)+1] = p /\ \A i \in 1..Len(s.q) : r[i] = s.q[i]
  BY <1>1
<1> HIDE DEF r
<1>4. Waits(s, p) = [sem |-> s.sem - 1, q |-> r]
  BY DEF Waits, r
<1>5. \A i \in 1..Len(s.q) : s.q[i] # p
  BY <1>1 DEF All
<1>6. \A i, j \in DOMAIN r : i # j => r[i] # r[j]
  <2>1. \A i, j \in 1..Len(s.q) : i # j => s.q[i] # s.q[j]
    BY <1>1 DEF SemOK
  <2> QED
    BY <1>1, <1>2, <1>3, <1>5, <2>1
<1>7. All(Waits(s, p)) = All(s) \cup {p}
  <2>1. All(Waits(s, p)) = {r[i] : i \in DOMAIN r}
    BY <1>4 DEF All
  <2>2. All(s) = {s.q[i] : i \in 1..Len(s.q)}
    BY <1>1 DEF All
  <2> QED
    BY <1>1, <1>2, <1>3, <2>1, <2>2, SMTT(30)
<1>8. Len(s.q) = IF s.sem < 0 THEN 0 - s.sem ELSE 0
  BY DEF SemOK
<1>9. Waits(s, p) \in PortSem
  BY <1>1, <1>2, <1>4 DEF PortSem
<1>10. Waits(s, p).sem = s.sem - 1 /\ Waits(s, p).q = r
  BY <1>4
<1>11. SemOK(Waits(s, p))
  <2>1. Len(r) = IF s.sem - 1 < 0 THEN 0 - (s.sem - 1) ELSE 0
    BY <1>1, <1>2, <1>8
  <2> QED
    BY <1>6, <1>9, <1>10, <2>1 DEF SemOK
<1> QED
  BY <1>1, <1>2, <1>7, <1>10, <1>11

LEMMA LessIs ==
  ASSUME NEW s, SemOK(s), s.sem > 0
  PROVE  LET r == [s EXCEPT !.sem = @ - 1] IN
         /\ SemOK(r) /\ All(r) = {} /\ All(s) = {} /\ r.sem + Len(r.q) = s.sem + Len(s.q) - 1 /\ r.q = s.q
<1> DEFINE r == [s EXCEPT !.sem = @ - 1]
<1>1. s \in PortSem /\ s.sem \in Int /\ s.q \in Seq(Procs) /\ Len(s.q) = 0
  BY DEF SemOK, PortSem
<1>2. r \in PortSem /\ r.sem = s.sem - 1 /\ r.q = s.q
  BY <1>1 DEF PortSem
<1> HIDE DEF r
<1>3. DOMAIN s.q = {}
  BY <1>1
<1>4. SemOK(r) /\ All(r) = {} /\ All(s) = {}
  BY <1>1, <1>2, <1>3 DEF SemOK, All
<1> QED
  BY <1>1, <1>2, <1>4 DEF r

LEMMA SignalsIs ==
  ASSUME NEW s, SemOK(s)
  PROVE  /\ SemOK(Signals(s)) /\ First(s) \subseteq All(s) /\ All(Signals(s)) = All(s) \ First(s)
         /\ \/ First(s) = {} /\ Signals(s).sem + Len(Signals(s).q) = s.sem + Len(s.q) + 1
            \/ /\ \E h \in All(s) : First(s) = {h}
               /\ Signals(s).sem + Len(Signals(s).q) = s.sem + Len(s.q)
<1>1. s \in PortSem /\ s.sem \in Int /\ s.q \in Seq(Procs) /\ Len(s.q) \in Nat /\ DOMAIN s.q = 1..Len(s.q)
  BY DEF SemOK, PortSem
<1>2. Len(s.q) = IF s.sem < 0 THEN 0 - s.sem ELSE 0
  BY DEF SemOK
<1>3. \A i, j \in 1..Len(s.q) : i # j => s.q[i] # s.q[j]
  BY <1>1 DEF SemOK
<1>4. CASE s.q = <<>>
  <2>1. Signals(s) = [sem |-> s.sem + 1, q |-> s.q] /\ First(s) = {} /\ Len(s.q) = 0
    BY <1>4 DEF Signals, First
  <2>2. Signals(s) \in PortSem
    BY <1>1, <2>1 DEF PortSem
  <2> QED
    BY <1>1, <1>2, <1>3, <2>1, <2>2 DEF SemOK, All
<1>5. CASE s.q # <<>>
  <2> DEFINE r == Tail(s.q)
  <2>1. /\ r \in Seq(Procs) /\ Len(r) = Len(s.q) - 1 /\ DOMAIN r = 1..Len(s.q)-1 /\ Len(s.q) > 0
        /\ \A i \in 1..Len(s.q)-1 : r[i] = s.q[i+1]
    BY <1>1, <1>5
  <2> HIDE DEF r
  <2>2. Signals(s) = [sem |-> s.sem + 1, q |-> r] /\ First(s) = {s.q[1]}
    BY <1>5 DEF Signals, First, r
  <2>3. s.q[1] \in All(s)
    BY <1>1, <2>1 DEF All
  <2>4. All(Signals(s)) = {r[i] : i \in 1..Len(s.q)-1}
    <3>1. All(Signals(s)) = {r[i] : i \in DOMAIN r}
      BY <2>2 DEF All
    <3> QED
      BY <2>1, <3>1
  <2>5. All(Signals(s)) = All(s) \ First(s)
    <3>1. ASSUME NEW x \in All(Signals(s)) PROVE x \in All(s) \ First(s)
      <4>1. PICK i \in 1..Len(s.q)-1 : x = r[i]
        BY <2>4
      <4>2. x = s.q[i+1] /\ i + 1 \in 1..Len(s.q) /\ i + 1 # 1 /\ 1 \in 1..Len(s.q)
        BY <1>1, <2>1, <4>1
      <4> QED
        BY <1>1, <1>3, <2>2, <4>2 DEF All
    <3>2. ASSUME NEW x \in All(s) \ First(s) PROVE x \in All(Signals(s))
      <4>1. PICK i \in 1..Len(s.q) : x = s.q[i]
        BY <1>1 DEF All
      <4>2. i # 1
        BY <2>2, <4>1
      <4>3. i - 1 \in 1..Len(s.q)-1 /\ r[i-1] = x
        BY <1>1, <2>1, <4>1, <4>2
      <4> QED
        BY <2>4, <4>3
    <3> QED
      BY <3>1, <3>2
  <2>6. ASSUME NEW i \in DOMAIN r, NEW j \in DOMAIN r, i # j PROVE r[i] # r[j]
    <3>1. /\ r[i] = s.q[i+1] /\ r[j] = s.q[j+1] /\ i + 1 # j + 1
          /\ i + 1 \in 1..Len(s.q) /\ j + 1 \in 1..Len(s.q)
      <4>1. i \in 1..Len(s.q)-1 /\ j \in 1..Len(s.q)-1 /\ Len(s.q) \in Nat
        BY <1>1, <2>1
      <4>2. i + 1 # j + 1 /\ i + 1 \in 1..Len(s.q) /\ j + 1 \in 1..Len(s.q)
        BY <2>6, <4>1
      <4> QED
        BY <2>1, <4>1, <4>2
    <3> QED
      BY <1>3, <3>1
  <2>7. Signals(s) \in PortSem
    BY <1>1, <2>1, <2>2 DEF PortSem
  <2>9. Signals(s).sem = s.sem + 1 /\ Signals(s).q = r
    BY <2>2
  <2>8. SemOK(Signals(s))
    <3>1. Len(r) = IF s.sem + 1 < 0 THEN 0 - (s.sem + 1) ELSE 0
      BY <1>1, <1>2, <2>1
    <3> QED
      BY <2>6, <2>7, <2>9, <3>1 DEF SemOK
  <2>10. Signals(s).sem + Len(Signals(s).q) = s.sem + Len(s.q)
    <3> DEFINE a == s.sem
               m == Len(s.q)
               k == Len(r)
    <3>1. a \in Int /\ m \in Nat /\ k = m - 1
      BY <1>1, <2>1
    <3>2. Signals(s).sem = a + 1 /\ Len(Signals(s).q) = k
      BY <2>9
    <3> HIDE DEF a, m, k
    <3>3. (a + 1) + k = a + m
      BY <3>1
    <3> QED
      BY <3>2, <3>3 DEF a, m
  <2>11. First(s) \subseteq All(s) /\ \E h \in All(s) : First(s) = {h}
    BY <2>2, <2>3
  <2> QED
    BY <2>5, <2>8, <2>10, <2>11
<1> QED
  BY <1>4, <1>5

LEMMA LetFinite ==
  ASSUME NEW c, NEW r, IsFiniteSet(r), NEW op, NEW n, NEW seq
  PROVE  IsFiniteSet(LetIn(op, n, seq, c, r)) /\ Cardinality(LetIn(op, n, seq, c, r)) \in Nat
<1>1. LetIn(op, n, seq, c, r) \subseteq r
  BY DEF LetIn
<1> QED
  BY <1>1, FS_Subset, FS_CardinalityType

\* One more is ready.
LEMMA LetMore ==
  ASSUME NEW c, NEW r, IsFiniteSet(r), NEW h, h \notin r, NEW op, NEW n, NEW seq,
         c[h].op = op, c[h].port = n, c[h].seq = seq
  PROVE  Cardinality(LetIn(op, n, seq, c, r \cup {h})) = Cardinality(LetIn(op, n, seq, c, r)) + 1
<1>1. LetIn(op, n, seq, c, r \cup {h}) = LetIn(op, n, seq, c, r) \cup {h} /\ h \notin LetIn(op, n, seq, c, r)
  BY DEF LetIn
<1> DEFINE K == LetIn(op, n, seq, c, r)
<1>2. IsFiniteSet(K)
  BY LetFinite
<1>3. LetIn(op, n, seq, c, r \cup {h}) = K \cup {h} /\ h \notin K
  BY <1>1
<1> HIDE DEF K
<1>4. Cardinality(K \cup {h}) = Cardinality(K) + 1
  BY <1>2, <1>3, FS_AddElement
<1> QED
  BY <1>3, <1>4 DEF K

\* Port n has queue q, state s and number k after a step that leaves the other ports alone.
Becomes(n, q, s, k) ==
  /\ porttab'[n].queue = q /\ porttab'[n].state = s /\ porttab'[n].seq = k
  /\ \A o \in Ports : o # n => porttab'[o] = porttab[o]

LEMMA EntryIs ==
  ASSUME NEW t \in PortEntry
  PROVE  /\ t.queue \in Seq(Nat) /\ Len(t.queue) \in Nat /\ DOMAIN t.queue = 1..Len(t.queue)
         /\ t.seq \in Nat /\ t.maxcnt \in Nat /\ t.state \in {"free", "limbo", "alloc"}
         /\ \A i \in 1..Len(t.queue) : t.queue[i] \in Nat
BY DEF PortEntry

LEMMA PortIs ==
  ASSUME TypeInv, NEW n \in Ports
  PROVE  /\ porttab[n] \in PortEntry /\ porttab[n].queue \in Seq(Nat) /\ Len(porttab[n].queue) \in Nat
         /\ DOMAIN porttab[n].queue = 1..Len(porttab[n].queue) /\ porttab[n].seq \in Nat
         /\ porttab[n].maxcnt \in Nat /\ porttab[n].state \in {"free", "limbo", "alloc"}
         /\ \A i \in 1..Len(porttab[n].queue) : porttab[n].queue[i] \in Nat
BY EntryIs DEF TypeInv

LEMMA ListsAre ==
  ASSUME TypeInv
  PROVE  /\ Len(msgs) \in Nat /\ DOMAIN msgs = 1..Len(msgs)
         /\ \A m \in 1..Len(msgs) : msgs[m].port \in Ports /\ msgs[m].seq \in Nat /\ msgs[m] = [port |-> msgs[m].port, seq |-> msgs[m].seq]
         /\ Len(received) \in Nat /\ DOMAIN received = 1..Len(received)
         /\ \A i \in 1..Len(received) : received[i].msg \in Nat /\ received[i].seq \in Nat
         /\ Len(disposed) \in Nat /\ DOMAIN disposed = 1..Len(disposed)
         /\ \A i \in 1..Len(disposed) : disposed[i] \in Nat
<1>1. msgs \in Seq([port : Ports, seq : Nat]) /\ disposed \in Seq(Nat) /\ received \in Seq([msg : Nat, seq : Nat])
  BY DEF TypeInv
<1>2. \A m \in 1..Len(msgs) : msgs[m] \in [port : Ports, seq : Nat]
  BY <1>1, ElementOfSeq
<1>3. \A i \in 1..Len(received) : received[i] \in [msg : Nat, seq : Nat]
  BY <1>1, ElementOfSeq
<1> QED
  BY <1>1, <1>2, <1>3

LEMMA NodeIs ==
  ASSUME TypeInv
  PROVE  \A x : x \in Nodes <=> \E n \in Queued : \E i \in 1..Len(porttab[n].queue) : x = <<n, i>>
<1>1. ASSUME NEW n \in Queued
      PROVE  DOMAIN porttab[n].queue = 1..Len(porttab[n].queue)
  BY PortIs DEF Queued
<1>2. \A x : x \in Nodes <=> \E n \in Queued : x \in {n} \X DOMAIN porttab[n].queue
  BY DEF Nodes
<1> QED
  BY <1>1, <1>2

LEMMA NextNodeIs ==
  ASSUME TypeInv'
  PROVE  \A x : x \in Nodes' <=> \E n \in Queued' : \E i \in 1..Len(porttab'[n].queue) : x = <<n, i>>
<1>1. ASSUME NEW n \in Queued'
      PROVE  DOMAIN porttab'[n].queue = 1..Len(porttab'[n].queue)
  <2>1. porttab'[n] \in PortEntry
    BY DEF Queued, TypeInv
  <2> QED
    BY <2>1, EntryIs
<1>2. \A x : x \in Nodes' <=> \E n \in Queued' : x \in {n} \X DOMAIN porttab'[n].queue
  BY DEF Nodes
<1> QED
  BY <1>1, <1>2

\* Queues and messages, and what each kind of step does with them.
DataInv == QueueInv /\ DoneInv /\ PlacedInv /\ NodesInv

\* What QueueOK says, with the length for the domain.
LEMMA QueueIs ==
  ASSUME TypeInv, NEW n \in Ports, QueueOK(n)
  PROVE  /\ \A i \in 1..Len(porttab[n].queue) :
              /\ porttab[n].queue[i] \in 1..Len(msgs) /\ msgs[porttab[n].queue[i]].port = n
              /\ porttab[n].state = "alloc" => msgs[porttab[n].queue[i]].seq = porttab[n].seq
         /\ \A i, j \in 1..Len(porttab[n].queue) : i < j => porttab[n].queue[i] < porttab[n].queue[j]
BY PortIs DEF QueueOK

LEMMA DataPut ==
  ASSUME TypeInv, TypeInv', DataInv, NEW n \in Ports, porttab[n].state = "alloc",
         Becomes(n, Append(porttab[n].queue, Len(msgs) + 1), "alloc", porttab[n].seq),
         msgs' = Append(msgs, [port |-> n, seq |-> porttab[n].seq]), ptfree > 0, ptfree' = ptfree - 1,
         UNCHANGED <<clear, disposed, received>>
  PROVE  DataInv'
<1> DEFINE L == Len(msgs)
           q == porttab[n].queue
           r == porttab'[n].queue
<1>1. /\ L \in Nat /\ DOMAIN msgs = 1..L
      /\ \A m \in 1..L : msgs[m].port \in Ports /\ msgs[m].seq \in Nat
  BY ListsAre
<1>2. /\ Len(msgs') = L + 1 /\ msgs'[L+1] = [port |-> n, seq |-> porttab[n].seq]
      /\ \A m \in 1..L : msgs'[m] = msgs[m]
  <2>1. msgs \in Seq([port : Ports, seq : Nat])
    BY DEF TypeInv
  <2> QED
    BY <2>1
<1>3. q \in Seq(Nat) /\ Len(q) \in Nat /\ DOMAIN q = 1..Len(q)
  BY PortIs
<1>4. /\ r = Append(q, L + 1) /\ Len(r) = Len(q) + 1 /\ DOMAIN r = 1..Len(q)+1 /\ r[Len(q)+1] = L + 1
      /\ \A i \in 1..Len(q) : r[i] = q[i]
  <2>1. r = Append(q, L + 1)
    BY DEF Becomes
  <2> HIDE DEF r, q, L
  <2> QED
    BY <1>1, <1>3, <2>1
<1>5. /\ \A o \in Ports : porttab'[o].state = porttab[o].state /\ porttab'[o].seq = porttab[o].seq
      /\ \A o \in Ports : o # n => porttab'[o] = porttab[o]
  BY DEF Becomes
<1>6. QueueInv /\ DoneInv /\ PlacedInv /\ NodesInv /\ QueueOK(n)
  BY DEF DataInv, QueueInv
<1>7. /\ \A i \in 1..Len(q) : q[i] \in 1..L /\ msgs[q[i]].port = n /\ msgs[q[i]].seq = porttab[n].seq
      /\ \A i, j \in 1..Len(q) : i < j => q[i] < q[j]
  BY <1>6, QueueIs
<1>8. \A o \in Ports : \A i \in DOMAIN porttab[o].queue : porttab[o].queue[i] \in 1..L /\ msgs[porttab[o].queue[i]].port = o
  BY <1>6 DEF QueueInv, QueueOK
<1>9. /\ \A i \in DOMAIN received : received[i].msg \in 1..L
      /\ \A i \in DOMAIN disposed : disposed[i] \in 1..L
      /\ clear' = clear /\ disposed' = disposed /\ received' = received
  BY <1>6 DEF DoneInv
<1> HIDE DEF L, q, r
<1>10. QueueInv'
  <2>1. ASSUME NEW m \in 1..L+1 PROVE Recorded(msgs[m])'
    <3>1. CASE m \in 1..L
      <4>1. Recorded(msgs[m])
        BY <1>6, <3>1 DEF QueueInv, L
      <4> QED
        BY <1>1, <1>2, <1>5, <3>1, <4>1 DEF Recorded
    <3>2. CASE m = L + 1
      <4>1. msgs'[m].port = n /\ msgs'[m].seq = porttab[n].seq /\ porttab[n].seq \in Nat
        BY <1>2, <3>2, PortIs
      <4>2. porttab'[n].seq = porttab[n].seq /\ porttab'[n].state = "alloc"
        BY <1>5
      <4>3. porttab'[msgs'[m].port].state = "alloc" /\ porttab'[msgs'[m].port].seq = msgs'[m].seq
        BY ONLY <4>1, <4>2
      <4>4. msgs'[m].seq <= porttab'[msgs'[m].port].seq
        BY ONLY <4>1, <4>3
      <4> QED
        BY <4>3, <4>4 DEF Recorded
    <3> QED
      BY <1>1, <3>1, <3>2
  <2>2. ASSUME NEW o \in Ports PROVE QueueOK(o)'
    <3>1. CASE o # n
      <4>1. QueueOK(o) /\ porttab'[o] = porttab[o]
        BY <1>5, <1>6, <3>1 DEF QueueInv
      <4>2. ASSUME NEW i \in DOMAIN porttab'[o].queue
            PROVE  /\ porttab'[o].queue[i] \in 1..L+1 /\ msgs'[porttab'[o].queue[i]].port = o
                   /\ porttab'[o].state = "alloc" => msgs'[porttab'[o].queue[i]].seq = porttab'[o].seq
        BY <1>1, <1>2, <1>8, <4>1, <4>2 DEF QueueOK
      <4>3. \A i, j \in DOMAIN porttab'[o].queue : i < j => porttab'[o].queue[i] < porttab'[o].queue[j]
        BY <4>1 DEF QueueOK
      <4> QED
        BY <1>2, <4>2, <4>3 DEF QueueOK
    <3>2. CASE o = n
      <4>1. ASSUME NEW i \in DOMAIN r
            PROVE  r[i] \in 1..L+1 /\ msgs'[r[i]].port = n /\ msgs'[r[i]].seq = porttab'[n].seq
        <5>1. CASE i \in 1..Len(q)
          <6>1. r[i] = q[i] /\ q[i] \in 1..L /\ msgs'[q[i]] = msgs[q[i]]
            BY <1>2, <1>4, <1>7, <5>1
          <6> QED
            BY <1>1, <1>5, <1>7, <5>1, <6>1
        <5>2. CASE i = Len(q) + 1
          BY <1>1, <1>2, <1>4, <1>5, <5>2
        <5>3. i \in 1..Len(q) \/ i = Len(q) + 1
          BY <1>3, <1>4, <4>1
        <5> QED
          BY <5>1, <5>2, <5>3
      <4>2. ASSUME NEW i \in DOMAIN r, NEW j \in DOMAIN r, i < j PROVE r[i] < r[j]
        <5>1. CASE j \in 1..Len(q)
          BY <1>3, <1>4, <1>7, <4>2, <5>1
        <5>2. CASE j = Len(q) + 1
          BY <1>1, <1>3, <1>4, <1>7, <4>2, <5>2
        <5>3. j \in 1..Len(q) \/ j = Len(q) + 1
          BY <1>3, <1>4, <4>2
        <5> QED
          BY <5>1, <5>2, <5>3
      <4> QED
        BY <1>2, <3>2, <4>1, <4>2 DEF QueueOK, r
    <3> QED
      BY <3>1, <3>2
  <2> QED
    BY <1>2, <2>1, <2>2 DEF QueueInv
<1>11. Queued' = Queued /\ \A o \in Ports : Gone(o)' = Gone(o)
  BY <1>5 DEF Queued, Gone
<1>12. \A a, b \in 1..L : Earlier(a, b) => Earlier(a, b)'
  BY <1>2 DEF Earlier
<1>13. DoneInv'
  <2>1. \A i \in DOMAIN received : received[i].msg \in 1..L+1 /\ msgs'[received[i].msg].seq = received[i].seq
    BY <1>1, <1>2, <1>6, <1>9 DEF DoneInv
  <2>2. \A i \in DOMAIN disposed : disposed[i] \in 1..L+1 /\ msgs'[disposed[i]].seq < porttab'[msgs'[disposed[i]].port].seq
    BY <1>1, <1>2, <1>5, <1>6, <1>9 DEF DoneInv
  <2>3. /\ \A i, j \in DOMAIN received : i < j => Earlier(received[i].msg, received[j].msg)'
        /\ \A i, j \in DOMAIN disposed : i < j => Earlier(disposed[i], disposed[j])'
        /\ \A i \in DOMAIN received, j \in DOMAIN disposed : Earlier(received[i].msg, disposed[j])'
    BY <1>6, <1>9, <1>12 DEF DoneInv
  <2>4. ASSUME NEW o \in Ports, NEW k \in DOMAIN porttab'[o].queue
        PROVE  /\ \A i \in DOMAIN received : Earlier(received[i].msg, porttab[o].queue[k])'
               /\ o \in Queued /\ k > Gone(o) => \A i \in DOMAIN disposed : Earlier(disposed[i], porttab[o].queue[k])'
    <3>1. CASE o = n /\ k = Len(q) + 1
      <4>1. porttab'[o].queue[k] = L + 1
        BY <1>4, <3>1 DEF r
      <4> QED
        BY <1>1, <1>9, <4>1 DEF Earlier
    <3>2. CASE ~(o = n /\ k = Len(q) + 1)
      <4>1. k \in DOMAIN porttab[o].queue /\ porttab'[o].queue[k] = porttab[o].queue[k]
        <5>1. CASE o = n
          <6>1. porttab'[o].queue = r /\ porttab[o].queue = q /\ k # Len(q) + 1
            BY <3>2, <5>1 DEF r, q
          <6>2. k \in DOMAIN r
            BY <2>4, <6>1
          <6>3. k \in 1..Len(q)
            BY <1>3, <1>4, <6>1, <6>2
          <6> QED
            BY <1>3, <1>4, <6>1, <6>3
        <5>2. CASE o # n
          BY <1>5, <2>4, <5>2
        <5> QED
          BY <5>1, <5>2
      <4>2. porttab[o].queue[k] \in 1..L
        BY <1>8, <4>1
      <4>3. /\ \A i \in DOMAIN received : Earlier(received[i].msg, porttab[o].queue[k])
            /\ o \in Queued /\ k > Gone(o) => \A i \in DOMAIN disposed : Earlier(disposed[i], porttab[o].queue[k])
        BY <1>6, <4>1 DEF DoneInv
      <4>4. ASSUME NEW i \in DOMAIN received PROVE Earlier(received[i].msg, porttab[o].queue[k])'
        <5>1. received[i].msg \in 1..L /\ Earlier(received[i].msg, porttab[o].queue[k]) /\ received' = received
          BY <1>9, <4>3
        <5> QED
          BY <1>2, <4>1, <4>2, <5>1 DEF Earlier
      <4>5. ASSUME o \in Queued, k > Gone(o), NEW i \in DOMAIN disposed PROVE Earlier(disposed[i], porttab[o].queue[k])'
        <5>1. disposed[i] \in 1..L /\ Earlier(disposed[i], porttab[o].queue[k]) /\ disposed' = disposed
          BY <1>9, <4>3, <4>5
        <5> QED
          BY <1>2, <4>1, <4>2, <5>1 DEF Earlier
      <4> QED
        BY <4>4, <4>5
    <3> QED
      BY <3>1, <3>2
  <2> QED
    BY <1>2, <1>11, <2>1, <2>2, <2>3, <2>4 DEF DoneInv
<1>14. PlacedInv'
  <2>1. n \in Queued /\ Gone(n) = 0
    BY DEF Queued, Gone
  <2>2. ASSUME NEW m \in 1..L+1 PROVE Placed(m)'
    <3>1. CASE m \in 1..L
      <4>1. Placed(m)
        BY <1>6, <3>1 DEF PlacedInv, L
      <4>2. ASSUME NEW o \in Queued, NEW i \in DOMAIN porttab[o].queue, porttab[o].queue[i] = m, i > Gone(o)
            PROVE  o \in Queued' /\ i \in DOMAIN porttab'[o].queue /\ porttab'[o].queue[i] = m /\ i > Gone(o)'
        <5>1. o \in Ports
          BY DEF Queued
        <5>2. i \in DOMAIN porttab'[o].queue /\ porttab'[o].queue[i] = porttab[o].queue[i]
          <6>1. CASE o = n
            <7>1. porttab'[o].queue = r /\ porttab[o].queue = q
              BY <6>1 DEF r, q
            <7>2. i \in 1..Len(q)
              BY <1>3, <4>2, <7>1
            <7> QED
              BY <1>3, <1>4, <7>1, <7>2
          <6>2. CASE o # n
            BY <1>5, <5>1, <4>2, <6>2
          <6> QED
            BY <6>1, <6>2
        <5> QED
          BY <1>11, <4>2, <5>1, <5>2
      <4> QED
        BY <4>1, <4>2 DEF Placed
    <3>2. CASE m = L + 1
      <4>1. Len(q) + 1 \in DOMAIN porttab'[n].queue /\ porttab'[n].queue[Len(q)+1] = m /\ Len(q) + 1 > Gone(n)'
        BY <1>3, <1>4, <1>11, <2>1, <3>2 DEF r
      <4>2. n \in Queued'
        BY <1>11, <2>1
      <4> QED
        BY <4>1, <4>2 DEF Placed
    <3> QED
      BY <1>1, <3>1, <3>2
  <2> QED
    BY <1>2, <2>2 DEF PlacedInv
<1>15. NodesInv'
  <2>1. \A x : x \in Nodes <=> \E o \in Queued : \E i \in 1..Len(porttab[o].queue) : x = <<o, i>>
    BY NodeIs
  <2>2. \A x : x \in Nodes' <=> \E o \in Queued' : \E i \in 1..Len(porttab'[o].queue) : x = <<o, i>>
    BY NextNodeIs
  <2>3. n \in Queued /\ Queued \subseteq Ports
    BY DEF Queued
  <2>4. ASSUME NEW x PROVE x \in Nodes' <=> x \in Nodes \cup {<<n, Len(q)+1>>}
    <3>1. ASSUME NEW o \in Queued, NEW i \in 1..Len(porttab'[o].queue), x = <<o, i>> PROVE x \in Nodes \cup {<<n, Len(q)+1>>}
      <4>1. CASE o = n
        BY <1>3, <1>4, <2>1, <2>3, <3>1, <4>1 DEF q, r
      <4>2. CASE o # n
        BY <1>5, <2>1, <2>3, <3>1, <4>2
      <4> QED
        BY <4>1, <4>2
    <3>2. ASSUME NEW o \in Queued, NEW i \in 1..Len(porttab[o].queue), x = <<o, i>> PROVE i \in 1..Len(porttab'[o].queue)
      <4>1. CASE o = n
        BY <1>3, <1>4, <3>2, <4>1, SMTT(30) DEF q, r
      <4>2. CASE o # n
        BY <1>5, <2>3, <3>2, <4>2
      <4> QED
        BY <4>1, <4>2
    <3>3. Len(q) + 1 \in 1..Len(porttab'[n].queue)
      BY <1>3, <1>4 DEF r
    <3> QED
      BY <1>11, <2>1, <2>2, <2>3, <3>1, <3>2, <3>3
  <2>5. <<n, Len(q)+1>> \notin Nodes
    <3>1. ASSUME NEW o \in Queued, NEW i \in 1..Len(porttab[o].queue), <<n, Len(q)+1>> = <<o, i>> PROVE FALSE
      <4>1. o = n /\ i = Len(q) + 1
        BY <3>1
      <4> QED
        BY <1>3, <3>1, <4>1 DEF q
    <3> QED
      BY <2>1, <3>1
  <2>6. Nodes' = Nodes \cup {<<n, Len(q)+1>>}
    BY <2>4
  <2>7. IsFiniteSet(Nodes) /\ ptfree + Cardinality(Nodes) = PT_MSGS
    BY <1>6 DEF NodesInv
  <2>8. IsFiniteSet(Nodes') /\ Cardinality(Nodes') = Cardinality(Nodes) + 1
    BY <2>5, <2>6, <2>7, FS_AddElement
  <2>9. ptfree \in Nat /\ Cardinality(Nodes) \in Nat
    BY <2>7, FS_CardinalityType DEF TypeInv
  <2> HIDE DEF q
  <2>10. ptfree' + Cardinality(Nodes') = PT_MSGS
    BY <2>7, <2>8, <2>9
  <2> QED
    BY <2>8, <2>10 DEF NodesInv
<1> QED
  BY <1>10, <1>13, <1>14, <1>15 DEF DataInv

\* A step by which the first d messages leave the queue of port n.
Shrinks(n, d) ==
  /\ d \in 0..Len(porttab[n].queue) /\ Len(porttab'[n].queue) = Len(porttab[n].queue) - d
  /\ \A i \in 1..Len(porttab'[n].queue) : porttab'[n].queue[i] = porttab[n].queue[i + d]
  /\ \A o \in Ports : o # n => porttab'[o] = porttab[o]
  /\ porttab'[n].seq >= porttab[n].seq
  /\ porttab'[n].state # "alloc" => porttab[n].state # "alloc" \/ porttab'[n].seq > porttab[n].seq
  /\ porttab'[n].state = "alloc" /\ Len(porttab'[n].queue) > 0 =>
       porttab[n].state = "alloc" /\ porttab'[n].seq = porttab[n].seq
\* The step leaves what there is to be received and to be disposed of in the other ports.
OthersStay(n) == \A o \in Ports : o # n => (o \in Queued' <=> o \in Queued) /\ Gone(o)' = Gone(o)
\* What remains in the queue of n to be received or disposed of was there before.
Remains(n, d) ==
  n \in Queued' /\ Len(porttab'[n].queue) > 0 => n \in Queued /\ Gone(n) <= Gone(n)' + d
\* Nothing that was to be received or disposed of has left, but for k messages.
AllRemain(n, d, k) ==
  n \in Queued => \A i \in 1..Len(porttab[n].queue) :
                    i > Gone(n) + k => i > d /\ n \in Queued' /\ i - d > Gone(n)'

LEMMA NextPortIs ==
  ASSUME TypeInv', NEW n \in Ports
  PROVE  /\ porttab'[n] \in PortEntry /\ porttab'[n].queue \in Seq(Nat) /\ Len(porttab'[n].queue) \in Nat
         /\ DOMAIN porttab'[n].queue = 1..Len(porttab'[n].queue) /\ porttab'[n].seq \in Nat
         /\ porttab'[n].state \in {"free", "limbo", "alloc"}
BY EntryIs DEF TypeInv

LEMMA RecordedStays ==
  ASSUME TypeInv, TypeInv', NEW n \in Ports, NEW d, Shrinks(n, d), NEW x, x.port \in Ports, x.seq \in Nat, Recorded(x)
  PROVE  /\ x.seq <= porttab'[x.port].seq
         /\ porttab'[x.port].state # "alloc" => x.seq < porttab'[x.port].seq
<1>1. porttab[n].seq \in Nat /\ porttab'[n].seq \in Nat
  BY PortIs, NextPortIs
<1>2. CASE x.port = n
  <2>1. x.seq <= porttab[n].seq /\ (porttab[n].state # "alloc" => x.seq < porttab[n].seq)
    BY <1>2 DEF Recorded
  <2>2. /\ porttab'[n].seq >= porttab[n].seq
        /\ porttab'[n].state # "alloc" => porttab[n].state # "alloc" \/ porttab'[n].seq > porttab[n].seq
    BY DEF Shrinks
  <2> QED
    BY <1>1, <1>2, <2>1, <2>2
<1>3. CASE x.port # n
  BY <1>3 DEF Recorded, Shrinks
<1> QED
  BY <1>2, <1>3

LEMMA QueueShrinks ==
  ASSUME TypeInv, TypeInv', QueueInv, NEW n \in Ports, NEW d, Shrinks(n, d), msgs' = msgs
  PROVE  QueueInv'
<1>1. ASSUME NEW m \in 1..Len(msgs) PROVE Recorded(msgs[m])'
  <2>1. Recorded(msgs[m]) /\ msgs[m].port \in Ports /\ msgs[m].seq \in Nat
    BY ListsAre DEF QueueInv
  <2>2. /\ msgs[m].seq <= porttab'[msgs[m].port].seq
        /\ porttab'[msgs[m].port].state # "alloc" => msgs[m].seq < porttab'[msgs[m].port].seq
    BY <2>1, RecordedStays
  <2> QED
    BY <2>2 DEF Recorded
<1>2. ASSUME NEW o \in Ports PROVE QueueOK(o)'
  <2>1. CASE o # n
    <3>1. QueueOK(o) /\ porttab'[o] = porttab[o]
      BY <2>1 DEF QueueInv, Shrinks
    <3> QED
      BY <3>1 DEF QueueOK
  <2>2. CASE o = n
    <3> DEFINE q == porttab[n].queue
               r == porttab'[n].queue
    <3>1. Len(q) \in Nat /\ Len(r) \in Nat /\ DOMAIN r = 1..Len(r) /\ d \in 0..Len(q) /\ Len(r) = Len(q) - d
      BY PortIs, NextPortIs DEF Shrinks
    <3>2. \A i \in 1..Len(r) : r[i] = q[i + d]
      BY DEF Shrinks
    <3>3. /\ \A i \in 1..Len(q) : /\ q[i] \in 1..Len(msgs) /\ msgs[q[i]].port = n
                                  /\ porttab[n].state = "alloc" => msgs[q[i]].seq = porttab[n].seq
          /\ \A i, j \in 1..Len(q) : i < j => q[i] < q[j]
      BY QueueIs DEF QueueInv
    <3>4. porttab'[n].state = "alloc" /\ Len(r) > 0 => porttab[n].state = "alloc" /\ porttab'[n].seq = porttab[n].seq
      BY DEF Shrinks
    <3> HIDE DEF q, r
    <3>5. ASSUME NEW i \in 1..Len(r)
          PROVE  /\ r[i] \in 1..Len(msgs) /\ msgs[r[i]].port = n
                 /\ porttab'[n].state = "alloc" => msgs[r[i]].seq = porttab'[n].seq
      <4>1. i + d \in 1..Len(q) /\ Len(r) > 0
        BY <3>1
      <4> QED
        BY <3>2, <3>3, <3>4, <4>1
    <3>6. ASSUME NEW i \in 1..Len(r), NEW j \in 1..Len(r), i < j PROVE r[i] < r[j]
      <4>1. i + d \in 1..Len(q) /\ j + d \in 1..Len(q) /\ i + d < j + d
        BY <3>1, <3>6
      <4> QED
        BY <3>2, <3>3, <4>1
    <3>7. \A i \in DOMAIN r : /\ r[i] \in 1..Len(msgs) /\ msgs[r[i]].port = n
                              /\ porttab'[n].state = "alloc" => msgs[r[i]].seq = porttab'[n].seq
      BY <3>1, <3>5
    <3>8. \A i, j \in DOMAIN r : i < j => r[i] < r[j]
      BY <3>1, <3>6
    <3> QED
      BY <2>2, <3>7, <3>8 DEF QueueOK, r
  <2> QED
    BY <2>1, <2>2
<1> QED
  BY <1>1, <1>2 DEF QueueInv

\* A message of the queue that remains was in the queue.
LEMMA WasQueued ==
  ASSUME TypeInv, TypeInv', NEW n \in Ports, NEW d, Shrinks(n, d), OthersStay(n), Remains(n, d),
         NEW o \in Ports, NEW k \in DOMAIN porttab'[o].queue
  PROVE  \E i \in DOMAIN porttab[o].queue :
            /\ porttab'[o].queue[k] = porttab[o].queue[i] /\ (o = n => i = k + d) /\ (o # n => i = k)
            /\ o \in Queued' /\ k > Gone(o)' => o \in Queued /\ i > Gone(o)
<1>1. CASE o = n
  <2>1. Len(porttab[n].queue) \in Nat /\ DOMAIN porttab[n].queue = 1..Len(porttab[n].queue)
        /\ Len(porttab'[n].queue) \in Nat /\ DOMAIN porttab'[n].queue = 1..Len(porttab'[n].queue)
    BY PortIs, NextPortIs
  <2>2. d \in 0..Len(porttab[n].queue) /\ Len(porttab'[n].queue) = Len(porttab[n].queue) - d
    BY DEF Shrinks
  <2>3. k \in 1..Len(porttab'[n].queue) /\ k + d \in 1..Len(porttab[n].queue) /\ Len(porttab'[n].queue) > 0
    BY <1>1, <2>1, <2>2
  <2>4. porttab'[n].queue[k] = porttab[n].queue[k + d]
    BY <2>3 DEF Shrinks
  <2>5. Gone(n) \in Nat /\ Gone(n)' \in Nat
    BY DEF Gone, TypeInv
  <2>6. n \in Queued' /\ k > Gone(n)' => n \in Queued /\ k + d > Gone(n)
    BY <2>2, <2>3, <2>5 DEF Remains
  <2> QED
    BY <1>1, <2>1, <2>3, <2>4, <2>6
<1>2. CASE o # n
  BY <1>2 DEF Shrinks, OthersStay
<1> QED
  BY <1>1, <1>2

LEMMA DoneStays ==
  ASSUME TypeInv, TypeInv', QueueInv, DoneInv, NEW n \in Ports, NEW d, Shrinks(n, d), OthersStay(n), Remains(n, d),
         UNCHANGED <<msgs, received, disposed>>
  PROVE  DoneInv'
<1>1. msgs' = msgs /\ received' = received /\ disposed' = disposed
  OBVIOUS
<1>2. /\ \A i \in DOMAIN received : received[i].msg \in 1..Len(msgs) /\ msgs[received[i].msg].seq = received[i].seq
      /\ \A i, j \in DOMAIN received : i < j => Earlier(received[i].msg, received[j].msg)
      /\ \A i, j \in DOMAIN disposed : i < j => Earlier(disposed[i], disposed[j])
      /\ \A i \in DOMAIN received, j \in DOMAIN disposed : Earlier(received[i].msg, disposed[j])
  BY DEF DoneInv
<1>3. ASSUME NEW i \in DOMAIN disposed
      PROVE  disposed[i] \in 1..Len(msgs) /\ msgs[disposed[i]].seq < porttab'[msgs[disposed[i]].port].seq
  <2>1. disposed[i] \in 1..Len(msgs) /\ msgs[disposed[i]].seq < porttab[msgs[disposed[i]].port].seq
    BY DEF DoneInv
  <2>2. msgs[disposed[i]].port \in Ports /\ msgs[disposed[i]].seq \in Nat
    BY <2>1, ListsAre
  <2>3. porttab'[msgs[disposed[i]].port].seq >= porttab[msgs[disposed[i]].port].seq
        /\ porttab[msgs[disposed[i]].port].seq \in Nat /\ porttab'[msgs[disposed[i]].port].seq \in Nat
    <3>1. \A o \in Ports : porttab[o].seq \in Nat /\ porttab'[o].seq \in Nat /\ porttab'[o].seq >= porttab[o].seq
      <4>1. \A o \in Ports : porttab[o].seq \in Nat /\ porttab'[o].seq \in Nat
        BY PortIs, NextPortIs
      <4>2. \A o \in Ports : o = n \/ porttab'[o] = porttab[o]
        BY DEF Shrinks
      <4>3. porttab'[n].seq >= porttab[n].seq
        BY DEF Shrinks
      <4> QED
        BY <4>1, <4>2, <4>3
    <3> QED
      BY <2>2, <3>1
  <2> QED
    BY <2>1, <2>2, <2>3
<1>4. ASSUME NEW o \in Ports, NEW k \in DOMAIN porttab'[o].queue
      PROVE  /\ \A i \in DOMAIN received : Earlier(received[i].msg, porttab[o].queue[k])'
             /\ o \in Queued' /\ k > Gone(o)' => \A i \in DOMAIN disposed : Earlier(disposed[i], porttab[o].queue[k])'
  <2>1. PICK i \in DOMAIN porttab[o].queue :
              /\ porttab'[o].queue[k] = porttab[o].queue[i]
              /\ o \in Queued' /\ k > Gone(o)' => o \in Queued /\ i > Gone(o)
    BY WasQueued
  <2>2. /\ \A j \in DOMAIN received : Earlier(received[j].msg, porttab[o].queue[i])
        /\ o \in Queued /\ i > Gone(o) => \A j \in DOMAIN disposed : Earlier(disposed[j], porttab[o].queue[i])
    BY DEF DoneInv
  <2> QED
    BY <1>1, <2>1, <2>2 DEF Earlier
<1> QED
  BY <1>1, <1>2, <1>3, <1>4 DEF DoneInv, Earlier

\* Of the messages to be received or disposed of, the first k of port n have been now.
LEMMA PlacedStays ==
  ASSUME TypeInv, TypeInv', PlacedInv, NEW n \in Ports, NEW d, Shrinks(n, d), OthersStay(n),
         NEW k \in Nat, AllRemain(n, d, k), msgs' = msgs,
         \A m : (\E i \in DOMAIN received : received[i].msg = m) => Placed(m)',
         \A m : (\E i \in DOMAIN disposed : disposed[i] = m) => Placed(m)',
         n \in Queued => \A i \in 1..Len(porttab[n].queue) :
             Gone(n) < i /\ i <= Gone(n) + k => \A m : m = porttab[n].queue[i] => Placed(m)'
  PROVE  PlacedInv'
<1>2. ASSUME NEW o \in Queued, NEW i \in DOMAIN porttab[o].queue, i > Gone(o), NEW m, m = porttab[o].queue[i]
      PROVE  Placed(m)'
  <2>1. o \in Ports
    BY DEF Queued
  <2>2. CASE o = n
    <3>1. Len(porttab[n].queue) \in Nat /\ DOMAIN porttab[n].queue = 1..Len(porttab[n].queue)
          /\ Len(porttab'[n].queue) \in Nat /\ DOMAIN porttab'[n].queue = 1..Len(porttab'[n].queue)
      BY PortIs, NextPortIs
    <3>2. d \in 0..Len(porttab[n].queue) /\ Len(porttab'[n].queue) = Len(porttab[n].queue) - d
      BY DEF Shrinks
    <3>3. Gone(n) \in Nat
      BY DEF Gone, TypeInv
    <3>6. i \in 1..Len(porttab[n].queue) /\ n \in Queued /\ i > Gone(n) /\ m = porttab[n].queue[i]
      BY <1>2, <2>2, <3>1
    <3>4. CASE i <= Gone(n) + k
      BY <3>4, <3>6
    <3>5. CASE i > Gone(n) + k
      <4>1. i > d /\ n \in Queued' /\ i - d > Gone(n)'
        BY <3>5, <3>6 DEF AllRemain
      <4>2. i - d \in 1..Len(porttab'[n].queue) /\ (i - d) + d = i
        BY <3>1, <3>2, <3>6, <4>1
      <4>3. porttab'[n].queue[i - d] = m
        BY <3>6, <4>2 DEF Shrinks
      <4> QED
        BY <3>1, <3>6, <4>1, <4>2, <4>3 DEF Placed
    <3> QED
      BY <2>2, <3>1, <3>3, <3>4, <3>5
  <2>3. CASE o # n
    <3>1. o \in Queued' /\ Gone(o)' = Gone(o) /\ porttab'[o] = porttab[o]
      BY <1>2, <2>1, <2>3 DEF Shrinks, OthersStay
    <3> QED
      BY <1>2, <3>1 DEF Placed
  <2> QED
    BY <2>2, <2>3
<1>3. ASSUME NEW m \in 1..Len(msgs) PROVE Placed(m)'
  <2>1. \/ \E i \in DOMAIN received : received[i].msg = m
        \/ \E i \in DOMAIN disposed : disposed[i] = m
        \/ \E n_1 \in Queued : \E i \in DOMAIN porttab[n_1].queue : porttab[n_1].queue[i] = m /\ i > Gone(n_1)
    BY DEF PlacedInv, Placed
  <2> QED
    BY <1>2, <2>1
<1> QED
  BY <1>3 DEF PlacedInv

\* D has the nodes of a port's queue behind the k-th, up to the m-th.
NodesFrom(D, n, k, m) == \A x : x \in D <=> \E i \in k+1..m : x = <<n, i>>
LEMMA NodesOf ==
  ASSUME NEW n, NEW k \in Nat, NEW m \in Nat, k <= m, NEW D, NodesFrom(D, n, k, m)
  PROVE  IsFiniteSet(D) /\ Cardinality(D) = m - k
<1> DEFINE f == [i \in k+1..m |-> <<n, i>>]
<1>1. IsFiniteSet(k+1..m) /\ Cardinality(k+1..m) = m - k
  <2>1. k + 1 \in Int /\ m \in Int
    OBVIOUS
  <2>2. IsFiniteSet(k+1..m) /\ Cardinality(k+1..m) = IF k + 1 > m THEN 0 ELSE m - (k+1) + 1
    BY <2>1, FS_Interval
  <2> QED
    BY <2>2
<1>2. \A i, j \in k+1..m : f[i] = f[j] => i = j
  OBVIOUS
<1>3. \A x : x \in D <=> \E i \in k+1..m : x = f[i]
  BY DEF NodesFrom
<1> HIDE DEF f
<1>4. IsFiniteSet(D) /\ Cardinality(D) = Cardinality(k+1..m)
  BY <1>1, <1>2, <1>3, ImageCount
<1> QED
  BY <1>1, <1>4

\* As many of the nodes in use are given back as messages have left the queue.
LEMMA NodesLess ==
  ASSUME TypeInv, TypeInv', NodesInv, NEW n \in Ports, NEW e \in Nat,
         \A o \in Ports : o # n => porttab'[o] = porttab[o] /\ (o \in Queued' <=> o \in Queued),
         NEW k \in Nat, k = IF n \in Queued THEN Len(porttab[n].queue) ELSE 0,
         e <= k, k - e = IF n \in Queued' THEN Len(porttab'[n].queue) ELSE 0,
         ptfree' = ptfree + e
  PROVE  NodesInv'
<1>1. Queued \subseteq Ports /\ Queued' \subseteq Ports
  BY DEF Queued
<1>2. \A x : x \in Nodes <=> \E o \in Queued : \E i \in 1..Len(porttab[o].queue) : x = <<o, i>>
  BY NodeIs
<1>3. \A x : x \in Nodes' <=> \E o \in Queued' : \E i \in 1..Len(porttab'[o].queue) : x = <<o, i>>
  BY NextNodeIs
<1> DEFINE D == {<<n, i>> : i \in k-e+1..k}
<1>4. IsFiniteSet(D) /\ Cardinality(D) = e
  <2>1. \A x : x \in D <=> \E i \in (k-e)+1..k : x = <<n, i>>
    OBVIOUS
  <2>2. k - e \in Nat /\ k - e <= k /\ k - (k - e) = e
    OBVIOUS
  <2> DEFINE a == k - e
  <2> HIDE DEF D, a
  <2>3. a \in Nat /\ a <= k /\ NodesFrom(D, n, a, k)
    BY <2>1, <2>2 DEF a, NodesFrom
  <2>4. IsFiniteSet(D) /\ Cardinality(D) = k - a
    BY <2>3, NodesOf
  <2> QED
    BY <2>2, <2>4 DEF a
<1>5. \A x : x \in Nodes <=> \/ \E o \in Queued : o # n /\ \E i \in 1..Len(porttab[o].queue) : x = <<o, i>>
                             \/ \E i \in 1..k : x = <<n, i>>
  BY <1>1, <1>2
<1>6. \A x : x \in Nodes' <=> \/ \E o \in Queued : o # n /\ \E i \in 1..Len(porttab[o].queue) : x = <<o, i>>
                              \/ \E i \in 1..k-e : x = <<n, i>>
  BY <1>1, <1>3, SMTT(30)
<1>7. Nodes = Nodes' \cup D
  <2>1. ASSUME NEW x PROVE x \in Nodes <=> x \in Nodes' \/ x \in D
    <3>1. (\E i \in 1..k : x = <<n, i>>) <=> (\E i \in 1..k-e : x = <<n, i>>) \/ (\E i \in k-e+1..k : x = <<n, i>>)
      <4>1. \A i : i \in 1..k <=> i \in 1..k-e \/ i \in k-e+1..k
        OBVIOUS
      <4> QED
        BY <4>1
    <3> QED
      BY <1>5, <1>6, <3>1
  <2> QED
    BY <2>1
<1>8. Nodes' \cap D = {}
  <2>1. ASSUME NEW x \in D, x \in Nodes' PROVE FALSE
    <3>1. PICK i \in k-e+1..k : x = <<n, i>>
      OBVIOUS
    <3>2. PICK j \in 1..k-e : x = <<n, j>>
      BY <1>6, <2>1, <3>1
    <3> QED
      BY <3>1, <3>2
  <2> QED
    BY <2>1
<1>9. IsFiniteSet(Nodes) /\ ptfree + Cardinality(Nodes) = PT_MSGS
  BY DEF NodesInv
<1> HIDE DEF D
<1>10. IsFiniteSet(Nodes')
  BY <1>7, <1>9, FS_Subset
<1>11. Cardinality(Nodes) = Cardinality(Nodes') + e
  BY <1>4, <1>7, <1>8, <1>10, ApartCount
<1>12. Cardinality(Nodes) \in Nat /\ Cardinality(Nodes') \in Nat /\ ptfree \in Nat
  BY <1>9, <1>10, FS_CardinalityType DEF TypeInv
<1> QED
  BY <1>9, <1>10, <1>11, <1>12 DEF NodesInv

\* A step that neither adds nor handles a message, and gives back e nodes.
\* The first d messages of port n are gone from its queue, e of its nodes are given back, and
\* nothing else is any different.
Shorter(n, d, e) ==
  /\ Shrinks(n, d) /\ OthersStay(n) /\ Remains(n, d) /\ AllRemain(n, d, 0)
  /\ e \in Nat /\ ptfree' = ptfree + e
  /\ \E k \in Nat : /\ k = IF n \in Queued THEN Len(porttab[n].queue) ELSE 0
                   /\ e <= k /\ k - e = IF n \in Queued' THEN Len(porttab'[n].queue) ELSE 0

LEMMA DataQuiet ==
  ASSUME TypeInv, TypeInv', DataInv, NEW n \in Ports, NEW d, NEW e, Shorter(n, d, e),
         UNCHANGED <<msgs, disposed, received>>
  PROVE  DataInv'
<1>3. Shrinks(n, d) /\ OthersStay(n) /\ Remains(n, d) /\ AllRemain(n, d, 0) /\ e \in Nat /\ ptfree' = ptfree + e
  BY DEF Shorter
<1>4. PICK k \in Nat : /\ k = IF n \in Queued THEN Len(porttab[n].queue) ELSE 0
                      /\ e <= k /\ k - e = IF n \in Queued' THEN Len(porttab'[n].queue) ELSE 0
  BY DEF Shorter
<1> USE <1>3, <1>4
<1>1. msgs' = msgs /\ disposed' = disposed /\ received' = received
  OBVIOUS
<1>2. QueueInv /\ DoneInv /\ PlacedInv /\ NodesInv
  BY DEF DataInv
<1>7. QueueInv'
  BY <1>1, <1>2, QueueShrinks
<1>8. DoneInv'
  BY <1>1, <1>2, DoneStays
<1>9. PlacedInv'
  <2>1. /\ \A m : (\E i \in DOMAIN received : received[i].msg = m) => Placed(m)'
        /\ \A m : (\E i \in DOMAIN disposed : disposed[i] = m) => Placed(m)'
    BY <1>1 DEF Placed
  <2>2. n \in Queued => \A i \in 1..Len(porttab[n].queue) :
             Gone(n) < i /\ i <= Gone(n) + 0 => \A m : m = porttab[n].queue[i] => Placed(m)'
    <3>1. Gone(n) \in Nat
      BY DEF Gone, TypeInv
    <3> QED
      BY <3>1, PortIs
  <2> QED
    BY <1>1, <1>2, <2>1, <2>2, PlacedStays
<1>10. NodesInv'
  <2>2. \A o \in Ports : o # n => porttab'[o] = porttab[o] /\ (o \in Queued' <=> o \in Queued)
    BY DEF Shrinks, OthersStay
  <2> QED
    BY <1>2, <2>2, NodesLess
<1> QED
  BY <1>7, <1>8, <1>9, <1>10 DEF DataInv

\* A step that leaves the queues alone.
LEMMA DataSame ==
  ASSUME TypeInv, TypeInv', DataInv, NEW n \in Ports, Shrinks(n, 0),
         porttab'[n].state = porttab[n].state, UNCHANGED <<clear, msgs, disposed, received, ptfree>>
  PROVE  DataInv'
<1>1. clear' = clear /\ ptfree' = ptfree
  OBVIOUS
<1>3. \A o \in Ports : porttab'[o].state = porttab[o].state
  BY DEF Shrinks
<1>4. Queued' = Queued /\ \A o \in Ports : Gone(o)' = Gone(o) /\ Gone(o) \in Nat
  BY <1>1, <1>3 DEF Queued, Gone, TypeInv
<1>5. Len(porttab'[n].queue) = Len(porttab[n].queue) /\ Len(porttab[n].queue) \in Nat
  BY PortIs DEF Shrinks
<1>6. OthersStay(n) /\ Remains(n, 0) /\ AllRemain(n, 0, 0)
  BY <1>4, <1>5 DEF OthersStay, Remains, AllRemain
<1> DEFINE k == IF n \in Queued THEN Len(porttab[n].queue) ELSE 0
<1>7. k \in Nat /\ k = (IF n \in Queued THEN Len(porttab[n].queue) ELSE 0) /\ 0 <= k
      /\ k - 0 = (IF n \in Queued' THEN Len(porttab'[n].queue) ELSE 0)
  BY <1>4, <1>5
<1>8. ptfree' = ptfree + 0
  BY <1>1 DEF TypeInv
<1> HIDE DEF k
<1>9. Shorter(n, 0, 0)
  BY <1>6, <1>7, <1>8 DEF Shorter
<1> QED
  BY <1>9, DataQuiet

\* ptrecv takes the first message.
LEMMA DataGet ==
  ASSUME TypeInv, TypeInv', DataInv, NEW n \in Ports, porttab[n].state = "alloc", Shrinks(n, 1),
         porttab'[n].state = "alloc", porttab'[n].seq = porttab[n].seq,
         received' = Append(received, [msg |-> porttab[n].queue[1], seq |-> porttab[n].seq]),
         ptfree' = ptfree + 1, UNCHANGED <<clear, msgs, disposed>>
  PROVE  DataInv'
<1> DEFINE h == porttab[n].queue[1]
           R == Len(received)
<1>1. clear' = clear /\ msgs' = msgs /\ disposed' = disposed
  OBVIOUS
<1>2. QueueInv /\ DoneInv /\ PlacedInv /\ NodesInv
  BY DEF DataInv
<1>3. \A o \in Ports : porttab'[o].state = porttab[o].state
  BY DEF Shrinks
<1>4. Queued' = Queued /\ n \in Queued /\ (\A o \in Ports : Gone(o)' = Gone(o) /\ Gone(o) \in Nat) /\ Gone(n) = 0
  BY <1>1, <1>3 DEF Queued, Gone, TypeInv
<1>5. Len(porttab'[n].queue) = Len(porttab[n].queue) - 1 /\ Len(porttab[n].queue) \in Nat /\ Len(porttab[n].queue) > 0
  BY PortIs DEF Shrinks
<1>6. OthersStay(n) /\ Remains(n, 1) /\ AllRemain(n, 1, 1)
  BY <1>4, <1>5 DEF OthersStay, Remains, AllRemain
<1>7. QueueInv'
  BY <1>1, <1>2, QueueShrinks
<1>8. /\ R \in Nat /\ DOMAIN received = 1..R /\ Len(received') = R + 1 /\ DOMAIN received' = 1..R+1
      /\ \A i \in 1..R : received'[i] = received[i]
      /\ received'[R+1] = [msg |-> h, seq |-> porttab[n].seq]
  <2>1. received \in Seq([msg : Nat, seq : Nat])
    BY DEF TypeInv
  <2> QED
    BY <2>1
<1>9. h \in 1..Len(msgs) /\ msgs[h].port = n /\ msgs[h].seq = porttab[n].seq /\ 1 \in DOMAIN porttab[n].queue
  <2>1. QueueOK(n) /\ 1 \in 1..Len(porttab[n].queue)
    BY <1>2, <1>5 DEF QueueInv
  <2> QED
    BY <2>1, QueueIs, PortIs
<1>10. DoneInv'
  <2> HIDE DEF h, R
  <2>1. ASSUME NEW i \in DOMAIN received'
        PROVE  received'[i].msg \in 1..Len(msgs) /\ msgs[received'[i].msg].seq = received'[i].seq
    <3>1. CASE i \in 1..R
      BY <1>2, <1>8, <3>1 DEF DoneInv
    <3>2. CASE i = R + 1
      BY <1>8, <1>9, <3>2
    <3> QED
      BY <1>8, <3>1, <3>2
  <2>2. ASSUME NEW i \in DOMAIN disposed
        PROVE  disposed[i] \in 1..Len(msgs) /\ msgs[disposed[i]].seq < porttab'[msgs[disposed[i]].port].seq
    <3>1. disposed[i] \in 1..Len(msgs) /\ msgs[disposed[i]].seq < porttab[msgs[disposed[i]].port].seq
      BY <1>2 DEF DoneInv
    <3>2. \A o \in Ports : porttab'[o].seq = porttab[o].seq
      BY DEF Shrinks
    <3> QED
      BY <3>1, <3>2, ListsAre
  <2>3. ASSUME NEW i \in 1..R PROVE Earlier(received[i].msg, h)
    BY <1>2, <1>8, <1>9 DEF DoneInv, h
  <2>4. ASSUME NEW j \in DOMAIN disposed PROVE msgs[h] # msgs[disposed[j]]
    <3>1. disposed[j] \in 1..Len(msgs) /\ msgs[disposed[j]].seq < porttab[msgs[disposed[j]].port].seq
      BY <1>2 DEF DoneInv
    <3>2. msgs[h] = msgs[disposed[j]] => msgs[disposed[j]].seq = porttab[n].seq /\ msgs[disposed[j]].port = n
      BY <1>9
    <3> QED
      BY <3>1, <3>2, PortIs
  <2>5. ASSUME NEW i \in DOMAIN received', NEW j \in DOMAIN received', i < j
        PROVE  Earlier(received[i].msg, received[j].msg)'
    <3>1. CASE j \in 1..R
      <4>1. i \in 1..R /\ Earlier(received[i].msg, received[j].msg)
        BY <1>2, <1>8, <2>5, <3>1 DEF DoneInv
      <4> QED
        BY <1>1, <1>8, <3>1, <4>1 DEF Earlier
    <3>2. CASE j = R + 1
      <4>1. i \in 1..R /\ Earlier(received[i].msg, h)
        BY <1>8, <2>3, <2>5, <3>2
      <4> QED
        BY <1>1, <1>8, <3>2, <4>1 DEF Earlier
    <3> QED
      BY <1>8, <3>1, <3>2
  <2>6. ASSUME NEW i \in DOMAIN disposed, NEW j \in DOMAIN disposed, i < j PROVE Earlier(disposed[i], disposed[j])'
    <3>1. Earlier(disposed[i], disposed[j])
      BY <1>2, <2>6 DEF DoneInv
    <3> QED
      BY <1>1, <3>1 DEF Earlier
  <2>7. ASSUME NEW i \in DOMAIN received', NEW j \in DOMAIN disposed PROVE Earlier(received[i].msg, disposed[j])'
    <3>1. CASE i \in 1..R
      <4>1. Earlier(received[i].msg, disposed[j])
        BY <1>2, <1>8, <3>1 DEF DoneInv
      <4> QED
        BY <1>1, <1>8, <3>1, <4>1 DEF Earlier
    <3>2. CASE i = R + 1
      BY <1>1, <1>8, <2>4, <3>2 DEF Earlier
    <3> QED
      BY <1>8, <3>1, <3>2
  <2>8. ASSUME NEW o \in Ports, NEW k \in DOMAIN porttab'[o].queue
        PROVE  /\ \A i \in DOMAIN received' : Earlier(received[i].msg, porttab[o].queue[k])'
               /\ o \in Queued' /\ k > Gone(o)' => \A i \in DOMAIN disposed : Earlier(disposed[i], porttab[o].queue[k])'
    <3>1. PICK i \in DOMAIN porttab[o].queue :
              /\ porttab'[o].queue[k] = porttab[o].queue[i] /\ (o = n => i = k + 1)
              /\ o \in Queued' /\ k > Gone(o)' => o \in Queued /\ i > Gone(o)
      BY <1>6, WasQueued
    <3>2. /\ \A j \in DOMAIN received : Earlier(received[j].msg, porttab[o].queue[i])
          /\ o \in Queued /\ i > Gone(o) => \A j \in DOMAIN disposed : Earlier(disposed[j], porttab[o].queue[i])
      BY <1>2 DEF DoneInv
    <3>3. msgs[h] = msgs[porttab[o].queue[i]] => h < porttab[o].queue[i]
      <4>1. QueueOK(o) /\ QueueOK(n)
        BY <1>2 DEF QueueInv
      <4>2. msgs[porttab[o].queue[i]].port = o
        BY <4>1 DEF QueueOK
      <4>3. CASE o = n
        <5>1. k \in 1..Len(porttab'[n].queue)
          BY <4>3, NextPortIs
        <5>2. 1 < i /\ 1 \in DOMAIN porttab[n].queue /\ i \in DOMAIN porttab[n].queue
          BY <1>5, <1>9, <3>1, <4>3, <5>1
        <5>3. porttab[n].queue[1] < porttab[n].queue[i]
          BY <4>1, <5>2 DEF QueueOK
        <5> QED
          BY <4>3, <5>3 DEF h
      <4>4. CASE o # n
        BY <1>9, <4>2, <4>4
      <4> QED
        BY <4>3, <4>4
    <3>4. ASSUME NEW j \in DOMAIN received' PROVE Earlier(received[j].msg, porttab[o].queue[k])'
      <4>1. CASE j \in 1..R
        BY <1>1, <1>8, <3>1, <3>2, <4>1 DEF Earlier
      <4>2. CASE j = R + 1
        BY <1>1, <1>8, <3>1, <3>3, <4>2 DEF Earlier
      <4> QED
        BY <1>8, <4>1, <4>2
    <3>5. ASSUME o \in Queued', k > Gone(o)', NEW j \in DOMAIN disposed PROVE Earlier(disposed[j], porttab[o].queue[k])'
      BY <1>1, <3>1, <3>2, <3>5 DEF Earlier
    <3> QED
      BY <3>4, <3>5
  <2> QED
    BY <1>1, <2>1, <2>2, <2>5, <2>6, <2>7, <2>8 DEF DoneInv
<1>11. PlacedInv'
  <2> HIDE DEF h, R
  <2>1. ASSUME NEW m, NEW i \in DOMAIN received, received[i].msg = m PROVE Placed(m)'
    <3>1. i \in DOMAIN received' /\ received'[i].msg = m
      BY <1>8, <2>1
    <3> QED
      BY <3>1 DEF Placed
  <2>2. ASSUME NEW m, NEW i \in DOMAIN disposed, disposed[i] = m PROVE Placed(m)'
    BY <1>1, <2>2 DEF Placed
  <2>3. ASSUME NEW i \in 1..Len(porttab[n].queue), Gone(n) < i, i <= Gone(n) + 1, NEW m, m = porttab[n].queue[i]
        PROVE  Placed(m)'
    <3>1. R + 1 \in DOMAIN received' /\ received'[R+1].msg = m
      BY <1>4, <1>5, <1>8, <2>3 DEF h
    <3> QED
      BY <3>1 DEF Placed
  <2> QED
    BY <1>1, <1>2, <1>6, <2>1, <2>2, <2>3, PlacedStays
<1>12. NodesInv'
  <2> DEFINE k == Len(porttab[n].queue)
  <2>1. k \in Nat /\ k = (IF n \in Queued THEN Len(porttab[n].queue) ELSE 0) /\ 1 <= k
        /\ k - 1 = (IF n \in Queued' THEN Len(porttab'[n].queue) ELSE 0)
    BY <1>4, <1>5
  <2>2. \A o \in Ports : o # n => porttab'[o] = porttab[o] /\ (o \in Queued' <=> o \in Queued)
    BY <1>4 DEF Shrinks
  <2> HIDE DEF k
  <2> QED
    BY <1>2, <2>1, <2>2, NodesLess
<1> QED
  BY <1>7, <1>10, <1>11, <1>12 DEF DataInv

\* ptcreate: the queue of a port that was free is empty.
LEMMA DataCreate ==
  ASSUME TypeInv, TypeInv', DataInv, NEW n \in Ports, porttab[n].state = "free",
         Becomes(n, <<>>, "alloc", porttab[n].seq + 1), UNCHANGED <<clear, msgs, disposed, received, ptfree>>
  PROVE  DataInv'
<1>1. clear' = clear /\ ptfree' = ptfree
  OBVIOUS
<1> DEFINE m == Len(porttab[n].queue)
<1>2. m \in Nat /\ porttab[n].seq \in Nat
  BY PortIs
<1>3. /\ porttab'[n].queue = <<>> /\ porttab'[n].state = "alloc" /\ porttab'[n].seq = porttab[n].seq + 1
      /\ \A o \in Ports : o # n => porttab'[o] = porttab[o]
  BY DEF Becomes
<1>4. Shrinks(n, m)
  BY <1>2, <1>3 DEF Shrinks
<1>5. n \notin Queued
  BY DEF Queued
<1>6. OthersStay(n)
  BY <1>1, <1>3 DEF OthersStay, Queued, Gone
<1>7. Remains(n, m) /\ AllRemain(n, m, 0)
  BY <1>3, <1>5 DEF Remains, AllRemain
<1> HIDE DEF m
<1>8. ptfree' = ptfree + 0
  BY <1>1 DEF TypeInv
<1>9. 0 = (IF n \in Queued THEN Len(porttab[n].queue) ELSE 0) /\ 0 - 0 = (IF n \in Queued' THEN Len(porttab'[n].queue) ELSE 0)
  BY <1>3, <1>5
<1>10. Shorter(n, m, 0)
  BY <1>4, <1>6, <1>7, <1>8, <1>9 DEF Shorter
<1> QED
  BY <1>10, DataQuiet

\* _ptclear begins.
LEMMA DataBegin ==
  ASSUME TypeInv, TypeInv', DataInv, ClearInv, NEW n \in Ports, porttab[n].state = "alloc", clear = NoClear,
         Becomes(n, porttab[n].queue, "limbo", porttab[n].seq + 1), clear'.step = "dispose", clear'.walk = 0,
         UNCHANGED <<msgs, disposed, received, ptfree>>
  PROVE  DataInv'
<1>1. ptfree' = ptfree
  OBVIOUS
<1>2. Len(porttab[n].queue) \in Nat /\ porttab[n].seq \in Nat
  BY PortIs
<1>3. /\ porttab'[n].queue = porttab[n].queue /\ porttab'[n].state = "limbo" /\ porttab'[n].seq = porttab[n].seq + 1
      /\ \A o \in Ports : o # n => porttab'[o] = porttab[o]
  BY DEF Becomes
<1>4. Shrinks(n, 0)
  BY <1>2, <1>3, PortIs DEF Shrinks
<1>5. \A o \in Ports : porttab[o].state # "limbo"
  BY DEF ClearInv, NoClear
<1>6. OthersStay(n)
  BY <1>3, <1>5 DEF OthersStay, Queued, Gone
<1>7. n \in Queued /\ n \in Queued' /\ Gone(n) = 0 /\ Gone(n)' = 0
  BY <1>3 DEF Queued, Gone
<1>8. Remains(n, 0) /\ AllRemain(n, 0, 0)
  BY <1>2, <1>3, <1>7 DEF Remains, AllRemain
<1>9. ptfree' = ptfree + 0
  BY <1>1 DEF TypeInv
<1> DEFINE k == Len(porttab[n].queue)
<1>10. k \in Nat /\ 0 <= k /\ k = (IF n \in Queued THEN Len(porttab[n].queue) ELSE 0)
       /\ k - 0 = (IF n \in Queued' THEN Len(porttab'[n].queue) ELSE 0)
  BY <1>2, <1>3, <1>7
<1> HIDE DEF k
<1>11. Shorter(n, 0, 0)
  BY <1>4, <1>6, <1>8, <1>9, <1>10 DEF Shorter
<1> QED
  BY <1>11, DataQuiet

\* The list of messages is given back, and emptied if the port is reset.
LEMMA DataSenders ==
  ASSUME TypeInv, TypeInv', DataInv, ClearInv, NEW n \in Ports, n = clear.port, clear.step = "dispose",
         clear.walk = Len(porttab[n].queue), clear'.step = "receivers",
         NEW q, Becomes(n, q, "limbo", porttab[n].seq), q = <<>> \/ q = porttab[n].queue,
         ptfree' = ptfree + Len(porttab[n].queue), UNCHANGED <<msgs, disposed, received>>
  PROVE  DataInv'
<1> DEFINE d == IF q = <<>> THEN Len(porttab[n].queue) ELSE 0
           k == Len(porttab[n].queue)
<1>2. Len(porttab[n].queue) \in Nat /\ porttab[n].seq \in Nat
  BY PortIs
<1>3. /\ porttab'[n].queue = q /\ porttab'[n].state = "limbo" /\ porttab'[n].seq = porttab[n].seq
      /\ \A o \in Ports : o # n => porttab'[o] = porttab[o]
  BY DEF Becomes
<1>4. porttab[n].state = "limbo" /\ \A o \in Ports : o # n => porttab[o].state # "limbo"
  BY DEF ClearInv
<1>5. Shrinks(n, d)
  <2>1. CASE q = <<>>
    BY <1>2, <1>3, <1>4, <2>1 DEF Shrinks
  <2>2. CASE q # <<>>
    BY <1>2, <1>3, <1>4, <2>2 DEF Shrinks
  <2> QED
    BY <2>1, <2>2
<1>6. OthersStay(n)
  BY <1>3, <1>4 DEF OthersStay, Queued, Gone
<1>7. n \in Queued /\ n \notin Queued' /\ Gone(n) = Len(porttab[n].queue)
  BY <1>3, <1>4 DEF Queued, Gone
<1>8. Remains(n, d) /\ AllRemain(n, d, 0)
  BY <1>2, <1>7 DEF Remains, AllRemain
<1>9. k \in Nat /\ k <= k /\ k = (IF n \in Queued THEN Len(porttab[n].queue) ELSE 0)
       /\ k - k = (IF n \in Queued' THEN Len(porttab'[n].queue) ELSE 0) /\ ptfree' = ptfree + k
  BY <1>2, <1>7
<1> HIDE DEF k, d
<1>10. Shorter(n, d, k)
  BY <1>5, <1>6, <1>8, <1>9 DEF Shorter
<1> QED
  BY <1>10, DataQuiet

\* The end of _ptclear.
LEMMA DataReceivers ==
  ASSUME TypeInv, TypeInv', DataInv, ClearInv, NEW n \in Ports, n = clear.port, clear.step = "receivers",
         clear' = NoClear, NEW s, s \in {"free", "alloc"}, s = "alloc" => porttab[n].queue = <<>>,
         Becomes(n, porttab[n].queue, s, porttab[n].seq), UNCHANGED <<msgs, disposed, received, ptfree>>
  PROVE  DataInv'
<1>1. ptfree' = ptfree
  OBVIOUS
<1>2. Len(porttab[n].queue) \in Nat /\ porttab[n].seq \in Nat
  BY PortIs
<1>3. /\ porttab'[n].queue = porttab[n].queue /\ porttab'[n].state = s /\ porttab'[n].seq = porttab[n].seq
      /\ \A o \in Ports : o # n => porttab'[o] = porttab[o]
  BY DEF Becomes
<1>4. porttab[n].state = "limbo" /\ \A o \in Ports : o # n => porttab[o].state # "limbo"
  BY DEF ClearInv
<1>5. s = "alloc" => Len(porttab[n].queue) = 0
  OBVIOUS
<1>6. Shrinks(n, 0)
  BY <1>2, <1>3, <1>4, <1>5, PortIs DEF Shrinks
<1>7. OthersStay(n)
  BY <1>3, <1>4 DEF OthersStay, Queued, Gone
<1>8. n \notin Queued /\ (n \in Queued' => Len(porttab'[n].queue) = 0)
  BY <1>3, <1>4, <1>5 DEF Queued
<1>9. Remains(n, 0) /\ AllRemain(n, 0, 0)
  BY <1>2, <1>8 DEF Remains, AllRemain
<1> DEFINE k == 0
<1>10. k \in Nat /\ 0 <= k /\ k = (IF n \in Queued THEN Len(porttab[n].queue) ELSE 0)
       /\ k - 0 = (IF n \in Queued' THEN Len(porttab'[n].queue) ELSE 0)
  BY <1>8
<1>11. ptfree' = ptfree + 0
  BY <1>1 DEF TypeInv
<1> HIDE DEF k
<1>12. Shorter(n, 0, 0)
  BY <1>6, <1>7, <1>9, <1>10, <1>11 DEF Shorter
<1> QED
  BY <1>12, DataQuiet

\* The next message is disposed of.
LEMMA DataDispose ==
  ASSUME TypeInv, TypeInv', DataInv, ClearInv, NEW n \in Ports, n = clear.port, clear.step = "dispose",
         clear.walk < Len(porttab[n].queue), clear' = [clear EXCEPT !.walk = @ + 1],
         disposed' = Append(disposed, porttab[n].queue[clear.walk + 1]),
         UNCHANGED <<porttab, msgs, received, ptfree>>
  PROVE  DataInv'
<1> DEFINE w == clear.walk
           h == porttab[n].queue[w + 1]
           R == Len(disposed)
<1>1. porttab' = porttab /\ msgs' = msgs /\ received' = received /\ ptfree' = ptfree
  OBVIOUS
<1>2. QueueInv /\ DoneInv /\ PlacedInv /\ NodesInv
  BY DEF DataInv
<1>3. w \in Nat /\ clear'.step = "dispose" /\ clear'.walk = w + 1
  BY DEF TypeInv
<1>4. /\ porttab[n].state = "limbo" /\ \A o \in Ports : o # n => porttab[o].state # "limbo"
  BY DEF ClearInv
<1>5. Queued' = Queued /\ n \in Queued /\ Gone(n) = w /\ Gone(n)' = w + 1 /\ \A o \in Ports : o # n => Gone(o)' = Gone(o)
  BY <1>1, <1>3, <1>4 DEF Queued, Gone
<1>6. Len(porttab[n].queue) \in Nat /\ DOMAIN porttab[n].queue = 1..Len(porttab[n].queue) /\ w + 1 \in 1..Len(porttab[n].queue)
  BY <1>3, PortIs
<1>7. Shrinks(n, 0)
  BY <1>1, <1>4, <1>6, PortIs, SMTT(30) DEF Shrinks
<1>8. OthersStay(n) /\ Remains(n, 0) /\ AllRemain(n, 0, 1)
  BY <1>1, <1>3, <1>5 DEF OthersStay, Remains, AllRemain
<1>9. QueueInv'
  BY <1>1, <1>2, <1>7, QueueShrinks
<1>10. /\ R \in Nat /\ DOMAIN disposed = 1..R /\ DOMAIN disposed' = 1..R+1
       /\ \A i \in 1..R : disposed'[i] = disposed[i]
       /\ disposed'[R+1] = h
  <2>1. disposed \in Seq(Nat)
    BY DEF TypeInv
  <2> QED
    BY <2>1
<1>11. h \in 1..Len(msgs) /\ msgs[h].port = n /\ msgs[h].seq < porttab[n].seq
  <2>1. QueueOK(n)
    BY <1>2 DEF QueueInv
  <2>2. h \in 1..Len(msgs) /\ msgs[h].port = n
    BY <1>6, <2>1, QueueIs
  <2>3. Recorded(msgs[h])
    BY <1>2, <2>2 DEF QueueInv
  <2> QED
    BY <1>4, <2>2, <2>3 DEF Recorded
<1>12. DoneInv'
  <2> HIDE DEF h, R, w
  <2>1. \A i \in DOMAIN received : received[i].msg \in 1..Len(msgs) /\ msgs[received[i].msg].seq = received[i].seq
    BY <1>2 DEF DoneInv
  <2>2. ASSUME NEW i \in DOMAIN disposed'
        PROVE  disposed'[i] \in 1..Len(msgs) /\ msgs[disposed'[i]].seq < porttab[msgs[disposed'[i]].port].seq
    <3>1. CASE i \in 1..R
      BY <1>2, <1>10, <3>1, SMTT(30) DEF DoneInv
    <3>2. CASE i = R + 1
      BY <1>10, <1>11, <3>2, Zenon
    <3>3. i \in 1..R \/ i = R + 1
      BY <1>10, <2>2
    <3> QED
      BY <3>1, <3>2, <3>3, Zenon
  <2>3. \A i \in DOMAIN received : Earlier(received[i].msg, h)
    BY <1>2, <1>6 DEF DoneInv, h
  <2>4. \A i \in DOMAIN disposed : Earlier(disposed[i], h)
    <3>1. w + 1 > Gone(n) /\ w + 1 \in DOMAIN porttab[n].queue
      BY <1>3, <1>5, <1>6 DEF w
    <3> QED
      BY <1>2, <1>5, <3>1 DEF DoneInv, h
  <2>5. ASSUME NEW i \in DOMAIN received, NEW j \in DOMAIN received, i < j PROVE Earlier(received[i].msg, received[j].msg)'
    <3>1. Earlier(received[i].msg, received[j].msg)
      BY <1>2, <2>5 DEF DoneInv
    <3> QED
      BY <1>1, <3>1 DEF Earlier
  <2>6. ASSUME NEW i \in DOMAIN disposed', NEW j \in DOMAIN disposed', i < j PROVE Earlier(disposed[i], disposed[j])'
    <3>1. CASE j \in 1..R
      <4>1. i \in 1..R /\ Earlier(disposed[i], disposed[j])
        BY <1>2, <1>10, <2>6, <3>1 DEF DoneInv
      <4> QED
        BY <1>1, <1>10, <3>1, <4>1 DEF Earlier
    <3>2. CASE j = R + 1
      <4>1. i \in 1..R /\ Earlier(disposed[i], h)
        BY <1>10, <2>4, <2>6, <3>2
      <4> QED
        BY <1>1, <1>10, <3>2, <4>1 DEF Earlier
    <3> QED
      BY <1>10, <3>1, <3>2
  <2>7. ASSUME NEW i \in DOMAIN received, NEW j \in DOMAIN disposed' PROVE Earlier(received[i].msg, disposed[j])'
    <3>1. CASE j \in 1..R
      <4>1. Earlier(received[i].msg, disposed[j])
        BY <1>2, <1>10, <3>1 DEF DoneInv
      <4> QED
        BY <1>1, <1>10, <3>1, <4>1 DEF Earlier
    <3>2. CASE j = R + 1
      BY <1>1, <1>10, <2>3, <3>2 DEF Earlier
    <3> QED
      BY <1>10, <3>1, <3>2
  <2>8. ASSUME NEW o \in Ports, NEW k \in DOMAIN porttab'[o].queue
        PROVE  /\ \A i \in DOMAIN received : Earlier(received[i].msg, porttab[o].queue[k])'
               /\ o \in Queued' /\ k > Gone(o)' => \A i \in DOMAIN disposed' : Earlier(disposed[i], porttab[o].queue[k])'
    <3>1. k \in DOMAIN porttab[o].queue
      BY <1>1
    <3>2. /\ \A j \in DOMAIN received : Earlier(received[j].msg, porttab[o].queue[k])
          /\ o \in Queued /\ k > Gone(o) => \A j \in DOMAIN disposed : Earlier(disposed[j], porttab[o].queue[k])
      BY <1>2, <3>1 DEF DoneInv
    <3>3. ASSUME o \in Queued', k > Gone(o)', NEW j \in DOMAIN disposed' PROVE Earlier(disposed[j], porttab[o].queue[k])'
      <4>1. CASE j \in 1..R
        <5>1. o \in Queued /\ k > Gone(o)
          <6>1. o # n => Gone(o)' = Gone(o)
            BY <1>5
          <6>2. o = n => k \in 1..Len(porttab[n].queue) /\ k > w + 1 /\ Gone(o) = w
            BY <1>5, <1>6, <3>1, <3>3
          <6> QED
            BY <1>3, <1>5, <3>3, <6>1, <6>2 DEF w
        <5> QED
          BY <1>1, <1>10, <3>2, <4>1, <5>1 DEF Earlier
      <4>2. CASE j = R + 1
        <5>1. msgs[h] = msgs[porttab[o].queue[k]] => h < porttab[o].queue[k]
          <6>1. QueueOK(o) /\ QueueOK(n)
            BY <1>2 DEF QueueInv
          <6>2. msgs[porttab[o].queue[k]].port = o
            BY <3>1, <6>1 DEF QueueOK
          <6>3. CASE o = n
            <7>1. k \in 1..Len(porttab[n].queue) /\ k > w + 1 /\ w + 1 \in DOMAIN porttab[n].queue
              BY <1>5, <1>6, <3>1, <3>3, <6>3
            <7>2. porttab[n].queue[w + 1] < porttab[n].queue[k]
              BY <1>3, <1>6, <6>1, <7>1 DEF QueueOK, w
            <7> QED
              BY <6>3, <7>2 DEF h
          <6>4. CASE o # n
            BY <1>11, <6>2, <6>4
          <6> QED
            BY <6>3, <6>4
        <5> QED
          BY <1>1, <1>10, <4>2, <5>1 DEF Earlier
      <4> QED
        BY <1>10, <4>1, <4>2
    <3>4. ASSUME NEW i \in DOMAIN received PROVE Earlier(received[i].msg, porttab[o].queue[k])'
      BY <1>1, <3>2 DEF Earlier
    <3> QED
      BY <3>3, <3>4
  <2> QED
    BY <1>1, <2>1, <2>2, <2>5, <2>6, <2>7, <2>8, Zenon DEF DoneInv
<1>13. PlacedInv'
  <2> HIDE DEF h, R, w
  <2>1. ASSUME NEW m, NEW i \in DOMAIN received, received[i].msg = m PROVE Placed(m)'
    BY <1>1, <2>1 DEF Placed
  <2>2. ASSUME NEW m, NEW i \in DOMAIN disposed, disposed[i] = m PROVE Placed(m)'
    <3>1. i \in DOMAIN disposed' /\ disposed'[i] = m
      BY <1>10, <2>2
    <3> QED
      BY <3>1 DEF Placed
  <2>3. ASSUME NEW i \in 1..Len(porttab[n].queue), Gone(n) < i, i <= Gone(n) + 1, NEW m, m = porttab[n].queue[i]
        PROVE  Placed(m)'
    <3>1. i = w + 1
      BY <1>3, <1>5, <1>6, <2>3 DEF w
    <3>2. R + 1 \in DOMAIN disposed' /\ disposed'[R+1] = m
      BY <1>10, <2>3, <3>1 DEF h
    <3> QED
      BY <3>2 DEF Placed
  <2> QED
    BY <1>1, <1>2, <1>7, <1>8, <2>1, <2>2, <2>3, PlacedStays
<1>14. NodesInv'
  <2>1. Nodes' = Nodes
    BY <1>1, <1>5 DEF Nodes
  <2> QED
    BY <1>1, <1>2, <2>1 DEF NodesInv
<1> QED
  BY <1>9, <1>12, <1>13, <1>14 DEF DataInv

\* What a semaphore's count is when nobody waits in it and nobody it has let through is to run.
Counted(s, op, n, seq, c, r) == s.sem + Len(s.q) + Cardinality(LetIn(op, n, seq, c, r))

LEMMA SemTypes ==
  ASSUME NEW s, SemOK(s)
  PROVE  s \in PortSem /\ s.sem \in Int /\ Len(s.q) \in Nat /\ DOMAIN s.q = 1..Len(s.q) /\ All(s) \subseteq Procs
<1>1. s \in PortSem /\ s.sem \in Int /\ s.q \in Seq(Procs) /\ Len(s.q) \in Nat /\ DOMAIN s.q = 1..Len(s.q)
  BY DEF SemOK, PortSem
<1>2. All(s) \subseteq Procs
  BY <1>1 DEF All
<1> QED
  BY <1>1, <1>2

LEMMA CountedIs ==
  ASSUME NEW s, SemOK(s), NEW op, NEW n, NEW seq, NEW c, NEW r, IsFiniteSet(r)
  PROVE  /\ IsFiniteSet(LetIn(op, n, seq, c, r)) /\ Cardinality(LetIn(op, n, seq, c, r)) \in Nat
         /\ Counted(s, op, n, seq, c, r) \in Int
<1>2. IsFiniteSet(LetIn(op, n, seq, c, r)) /\ Cardinality(LetIn(op, n, seq, c, r)) \in Nat
  BY LetFinite
<1>3. s.sem \in Int /\ Len(s.q) \in Nat
  BY SemTypes
<1> QED
  BY <1>2, <1>3 DEF Counted

\* signal, seen from the semaphore and from any other.
OpenWait(s, op, n, t, c, r) == SemOK(s) /\ t.state = "alloc" /\ IsFiniteSet(r) /\ WaitOK(s, op, n, t, c, r)

LEMMA SignalCounts ==
  ASSUME NEW s, NEW op, NEW n, NEW t, NEW c, NEW r, OpenWait(s, op, n, t, c, r)
  PROVE  Counted(Signals(s), op, n, t.seq, c, r \cup First(s)) = Counted(s, op, n, t.seq, c, r) + 1
<1>0. SemOK(s) /\ t.state = "alloc" /\ IsFiniteSet(r) /\ WaitOK(s, op, n, t, c, r)
  BY DEF OpenWait
<1>1. /\ SemOK(Signals(s)) /\ First(s) \subseteq All(s)
      /\ \/ First(s) = {} /\ Signals(s).sem + Len(Signals(s).q) = s.sem + Len(s.q) + 1
         \/ /\ \E g \in All(s) : First(s) = {g}
            /\ Signals(s).sem + Len(Signals(s).q) = s.sem + Len(s.q)
  BY <1>0, SignalsIs
<1> DEFINE a == s.sem + Len(s.q)
           b == Signals(s).sem + Len(Signals(s).q)
           k == Cardinality(LetIn(op, n, t.seq, c, r))
           m == Cardinality(LetIn(op, n, t.seq, c, r \cup First(s)))
<1>2. a \in Int /\ b \in Int /\ k \in Nat
  BY <1>0, <1>1, SemTypes, CountedIs
<1>3. Counted(s, op, n, t.seq, c, r) = a + k /\ Counted(Signals(s), op, n, t.seq, c, r \cup First(s)) = b + m
  BY DEF Counted
<1>4. CASE First(s) = {}
  <2>1. r \cup First(s) = r /\ b = a + 1
    <3>1. \A g : First(s) # {g}
      BY <1>4
    <3> QED
      BY <1>1, <1>4, <3>1
  <2> HIDE DEF a, b
  <2>2. m = k
    BY <2>1
  <2> HIDE DEF k, m
  <2> QED
    BY <1>2, <1>3, <2>1, <2>2
<1>5. CASE First(s) # {}
  <2>1. PICK g \in All(s) : First(s) = {g}
    BY <1>1, <1>5
  <2>2. b = a
    BY <1>1, <1>5
  <2>3. g \notin r /\ c[g].op = op /\ c[g].port = n /\ c[g].seq = t.seq
    BY <1>0, <2>1 DEF WaitOK
  <2>4. m = k + 1
    <3>1. Cardinality(LetIn(op, n, t.seq, c, r \cup {g})) = Cardinality(LetIn(op, n, t.seq, c, r)) + 1
      BY <1>0, <2>3, LetMore
    <3> QED
      BY <2>1, <3>1
  <2> HIDE DEF a, b, k, m
  <2> QED
    BY <1>2, <1>3, <2>2, <2>4
<1> QED
  BY <1>4, <1>5

LEMMA AnySignalCounts ==
  ASSUME NEW s, SemOK(s), NEW op, NEW n, NEW t, NEW c, NEW r, WaitOK(s, op, n, t, c, r),
         NEW S, S \subseteq All(s), NEW u, NEW op2, NEW n2, NEW seq, op2 # op \/ n2 # n
  PROVE  Counted(u, op2, n2, seq, c, r \cup S) = Counted(u, op2, n2, seq, c, r)
<1>1. LetIn(op2, n2, seq, c, r \cup S) = LetIn(op2, n2, seq, c, r)
  BY DEF LetIn, WaitOK
<1> QED
  BY <1>1 DEF Counted

\* A process that was let through runs on.
RunsOn(p, c, r, d) ==
  c \in [Procs -> Call] /\ r \subseteq Procs /\ IsFiniteSet(r) /\ p \in r /\ d = [c EXCEPT ![p] = NoCall]

LEMMA RunCounts ==
  ASSUME NEW c, NEW r, NEW p, NEW d, RunsOn(p, c, r, d), NEW op, op # "none", NEW n, NEW seq, NEW s, SemOK(s)
  PROVE  /\ c[p].op = op /\ c[p].port = n /\ c[p].seq = seq =>
              Counted(s, op, n, seq, d, r \ {p}) = Counted(s, op, n, seq, c, r) - 1
         /\ ~(c[p].op = op /\ c[p].port = n /\ c[p].seq = seq) =>
              Counted(s, op, n, seq, d, r \ {p}) = Counted(s, op, n, seq, c, r)
<1>0. c \in [Procs -> Call] /\ r \subseteq Procs /\ IsFiniteSet(r) /\ p \in r /\ d = [c EXCEPT ![p] = NoCall]
  BY DEF RunsOn
<1> DEFINE k == Cardinality(LetIn(op, n, seq, c, r))
           m == Cardinality(LetIn(op, n, seq, d, r \ {p}))
           a == s.sem
           b == Len(s.q)
<1>1. a \in Int /\ b \in Nat /\ k \in Nat
  BY <1>0, SemTypes, CountedIs
<1>2. Counted(s, op, n, seq, c, r) = a + b + k /\ Counted(s, op, n, seq, d, r \ {p}) = a + b + m
  BY DEF Counted
<1> DEFINE K == LetIn(op, n, seq, c, r)
<1>5. LetIn(op, n, seq, d, r \ {p}) = K \ {p} /\ IsFiniteSet(K)
  <2>1. LetIn(op, n, seq, d, r \ {p}) = K \ {p}
    <3>1. \A x \in r \ {p} : d[x] = c[x]
      BY <1>0
    <3> QED
      BY <1>0, <3>1 DEF LetIn, NoCall
  <2>2. IsFiniteSet(K)
    BY <1>0, LetFinite
  <2> QED
    BY <2>1, <2>2
<1>6. p \in K <=> c[p].op = op /\ c[p].port = n /\ c[p].seq = seq
  BY <1>0 DEF LetIn
<1>7. k = Cardinality(K) /\ m = Cardinality(K \ {p})
  BY <1>5
<1> HIDE DEF K, k, m
<1>3. c[p].op = op /\ c[p].port = n /\ c[p].seq = seq => m = k - 1
  BY <1>5, <1>6, <1>7, FS_RemoveElement
<1>4. ~(c[p].op = op /\ c[p].port = n /\ c[p].seq = seq) => m = k
  <2>1. p \notin K => K \ {p} = K
    OBVIOUS
  <2> QED
    BY <1>6, <1>7, <2>1
<1> HIDE DEF a, b
<1> QED
  BY <1>1, <1>2, <1>3, <1>4

\* A process that does nothing begins a call and waits, in u or in another semaphore.
LEMMA CallCounts ==
  ASSUME NEW c, c \in [Procs -> Call], NEW r, r \subseteq Procs, NEW p \in Procs, p \notin r, NEW x,
         NEW op, NEW n, NEW seq, NEW u
  PROVE  Counted(u, op, n, seq, [c EXCEPT ![p] = x], r) = Counted(u, op, n, seq, c, r)
<1>1. LetIn(op, n, seq, [c EXCEPT ![p] = x], r) = LetIn(op, n, seq, c, r)
  BY DEF LetIn
<1> QED
  BY <1>1 DEF Counted

\* Nobody was let through who has not called the port with this number.
LEMMA NoneCounted ==
  ASSUME NEW m \in Nat, NEW op, NEW n, NEW seq, NEW c, NEW r, \A p \in r : c[p].port = n => c[p].seq # seq
  PROVE  Counted(Sem(m), op, n, seq, c, r) = m
<1>1. LetIn(op, n, seq, c, r) = {}
  BY DEF LetIn
<1>2. Cardinality(LetIn(op, n, seq, c, r)) = 0
  BY <1>1, FS_EmptySet
<1>3. Sem(m).sem = m /\ Len(Sem(m).q) = 0
  BY SemIs
<1> QED
  BY <1>2, <1>3 DEF Counted

\* The same steps and those who wait.
LEMMA WaitsWoken ==
  ASSUME NEW s, SemOK(s), NEW op, NEW n, NEW t, NEW c, NEW r, WaitOK(s, op, n, t, c, r),
         NEW S, S \subseteq All(s)
  PROVE  /\ WaitOK(Signals(s), op, n, t, c, r \cup First(s))
         /\ \A u, o, m, v : (o # op \/ m # n) /\ WaitOK(u, o, m, v, c, r) => WaitOK(u, o, m, v, c, r \cup S)
<1>1. All(Signals(s)) = All(s) \ First(s)
  BY SignalsIs
<1>2. WaitOK(Signals(s), op, n, t, c, r \cup First(s))
  BY <1>1 DEF WaitOK
<1>3. ASSUME NEW u, NEW o, NEW m, NEW v, o # op \/ m # n, WaitOK(u, o, m, v, c, r)
      PROVE  WaitOK(u, o, m, v, c, r \cup S)
  BY <1>3 DEF WaitOK
<1> QED
  BY <1>2, <1>3

LEMMA WaitsElse ==
  ASSUME NEW s, NEW op, NEW n, NEW t, NEW c, NEW r, WaitOK(s, op, n, t, c, r), NEW S, S \subseteq All(s),
         NEW u, NEW op2, NEW n2, NEW v, op2 # op \/ n2 # n, WaitOK(u, op2, n2, v, c, r)
  PROVE  WaitOK(u, op2, n2, v, c, r \cup S)
BY DEF WaitOK

LEMMA WaitsRun ==
  ASSUME NEW c, c \in [Procs -> Call], NEW r, NEW p \in r, NEW s, SemOK(s), NEW op, NEW n, NEW t, WaitOK(s, op, n, t, c, r)
  PROVE  WaitOK(s, op, n, t, [c EXCEPT ![p] = NoCall], r \ {p})
<1>1. \A x \in All(s) : x \in Procs /\ x # p
  BY SemTypes DEF WaitOK
<1> QED
  BY <1>1 DEF WaitOK

LEMMA WaitsCalled ==
  ASSUME NEW c, c \in [Procs -> Call], NEW r, NEW p \in Procs, c[p].op = "none", NEW x,
         NEW s, SemOK(s), NEW op, op # "none", NEW n, NEW t, WaitOK(s, op, n, t, c, r)
  PROVE  WaitOK(s, op, n, t, [c EXCEPT ![p] = x], r) /\ p \notin All(s)
<1>1. \A y \in All(s) : y \in Procs /\ y # p
  BY SemTypes DEF WaitOK
<1> QED
  BY <1>1 DEF WaitOK

LEMMA AllFinite ==
  ASSUME NEW s, SemOK(s)
  PROVE  IsFiniteSet(All(s))
<1>1. DOMAIN s.q = 1..Len(s.q) /\ Len(s.q) \in Nat
  BY SemTypes
<1>2. IsFiniteSet(1..Len(s.q))
  BY <1>1, FS_Interval
<1>3. (\A i, j \in 1..Len(s.q) : s.q[i] = s.q[j] => i = j) /\ \A x : x \in All(s) <=> \E i \in 1..Len(s.q) : x = s.q[i]
  BY <1>1 DEF SemOK, All
<1> QED
  BY ONLY <1>2, <1>3, ImageCount

\* CallInv of other calls c and other ready processes r.
CallsOK(c, r) ==
  /\ c \in [Procs -> Call] /\ r \subseteq Procs /\ IsFiniteSet(r)
  /\ \A p \in Procs : c[p].op # "none" => Recorded(c[p])
  /\ \A p \in r : c[p].op # "none"
  /\ \A n \in Ports : LET t == porttab[n] IN
       /\ SemOK(t.ssem) /\ WaitOK(t.ssem, "send", n, t, c, r)
       /\ SemOK(t.rsem) /\ WaitOK(t.rsem, "recv", n, t, c, r)
\* The semaphores of port n count its messages and its room, where b more are on their way.
CountsOK(n, c, r, a, b) ==
  LET t == porttab[n] IN
  /\ Len(t.queue) = Counted(t.rsem, "recv", n, t.seq, c, r) + a
  /\ t.maxcnt = Counted(t.ssem, "send", n, t.seq, c, r) + Len(t.queue) + b
CountInv == \A n \in Ports : porttab[n].state = "alloc" => CountsOK(n, call, ready, 0, 0)

LEMMA CallsAre ==
  ASSUME TypeInv
  PROVE  CallInv <=> CallsOK(call, ready)
BY DEF CallInv, CallsOK, TypeInv

\* A process that was let through runs on.
LEMMA CallsRun ==
  ASSUME TypeInv, CallsOK(call, ready), NEW p \in ready
  PROVE  CallsOK([call EXCEPT ![p] = NoCall], ready \ {p})
<1> DEFINE d == [call EXCEPT ![p] = NoCall]
<1>1. call \in [Procs -> Call] /\ ready \subseteq Procs /\ IsFiniteSet(ready) /\ p \in Procs
  BY DEF TypeInv
<1>2. NoCall \in Call /\ NoCall.op = "none"
  BY PortsAssump DEF NoCall, Call, Ports
<1>3. d \in [Procs -> Call] /\ (\A x \in Procs : x # p => d[x] = call[x]) /\ d[p] = NoCall
  BY <1>1, <1>2
<1>4. IsFiniteSet(ready \ {p})
  BY <1>1, FS_RemoveElement
<1>5. ASSUME NEW n \in Ports
      PROVE  /\ SemOK(porttab[n].ssem) /\ WaitOK(porttab[n].ssem, "send", n, porttab[n], d, ready \ {p})
             /\ SemOK(porttab[n].rsem) /\ WaitOK(porttab[n].rsem, "recv", n, porttab[n], d, ready \ {p})
  <2>1. /\ SemOK(porttab[n].ssem) /\ WaitOK(porttab[n].ssem, "send", n, porttab[n], call, ready)
        /\ SemOK(porttab[n].rsem) /\ WaitOK(porttab[n].rsem, "recv", n, porttab[n], call, ready)
    BY DEF CallsOK
  <2>2. WaitOK(porttab[n].ssem, "send", n, porttab[n], d, ready \ {p})
    BY <1>1, <2>1, WaitsRun
  <2>3. WaitOK(porttab[n].rsem, "recv", n, porttab[n], d, ready \ {p})
    BY <1>1, <2>1, WaitsRun
  <2> QED
    BY <2>1, <2>2, <2>3
<1>6. \A x \in Procs : d[x].op # "none" => Recorded(d[x])
  BY <1>2, <1>3 DEF CallsOK
<1>7. \A x \in ready \ {p} : d[x].op # "none"
  BY <1>1, <1>3 DEF CallsOK
<1> HIDE DEF d
<1>8. CallsOK(d, ready \ {p})
  BY <1>1, <1>3, <1>4, <1>5, <1>6, <1>7 DEF CallsOK
<1> QED
  BY <1>8 DEF d

\* What is counted when p runs on and will signal, for another port, or one that has changed.
OnItsWay(op, n, p) == IF call[p].op = op /\ call[p].port = n /\ call[p].seq = porttab[n].seq THEN 1 ELSE 0

LEMMA CountsRun ==
  ASSUME TypeInv, CallsOK(call, ready), NEW p \in ready, NEW n \in Ports, CountsOK(n, call, ready, 0, 0)
  PROVE  CountsOK(n, [call EXCEPT ![p] = NoCall], ready \ {p}, OnItsWay("recv", n, p), OnItsWay("send", n, p))
<1> DEFINE a == OnItsWay("recv", n, p)
           b == OnItsWay("send", n, p)
<1> DEFINE d == [call EXCEPT ![p] = NoCall]
           t == porttab[n]
           R == Counted(t.rsem, "recv", n, t.seq, call, ready)
           S == Counted(t.ssem, "send", n, t.seq, call, ready)
           R1 == Counted(t.rsem, "recv", n, t.seq, d, ready \ {p})
           S1 == Counted(t.ssem, "send", n, t.seq, d, ready \ {p})
<1>1. call \in [Procs -> Call] /\ ready \subseteq Procs /\ IsFiniteSet(ready) /\ SemOK(t.ssem) /\ SemOK(t.rsem)
  BY DEF TypeInv, CallsOK
<1>2. R \in Int /\ S \in Int
  BY <1>1, CountedIs
<1> DEFINE IsIn(op) == call[p].op = op /\ call[p].port = n /\ call[p].seq = t.seq
<1>3. R1 = R - a
  <2>1. d = [call EXCEPT ![p] = NoCall]
    OBVIOUS
  <2>2. (IsIn("recv") => R1 = R - 1) /\ (~IsIn("recv") => R1 = R)
    <3> DEFINE u == t.rsem
               k == t.seq
               e == "recv"
    <3>1. SemOK(u) /\ e # "none"
      BY <1>1
    <3>3. RunsOn(p, call, ready, d)
      BY <1>1, <2>1 DEF RunsOn
    <3> HIDE DEF d, t, u, k, e
    <3>2. /\ call[p].op = e /\ call[p].port = n /\ call[p].seq = k =>
              Counted(u, e, n, k, d, ready \ {p}) = Counted(u, e, n, k, call, ready) - 1
          /\ ~(call[p].op = e /\ call[p].port = n /\ call[p].seq = k) =>
              Counted(u, e, n, k, d, ready \ {p}) = Counted(u, e, n, k, call, ready)
      BY <3>1, <3>3, RunCounts
    <3> QED
      BY <3>2 DEF u, k, e
  <2>3. (IsIn("recv") => a = 1) /\ (~IsIn("recv") => a = 0)
    BY DEF OnItsWay
  <2> HIDE DEF R, R1, IsIn, a
  <2> QED
    BY <1>2, <2>2, <2>3
<1>4. S1 = S - b
  <2>1. d = [call EXCEPT ![p] = NoCall]
    OBVIOUS
  <2>2. (IsIn("send") => S1 = S - 1) /\ (~IsIn("send") => S1 = S)
    <3> DEFINE u == t.ssem
               k == t.seq
               e == "send"
    <3>1. SemOK(u) /\ e # "none"
      BY <1>1
    <3>3. RunsOn(p, call, ready, d)
      BY <1>1, <2>1 DEF RunsOn
    <3> HIDE DEF d, t, u, k, e
    <3>2. /\ call[p].op = e /\ call[p].port = n /\ call[p].seq = k =>
              Counted(u, e, n, k, d, ready \ {p}) = Counted(u, e, n, k, call, ready) - 1
          /\ ~(call[p].op = e /\ call[p].port = n /\ call[p].seq = k) =>
              Counted(u, e, n, k, d, ready \ {p}) = Counted(u, e, n, k, call, ready)
      BY <3>1, <3>3, RunCounts
    <3> QED
      BY <3>2 DEF u, k, e
  <2>3. (IsIn("send") => b = 1) /\ (~IsIn("send") => b = 0)
    BY DEF OnItsWay
  <2> HIDE DEF S, S1, IsIn, b
  <2> QED
    BY <1>2, <2>2, <2>3
<1>5. Len(t.queue) = R + 0 /\ t.maxcnt = S + Len(t.queue) + 0
  BY DEF CountsOK
<1>6. Len(t.queue) \in Nat /\ t.maxcnt \in Nat /\ a \in Nat /\ b \in Nat
  BY PortIs DEF OnItsWay
<1> DEFINE m == Len(t.queue)
           x == t.maxcnt
<1> HIDE DEF R, S, R1, S1, m, x, a, b
<1>7. m = R1 + a /\ x = S1 + m + b
  <2>1. m = R + 0 /\ x = S + m + 0 /\ m \in Nat /\ x \in Nat
    BY <1>5, <1>6 DEF m, x
  <2> QED
    BY <1>2, <1>3, <1>4, <1>6, <2>1
<1> QED
  BY <1>7 DEF CountsOK, R1, S1, m, x, a, b

\* The ports but one are left alone.
Elsewhere(n) == \A o \in Ports : o # n => porttab'[o] = porttab[o]

\* Those who wait at port n and its semaphores.
PortOK(n) ==
  /\ SemOK(porttab[n].ssem) /\ WaitOK(porttab[n].ssem, "send", n, porttab[n], call, ready)
  /\ SemOK(porttab[n].rsem) /\ WaitOK(porttab[n].rsem, "recv", n, porttab[n], call, ready)

\* Some of those who wait at port n are woken by a step that changes no other port.
LEMMA OthersWoken ==
  ASSUME TypeInv, NEW c, NEW r, CallsOK(c, r), NEW n \in Ports, Elsewhere(n),
         call' = c, NEW S, ready' = r \cup S, NEW op, NEW s, SemOK(s), WaitOK(s, op, n, porttab[n], c, r), S \subseteq All(s),
         NEW o \in Ports, o # n
  PROVE  /\ PortOK(o)'
         /\ \A a, b : CountsOK(o, c, r, a, b) => CountsOK(o, call, ready, a, b)'
<1>1. porttab'[o] = porttab[o]
  BY DEF Elsewhere
<1>2. /\ SemOK(porttab[o].ssem) /\ WaitOK(porttab[o].ssem, "send", o, porttab[o], c, r)
      /\ SemOK(porttab[o].rsem) /\ WaitOK(porttab[o].rsem, "recv", o, porttab[o], c, r)
  BY DEF CallsOK
<1>3. \A u, q, m, v : (q # op \/ m # n) /\ WaitOK(u, q, m, v, c, r) => WaitOK(u, q, m, v, c, r \cup S)
  BY WaitsWoken
<1>4. /\ WaitOK(porttab[o].ssem, "send", o, porttab[o], c, r \cup S)
      /\ WaitOK(porttab[o].rsem, "recv", o, porttab[o], c, r \cup S)
  BY <1>2, <1>3
<1>5. /\ Counted(porttab[o].rsem, "recv", o, porttab[o].seq, c, r \cup S) = Counted(porttab[o].rsem, "recv", o, porttab[o].seq, c, r)
      /\ Counted(porttab[o].ssem, "send", o, porttab[o].seq, c, r \cup S) = Counted(porttab[o].ssem, "send", o, porttab[o].seq, c, r)
  BY AnySignalCounts
<1>6. ASSUME NEW a, NEW b, CountsOK(o, c, r, a, b) PROVE CountsOK(o, call, ready, a, b)'
  BY <1>1, <1>5, <1>6 DEF CountsOK
<1>7. PortOK(o)'
  BY <1>1, <1>2, <1>4 DEF PortOK
<1> QED
  BY <1>6, <1>7

\* Calls and ready processes are c and r, and then those of S who wait in semaphore s of port n are woken.
Wakes(n, c, r, op, s, S) ==
  /\ CallsOK(c, r) /\ SemOK(s) /\ WaitOK(s, op, n, porttab[n], c, r) /\ op # "none" /\ S \subseteq All(s)
  /\ call' = c /\ ready' = r \cup S

LEMMA WokenTypes ==
  ASSUME NEW n, NEW c, NEW r, NEW op, NEW s, NEW S, Wakes(n, c, r, op, s, S)
  PROVE  /\ call' \in [Procs -> Call] /\ ready' \subseteq Procs /\ IsFiniteSet(ready')
         /\ \A p \in S : c[p].op = op
<1>1. /\ c \in [Procs -> Call] /\ r \subseteq Procs /\ IsFiniteSet(r)
      /\ SemOK(s) /\ S \subseteq All(s) /\ call' = c /\ ready' = r \cup S
  BY DEF Wakes, CallsOK
<1>2. All(s) \subseteq Procs /\ IsFiniteSet(All(s))
  BY <1>1, SemTypes, AllFinite
<1>3. IsFiniteSet(S)
  BY <1>1, <1>2, FS_Subset
<1>4. IsFiniteSet(r \cup S)
  BY <1>1, <1>3, FS_Union
<1>5. \A p \in S : c[p].op = op
  BY <1>1 DEF Wakes, WaitOK
<1> QED
  BY <1>1, <1>2, <1>4, <1>5

\* A step that changes port n alone, whose number does not go back.
Onward(n) ==
  /\ Elsewhere(n) /\ porttab'[n].seq >= porttab[n].seq
  /\ porttab'[n].state # "alloc" => porttab[n].state # "alloc" \/ porttab'[n].seq > porttab[n].seq

LEMMA OnwardKeeps ==
  ASSUME TypeInv, TypeInv', NEW n \in Ports, Onward(n), NEW x, x.port \in Ports, x.seq \in Nat, Recorded(x)
  PROVE  /\ x.seq <= porttab'[x.port].seq
         /\ porttab'[x.port].state # "alloc" => x.seq < porttab'[x.port].seq
<1>1. porttab[n].seq \in Nat /\ porttab'[n].seq \in Nat
  BY PortIs, NextPortIs
<1>2. CASE x.port = n
  <2>1. x.seq <= porttab[n].seq /\ (porttab[n].state # "alloc" => x.seq < porttab[n].seq)
    BY <1>2 DEF Recorded
  <2>2. /\ porttab'[n].seq >= porttab[n].seq
        /\ porttab'[n].state # "alloc" => porttab[n].state # "alloc" \/ porttab'[n].seq > porttab[n].seq
    BY DEF Onward
  <2> QED
    BY <1>1, <1>2, <2>1, <2>2
<1>3. CASE x.port # n
  BY <1>3 DEF Recorded, Onward, Elsewhere
<1> QED
  BY <1>2, <1>3

LEMMA CallsWoken ==
  ASSUME TypeInv, TypeInv', NEW n \in Ports, Onward(n),
         NEW c, NEW r, NEW op, NEW s, NEW S, Wakes(n, c, r, op, s, S), PortOK(n)'
  PROVE  CallInv'
<1>1. CallsOK(c, r) /\ call' = c /\ ready' = r \cup S /\ op # "none"
  BY DEF Wakes
<1>2. Elsewhere(n)
  BY DEF Onward
<1>3. ASSUME NEW o \in Ports PROVE PortOK(o)'
  <2>1. CASE o # n
    <3>1. SemOK(s) /\ WaitOK(s, op, n, porttab[n], c, r) /\ S \subseteq All(s)
      BY DEF Wakes
    <3> QED
      BY <1>1, <1>2, <2>1, <3>1, OthersWoken
  <2> QED
    BY <2>1
<1>4. ASSUME NEW p \in Procs, call'[p].op # "none" PROVE Recorded(call[p])'
  <2>1. Recorded(c[p]) /\ c[p] \in Call
    BY <1>1, <1>4 DEF CallsOK
  <2>2. c[p].port \in Ports /\ c[p].seq \in Nat
    BY <2>1 DEF Call
  <2>3. /\ c[p].seq <= porttab'[c[p].port].seq
        /\ porttab'[c[p].port].state # "alloc" => c[p].seq < porttab'[c[p].port].seq
    BY <2>1, <2>2, OnwardKeeps
  <2> QED
    BY <1>1, <2>3 DEF Recorded
<1>5. \A p \in ready' : call'[p].op # "none"
  BY <1>1, WokenTypes DEF CallsOK
<1> QED
  BY <1>3, <1>4, <1>5 DEF CallInv, PortOK

LEMMA CountsWoken ==
  ASSUME TypeInv, NEW n \in Ports, Elsewhere(n),
         NEW c, NEW r, NEW op, NEW s, NEW S, Wakes(n, c, r, op, s, S),
         \A o \in Ports : o # n /\ porttab[o].state = "alloc" => CountsOK(o, c, r, 0, 0),
         porttab'[n].state = "alloc" => CountsOK(n, call, ready, 0, 0)'
  PROVE  CountInv'
<1>1. ASSUME NEW o \in Ports, o # n, porttab'[o].state = "alloc" PROVE CountsOK(o, call, ready, 0, 0)'
  <2>1. porttab[o].state = "alloc"
    BY <1>1 DEF Elsewhere
  <2>2. CountsOK(o, c, r, 0, 0)
    BY <1>1, <2>1
  <2>3. \A a, b : CountsOK(o, c, r, a, b) => CountsOK(o, call, ready, a, b)'
    BY <1>1, OthersWoken DEF Wakes
  <2> QED
    BY <2>2, <2>3
<1> QED
  BY <1>1 DEF CountInv

\* _ptclear goes on where it was.
LEMMA ClearSame ==
  ASSUME ClearInv, NEW n \in Ports, porttab[n].state # "limbo", porttab'[n].state # "limbo", Elsewhere(n), clear' = clear
  PROVE  ClearInv'
<1>1. ASSUME clear.step # "none" PROVE clear.port \in Ports /\ clear.port # n /\ porttab'[clear.port] = porttab[clear.port]
  BY <1>1 DEF ClearInv, Elsewhere
<1>2. \A o \in Ports : porttab'[o].state = "limbo" <=> porttab[o].state = "limbo"
  BY DEF Elsewhere
<1>3. \A o \in Ports : porttab'[o].state = "limbo" <=> clear.step # "none" /\ clear.port = o
  BY <1>2 DEF ClearInv
<1>4. clear.step = "dispose" => clear.walk <= Len(porttab'[clear.port].queue)
  BY <1>1 DEF ClearInv
<1>5. clear.step = "receivers" /\ clear.to = "alloc" =>
       porttab'[clear.port].queue = <<>> /\ porttab'[clear.port].ssem = Sem(porttab'[clear.port].maxcnt)
  BY <1>1 DEF ClearInv
<1> QED
  BY <1>1, <1>3, <1>4, <1>5 DEF ClearInv

LEMMA WaitSame ==
  ASSUME NEW s, NEW op, NEW n, NEW t, NEW v, NEW c, NEW r, WaitOK(s, op, n, t, c, r), v.state = "alloc" => t.state = "alloc" /\ v.seq = t.seq
  PROVE  WaitOK(s, op, n, v, c, r)
BY DEF WaitOK

LEMMA NobodyWaits ==
  ASSUME NEW s, All(s) = {}, NEW op, NEW n, NEW t, NEW c, NEW r
  PROVE  WaitOK(s, op, n, t, c, r)
BY DEF WaitOK

PortsInv == TypeInv /\ ClearInv /\ CallInv /\ CountInv /\ DataInv

\* One entry of porttab changes.
LEMMA OneChanges ==
  ASSUME TypeInv, NEW n \in Ports, NEW v \in PortEntry, porttab' = [porttab EXCEPT ![n] = v]
  PROVE  porttab' \in [Ports -> PortEntry] /\ porttab'[n] = v /\ Elsewhere(n)
BY DEF TypeInv, Elsewhere

LEMMA SemEntry ==
  ASSUME NEW t \in PortEntry
  PROVE  t.ssem \in PortSem /\ t.rsem \in PortSem
BY DEF PortEntry

\* Entry t with another semaphore, and with another queue as well.
WithSsem(t, y) == [t EXCEPT !.ssem = y]
WithRsem(t, y) == [t EXCEPT !.rsem = y]
WithPut(t, y, z) == [t EXCEPT !.queue = y, !.rsem = z]
WithGet(t, y, z) == [t EXCEPT !.queue = y, !.ssem = z]

LEMMA SsemEntry ==
  ASSUME NEW t \in PortEntry, NEW y \in PortSem
  PROVE  /\ WithSsem(t, y) \in PortEntry
         /\ WithSsem(t, y).ssem = y /\ WithSsem(t, y).rsem = t.rsem /\ WithSsem(t, y).queue = t.queue
         /\ WithSsem(t, y).state = t.state /\ WithSsem(t, y).maxcnt = t.maxcnt /\ WithSsem(t, y).seq = t.seq
BY DEF PortEntry, WithSsem

LEMMA RsemEntry ==
  ASSUME NEW t \in PortEntry, NEW y \in PortSem
  PROVE  /\ WithRsem(t, y) \in PortEntry
         /\ WithRsem(t, y).ssem = t.ssem /\ WithRsem(t, y).rsem = y /\ WithRsem(t, y).queue = t.queue
         /\ WithRsem(t, y).state = t.state /\ WithRsem(t, y).maxcnt = t.maxcnt /\ WithRsem(t, y).seq = t.seq
BY DEF PortEntry, WithRsem

LEMMA PutEntry ==
  ASSUME NEW t \in PortEntry, NEW y \in Seq(Nat), NEW z \in PortSem
  PROVE  /\ WithPut(t, y, z) \in PortEntry
         /\ WithPut(t, y, z).ssem = t.ssem /\ WithPut(t, y, z).rsem = z /\ WithPut(t, y, z).queue = y
         /\ WithPut(t, y, z).state = t.state /\ WithPut(t, y, z).maxcnt = t.maxcnt /\ WithPut(t, y, z).seq = t.seq
BY DEF PortEntry, WithPut

LEMMA GetEntry ==
  ASSUME NEW t \in PortEntry, NEW y \in Seq(Nat), NEW z \in PortSem
  PROVE  /\ WithGet(t, y, z) \in PortEntry
         /\ WithGet(t, y, z).ssem = z /\ WithGet(t, y, z).rsem = t.rsem /\ WithGet(t, y, z).queue = y
         /\ WithGet(t, y, z).state = t.state /\ WithGet(t, y, z).maxcnt = t.maxcnt /\ WithGet(t, y, z).seq = t.seq
BY DEF PortEntry, WithGet

\* A message is put into port n, whose ssem is s, and whoever waits for it first is woken.
LEMMA PutKeeps ==
  ASSUME TypeInv, ClearInv, DataInv, NEW n \in Ports, porttab[n].state = "alloc",
         NEW c, NEW r, NEW u, NEW t, t = [porttab[n] EXCEPT !.ssem = u],
         SemOK(u), WaitOK(u, "send", n, porttab[n], c, r),
         Wakes(n, c, r, "recv", porttab[n].rsem, First(porttab[n].rsem)), Put(n, t),
         \A o \in Ports : o # n /\ porttab[o].state = "alloc" => CountsOK(o, c, r, 0, 0),
         Len(porttab[n].queue) = Counted(porttab[n].rsem, "recv", n, porttab[n].seq, c, r),
         porttab[n].maxcnt = Counted(u, "send", n, porttab[n].seq, c, r) + Len(porttab[n].queue) + 1,
         UNCHANGED <<ptnextid, clear, disposed>>
  PROVE  PortsInv'
<1> DEFINE w == porttab[n].rsem
           q == porttab[n].queue
           v == [t EXCEPT !.queue = Append(@, Len(msgs) + 1), !.rsem = Signals(@)]
           L == Len(msgs)
<1>1. porttab[n] \in PortEntry /\ q \in Seq(Nat) /\ Len(q) \in Nat /\ porttab[n].seq \in Nat /\ porttab[n].maxcnt \in Nat
  BY PortIs
<1>2. SemOK(w) /\ WaitOK(w, "recv", n, porttab[n], c, r) /\ First(w) \subseteq All(w) /\ SemOK(Signals(w))
      /\ call' = c /\ ready' = r \cup First(w) /\ IsFiniteSet(r) /\ r \subseteq Procs /\ CallsOK(c, r)
  BY SignalsIs DEF Wakes, CallsOK
<1>3. u \in PortSem /\ w \in PortSem /\ Signals(w) \in PortSem /\ L \in Nat /\ L + 1 \in Nat
  BY <1>2, SemTypes, ListsAre
<1> DEFINE q1 == Append(q, L + 1)
<1>6. q1 \in Seq(Nat) /\ Len(q1) = Len(q) + 1
  BY <1>1, <1>3
<1>4. /\ t \in PortEntry /\ t.ssem = u /\ t.rsem = w /\ t.queue = q
      /\ t.state = "alloc" /\ t.maxcnt = porttab[n].maxcnt /\ t.seq = porttab[n].seq
  <2> HIDE DEF w, q
  <2>1. t = WithSsem(porttab[n], u)
    BY DEF WithSsem
  <2> DEFINE e == porttab[n]
  <2>2. /\ e \in PortEntry /\ u \in PortSem /\ t = WithSsem(e, u) /\ e.rsem = w /\ e.queue = q
        /\ e.state = "alloc" /\ e.maxcnt = porttab[n].maxcnt /\ e.seq = porttab[n].seq
    BY <1>1, <1>3, <2>1 DEF w, q
  <2> HIDE DEF e
  <2>3. /\ WithSsem(e, u) \in PortEntry /\ WithSsem(e, u).ssem = u /\ WithSsem(e, u).rsem = e.rsem /\ WithSsem(e, u).queue = e.queue
        /\ WithSsem(e, u).state = e.state /\ WithSsem(e, u).maxcnt = e.maxcnt /\ WithSsem(e, u).seq = e.seq
    BY ONLY <2>2, SsemEntry
  <2> QED
    BY ONLY <2>2, <2>3
<1>5. v = [t EXCEPT !.queue = q1, !.rsem = Signals(w)]
  BY <1>4
<1>17. /\ v \in PortEntry
       /\ v.state = "alloc" /\ v.ssem = u /\ v.rsem = Signals(w) /\ v.queue = q1
       /\ v.maxcnt = porttab[n].maxcnt /\ v.seq = porttab[n].seq
  <2> DEFINE z == Signals(w)
  <2> HIDE DEF v, q1, z, q, w, L
  <2>1. z \in PortSem /\ v = WithPut(t, q1, z)
    BY <1>3, <1>5 DEF z, WithPut
  <2>2. v \in PortEntry /\ v.ssem = t.ssem /\ v.rsem = z /\ v.queue = q1 /\ v.state = t.state /\ v.maxcnt = t.maxcnt /\ v.seq = t.seq
    BY ONLY <1>4, <1>6, <2>1, PutEntry
  <2> QED
    BY <1>4, <2>2 DEF z
<1>8. /\ ptfree > 0 /\ ptfree' = ptfree - 1 /\ msgs' = Append(msgs, [port |-> n, seq |-> porttab[n].seq])
      /\ porttab' = [porttab EXCEPT ![n] = v] /\ received' = received
      /\ clear' = clear /\ ptnextid' = ptnextid /\ disposed' = disposed
  BY <1>4 DEF Put
<1> HIDE DEF v, q1
<1>9. porttab' \in [Ports -> PortEntry] /\ porttab'[n] = v /\ Elsewhere(n)
  BY <1>17, <1>8, OneChanges
<1>10. TypeInv'
  <2>1. msgs \in Seq([port : Ports, seq : Nat]) /\ ptfree \in Nat
    BY DEF TypeInv
  <2>2. [port |-> n, seq |-> porttab[n].seq] \in [port : Ports, seq : Nat]
    BY <1>1
  <2>3. msgs' \in Seq([port : Ports, seq : Nat]) /\ ptfree' \in Nat
    BY <1>8, <2>1, <2>2
  <2>4. call' \in [Procs -> Call] /\ ready' \subseteq Procs /\ IsFiniteSet(ready')
    BY WokenTypes
  <2> QED
    BY <1>8, <1>9, <2>3, <2>4 DEF TypeInv
<1>11. ClearInv'
  BY <1>17, <1>8, <1>9, ClearSame
<1>12. DataInv'
  <2>1. Becomes(n, Append(porttab[n].queue, Len(msgs) + 1), "alloc", porttab[n].seq)
    BY <1>17, <1>9 DEF Becomes, Elsewhere, q1
  <2> QED
    BY <1>8, <1>10, <2>1, DataPut
<1>13. PortOK(n)'
  <2>1. WaitOK(u, "send", n, porttab[n], c, ready') /\ WaitOK(Signals(w), "recv", n, porttab[n], c, ready')
    <3>1. WaitOK(Signals(w), "recv", n, porttab[n], c, r \cup First(w))
      BY <1>2, WaitsWoken
    <3> DEFINE F == First(w)
               y == porttab[n]
    <3>2. /\ WaitOK(w, "recv", n, y, c, r) /\ F \subseteq All(w) /\ "send" # "recv" /\ ready' = r \cup F
          /\ WaitOK(u, "send", n, y, c, r)
      BY <1>2
    <3>3. WaitOK(u, "send", n, y, c, r \cup F)
      <4> HIDE DEF F, w, y
      <4> QED
        BY <3>2, WaitsElse
    <3> QED
      BY <1>2, <3>1, <3>3
  <2>2. WaitOK(u, "send", n, v, c, ready') /\ WaitOK(Signals(w), "recv", n, v, c, ready')
    BY <1>17, <2>1, WaitSame
  <2> QED
    BY <1>2, <1>17, <1>9, <2>2 DEF PortOK
<1>14. CountsOK(n, call, ready, 0, 0)'
  <2>1. Counted(Signals(w), "recv", n, porttab[n].seq, c, ready') = Counted(w, "recv", n, porttab[n].seq, c, r) + 1
    <3> DEFINE y == porttab[n]
               e == "recv"
    <3>1. OpenWait(w, e, n, y, c, r)
      BY <1>2 DEF OpenWait
    <3> HIDE DEF w, y, e
    <3>2. Counted(Signals(w), e, n, y.seq, c, r \cup First(w)) = Counted(w, e, n, y.seq, c, r) + 1
      BY ONLY <3>1, SignalCounts
    <3> QED
      BY <1>2, <3>2 DEF y, e
  <2>2. Counted(u, "send", n, porttab[n].seq, c, ready') = Counted(u, "send", n, porttab[n].seq, c, r)
    <3> DEFINE F == First(w)
               k == porttab[n].seq
    <3>1. SemOK(w) /\ WaitOK(w, "recv", n, porttab[n], c, r) /\ F \subseteq All(w) /\ "send" # "recv" /\ ready' = r \cup F
      BY <1>2
    <3> DEFINE y == porttab[n]
               e == "send"
               f == "recv"
    <3>4. SemOK(w) /\ WaitOK(w, f, n, y, c, r) /\ F \subseteq All(w) /\ e # f
      BY <3>1
    <3> HIDE DEF F, w, k, y, e, f
    <3>2. Counted(u, e, n, k, c, r \cup F) = Counted(u, e, n, k, c, r)
      BY ONLY <3>4, AnySignalCounts
    <3> QED
      BY <3>1, <3>2 DEF k, e
  <2> DEFINE a == Counted(w, "recv", n, porttab[n].seq, c, r)
             b == Counted(u, "send", n, porttab[n].seq, c, r)
             m == Len(q)
             x == porttab[n].maxcnt
  <2>3. a \in Int /\ b \in Int
    BY <1>2, CountedIs
  <2>4. m = a /\ x = b + m + 1 /\ Len(q1) = m + 1 /\ m \in Nat
    BY <1>1, <1>6
  <2>5. /\ porttab'[n].rsem = Signals(w) /\ porttab'[n].ssem = u /\ porttab'[n].seq = porttab[n].seq
        /\ porttab'[n].maxcnt = x /\ porttab'[n].queue = q1 /\ call' = c
    BY <1>2, <1>17, <1>9 DEF q1
  <2>6. Counted(Signals(w), "recv", n, porttab[n].seq, c, ready') = a + 1 /\ Counted(u, "send", n, porttab[n].seq, c, ready') = b
    BY <2>1, <2>2
  <2> HIDE DEF a, b, m, x, q1, w
  <2>7. Len(q1) = (a + 1) + 0 /\ x = b + Len(q1) + 0
    BY <2>3, <2>4
  <2> QED
    BY <2>5, <2>6, <2>7 DEF CountsOK
<1>15. CountInv'
  BY <1>9, <1>14, CountsWoken
<1>16. CallInv'
  <2>1. Onward(n)
    BY <1>1, <1>9, <1>17 DEF Onward
  <2> QED
    BY <1>10, <1>13, <2>1, CallsWoken
<1> QED
  BY <1>10, <1>11, <1>12, <1>15, <1>16 DEF PortsInv

\* The first message of port n, whose rsem is u, is taken, and whoever waits for room first is woken.
LEMMA GetKeeps ==
  ASSUME TypeInv, ClearInv, DataInv, NEW n \in Ports, porttab[n].state = "alloc",
         NEW c, NEW r, NEW u, NEW t, t = [porttab[n] EXCEPT !.rsem = u],
         SemOK(u), WaitOK(u, "recv", n, porttab[n], c, r),
         Wakes(n, c, r, "send", porttab[n].ssem, First(porttab[n].ssem)), Get(n, t, porttab[n].seq),
         \A o \in Ports : o # n /\ porttab[o].state = "alloc" => CountsOK(o, c, r, 0, 0),
         Len(porttab[n].queue) = Counted(u, "recv", n, porttab[n].seq, c, r) + 1,
         porttab[n].maxcnt = Counted(porttab[n].ssem, "send", n, porttab[n].seq, c, r) + Len(porttab[n].queue),
         UNCHANGED <<ptnextid, clear, disposed>>
  PROVE  PortsInv'
<1> DEFINE w == porttab[n].ssem
           q == porttab[n].queue
           v == [t EXCEPT !.queue = IF @ = <<>> THEN @ ELSE Tail(@), !.ssem = Signals(@)]
<1>1. porttab[n] \in PortEntry /\ q \in Seq(Nat) /\ Len(q) \in Nat /\ porttab[n].seq \in Nat /\ porttab[n].maxcnt \in Nat
  BY PortIs
<1>2. SemOK(w) /\ WaitOK(w, "send", n, porttab[n], c, r) /\ First(w) \subseteq All(w) /\ SemOK(Signals(w))
      /\ call' = c /\ ready' = r \cup First(w) /\ IsFiniteSet(r) /\ r \subseteq Procs /\ CallsOK(c, r)
  BY SignalsIs DEF Wakes, CallsOK
<1>3. u \in PortSem /\ w \in PortSem /\ Signals(w) \in PortSem /\ u.sem \in Int /\ Len(u.q) \in Nat
  BY <1>2, SemTypes
<1>7. Len(q) > 0
  <2> DEFINE a == u.sem
             b == Len(u.q)
             k == Cardinality(LetIn("recv", n, porttab[n].seq, c, r))
  <2>1. k \in Nat
    BY <1>2, LetFinite
  <2>2. b = IF a < 0 THEN 0 - a ELSE 0
    BY DEF SemOK
  <2>3. Len(q) = a + b + k + 1
    BY DEF Counted
  <2>4. a \in Int /\ b \in Nat
    BY <1>3
  <2> HIDE DEF a, b, k, q
  <2> QED
    BY <2>1, <2>2, <2>3, <2>4
<1> DEFINE q1 == Tail(q)
<1>6. /\ q # <<>> /\ q1 \in Seq(Nat) /\ Len(q1) = Len(q) - 1 /\ Head(q) = q[1] /\ q[1] \in Nat
      /\ \A i \in 1..Len(q1) : q1[i] = q[i+1]
  <2> HIDE DEF q
  <2> QED
    BY <1>1, <1>7
<1>4. /\ t \in PortEntry /\ t.rsem = u /\ t.ssem = w /\ t.queue = q
      /\ t.state = "alloc" /\ t.maxcnt = porttab[n].maxcnt /\ t.seq = porttab[n].seq
  <2> HIDE DEF w, q
  <2>1. t = WithRsem(porttab[n], u)
    BY DEF WithRsem
  <2> DEFINE e == porttab[n]
  <2>2. /\ e \in PortEntry /\ u \in PortSem /\ t = WithRsem(e, u) /\ e.ssem = w /\ e.queue = q
        /\ e.state = "alloc" /\ e.maxcnt = porttab[n].maxcnt /\ e.seq = porttab[n].seq
    BY <1>1, <1>3, <2>1 DEF w, q
  <2> HIDE DEF e
  <2>3. /\ WithRsem(e, u) \in PortEntry /\ WithRsem(e, u).rsem = u /\ WithRsem(e, u).ssem = e.ssem /\ WithRsem(e, u).queue = e.queue
        /\ WithRsem(e, u).state = e.state /\ WithRsem(e, u).maxcnt = e.maxcnt /\ WithRsem(e, u).seq = e.seq
    BY ONLY <2>2, RsemEntry
  <2> QED
    BY ONLY <2>2, <2>3
<1>5. v = [t EXCEPT !.queue = q1, !.ssem = Signals(w)]
  BY <1>4, <1>6
<1>17. /\ v \in PortEntry
       /\ v.state = "alloc" /\ v.rsem = u /\ v.ssem = Signals(w) /\ v.queue = q1
       /\ v.maxcnt = porttab[n].maxcnt /\ v.seq = porttab[n].seq
  <2> DEFINE z == Signals(w)
  <2> HIDE DEF v, q1, z, q, w
  <2>1. z \in PortSem /\ v = WithGet(t, q1, z)
    BY <1>3, <1>5 DEF z, WithGet
  <2>2. v \in PortEntry /\ v.rsem = t.rsem /\ v.ssem = z /\ v.queue = q1 /\ v.state = t.state /\ v.maxcnt = t.maxcnt /\ v.seq = t.seq
    BY ONLY <1>4, <1>6, <2>1, GetEntry
  <2> QED
    BY <1>4, <2>2 DEF z
<1>8. /\ ptfree' = ptfree + 1 /\ received' = Append(received, [msg |-> q[1], seq |-> porttab[n].seq])
      /\ porttab' = [porttab EXCEPT ![n] = v] /\ msgs' = msgs
      /\ clear' = clear /\ ptnextid' = ptnextid /\ disposed' = disposed
  BY <1>4, <1>6 DEF Get
<1> HIDE DEF v, q1
<1>9. porttab' \in [Ports -> PortEntry] /\ porttab'[n] = v /\ Elsewhere(n)
  BY <1>17, <1>8, OneChanges
<1>10. TypeInv'
  <2>1. received \in Seq([msg : Nat, seq : Nat]) /\ ptfree \in Nat
    BY DEF TypeInv
  <2>2. [msg |-> q[1], seq |-> porttab[n].seq] \in [msg : Nat, seq : Nat]
    BY <1>1, <1>6
  <2>3. received' \in Seq([msg : Nat, seq : Nat]) /\ ptfree' \in Nat
    BY <1>8, <2>1, <2>2
  <2>4. call' \in [Procs -> Call] /\ ready' \subseteq Procs /\ IsFiniteSet(ready')
    BY WokenTypes
  <2> QED
    BY <1>8, <1>9, <2>3, <2>4 DEF TypeInv
<1>11. ClearInv'
  BY <1>17, <1>8, <1>9, ClearSame
<1>12. DataInv'
  <2>1. porttab'[n].queue = q1 /\ porttab'[n].state = "alloc" /\ porttab'[n].seq = porttab[n].seq
    BY <1>17, <1>9
  <2>2. 1 \in 0..Len(porttab[n].queue) /\ porttab'[n].seq >= porttab[n].seq
    BY <1>1, <1>7, <2>1
  <2>3. Shrinks(n, 1)
    BY <1>6, <1>9, <2>1, <2>2 DEF Shrinks, Elsewhere
  <2> QED
    BY <1>8, <1>10, <2>1, <2>3, DataGet
<1>13. PortOK(n)'
  <2>1. WaitOK(u, "recv", n, porttab[n], c, ready') /\ WaitOK(Signals(w), "send", n, porttab[n], c, ready')
    <3>1. WaitOK(Signals(w), "send", n, porttab[n], c, r \cup First(w))
      BY <1>2, WaitsWoken
    <3> DEFINE F == First(w)
               y == porttab[n]
    <3>2. /\ WaitOK(w, "send", n, y, c, r) /\ F \subseteq All(w) /\ "recv" # "send" /\ ready' = r \cup F
          /\ WaitOK(u, "recv", n, y, c, r)
      BY <1>2
    <3>3. WaitOK(u, "recv", n, y, c, r \cup F)
      <4> HIDE DEF F, w, y
      <4> QED
        BY <3>2, WaitsElse
    <3> QED
      BY <1>2, <3>1, <3>3
  <2>2. WaitOK(u, "recv", n, v, c, ready') /\ WaitOK(Signals(w), "send", n, v, c, ready')
    BY <1>17, <2>1, WaitSame
  <2> QED
    BY <1>2, <1>17, <1>9, <2>2 DEF PortOK
<1>14. CountsOK(n, call, ready, 0, 0)'
  <2>1. Counted(Signals(w), "send", n, porttab[n].seq, c, ready') = Counted(w, "send", n, porttab[n].seq, c, r) + 1
    <3> DEFINE y == porttab[n]
               e == "send"
    <3>1. OpenWait(w, e, n, y, c, r)
      BY <1>2 DEF OpenWait
    <3> HIDE DEF w, y, e
    <3>2. Counted(Signals(w), e, n, y.seq, c, r \cup First(w)) = Counted(w, e, n, y.seq, c, r) + 1
      BY ONLY <3>1, SignalCounts
    <3> QED
      BY <1>2, <3>2 DEF y, e
  <2>2. Counted(u, "recv", n, porttab[n].seq, c, ready') = Counted(u, "recv", n, porttab[n].seq, c, r)
    <3> DEFINE F == First(w)
               k == porttab[n].seq
    <3>1. SemOK(w) /\ WaitOK(w, "send", n, porttab[n], c, r) /\ F \subseteq All(w) /\ "recv" # "send" /\ ready' = r \cup F
      BY <1>2
    <3> DEFINE y == porttab[n]
               e == "recv"
               f == "send"
    <3>4. SemOK(w) /\ WaitOK(w, f, n, y, c, r) /\ F \subseteq All(w) /\ e # f
      BY <3>1
    <3> HIDE DEF F, w, k, y, e, f
    <3>2. Counted(u, e, n, k, c, r \cup F) = Counted(u, e, n, k, c, r)
      BY ONLY <3>4, AnySignalCounts
    <3> QED
      BY <3>1, <3>2 DEF k, e
  <2> DEFINE a == Counted(w, "send", n, porttab[n].seq, c, r)
             b == Counted(u, "recv", n, porttab[n].seq, c, r)
             m == Len(q)
             x == porttab[n].maxcnt
  <2>3. a \in Int /\ b \in Int
    BY <1>2, CountedIs
  <2>4. m = b + 1 /\ x = a + m /\ Len(q1) = m - 1 /\ m \in Nat
    BY <1>1, <1>6
  <2>5. /\ porttab'[n].ssem = Signals(w) /\ porttab'[n].rsem = u /\ porttab'[n].seq = porttab[n].seq
        /\ porttab'[n].maxcnt = x /\ porttab'[n].queue = q1 /\ call' = c
    BY <1>2, <1>17, <1>9 DEF q1
  <2>6. Counted(Signals(w), "send", n, porttab[n].seq, c, ready') = a + 1 /\ Counted(u, "recv", n, porttab[n].seq, c, ready') = b
    BY <2>1, <2>2
  <2> HIDE DEF a, b, m, x, q1, w
  <2>7. Len(q1) = b + 0 /\ x = (a + 1) + Len(q1) + 0
    BY <2>3, <2>4
  <2> QED
    BY <2>5, <2>6, <2>7 DEF CountsOK
<1>15. CountInv'
  BY <1>9, <1>14, CountsWoken
<1>16. CallInv'
  <2>1. Onward(n)
    BY <1>1, <1>9, <1>17 DEF Onward
  <2> QED
    BY <1>10, <1>13, <2>1, CallsWoken
<1> QED
  BY <1>10, <1>11, <1>12, <1>15, <1>16 DEF PortsInv

LEMMA OnItsWayIs ==
  ASSUME NEW p, NEW n
  PROVE  /\ call[p].port # n \/ call[p].seq # porttab[n].seq => OnItsWay("recv", n, p) = 0 /\ OnItsWay("send", n, p) = 0
         /\ call[p].op = "send" /\ call[p].port = n /\ call[p].seq = porttab[n].seq =>
              OnItsWay("recv", n, p) = 0 /\ OnItsWay("send", n, p) = 1
         /\ call[p].op = "recv" /\ call[p].port = n /\ call[p].seq = porttab[n].seq =>
              OnItsWay("recv", n, p) = 1 /\ OnItsWay("send", n, p) = 0
BY DEF OnItsWay

\* A semaphore of an allocated port that has been signalled or waited for in passing.
LEMMA LessEntry ==
  ASSUME NEW t \in PortEntry
  PROVE  /\ [t EXCEPT !.ssem.sem = @ - 1] = [t EXCEPT !.ssem = [t.ssem EXCEPT !.sem = @ - 1]]
         /\ [t EXCEPT !.rsem.sem = @ - 1] = [t EXCEPT !.rsem = [t.rsem EXCEPT !.sem = @ - 1]]
         /\ t = [t EXCEPT !.ssem = t.ssem] /\ t = [t EXCEPT !.rsem = t.rsem]
BY DEF PortEntry

LEMMA LessCounts ==
  ASSUME NEW s, SemOK(s), s.sem > 0, NEW op, NEW n, NEW seq, NEW c, NEW r, IsFiniteSet(r)
  PROVE  Counted([s EXCEPT !.sem = @ - 1], op, n, seq, c, r) = Counted(s, op, n, seq, c, r) - 1
<1> DEFINE v == [s EXCEPT !.sem = @ - 1]
           k == Cardinality(LetIn(op, n, seq, c, r))
           a == s.sem
           b == Len(s.q)
<1>1. k \in Nat /\ a \in Int /\ b \in Nat
  BY LetFinite, SemTypes
<1>2. v.sem = a - 1 /\ v.q = s.q
  BY SemTypes DEF PortSem
<1>3. Counted(v, op, n, seq, c, r) = (a - 1) + b + k /\ Counted(s, op, n, seq, c, r) = a + b + k
  BY <1>2 DEF Counted
<1> HIDE DEF v, k, a, b
<1>4. Counted(v, op, n, seq, c, r) = Counted(s, op, n, seq, c, r) - 1
  BY <1>1, <1>3
<1> QED
  BY <1>4 DEF v

\* What a step finds: the semaphores of every port and those who wait there.
LEMMA PortIsOK ==
  ASSUME TypeInv, CallInv, NEW n \in Ports
  PROVE  /\ CallsOK(call, ready) /\ IsFiniteSet(ready) /\ SemOK(porttab[n].ssem) /\ SemOK(porttab[n].rsem)
         /\ WaitOK(porttab[n].ssem, "send", n, porttab[n], call, ready)
         /\ WaitOK(porttab[n].rsem, "recv", n, porttab[n], call, ready)
BY CallsAre DEF CallInv, TypeInv

LEMMA SendNow ==
  ASSUME PortsInv, NEW p \in Procs, NEW n \in Ports, Ptsend(p, n), porttab[n].ssem.sem > 0
  PROVE  PortsInv'
<1> DEFINE s == porttab[n].ssem
           u == [s EXCEPT !.sem = @ - 1]
           t == [porttab[n] EXCEPT !.ssem = u]
           k == porttab[n].seq
<1>1. TypeInv /\ ClearInv /\ CallInv /\ CountInv /\ DataInv
  BY DEF PortsInv
<1>2. porttab[n] \in PortEntry /\ k \in Nat /\ Len(porttab[n].queue) \in Nat /\ porttab[n].maxcnt \in Nat
  BY <1>1, PortIs
<1>3. /\ CallsOK(call, ready) /\ IsFiniteSet(ready) /\ SemOK(s) /\ SemOK(porttab[n].rsem)
      /\ WaitOK(porttab[n].rsem, "recv", n, porttab[n], call, ready)
  BY <1>1, PortIsOK
<1>4. /\ porttab[n].state = "alloc" /\ Put(n, t) /\ ready' = ready \cup First(porttab[n].rsem) /\ call' = call
      /\ UNCHANGED <<ptnextid, clear, disposed>>
  BY <1>2, LessEntry DEF Ptsend
<1>5. SemOK(u) /\ All(u) = {}
  BY <1>3, LessIs
<1>6. Wakes(n, call, ready, "recv", porttab[n].rsem, First(porttab[n].rsem))
  BY <1>3, <1>4, SignalsIs DEF Wakes
<1>7. \A o \in Ports : porttab[o].state = "alloc" => CountsOK(o, call, ready, 0, 0)
  BY <1>1 DEF CountInv
<1>8. Counted(u, "send", n, k, call, ready) = Counted(s, "send", n, k, call, ready) - 1
  BY <1>3, LessCounts
<1>9. /\ Len(porttab[n].queue) = Counted(porttab[n].rsem, "recv", n, k, call, ready) + 0
      /\ porttab[n].maxcnt = Counted(s, "send", n, k, call, ready) + Len(porttab[n].queue) + 0
  BY <1>4, <1>7 DEF CountsOK
<1>10. /\ Counted(porttab[n].rsem, "recv", n, k, call, ready) \in Int /\ Counted(s, "send", n, k, call, ready) \in Int
  BY <1>3, CountedIs
<1> DEFINE m == Len(porttab[n].queue)
           x == porttab[n].maxcnt
           a == Counted(porttab[n].rsem, "recv", n, k, call, ready)
           b == Counted(s, "send", n, k, call, ready)
           b1 == Counted(u, "send", n, k, call, ready)
<1>11. m = a /\ x = b1 + m + 1
  <2>1. m = a + 0 /\ x = b + m + 0 /\ b1 = b - 1 /\ a \in Int /\ b \in Int /\ m \in Nat
    BY <1>2, <1>8, <1>9, <1>10
  <2> HIDE DEF m, x, a, b, b1
  <2> QED
    BY <2>1
<1>12. WaitOK(u, "send", n, porttab[n], call, ready)
  BY <1>5, NobodyWaits
<1>13. t = [porttab[n] EXCEPT !.ssem = u]
  OBVIOUS
<1> HIDE DEF t, u
<1> QED
  BY <1>1, <1>4, <1>5, <1>6, <1>7, <1>11, <1>12, <1>13, PutKeeps

LEMMA RecvNow ==
  ASSUME PortsInv, NEW p \in Procs, NEW n \in Ports, Ptrecv(p, n), porttab[n].rsem.sem > 0
  PROVE  PortsInv'
<1> DEFINE s == porttab[n].rsem
           u == [s EXCEPT !.sem = @ - 1]
           t == [porttab[n] EXCEPT !.rsem = u]
           k == porttab[n].seq
<1>1. TypeInv /\ ClearInv /\ CallInv /\ CountInv /\ DataInv
  BY DEF PortsInv
<1>2. porttab[n] \in PortEntry /\ k \in Nat /\ Len(porttab[n].queue) \in Nat /\ porttab[n].maxcnt \in Nat
  BY <1>1, PortIs
<1>3. /\ CallsOK(call, ready) /\ IsFiniteSet(ready) /\ SemOK(s) /\ SemOK(porttab[n].ssem)
      /\ WaitOK(porttab[n].ssem, "send", n, porttab[n], call, ready)
  BY <1>1, PortIsOK
<1>4. /\ porttab[n].state = "alloc" /\ Get(n, t, k) /\ ready' = ready \cup First(porttab[n].ssem) /\ call' = call
      /\ UNCHANGED <<ptnextid, clear, disposed>>
  BY <1>2, LessEntry DEF Ptrecv
<1>5. SemOK(u) /\ All(u) = {}
  BY <1>3, LessIs
<1>6. Wakes(n, call, ready, "send", porttab[n].ssem, First(porttab[n].ssem))
  BY <1>3, <1>4, SignalsIs DEF Wakes
<1>7. \A o \in Ports : porttab[o].state = "alloc" => CountsOK(o, call, ready, 0, 0)
  BY <1>1 DEF CountInv
<1>8. Counted(u, "recv", n, k, call, ready) = Counted(s, "recv", n, k, call, ready) - 1
  BY <1>3, LessCounts
<1>9. /\ Len(porttab[n].queue) = Counted(s, "recv", n, k, call, ready) + 0
      /\ porttab[n].maxcnt = Counted(porttab[n].ssem, "send", n, k, call, ready) + Len(porttab[n].queue) + 0
  BY <1>4, <1>7 DEF CountsOK
<1>10. /\ Counted(porttab[n].ssem, "send", n, k, call, ready) \in Int /\ Counted(s, "recv", n, k, call, ready) \in Int
  BY <1>3, CountedIs
<1> DEFINE m == Len(porttab[n].queue)
           x == porttab[n].maxcnt
           a == Counted(porttab[n].ssem, "send", n, k, call, ready)
           b == Counted(s, "recv", n, k, call, ready)
           b1 == Counted(u, "recv", n, k, call, ready)
<1>11. m = b1 + 1 /\ x = a + m
  <2>1. m = b + 0 /\ x = a + m + 0 /\ b1 = b - 1 /\ a \in Int /\ b \in Int /\ m \in Nat
    BY <1>2, <1>8, <1>9, <1>10
  <2> HIDE DEF m, x, a, b, b1
  <2> QED
    BY <2>1
<1>12. WaitOK(u, "recv", n, porttab[n], call, ready)
  BY <1>5, NobodyWaits
<1>13. t = [porttab[n] EXCEPT !.rsem = u]
  OBVIOUS
<1> HIDE DEF t, u
<1> QED
  BY <1>1, <1>4, <1>5, <1>6, <1>7, <1>11, <1>12, <1>13, GetKeeps
\* A process calls and will wait: what is counted and who waits as if it had not called.
Begins(p, n, x, d) ==
  /\ call[p].op = "none" /\ porttab[n].state = "alloc" /\ x \in Call /\ x.op \in {"send", "recv"}
  /\ x.port = n /\ x.seq = porttab[n].seq /\ d = [call EXCEPT ![p] = x]

LEMMA CallsBegin ==
  ASSUME TypeInv, CallInv, CountInv, NEW p \in Procs, NEW n \in Ports, NEW x, NEW d, Begins(p, n, x, d)
  PROVE  /\ CallsOK(d, ready) /\ p \notin ready
         /\ p \notin All(porttab[n].ssem) /\ p \notin All(porttab[n].rsem)
         /\ \A o \in Ports : porttab[o].state = "alloc" => CountsOK(o, d, ready, 0, 0)
<1>0. /\ call[p].op = "none" /\ porttab[n].state = "alloc" /\ x \in Call /\ x.op \in {"send", "recv"}
      /\ x.port = n /\ x.seq = porttab[n].seq /\ d = [call EXCEPT ![p] = x]
  BY DEF Begins
<1>1. call \in [Procs -> Call] /\ ready \subseteq Procs /\ IsFiniteSet(ready) /\ p \notin ready
  BY <1>0 DEF TypeInv, CallInv
<1>2. d \in [Procs -> Call] /\ d[p] = x /\ \A y \in Procs : y # p => d[y] = call[y]
  BY <1>0, <1>1
<1>3. ASSUME NEW o \in Ports
      PROVE  /\ SemOK(porttab[o].ssem) /\ WaitOK(porttab[o].ssem, "send", o, porttab[o], d, ready)
             /\ SemOK(porttab[o].rsem) /\ WaitOK(porttab[o].rsem, "recv", o, porttab[o], d, ready)
             /\ p \notin All(porttab[o].ssem) /\ p \notin All(porttab[o].rsem)
  <2>1. /\ SemOK(porttab[o].ssem) /\ SemOK(porttab[o].rsem)
        /\ WaitOK(porttab[o].ssem, "send", o, porttab[o], call, ready)
        /\ WaitOK(porttab[o].rsem, "recv", o, porttab[o], call, ready)
    BY PortIsOK
  <2>2. WaitOK(porttab[o].ssem, "send", o, porttab[o], d, ready) /\ p \notin All(porttab[o].ssem)
    <3>1. \A y \in All(porttab[o].ssem) : y \in Procs /\ y # p
      BY <1>0, <2>1, SemTypes DEF WaitOK
    <3> QED
      BY <1>2, <2>1, <3>1 DEF WaitOK
  <2>3. WaitOK(porttab[o].rsem, "recv", o, porttab[o], d, ready) /\ p \notin All(porttab[o].rsem)
    <3>1. \A y \in All(porttab[o].rsem) : y \in Procs /\ y # p
      BY <1>0, <2>1, SemTypes DEF WaitOK
    <3> QED
      BY <1>2, <2>1, <3>1 DEF WaitOK
  <2> QED
    BY <2>1, <2>2, <2>3
<1>4. ASSUME NEW y \in Procs, d[y].op # "none" PROVE Recorded(d[y])
  <2>1. CASE y = p
    BY <1>0, <1>2, <2>1, PortIs DEF Recorded
  <2>2. CASE y # p
    BY <1>2, <1>4, <2>2 DEF CallInv
  <2> QED
    BY <2>1, <2>2
<1>5. \A y \in ready : d[y].op # "none"
  BY <1>1, <1>2 DEF CallInv
<1>6. CallsOK(d, ready)
  BY <1>1, <1>2, <1>3, <1>4, <1>5 DEF CallsOK
<1>7. ASSUME NEW o \in Ports, porttab[o].state = "alloc" PROVE CountsOK(o, d, ready, 0, 0)
  <2>1. CountsOK(o, call, ready, 0, 0)
    BY <1>7 DEF CountInv
  <2>2. \A u, op, m, k : Counted(u, op, m, k, d, ready) = Counted(u, op, m, k, call, ready)
    <3>1. \A op, m, k : LetIn(op, m, k, d, ready) = LetIn(op, m, k, call, ready)
      BY <1>1, <1>2 DEF LetIn
    <3> QED
      BY <3>1 DEF Counted
  <2> QED
    BY <2>1, <2>2 DEF CountsOK
<1> QED
  BY <1>1, <1>3, <1>6, <1>7

LEMMA SendWait ==
  ASSUME PortsInv, NEW p \in Procs, NEW n \in Ports, Ptsend(p, n), ~(porttab[n].ssem.sem > 0)
  PROVE  PortsInv'
<1> DEFINE s == porttab[n].ssem
           u == Waits(s, p)
           k == porttab[n].seq
           x == [op |-> "send", port |-> n, seq |-> k]
           d == [call EXCEPT ![p] = x]
           e == porttab[n]
           v == [e EXCEPT !.ssem = u]
<1>1. TypeInv /\ ClearInv /\ CallInv /\ CountInv /\ DataInv
  BY DEF PortsInv
<1>2. porttab[n] \in PortEntry /\ k \in Nat /\ Len(porttab[n].queue) \in Nat /\ porttab[n].maxcnt \in Nat
  BY <1>1, PortIs
<1>3. call[p].op = "none" /\ porttab[n].state = "alloc" /\ porttab' = [porttab EXCEPT ![n].ssem = u]
      /\ call' = d /\ UNCHANGED <<ptfree, ready, msgs, received, ptnextid, clear, disposed>>
  BY DEF Ptsend
<1>4. x \in Call /\ x.op = "send" /\ x.port = n /\ x.seq = k
  BY <1>2 DEF Call
<1>5. /\ CallsOK(d, ready) /\ p \notin ready /\ p \notin All(s)
      /\ \A o \in Ports : porttab[o].state = "alloc" => CountsOK(o, d, ready, 0, 0)
  <2>1. Begins(p, n, x, d)
    BY <1>3, <1>4 DEF Begins
  <2> HIDE DEF x, d
  <2> QED
    BY <1>1, <2>1, CallsBegin
<1>6. SemOK(s) /\ s.sem \in Int
  BY <1>1, PortIsOK, SemTypes
<1>7. SemOK(u) /\ All(u) = All(s) \cup {p} /\ u.sem + Len(u.q) = s.sem + Len(s.q) /\ u \in PortSem
  <2>1. s.sem <= 0
    BY <1>6
  <2>2. SemOK(u) /\ All(u) = All(s) \cup {p} /\ u.sem + Len(u.q) = s.sem + Len(s.q)
    BY <1>5, <1>6, <2>1, WaitsIs
  <2> QED
    BY <2>2, SemTypes
<1>8. porttab' = [porttab EXCEPT ![n] = v]
  BY <1>3
<1>9. /\ v \in PortEntry /\ v.ssem = u /\ v.rsem = e.rsem /\ v.queue = e.queue /\ v.state = e.state
      /\ v.maxcnt = e.maxcnt /\ v.seq = e.seq
  <2>1. v = WithSsem(e, u) /\ e \in PortEntry /\ u \in PortSem
    BY <1>2, <1>7 DEF WithSsem
  <2> HIDE DEF v, e, u
  <2> QED
    BY <2>1, SsemEntry
<1> HIDE DEF v
<1>10. porttab' \in [Ports -> PortEntry] /\ porttab'[n] = v /\ Elsewhere(n)
  BY <1>1, <1>8, <1>9, OneChanges
<1>11. TypeInv'
  BY <1>1, <1>3, <1>5, <1>10 DEF TypeInv, CallsOK
<1>12. ClearInv'
  BY <1>1, <1>3, <1>9, <1>10, ClearSame
<1>13. DataInv'
  <2>1. Shrinks(n, 0)
    BY <1>2, <1>9, <1>10, PortIs, <1>1 DEF Shrinks, Elsewhere
  <2> QED
    BY <1>1, <1>3, <1>9, <1>10, <1>11, <2>1, DataSame
<1>14. /\ SemOK(e.rsem) /\ WaitOK(e.rsem, "recv", n, e, d, ready) /\ WaitOK(s, "send", n, e, d, ready)
  BY <1>5 DEF CallsOK
<1>15. WaitOK(u, "send", n, e, d, ready)
  <2>1. d[p] = x
    BY <1>1 DEF TypeInv
  <2> QED
    BY <1>4, <1>5, <1>7, <1>14, <2>1 DEF WaitOK
<1>16. PortOK(n)'
  <2>1. WaitOK(v.ssem, "send", n, v, d, ready) /\ WaitOK(v.rsem, "recv", n, v, d, ready)
    BY <1>9, <1>14, <1>15, WaitSame
  <2> QED
    BY <1>3, <1>7, <1>9, <1>10, <1>14, <2>1 DEF PortOK
<1>17. Wakes(n, d, ready, "recv", e.rsem, {})
  BY <1>3, <1>5, <1>14 DEF Wakes
<1>18. Onward(n)
  BY <1>2, <1>9, <1>10 DEF Onward
<1>19. CallInv'
  BY <1>1, <1>11, <1>16, <1>17, <1>18, CallsWoken
<1>20. CountsOK(n, call, ready, 0, 0)'
  <2>1. CountsOK(n, d, ready, 0, 0)
    BY <1>3, <1>5
  <2>2. Counted(u, "send", n, k, d, ready) = Counted(s, "send", n, k, d, ready)
    BY <1>7 DEF Counted
  <2> HIDE DEF u, s, d
  <2> QED
    BY <1>3, <1>9, <1>10, <2>1, <2>2 DEF CountsOK, u, s
<1>21. CountInv'
  BY <1>1, <1>5, <1>10, <1>17, <1>20, CountsWoken
<1> QED
  BY <1>11, <1>12, <1>13, <1>19, <1>21 DEF PortsInv

LEMMA RecvWait ==
  ASSUME PortsInv, NEW p \in Procs, NEW n \in Ports, Ptrecv(p, n), ~(porttab[n].rsem.sem > 0)
  PROVE  PortsInv'
<1> DEFINE s == porttab[n].rsem
           u == Waits(s, p)
           k == porttab[n].seq
           x == [op |-> "recv", port |-> n, seq |-> k]
           d == [call EXCEPT ![p] = x]
           e == porttab[n]
           v == [e EXCEPT !.rsem = u]
<1>1. TypeInv /\ ClearInv /\ CallInv /\ CountInv /\ DataInv
  BY DEF PortsInv
<1>2. porttab[n] \in PortEntry /\ k \in Nat /\ Len(porttab[n].queue) \in Nat /\ porttab[n].maxcnt \in Nat
  BY <1>1, PortIs
<1>3. call[p].op = "none" /\ porttab[n].state = "alloc" /\ porttab' = [porttab EXCEPT ![n].rsem = u]
      /\ call' = d /\ UNCHANGED <<ptfree, ready, msgs, received, ptnextid, clear, disposed>>
  BY DEF Ptrecv
<1>4. x \in Call /\ x.op = "recv" /\ x.port = n /\ x.seq = k
  BY <1>2 DEF Call
<1>5. /\ CallsOK(d, ready) /\ p \notin ready /\ p \notin All(s)
      /\ \A o \in Ports : porttab[o].state = "alloc" => CountsOK(o, d, ready, 0, 0)
  <2>1. Begins(p, n, x, d)
    BY <1>3, <1>4 DEF Begins
  <2> HIDE DEF x, d
  <2> QED
    BY <1>1, <2>1, CallsBegin
<1>6. SemOK(s) /\ s.sem \in Int
  BY <1>1, PortIsOK, SemTypes
<1>7. SemOK(u) /\ All(u) = All(s) \cup {p} /\ u.sem + Len(u.q) = s.sem + Len(s.q) /\ u \in PortSem
  <2>1. s.sem <= 0
    BY <1>6
  <2>2. SemOK(u) /\ All(u) = All(s) \cup {p} /\ u.sem + Len(u.q) = s.sem + Len(s.q)
    BY <1>5, <1>6, <2>1, WaitsIs
  <2> QED
    BY <2>2, SemTypes
<1>8. porttab' = [porttab EXCEPT ![n] = v]
  BY <1>3
<1>9. /\ v \in PortEntry /\ v.rsem = u /\ v.ssem = e.ssem /\ v.queue = e.queue /\ v.state = e.state
      /\ v.maxcnt = e.maxcnt /\ v.seq = e.seq
  <2>1. v = WithRsem(e, u) /\ e \in PortEntry /\ u \in PortSem
    BY <1>2, <1>7 DEF WithRsem
  <2> HIDE DEF v, e, u
  <2> QED
    BY <2>1, RsemEntry
<1> HIDE DEF v
<1>10. porttab' \in [Ports -> PortEntry] /\ porttab'[n] = v /\ Elsewhere(n)
  BY <1>1, <1>8, <1>9, OneChanges
<1>11. TypeInv'
  BY <1>1, <1>3, <1>5, <1>10 DEF TypeInv, CallsOK
<1>12. ClearInv'
  BY <1>1, <1>3, <1>9, <1>10, ClearSame
<1>13. DataInv'
  <2>1. Shrinks(n, 0)
    BY <1>2, <1>9, <1>10, PortIs, <1>1 DEF Shrinks, Elsewhere
  <2> QED
    BY <1>1, <1>3, <1>9, <1>10, <1>11, <2>1, DataSame
<1>14. /\ SemOK(e.ssem) /\ WaitOK(e.ssem, "send", n, e, d, ready) /\ WaitOK(s, "recv", n, e, d, ready)
  BY <1>5 DEF CallsOK
<1>15. WaitOK(u, "recv", n, e, d, ready)
  <2>1. d[p] = x
    BY <1>1 DEF TypeInv
  <2> QED
    BY <1>4, <1>5, <1>7, <1>14, <2>1 DEF WaitOK
<1>16. PortOK(n)'
  <2>1. WaitOK(v.rsem, "recv", n, v, d, ready) /\ WaitOK(v.ssem, "send", n, v, d, ready)
    BY <1>9, <1>14, <1>15, WaitSame
  <2> QED
    BY <1>3, <1>7, <1>9, <1>10, <1>14, <2>1 DEF PortOK
<1>17. Wakes(n, d, ready, "send", e.ssem, {})
  BY <1>3, <1>5, <1>14 DEF Wakes
<1>18. Onward(n)
  BY <1>2, <1>9, <1>10 DEF Onward
<1>19. CallInv'
  BY <1>1, <1>11, <1>16, <1>17, <1>18, CallsWoken
<1>20. CountsOK(n, call, ready, 0, 0)'
  <2>1. CountsOK(n, d, ready, 0, 0)
    BY <1>3, <1>5
  <2>2. Counted(u, "recv", n, k, d, ready) = Counted(s, "recv", n, k, d, ready)
    BY <1>7 DEF Counted
  <2> HIDE DEF u, s, d
  <2> QED
    BY <1>3, <1>9, <1>10, <2>1, <2>2 DEF CountsOK, u, s
<1>21. CountInv'
  BY <1>1, <1>5, <1>10, <1>17, <1>20, CountsWoken
<1> QED
  BY <1>11, <1>12, <1>13, <1>19, <1>21 DEF PortsInv
LEMMA CreateAt ==
  ASSUME PortsInv, NEW count \in Nat, NEW n \in Ports, porttab[n].state = "free", ptnextid' \in Ports,
         porttab' = [porttab EXCEPT ![n] = [state |-> "alloc", ssem |-> Sem(count), rsem |-> Sem(0), queue |-> <<>>,
                                             maxcnt |-> count, seq |-> porttab[n].seq + 1]],
         UNCHANGED <<ptfree, call, ready, clear, msgs, disposed, received>>
  PROVE  PortsInv'
<1> DEFINE v == [state |-> "alloc", ssem |-> Sem(count), rsem |-> Sem(0), queue |-> <<>>,
                 maxcnt |-> count, seq |-> porttab[n].seq + 1]
<1>1. TypeInv /\ ClearInv /\ CallInv /\ CountInv /\ DataInv
  BY DEF PortsInv
<1>4. porttab' = [porttab EXCEPT ![n] = v] /\ ptnextid' \in Ports
      /\ UNCHANGED <<ptfree, call, ready, clear, msgs, disposed, received>>
  OBVIOUS
<1>5. porttab[n] \in PortEntry /\ porttab[n].seq \in Nat
  BY <1>1, PortIs
<1>6. Sem(count) \in PortSem /\ Sem(0) \in PortSem
  BY SemIs, SemTypes
<1>7. v \in PortEntry
  BY <1>5, <1>6 DEF PortEntry
<1>8. /\ v.state = "alloc" /\ v.ssem = Sem(count) /\ v.rsem = Sem(0) /\ v.queue = <<>> /\ v.maxcnt = count
      /\ v.seq = porttab[n].seq + 1
  OBVIOUS
<1> HIDE DEF v
<1>9. porttab' \in [Ports -> PortEntry] /\ porttab'[n] = v /\ Elsewhere(n)
  BY <1>1, <1>4, <1>7, OneChanges
<1>10. TypeInv'
  BY <1>1, <1>4, <1>9 DEF TypeInv
<1>11. ClearInv'
  BY <1>1, <1>4, <1>8, <1>9, ClearSame
<1>12. DataInv'
  <2>1. Becomes(n, <<>>, "alloc", porttab[n].seq + 1)
    BY <1>8, <1>9 DEF Becomes, Elsewhere
  <2> QED
    BY <1>1, <1>4, <1>10, <2>1, DataCreate
<1>13. PortOK(n)'
  <2>1. SemOK(Sem(count)) /\ SemOK(Sem(0)) /\ All(Sem(count)) = {} /\ All(Sem(0)) = {}
    BY SemIs
  <2>2. WaitOK(Sem(count), "send", n, v, call, ready) /\ WaitOK(Sem(0), "recv", n, v, call, ready)
    BY <2>1, NobodyWaits
  <2> QED
    BY <1>4, <1>8, <1>9, <2>1, <2>2 DEF PortOK
<1>14. CallsOK(call, ready) /\ SemOK(porttab[n].rsem) /\ WaitOK(porttab[n].rsem, "recv", n, porttab[n], call, ready)
  BY <1>1, PortIsOK
<1>15. Wakes(n, call, ready, "recv", porttab[n].rsem, {})
  BY <1>4, <1>14 DEF Wakes
<1>16. Onward(n)
  BY <1>5, <1>8, <1>9 DEF Onward
<1>17. CallInv'
  BY <1>1, <1>10, <1>13, <1>15, <1>16, CallsWoken
<1>18. CountsOK(n, call, ready, 0, 0)'
  <2> DEFINE k == v.seq
  <2>1. \A p \in ready : call[p].port = n => call[p].seq # k
    <3>1. ASSUME NEW p \in ready, call[p].port = n PROVE call[p].seq # k
      <4>1. p \in Procs /\ call[p] \in Call /\ call[p].seq \in Nat
        BY <1>1 DEF TypeInv, Call
      <4>2. Recorded(call[p])
        BY <1>1, <4>1 DEF CallInv
      <4> QED
        BY <1>5, <1>8, <3>1, <4>1, <4>2 DEF Recorded
    <3> QED
      BY <3>1
  <2> HIDE DEF k
  <2>2. Counted(Sem(count), "send", n, k, call, ready) = count /\ Counted(Sem(0), "recv", n, k, call, ready) = 0
    BY <2>1, NoneCounted
  <2>3. Len(<<>>) = 0 + 0 /\ count = count + 0 + 0
    OBVIOUS
  <2>4. /\ porttab'[n].rsem = Sem(0) /\ porttab'[n].ssem = Sem(count) /\ porttab'[n].seq = k
        /\ porttab'[n].maxcnt = count /\ porttab'[n].queue = <<>> /\ call' = call /\ ready' = ready
    BY <1>4, <1>8, <1>9 DEF k
  <2> QED
    BY <2>2, <2>3, <2>4 DEF CountsOK
<1>19. CountInv'
  BY <1>1, <1>9, <1>15, <1>18, CountsWoken DEF CountInv
<1> QED
  BY <1>10, <1>11, <1>12, <1>17, <1>19 DEF PortsInv

LEMMA Create ==
  ASSUME PortsInv, NEW count \in Nat, Ptcreate(count)
  PROVE  PortsInv'
<1> DEFINE n == (ptnextid + FirstTry) % NPORTS
<1>1. TypeInv
  BY DEF PortsInv
<1>2. FirstTry \in Tries
  <2>1. Tries \subseteq Nat /\ Tries # {}
    BY PortsAssump DEF Tries, Ptcreate
  <2>2. \E i \in Tries : \A j \in Tries : i <= j
    <3> DEFINE T == Tries
    <3>1. T \subseteq Nat /\ T # {}
      BY <2>1
    <3> HIDE DEF T
    <3>2. \E i \in T : \A j \in T : i <= j
      BY <3>1, LeastNat
    <3> QED
      BY <3>2 DEF T
  <2> QED
    BY <2>2 DEF FirstTry
<1>3. porttab[n].state = "free" /\ n \in Ports /\ ((ptnextid + FirstTry) + 1) % NPORTS \in Ports
  <2>1. ptnextid \in Nat /\ FirstTry \in Nat /\ NPORTS \in Nat \ {0} /\ porttab[n].state = "free"
    BY <1>1, <1>2, PortsAssump DEF TypeInv, Tries, Ports
  <2> DEFINE a == ptnextid + FirstTry
  <2>2. a \in Nat
    BY <2>1
  <2> HIDE DEF a
  <2>3. a % NPORTS \in 0..(NPORTS - 1) /\ (a + 1) % NPORTS \in 0..(NPORTS - 1)
    BY <2>1, <2>2
  <2> QED
    BY <2>1, <2>3 DEF Ports, a
<1> QED
  <2>1. PICK m \in Ports : m = n
    BY <1>3
  <2>2. /\ porttab[m].state = "free" /\ ptnextid' \in Ports
        /\ porttab' = [porttab EXCEPT ![m] = [state |-> "alloc", ssem |-> Sem(count), rsem |-> Sem(0), queue |-> <<>>,
                                             maxcnt |-> count, seq |-> porttab[m].seq + 1]]
        /\ UNCHANGED <<ptfree, call, ready, clear, msgs, disposed, received>>
    BY <1>3, <2>1 DEF Ptcreate
  <2> QED
    BY <2>2, CreateAt

WithLimbo(t, z) == [t EXCEPT !.state = "limbo", !.seq = z]

LEMMA LimboEntry ==
  ASSUME NEW t \in PortEntry, NEW z \in Nat
  PROVE  /\ WithLimbo(t, z) \in PortEntry /\ WithLimbo(t, z).state = "limbo" /\ WithLimbo(t, z).seq = z
         /\ WithLimbo(t, z).queue = t.queue /\ WithLimbo(t, z).ssem = t.ssem /\ WithLimbo(t, z).rsem = t.rsem
         /\ WithLimbo(t, z).maxcnt = t.maxcnt
BY DEF PortEntry, WithLimbo

LEMMA Begin ==
  ASSUME PortsInv, NEW n \in Ports, NEW to \in {"free", "alloc"}, ClearBegin(n, to)
  PROVE  PortsInv'
<1> DEFINE e == porttab[n]
           v == [e EXCEPT !.state = "limbo", !.seq = @ + 1]
<1>1. TypeInv /\ ClearInv /\ CallInv /\ CountInv /\ DataInv
  BY DEF PortsInv
<1>2. e \in PortEntry /\ e.seq \in Nat
  BY <1>1, PortIs
<1>3. /\ clear = NoClear /\ e.state = "alloc" /\ porttab' = [porttab EXCEPT ![n] = v]
      /\ clear' = [port |-> n, to |-> to, step |-> "dispose", walk |-> 0]
      /\ UNCHANGED <<ptfree, ptnextid, call, ready, msgs, disposed, received>>
  BY <1>1, <1>2 DEF ClearBegin, TypeInv
<1>4. /\ v \in PortEntry /\ v.state = "limbo" /\ v.seq = e.seq + 1 /\ v.queue = e.queue /\ v.ssem = e.ssem /\ v.rsem = e.rsem
      /\ v.maxcnt = e.maxcnt
  <2>1. v = WithLimbo(e, e.seq + 1) /\ e.seq + 1 \in Nat
    BY <1>2 DEF WithLimbo
  <2> DEFINE z == e.seq + 1
  <2>2. z \in Nat /\ v = WithLimbo(e, z) /\ z = e.seq + 1
    BY <2>1
  <2> HIDE DEF e, v, z
  <2>3. /\ WithLimbo(e, z) \in PortEntry /\ WithLimbo(e, z).state = "limbo" /\ WithLimbo(e, z).seq = z
        /\ WithLimbo(e, z).queue = e.queue /\ WithLimbo(e, z).ssem = e.ssem /\ WithLimbo(e, z).rsem = e.rsem
        /\ WithLimbo(e, z).maxcnt = e.maxcnt
    BY ONLY <1>2, <2>2, LimboEntry
  <2> QED
    BY <2>2, <2>3
<1> HIDE DEF v
<1>5. porttab' \in [Ports -> PortEntry] /\ porttab'[n] = v /\ Elsewhere(n)
  BY <1>1, <1>3, <1>4, OneChanges
<1>6. TypeInv'
  <2>1. clear' \in [port : 0..NPORTS, to : {"free", "alloc"}, step : {"none", "dispose", "receivers"}, walk : Nat]
    BY <1>3, PortsAssump DEF Ports
  <2> QED
    BY <1>1, <1>3, <1>5, <2>1 DEF TypeInv
<1>7. /\ clear'.step = "dispose" /\ clear'.port = n /\ clear'.walk = 0 /\ clear.step = "none"
  BY <1>3 DEF NoClear
<1>8. ClearInv'
  <2>1. \A o \in Ports : porttab[o].state # "limbo"
    BY <1>1, <1>7 DEF ClearInv
  <2>2. \A o \in Ports : porttab'[o].state = "limbo" <=> o = n
    BY <1>4, <1>5, <2>1 DEF Elsewhere
  <2>3. Len(porttab'[n].queue) \in Nat
    BY <1>4, <1>5, EntryIs
  <2> QED
    BY <1>7, <2>2, <2>3 DEF ClearInv
<1>9. DataInv'
  <2>1. Becomes(n, porttab[n].queue, "limbo", porttab[n].seq + 1)
    BY <1>4, <1>5 DEF Becomes, Elsewhere
  <2> QED
    BY <1>1, <1>3, <1>6, <1>7, <2>1, DataBegin
<1>10. /\ CallsOK(call, ready) /\ SemOK(e.ssem) /\ SemOK(e.rsem)
       /\ WaitOK(e.ssem, "send", n, e, call, ready) /\ WaitOK(e.rsem, "recv", n, e, call, ready)
  BY <1>1, PortIsOK
<1>11. PortOK(n)'
  <2>1. WaitOK(e.ssem, "send", n, v, call, ready) /\ WaitOK(e.rsem, "recv", n, v, call, ready)
    BY <1>4, <1>10, WaitSame
  <2> QED
    BY <1>3, <1>4, <1>5, <1>10, <2>1 DEF PortOK
<1>12. Wakes(n, call, ready, "recv", e.rsem, {})
  BY <1>3, <1>10 DEF Wakes
<1>13. Onward(n)
  BY <1>2, <1>4, <1>5 DEF Onward
<1>14. CallInv'
  BY <1>1, <1>6, <1>11, <1>12, <1>13, CallsWoken
<1>15. CountInv'
  BY <1>1, <1>4, <1>5, <1>12, CountsWoken DEF CountInv
<1> QED
  BY <1>6, <1>8, <1>9, <1>14, <1>15 DEF PortsInv

\* A process that was woken finds that the port is another, and goes on.
LEMMA RunsElsewhere ==
  ASSUME PortsInv, NEW p \in ready, call' = [call EXCEPT ![p] = NoCall], ready' = ready \ {p},
         porttab[call[p].port].state # "alloc" \/ porttab[call[p].port].seq # call[p].seq,
         UNCHANGED <<porttab, ptfree, ptnextid, clear, msgs, disposed, received>>
  PROVE  PortsInv'
<1> DEFINE d == [call EXCEPT ![p] = NoCall]
<1>1. TypeInv /\ ClearInv /\ CallInv /\ CountInv /\ DataInv
  BY DEF PortsInv
<1>2. CallsOK(call, ready) /\ p \in Procs
  BY <1>1, CallsAre DEF TypeInv
<1>3. CallsOK(d, ready \ {p})
  BY <1>1, <1>2, CallsRun
<1> HIDE DEF d
<1>4. call' = d /\ ready' = ready \ {p}
  BY DEF d
<1>5. TypeInv'
  BY <1>1, <1>3, <1>4 DEF TypeInv, CallsOK
<1>6. CallInv'
  <2>1. CallsOK(call', ready')
    BY <1>3, <1>4
  <2> QED
    BY <2>1 DEF CallsOK, CallInv, Recorded
<1>7. ASSUME NEW o \in Ports, porttab[o].state = "alloc" PROVE CountsOK(o, call', ready', 0, 0)
  <2>1. CountsOK(o, call, ready, 0, 0)
    BY <1>1, <1>7 DEF CountInv
  <2>2. CountsOK(o, d, ready \ {p}, OnItsWay("recv", o, p), OnItsWay("send", o, p))
    BY <1>1, <1>2, <2>1, CountsRun DEF d
  <2>3. OnItsWay("recv", o, p) = 0 /\ OnItsWay("send", o, p) = 0
    <3>1. call[p].port # o \/ call[p].seq # porttab[o].seq
      BY <1>7
    <3> QED
      BY <3>1, OnItsWayIs
  <2> QED
    BY <1>4, <2>2, <2>3
<1>8. CountInv'
  BY <1>7 DEF CountInv, CountsOK
<1>9. ClearInv' /\ DataInv'
  <2>1. ClearInv'
    BY <1>1 DEF ClearInv
  <2>2. QueueInv' /\ DoneInv'
    BY <1>1 DEF DataInv, QueueInv, QueueOK, Recorded, DoneInv, Earlier, Queued, Gone
  <2>3. PlacedInv' /\ NodesInv'
    BY <1>1 DEF DataInv, PlacedInv, Placed, NodesInv, Nodes, Queued, Gone
  <2> QED
    BY <2>1, <2>2, <2>3 DEF DataInv
<1> QED
  BY <1>5, <1>6, <1>8, <1>9 DEF PortsInv

\* What is counted when the process that runs on finds its port as it was.
LEMMA RunsHere ==
  ASSUME PortsInv, NEW p \in ready, NEW n \in Ports, call[p].port = n, porttab[n].state = "alloc", porttab[n].seq = call[p].seq,
         NEW d, d = [call EXCEPT ![p] = NoCall]
  PROVE  /\ CallsOK(d, ready \ {p}) /\ CountsOK(n, d, ready \ {p}, OnItsWay("recv", n, p), OnItsWay("send", n, p))
         /\ \A o \in Ports : o # n /\ porttab[o].state = "alloc" => CountsOK(o, d, ready \ {p}, 0, 0)
         /\ WaitOK(porttab[n].ssem, "send", n, porttab[n], d, ready \ {p}) /\ SemOK(porttab[n].ssem)
         /\ WaitOK(porttab[n].rsem, "recv", n, porttab[n], d, ready \ {p}) /\ SemOK(porttab[n].rsem)
<1>1. TypeInv /\ CallInv /\ CountInv
  BY DEF PortsInv
<1>2. CallsOK(call, ready) /\ p \in Procs
  BY <1>1, CallsAre DEF TypeInv
<1>3. CallsOK(d, ready \ {p})
  BY <1>1, <1>2, CallsRun
<1>4. ASSUME NEW o \in Ports, porttab[o].state = "alloc"
      PROVE  CountsOK(o, d, ready \ {p}, OnItsWay("recv", o, p), OnItsWay("send", o, p))
  <2>1. CountsOK(o, call, ready, 0, 0)
    BY <1>1, <1>4 DEF CountInv
  <2> QED
    BY <1>1, <1>2, <2>1, CountsRun
<1>5. ASSUME NEW o \in Ports, o # n, porttab[o].state = "alloc" PROVE CountsOK(o, d, ready \ {p}, 0, 0)
  <2>1. OnItsWay("recv", o, p) = 0 /\ OnItsWay("send", o, p) = 0
    BY <1>5, OnItsWayIs
  <2> QED
    BY <1>4, <1>5, <2>1
<1> QED
  BY <1>3, <1>4, <1>5 DEF CallsOK

LEMMA RunsSend ==
  ASSUME PortsInv, NEW p \in ready, NEW n \in Ports, call[p].port = n, porttab[n].state = "alloc", porttab[n].seq = call[p].seq,
         call[p].op = "send", call' = [call EXCEPT ![p] = NoCall], Put(n, porttab[n]),
         ready' = (ready \ {p}) \cup First(porttab[n].rsem), UNCHANGED <<ptnextid, clear, disposed>>
  PROVE  PortsInv'
<1> DEFINE d == [call EXCEPT ![p] = NoCall]
           r == ready \ {p}
           k == porttab[n].seq
           u == porttab[n].ssem
<1>1. TypeInv /\ ClearInv /\ DataInv /\ porttab[n] \in PortEntry
  BY PortIs DEF PortsInv
<1>2. d = [call EXCEPT ![p] = NoCall] /\ call' = d
  OBVIOUS
<1> HIDE DEF d
<1>3. /\ CallsOK(d, r) /\ CountsOK(n, d, r, OnItsWay("recv", n, p), OnItsWay("send", n, p))
      /\ \A o \in Ports : o # n /\ porttab[o].state = "alloc" => CountsOK(o, d, r, 0, 0)
      /\ WaitOK(u, "send", n, porttab[n], d, r) /\ SemOK(u)
      /\ WaitOK(porttab[n].rsem, "recv", n, porttab[n], d, r) /\ SemOK(porttab[n].rsem)
  BY <1>2, RunsHere
<1>4. OnItsWay("recv", n, p) = 0 /\ OnItsWay("send", n, p) = 1
  BY OnItsWayIs
<1>5. /\ Len(porttab[n].queue) = Counted(porttab[n].rsem, "recv", n, k, d, r) + 0
      /\ porttab[n].maxcnt = Counted(u, "send", n, k, d, r) + Len(porttab[n].queue) + 1
  BY <1>3, <1>4 DEF CountsOK
<1>6. Counted(porttab[n].rsem, "recv", n, k, d, r) \in Int
  BY <1>3, CountedIs DEF CallsOK
<1>7. Len(porttab[n].queue) = Counted(porttab[n].rsem, "recv", n, k, d, r)
  <2> DEFINE a == Counted(porttab[n].rsem, "recv", n, k, d, r)
  <2> HIDE DEF a
  <2>1. Len(porttab[n].queue) = a + 0 /\ a \in Int
    BY <1>5, <1>6 DEF a
  <2>2. Len(porttab[n].queue) = a
    BY <2>1
  <2> QED
    BY <2>2 DEF a
<1>8. Wakes(n, d, r, "recv", porttab[n].rsem, First(porttab[n].rsem))
  BY <1>2, <1>3, SignalsIs DEF Wakes
<1>9. porttab[n] = [porttab[n] EXCEPT !.ssem = u]
  BY <1>1, LessEntry
<1> HIDE DEF r, u
<1> QED
  BY <1>1, <1>3, <1>5, <1>7, <1>8, <1>9, PutKeeps

LEMMA RunsRecv ==
  ASSUME PortsInv, NEW p \in ready, NEW n \in Ports, call[p].port = n, porttab[n].state = "alloc", porttab[n].seq = call[p].seq,
         call[p].op = "recv", call' = [call EXCEPT ![p] = NoCall], Get(n, porttab[n], call[p].seq),
         ready' = (ready \ {p}) \cup First(porttab[n].ssem), UNCHANGED <<ptnextid, clear, disposed>>
  PROVE  PortsInv'
<1> DEFINE d == [call EXCEPT ![p] = NoCall]
           r == ready \ {p}
           k == porttab[n].seq
           u == porttab[n].rsem
<1>1. TypeInv /\ ClearInv /\ DataInv /\ porttab[n] \in PortEntry
  BY PortIs DEF PortsInv
<1>2. d = [call EXCEPT ![p] = NoCall] /\ call' = d
  OBVIOUS
<1> HIDE DEF d
<1>3. /\ CallsOK(d, r) /\ CountsOK(n, d, r, OnItsWay("recv", n, p), OnItsWay("send", n, p))
      /\ \A o \in Ports : o # n /\ porttab[o].state = "alloc" => CountsOK(o, d, r, 0, 0)
      /\ WaitOK(u, "recv", n, porttab[n], d, r) /\ SemOK(u)
      /\ WaitOK(porttab[n].ssem, "send", n, porttab[n], d, r) /\ SemOK(porttab[n].ssem)
  BY <1>2, RunsHere
<1>4. OnItsWay("send", n, p) = 0 /\ OnItsWay("recv", n, p) = 1
  BY OnItsWayIs
<1>5. /\ Len(porttab[n].queue) = Counted(u, "recv", n, k, d, r) + 1
      /\ porttab[n].maxcnt = Counted(porttab[n].ssem, "send", n, k, d, r) + Len(porttab[n].queue) + 0
  BY <1>3, <1>4 DEF CountsOK
<1>6. Counted(porttab[n].ssem, "send", n, k, d, r) \in Int /\ Len(porttab[n].queue) \in Nat
  BY <1>1, <1>3, CountedIs, PortIs DEF CallsOK
<1>7. porttab[n].maxcnt = Counted(porttab[n].ssem, "send", n, k, d, r) + Len(porttab[n].queue)
  <2> DEFINE a == Counted(porttab[n].ssem, "send", n, k, d, r)
             m == Len(porttab[n].queue)
  <2> HIDE DEF a, m
  <2>1. porttab[n].maxcnt = a + m + 0 /\ a \in Int /\ m \in Nat
    BY <1>5, <1>6 DEF a, m
  <2>2. porttab[n].maxcnt = a + m
    BY <2>1
  <2> QED
    BY <2>2 DEF a, m
<1>10. Get(n, porttab[n], k)
  OBVIOUS
<1>8. Wakes(n, d, r, "send", porttab[n].ssem, First(porttab[n].ssem))
  BY <1>2, <1>3, SignalsIs DEF Wakes
<1>9. porttab[n] = [porttab[n] EXCEPT !.rsem = u]
  BY <1>1, LessEntry
<1> HIDE DEF r, u
<1> QED
  BY <1>1, <1>3, <1>5, <1>7, <1>8, <1>9, <1>10, GetKeeps
LEMMA Runs ==
  ASSUME PortsInv, NEW p \in Procs, GoesOn(p)
  PROVE  PortsInv'
<1>1. TypeInv /\ CallInv /\ p \in ready /\ call' = [call EXCEPT ![p] = NoCall]
  BY DEF PortsInv, GoesOn
<1>2. PICK n \in Ports : n = call[p].port
  BY <1>1 DEF TypeInv, Call
<1>3. UNCHANGED <<ptnextid, clear, disposed>>
  BY DEF GoesOn
<1>4. CASE Changed(p, porttab[n])
  <2>1. porttab[n].state # "alloc" \/ porttab[n].seq # call[p].seq
    BY <1>4 DEF Changed
  <2>2. ready' = ready \ {p} /\ UNCHANGED <<porttab, ptfree, msgs, received>>
    BY <1>2, <1>4 DEF GoesOn
  <2> QED
    BY <1>1, <1>2, <1>3, <2>1, <2>2, RunsElsewhere
<1>5. CASE ~Changed(p, porttab[n])
  <2>1. porttab[n].state = "alloc" /\ porttab[n].seq = call[p].seq
    BY <1>5 DEF Changed
  <2>2. CASE call[p].op = "send"
    <3>1. Put(n, porttab[n]) /\ ready' = (ready \ {p}) \cup First(porttab[n].rsem)
      BY <1>2, <1>5, <2>2 DEF GoesOn
    <3> QED
      BY <1>1, <1>2, <1>3, <2>1, <2>2, <3>1, RunsSend
  <2>3. CASE call[p].op # "send"
    <3>1. call[p].op = "recv" /\ Get(n, porttab[n], call[p].seq) /\ ready' = (ready \ {p}) \cup First(porttab[n].ssem)
      BY <1>2, <1>5, <2>3 DEF GoesOn
    <3> QED
      BY <1>1, <1>2, <1>3, <2>1, <3>1, RunsRecv
  <2> QED
    BY <2>2, <2>3
<1> QED
  BY <1>4, <1>5

WithWalk(c, z) == [c EXCEPT !.walk = z]

LEMMA Disposes ==
  ASSUME PortsInv, Dispose
  PROVE  PortsInv'
<1>1. TypeInv /\ ClearInv /\ CallInv /\ CountInv /\ DataInv
  BY DEF PortsInv
<1>2. clear.step = "dispose" /\ clear.port \in Ports
  BY <1>1 DEF Dispose, ClearInv
<1>3. PICK n \in Ports : n = clear.port
  BY <1>2
<1> DEFINE w == clear.walk
           k == Len(porttab[n].queue)
<1>4. k \in Nat /\ w \in Nat /\ \A i \in 1..k : porttab[n].queue[i] \in Nat
  BY <1>1, PortIs DEF TypeInv
<1>5. /\ w < k /\ disposed' = Append(disposed, porttab[n].queue[w + 1]) /\ clear' = [clear EXCEPT !.walk = @ + 1]
      /\ UNCHANGED <<porttab, ptfree, ptnextid, call, ready, msgs, received>>
  BY <1>3 DEF Dispose
<1>6. /\ clear'.port = n /\ clear'.step = "dispose" /\ clear'.to = clear.to /\ clear'.walk = w + 1
      /\ clear' \in [port : 0..NPORTS, to : {"free", "alloc"}, step : {"none", "dispose", "receivers"}, walk : Nat]
  <2> DEFINE c == clear
             z == w + 1
  <2>1. /\ c \in [port : 0..NPORTS, to : {"free", "alloc"}, step : {"none", "dispose", "receivers"}, walk : Nat]
        /\ z \in Nat /\ clear' = WithWalk(c, z) /\ c.port = n /\ c.step = "dispose" /\ c.to = clear.to
    BY <1>1, <1>2, <1>3, <1>4, <1>5 DEF TypeInv, WithWalk
  <2> HIDE DEF c, z
  <2>2. /\ WithWalk(c, z) \in [port : 0..NPORTS, to : {"free", "alloc"}, step : {"none", "dispose", "receivers"}, walk : Nat]
        /\ WithWalk(c, z).port = c.port /\ WithWalk(c, z).step = c.step /\ WithWalk(c, z).to = c.to /\ WithWalk(c, z).walk = z
    BY ONLY <2>1 DEF WithWalk
  <2> QED
    BY <2>1, <2>2 DEF z
<1>7. TypeInv'
  <2>1. w + 1 \in 1..k
    BY <1>4, <1>5
  <2>2. porttab[n].queue[w + 1] \in Nat
    BY <1>4, <2>1
  <2>3. disposed' \in Seq(Nat)
    BY <1>1, <1>5, <2>2 DEF TypeInv
  <2> QED
    BY <1>1, <1>5, <1>6, <2>3 DEF TypeInv
<1>8. DataInv'
  BY <1>1, <1>2, <1>3, <1>5, <1>7, DataDispose
<1>9. ClearInv'
  <2>1. w + 1 <= k
    BY <1>4, <1>5
  <2>2. \A o \in Ports : porttab[o].state = "limbo" <=> o = n
    BY <1>1, <1>2, <1>3 DEF ClearInv
  <2> QED
    BY <1>5, <1>6, <2>1, <2>2 DEF ClearInv
<1>10. CallInv' /\ CountInv'
  BY <1>1, <1>5 DEF CallInv, Recorded, CountInv, CountsOK
<1> QED
  BY <1>7, <1>8, <1>9, <1>10 DEF PortsInv

\* _ptclear goes on to step s.
WithStep(c, s) == [c EXCEPT !.step = s]

LEMMA StepIs ==
  ASSUME TypeInv
  PROVE  /\ WithStep(clear, "receivers") \in [port : 0..NPORTS, to : {"free", "alloc"}, step : {"none", "dispose", "receivers"}, walk : Nat]
         /\ WithStep(clear, "receivers").port = clear.port /\ WithStep(clear, "receivers").to = clear.to
         /\ WithStep(clear, "receivers").step = "receivers"
BY DEF TypeInv, WithStep

LEMMA SendersAt ==
  ASSUME PortsInv, NEW n \in Ports, n = clear.port, clear.step = "dispose", clear.walk = Len(porttab[n].queue),
         clear' = WithStep(clear, "receivers"), ptfree' = ptfree + Len(porttab[n].queue),
         ready' = ready \cup All(porttab[n].ssem),
         NEW q, NEW x \in Nat, clear.to = "alloc" => q = <<>> /\ x = porttab[n].maxcnt,
         clear.to # "alloc" => q = porttab[n].queue,
         porttab' = [porttab EXCEPT ![n] = WithGet(porttab[n], q, Sem(x))],
         UNCHANGED <<ptnextid, call, msgs, disposed, received>>
  PROVE  PortsInv'
<1> DEFINE e == porttab[n]
           v == WithGet(e, q, Sem(x))
           s == e.ssem
<1>1. TypeInv /\ ClearInv /\ CallInv /\ CountInv /\ DataInv
  BY DEF PortsInv
<1>2. e \in PortEntry /\ e.queue \in Seq(Nat) /\ Len(e.queue) \in Nat /\ e.seq \in Nat /\ q \in Seq(Nat)
  <2>1. e \in PortEntry /\ e.queue \in Seq(Nat) /\ Len(e.queue) \in Nat /\ e.seq \in Nat
    BY <1>1, PortIs
  <2>2. q = <<>> \/ q = e.queue
    OBVIOUS
  <2>3. <<>> \in Seq(Nat)
    OBVIOUS
  <2>4. q \in Seq(Nat)
    BY ONLY <2>1, <2>2, <2>3
  <2> QED
    BY <2>1, <2>4
<1>3. e.state = "limbo" /\ \A o \in Ports : porttab[o].state = "limbo" <=> o = n
  BY <1>1 DEF ClearInv
<1>4. SemOK(Sem(x)) /\ All(Sem(x)) = {} /\ Sem(x) \in PortSem
  BY SemIs, SemTypes
<1>5. /\ v \in PortEntry /\ v.ssem = Sem(x) /\ v.rsem = e.rsem /\ v.queue = q /\ v.state = "limbo"
      /\ v.maxcnt = e.maxcnt /\ v.seq = e.seq
  <2> DEFINE z == Sem(x)
  <2> HIDE DEF z, e
  <2>1. /\ WithGet(e, q, z) \in PortEntry /\ WithGet(e, q, z).ssem = z /\ WithGet(e, q, z).rsem = e.rsem
        /\ WithGet(e, q, z).queue = q /\ WithGet(e, q, z).state = e.state
        /\ WithGet(e, q, z).maxcnt = e.maxcnt /\ WithGet(e, q, z).seq = e.seq
    BY ONLY <1>2, <1>4, GetEntry DEF z
  <2> QED
    BY <1>3, <2>1 DEF z
<1> HIDE DEF v
<1>6. porttab' \in [Ports -> PortEntry] /\ porttab'[n] = v /\ Elsewhere(n)
  BY <1>1, <1>5, OneChanges DEF v
<1>7. /\ CallsOK(call, ready) /\ SemOK(s) /\ SemOK(e.rsem)
      /\ WaitOK(s, "send", n, e, call, ready) /\ WaitOK(e.rsem, "recv", n, e, call, ready)
  BY <1>1, PortIsOK
<1>8. Wakes(n, call, ready, "send", s, All(s)) /\ call' = call
  BY <1>7 DEF Wakes
<1>9. /\ clear'.port = n /\ clear'.to = clear.to /\ clear'.step = "receivers"
      /\ clear' \in [port : 0..NPORTS, to : {"free", "alloc"}, step : {"none", "dispose", "receivers"}, walk : Nat]
  BY <1>1, StepIs
<1>10. TypeInv'
  <2>1. ptfree' \in Nat
    BY <1>1, <1>2 DEF TypeInv
  <2>2. call' \in [Procs -> Call] /\ ready' \subseteq Procs /\ IsFiniteSet(ready')
    BY <1>8, WokenTypes
  <2> QED
    BY <1>1, <1>6, <1>9, <2>1, <2>2 DEF TypeInv
<1>11. ClearInv'
  <2>1. \A o \in Ports : porttab'[o].state = "limbo" <=> o = n
    BY <1>3, <1>5, <1>6 DEF Elsewhere
  <2>2. clear.to = "alloc" => porttab'[n].queue = <<>> /\ porttab'[n].ssem = Sem(porttab'[n].maxcnt)
    BY <1>5, <1>6
  <2> QED
    BY <1>9, <2>1, <2>2 DEF ClearInv
<1>12. DataInv'
  <2>1. Becomes(n, q, "limbo", porttab[n].seq)
    BY <1>5, <1>6 DEF Becomes, Elsewhere
  <2>2. q = <<>> \/ q = porttab[n].queue
    OBVIOUS
  <2> QED
    BY <1>1, <1>9, <1>10, <2>1, <2>2, DataSenders
<1>13. PortOK(n)'
  <2> DEFINE S == All(s)
             t == porttab[n]
             w == e.rsem
  <2>1. WaitOK(s, "send", n, t, call, ready) /\ WaitOK(w, "recv", n, t, call, ready) /\ S \subseteq All(s) /\ "recv" # "send"
    BY <1>7
  <2>2. WaitOK(w, "recv", n, t, call, ready \cup S)
    <3> HIDE DEF S, t, w, s
    <3> QED
      BY <2>1, WaitsElse
  <2>3. WaitOK(w, "recv", n, v, call, ready')
    BY <1>5, <2>2, WaitSame
  <2>4. WaitOK(Sem(x), "send", n, v, call, ready')
    BY <1>4, NobodyWaits
  <2> QED
    BY <1>4, <1>5, <1>6, <1>7, <1>8, <2>3, <2>4 DEF PortOK
<1>14. Onward(n)
  BY <1>2, <1>3, <1>5, <1>6 DEF Onward
<1>15. CallInv'
  BY <1>1, <1>8, <1>10, <1>13, <1>14, CallsWoken
<1>16. CountInv'
  BY <1>1, <1>5, <1>6, <1>8, CountsWoken DEF CountInv
<1> QED
  BY <1>10, <1>11, <1>12, <1>15, <1>16 DEF PortsInv

\* Entry t at the end of _ptclear.
WithEnd(t, z, s) == [t EXCEPT !.rsem = z, !.state = s]

LEMMA EndEntry ==
  ASSUME NEW t \in PortEntry, NEW z \in PortSem, NEW s \in {"free", "limbo", "alloc"}
  PROVE  /\ WithEnd(t, z, s) \in PortEntry
         /\ WithEnd(t, z, s).ssem = t.ssem /\ WithEnd(t, z, s).rsem = z /\ WithEnd(t, z, s).queue = t.queue
         /\ WithEnd(t, z, s).state = s /\ WithEnd(t, z, s).maxcnt = t.maxcnt /\ WithEnd(t, z, s).seq = t.seq
BY DEF PortEntry, WithEnd

LEMMA ReceiversAt ==
  ASSUME PortsInv, NEW n \in Ports, n = clear.port, clear.step = "receivers", clear' = NoClear,
         NEW to, to = clear.to, ptnextid' \in Ports,
         ready' = ready \cup All(porttab[n].rsem),
         porttab' = [porttab EXCEPT ![n] = WithEnd(porttab[n], Sem(0), to)],
         UNCHANGED <<ptfree, call, msgs, disposed, received>>
  PROVE  PortsInv'
<1> DEFINE e == porttab[n]
           v == WithEnd(e, Sem(0), to)
           s == e.rsem
<1>1. TypeInv /\ ClearInv /\ CallInv /\ CountInv /\ DataInv
  BY DEF PortsInv
<1>2. e \in PortEntry /\ e.queue \in Seq(Nat) /\ Len(e.queue) \in Nat /\ e.seq \in Nat /\ e.maxcnt \in Nat
  BY <1>1, PortIs
<1>3. /\ e.state = "limbo" /\ \A o \in Ports : porttab[o].state = "limbo" <=> o = n
      /\ to = "alloc" => e.queue = <<>> /\ e.ssem = Sem(e.maxcnt)
  BY <1>1 DEF ClearInv
<1>4. SemOK(Sem(0)) /\ All(Sem(0)) = {} /\ Sem(0) \in PortSem /\ to \in {"free", "alloc"}
  BY <1>1, SemIs, SemTypes DEF TypeInv
<1>5. /\ v \in PortEntry /\ v.ssem = e.ssem /\ v.rsem = Sem(0) /\ v.queue = e.queue /\ v.state = to
      /\ v.maxcnt = e.maxcnt /\ v.seq = e.seq
  <2> DEFINE z == Sem(0)
  <2> HIDE DEF z, e
  <2>1. to \in {"free", "limbo", "alloc"}
    BY <1>4
  <2>2. /\ WithEnd(e, z, to) \in PortEntry /\ WithEnd(e, z, to).ssem = e.ssem /\ WithEnd(e, z, to).rsem = z
        /\ WithEnd(e, z, to).queue = e.queue /\ WithEnd(e, z, to).state = to
        /\ WithEnd(e, z, to).maxcnt = e.maxcnt /\ WithEnd(e, z, to).seq = e.seq
    BY ONLY <1>2, <1>4, <2>1, EndEntry DEF z
  <2> QED
    BY <2>2 DEF z
<1> HIDE DEF v
<1>6. porttab' \in [Ports -> PortEntry] /\ porttab'[n] = v /\ Elsewhere(n)
  BY <1>1, <1>5, OneChanges DEF v
<1>7. /\ CallsOK(call, ready) /\ SemOK(s) /\ SemOK(e.ssem)
      /\ WaitOK(s, "recv", n, e, call, ready) /\ WaitOK(e.ssem, "send", n, e, call, ready)
  BY <1>1, PortIsOK
<1>8. Wakes(n, call, ready, "recv", s, All(s)) /\ call' = call
  BY <1>7 DEF Wakes
<1>10. TypeInv'
  <2>1. NoClear \in [port : 0..NPORTS, to : {"free", "alloc"}, step : {"none", "dispose", "receivers"}, walk : Nat]
    BY PortsAssump DEF NoClear
  <2>2. call' \in [Procs -> Call] /\ ready' \subseteq Procs /\ IsFiniteSet(ready')
    BY <1>8, WokenTypes
  <2> QED
    BY <1>1, <1>6, <2>1, <2>2 DEF TypeInv
<1>9. clear'.step = "none" /\ clear' = NoClear
  BY DEF NoClear
<1>11. ClearInv'
  <2>1. \A o \in Ports : porttab'[o].state # "limbo"
    BY <1>3, <1>4, <1>5, <1>6 DEF Elsewhere
  <2> QED
    BY <1>9, <2>1 DEF ClearInv, NoClear
<1>12. DataInv'
  <2>1. Becomes(n, porttab[n].queue, to, porttab[n].seq)
    BY <1>5, <1>6 DEF Becomes, Elsewhere
  <2> QED
    BY <1>1, <1>3, <1>4, <1>10, <2>1, DataReceivers
<1>13. PortOK(n)'
  <2> DEFINE S == All(s)
             t == porttab[n]
             w == e.ssem
  <2>1. WaitOK(s, "recv", n, t, call, ready) /\ WaitOK(w, "send", n, t, call, ready) /\ S \subseteq All(s) /\ "recv" # "send"
    BY <1>7
  <2>2. WaitOK(w, "send", n, t, call, ready \cup S)
    <3> HIDE DEF S, t, w, s
    <3> QED
      BY <2>1, WaitsElse
  <2>3. WaitOK(w, "send", n, v, call, ready')
    <3>1. CASE to = "alloc"
      <4>1. All(w) = {}
        BY <1>2, <1>3, <3>1, SemIs
      <4> QED
        BY <4>1, NobodyWaits
    <3>2. CASE to # "alloc"
      BY <1>5, <2>2, <3>2, WaitSame
    <3> QED
      BY <3>1, <3>2
  <2>4. WaitOK(Sem(0), "recv", n, v, call, ready')
    BY <1>4, NobodyWaits
  <2> QED
    BY <1>4, <1>5, <1>6, <1>7, <1>8, <2>3, <2>4 DEF PortOK
<1>14. Onward(n)
  BY <1>2, <1>3, <1>5, <1>6 DEF Onward
<1>15. CallInv'
  BY <1>1, <1>8, <1>10, <1>13, <1>14, CallsWoken
<1>16. ASSUME to = "alloc" PROVE CountsOK(n, call, ready, 0, 0)'
  <2> DEFINE k == e.seq
             x == e.maxcnt
  <2>1. \A p \in ready' : call[p].port = n => call[p].seq # k
    <3>1. ASSUME NEW p \in ready', call[p].port = n PROVE call[p].seq # k
      <4>1. p \in Procs /\ call[p].op # "none"
        BY <1>8, <1>10, <1>15 DEF TypeInv, CallInv
      <4>2. Recorded(call[p]) /\ call[p].seq \in Nat
        BY <1>1, <4>1 DEF CallInv, TypeInv, Call
      <4> QED
        BY <1>2, <1>3, <3>1, <4>2 DEF Recorded
    <3> QED
      BY <3>1
  <2>2. x \in Nat
    BY <1>2
  <2>3. Len(e.queue) = 0 /\ e.ssem = Sem(x)
    BY <1>3, <1>16
  <2>4. /\ porttab'[n].rsem = Sem(0) /\ porttab'[n].ssem = Sem(x) /\ porttab'[n].seq = k
        /\ porttab'[n].maxcnt = x /\ Len(porttab'[n].queue) = 0
    BY <1>5, <1>6, <2>3
  <2> HIDE DEF k, x
  <2>5. Counted(Sem(x), "send", n, k, call, ready') = x /\ Counted(Sem(0), "recv", n, k, call, ready') = 0
    BY <2>1, <2>2, NoneCounted
  <2>6. 0 = 0 + 0 /\ x = x + 0 + 0
    BY <2>2
  <2> QED
    BY <1>8, <2>4, <2>5, <2>6 DEF CountsOK
<1>17. CountInv'
  BY <1>1, <1>5, <1>6, <1>8, <1>16, CountsWoken DEF CountInv
<1> QED
  BY <1>10, <1>11, <1>12, <1>15, <1>17 DEF PortsInv

LEMMA Senders ==
  ASSUME PortsInv, ClearSenders
  PROVE  PortsInv'
<1>1. TypeInv /\ ClearInv
  BY DEF PortsInv
<1>2. clear.step = "dispose" /\ clear.port \in Ports
  BY <1>1 DEF ClearSenders, ClearInv
<1>3. PICK n \in Ports : n = clear.port
  BY <1>2
<1> DEFINE e == porttab[n]
           q == IF clear.to = "alloc" THEN <<>> ELSE e.queue
           x == IF clear.to = "alloc" THEN e.maxcnt ELSE 0
<1>4. x \in Nat
  BY <1>1, PortIs
<1>5. porttab' = [porttab EXCEPT ![n] = WithGet(e, q, Sem(x))]
  <2>1. porttab' = [porttab EXCEPT ![n].queue = IF clear.to = "alloc" THEN <<>> ELSE @, ![n].ssem = Sem(x)]
    BY <1>3 DEF ClearSenders
  <2>2. porttab' = [porttab EXCEPT ![n].queue = q, ![n].ssem = Sem(x)]
    BY <2>1
  <2> DEFINE z == Sem(x)
  <2>3. porttab \in [Ports -> PortEntry]
    BY <1>1 DEF TypeInv
  <2> HIDE DEF q, z
  <2>4. porttab' = [[porttab EXCEPT ![n].queue = q] EXCEPT ![n].ssem = z]
    BY <2>2 DEF z
  <2>5. porttab' = [porttab EXCEPT ![n] = [[porttab[n] EXCEPT !.queue = q] EXCEPT !.ssem = z]]
    BY <2>3, <2>4
  <2>6. [[porttab[n] EXCEPT !.queue = q] EXCEPT !.ssem = z] = WithGet(porttab[n], q, z)
    BY DEF WithGet
  <2> QED
    BY <2>5, <2>6 DEF z
<1>6. /\ clear.walk = Len(porttab[n].queue) /\ clear' = WithStep(clear, "receivers") /\ ptfree' = ptfree + Len(porttab[n].queue)
      /\ ready' = ready \cup All(porttab[n].ssem)
      /\ UNCHANGED <<ptnextid, call, msgs, disposed, received>>
  BY <1>3 DEF ClearSenders, WithStep
<1>7. /\ clear.to = "alloc" => q = <<>> /\ x = porttab[n].maxcnt
      /\ clear.to # "alloc" => q = porttab[n].queue
  OBVIOUS
<1> HIDE DEF q, x
<1> QED
  BY <1>2, <1>3, <1>4, <1>5, <1>6, <1>7, SendersAt

LEMMA Receivers ==
  ASSUME PortsInv, ClearReceivers
  PROVE  PortsInv'
<1>1. TypeInv /\ ClearInv
  BY DEF PortsInv
<1>2. clear.step = "receivers" /\ clear.port \in Ports
  BY <1>1 DEF ClearReceivers, ClearInv
<1>3. PICK n \in Ports : n = clear.port
  BY <1>2
<1>4. PICK to : to = clear.to
  OBVIOUS
<1>5. porttab' = [porttab EXCEPT ![n] = WithEnd(porttab[n], Sem(0), to)]
  <2> DEFINE z == Sem(0)
  <2>1. porttab' = [porttab EXCEPT ![n].rsem = z, ![n].state = to]
    BY <1>3, <1>4 DEF ClearReceivers
  <2>2. porttab \in [Ports -> PortEntry]
    BY <1>1 DEF TypeInv
  <2> HIDE DEF z
  <2>3. porttab' = [[porttab EXCEPT ![n].rsem = z] EXCEPT ![n].state = to]
    BY <2>1
  <2>4. porttab' = [porttab EXCEPT ![n] = [[porttab[n] EXCEPT !.rsem = z] EXCEPT !.state = to]]
    BY <2>2, <2>3
  <2>5. [[porttab[n] EXCEPT !.rsem = z] EXCEPT !.state = to] = WithEnd(porttab[n], z, to)
    BY DEF WithEnd
  <2> QED
    BY <2>4, <2>5 DEF z
<1>6. /\ clear' = NoClear /\ ptnextid' \in Ports /\ ready' = ready \cup All(porttab[n].rsem)
      /\ UNCHANGED <<ptfree, call, msgs, disposed, received>>
  BY <1>1, <1>3 DEF ClearReceivers, TypeInv
<1> QED
  BY <1>2, <1>3, <1>4, <1>5, <1>6, ReceiversAt

LEMMA InitPorts ==
  ASSUME PortsInit
  PROVE  PortsInv
<1> DEFINE e == [state |-> "free", ssem |-> Sem(0), rsem |-> Sem(0), queue |-> <<>>, maxcnt |-> 0, seq |-> 0]
<1>1. /\ SemOK(Sem(0)) /\ Sem(0) \in PortSem /\ All(Sem(0)) = {}
  BY SemIs, SemTypes
<1>2. e \in PortEntry
  BY <1>1 DEF PortEntry
<1>3. porttab = [n \in Ports |-> e] /\ call = [p \in Procs |-> NoCall] /\ ready = {} /\ clear = NoClear
      /\ msgs = <<>> /\ disposed = <<>> /\ received = <<>> /\ ptfree = PT_MSGS /\ ptnextid = 0
  BY DEF PortsInit
<1>4. \A n \in Ports : porttab[n] = e
  BY <1>3
<1>5. e.state = "free" /\ e.ssem = Sem(0) /\ e.rsem = Sem(0) /\ e.queue = <<>>
  OBVIOUS
<1>6. NoCall \in Call /\ NoCall.op = "none"
  BY PortsAssump DEF NoCall, Call, Ports
<1>7. NoClear \in [port : 0..NPORTS, to : {"free", "alloc"}, step : {"none", "dispose", "receivers"}, walk : Nat]
      /\ NoClear.step = "none"
  BY PortsAssump DEF NoClear
<1> HIDE DEF e
<1>8. TypeInv
  <2>1. IsFiniteSet({}) /\ 0 \in Ports /\ PT_MSGS \in Nat
    BY FS_EmptySet, PortsAssump DEF Ports
  <2> QED
    BY <1>2, <1>3, <1>6, <1>7, <2>1 DEF TypeInv
<1>9. ClearInv
  BY <1>3, <1>4, <1>5, <1>7 DEF ClearInv
<1>10. CallInv
  <2>1. \A p \in Procs : call[p].op = "none"
    BY <1>3, <1>6
  <2>2. ASSUME NEW n \in Ports
        PROVE  /\ SemOK(porttab[n].ssem) /\ WaitOK(porttab[n].ssem, "send", n, porttab[n], call, ready)
               /\ SemOK(porttab[n].rsem) /\ WaitOK(porttab[n].rsem, "recv", n, porttab[n], call, ready)
    BY <1>1, <1>4, <1>5, NobodyWaits
  <2> QED
    BY <1>3, <2>1, <2>2 DEF CallInv
<1>11. CountInv
  BY <1>4, <1>5 DEF CountInv
<1>12. DataInv
  <2>1. Queued = {}
    BY <1>3, <1>4, <1>5, <1>7 DEF Queued
  <2>2. Nodes = {}
    BY <2>1 DEF Nodes
  <2>3. NodesInv
    <3>1. IsFiniteSet({}) /\ Cardinality({}) = 0
      BY FS_EmptySet
    <3> QED
      BY <1>3, <2>2, <3>1, PortsAssump DEF NodesInv
  <2>4. Len(msgs) = 0 /\ DOMAIN received = {} /\ DOMAIN disposed = {} /\ \A n \in Ports : DOMAIN porttab[n].queue = {}
    BY <1>3, <1>4, <1>5
  <2>5. QueueInv
    BY <2>4 DEF QueueInv, QueueOK
  <2>6. DoneInv
    BY <2>4 DEF DoneInv
  <2>7. PlacedInv
    BY <2>4 DEF PlacedInv
  <2> QED
    BY <2>3, <2>5, <2>6, <2>7 DEF DataInv
<1> QED
  BY <1>8, <1>9, <1>10, <1>11, <1>12 DEF PortsInv

LEMMA PortsStep ==
  ASSUME PortsInv, [PortsNext]_pvars
  PROVE  PortsInv'
<1>1. CASE \E count \in Counts : Ptcreate(count)
  <2>1. PICK count \in Counts : Ptcreate(count)
    BY <1>1
  <2>2. count \in Nat
    BY PortsAssump
  <2> QED
    BY <2>1, <2>2, Create
<1>2. ASSUME NEW p \in Procs, NEW n \in Ports, Ptsend(p, n) PROVE PortsInv'
  BY <1>2, SendNow, SendWait
<1>3. ASSUME NEW p \in Procs, NEW n \in Ports, Ptrecv(p, n) PROVE PortsInv'
  BY <1>3, RecvNow, RecvWait
<1>4. ASSUME NEW p \in Procs, GoesOn(p) PROVE PortsInv'
  BY <1>4, Runs
<1>5. ASSUME NEW n \in Ports, NEW to \in {"free", "alloc"}, ClearBegin(n, to) PROVE PortsInv'
  BY <1>5, Begin
<1>6. CASE Clears
  BY <1>6, Disposes, Senders, Receivers DEF Clears
<1>7. CASE UNCHANGED pvars
  <2>1. TypeInv' /\ ClearInv'
    BY <1>7 DEF PortsInv, TypeInv, ClearInv, pvars
  <2>2. CallInv' /\ CountInv'
    BY <1>7 DEF PortsInv, CallInv, Recorded, CountInv, CountsOK, pvars
  <2>3. QueueInv' /\ DoneInv'
    BY <1>7 DEF PortsInv, DataInv, QueueInv, QueueOK, Recorded, DoneInv, Earlier, Queued, Gone, pvars
  <2>4. PlacedInv' /\ NodesInv'
    BY <1>7 DEF PortsInv, DataInv, PlacedInv, Placed, NodesInv, Nodes, Queued, Gone, pvars
  <2> QED
    BY <2>1, <2>2, <2>3, <2>4 DEF PortsInv, DataInv
<1> QED
  BY <1>1, <1>2, <1>3, <1>4, <1>5, <1>6, <1>7 DEF PortsNext

LEMMA OneOrNone ==
  ASSUME NEW S
  PROVE  /\ S = {} => Cardinality(S) = 0
         /\ S # {} /\ (\A x, y \in S : x = y) => Cardinality(S) = 1
<1>1. S = {} => Cardinality(S) = 0
  BY FS_EmptySet
<1>2. ASSUME S # {}, \A x, y \in S : x = y PROVE Cardinality(S) = 1
  <2>1. PICK x \in S : TRUE
    BY <1>2
  <2>2. S = {x}
    BY <1>2
  <2> QED
    BY <2>2, FS_Singleton
<1> QED
  BY <1>1, <1>2

\* Every message is in one place.
LEMMA InOnePlace ==
  ASSUME PortsInv, NEW m \in 1..Len(msgs)
  PROVE  Cardinality({i \in DOMAIN received : received[i].msg = m})
         + Cardinality({i \in DOMAIN disposed : disposed[i] = m})
         + Cardinality({x \in Nodes : porttab[x[1]].queue[x[2]] = m /\ x[2] > Gone(x[1])}) = 1
<1> DEFINE A == {i \in DOMAIN received : received[i].msg = m}
           B == {i \in DOMAIN disposed : disposed[i] = m}
           C == {x \in Nodes : porttab[x[1]].queue[x[2]] = m /\ x[2] > Gone(x[1])}
<1>1. TypeInv /\ QueueInv /\ DoneInv /\ PlacedInv
  BY DEF PortsInv, DataInv
<1>2. m \in Nat
  BY <1>1, ListsAre
<1>3. ~Earlier(m, m)
  BY <1>2 DEF Earlier
<1>4. /\ DOMAIN received = 1..Len(received) /\ Len(received) \in Nat
      /\ DOMAIN disposed = 1..Len(disposed) /\ Len(disposed) \in Nat
  BY <1>1, ListsAre
<1>5. ASSUME NEW x \in C
      PROVE  \E n \in Queued : \E i \in 1..Len(porttab[n].queue) : x = <<n, i>> /\ porttab[n].queue[i] = m /\ i > Gone(n)
  <2>1. x \in Nodes /\ porttab[x[1]].queue[x[2]] = m /\ x[2] > Gone(x[1])
    OBVIOUS
  <2>2. PICK n \in Queued : \E i \in 1..Len(porttab[n].queue) : x = <<n, i>>
    BY <1>1, <2>1, NodeIs
  <2>3. PICK i \in 1..Len(porttab[n].queue) : x = <<n, i>>
    BY <2>2
  <2>4. x[1] = n /\ x[2] = i
    BY <2>3
  <2> QED
    BY <2>1, <2>3, <2>4
<1>6. Queued \subseteq Ports /\ \A n \in Ports : DOMAIN porttab[n].queue = 1..Len(porttab[n].queue) /\ Len(porttab[n].queue) \in Nat
  BY <1>1, PortIs DEF Queued
<1>7. ASSUME NEW n \in Queued, NEW i \in 1..Len(porttab[n].queue), i > Gone(n),
             NEW x, x = <<n, i>>, porttab[n].queue[i] = m
      PROVE  x \in C
  <2>1. x \in Nodes
    BY <1>1, <1>7, NodeIs
  <2>2. x[1] = n /\ x[2] = i
    BY <1>7
  <2> QED
    BY <1>7, <2>1, <2>2
<1>8. A # {} \/ B # {} \/ C # {}
  <2>1. Placed(m)
    BY <1>1 DEF PlacedInv
  <2>2. CASE \E n \in Queued : \E i \in DOMAIN porttab[n].queue : porttab[n].queue[i] = m /\ i > Gone(n)
    <3>1. PICK n \in Queued : \E i \in DOMAIN porttab[n].queue : porttab[n].queue[i] = m /\ i > Gone(n)
      BY <2>2
    <3>2. PICK i \in 1..Len(porttab[n].queue) : porttab[n].queue[i] = m /\ i > Gone(n)
      BY <1>6, <3>1
    <3>3. PICK x : x = <<n, i>>
      OBVIOUS
    <3>4. x \in C
      BY <1>7, <3>2, <3>3
    <3> QED
      BY <3>4
  <2> QED
    BY <2>1, <2>2 DEF Placed
<1>9. \A x, y \in A : x = y
  <2>1. ASSUME NEW i \in A, NEW j \in A, i < j PROVE FALSE
    <3>1. Earlier(received[i].msg, received[j].msg) /\ received[i].msg = m /\ received[j].msg = m
      BY <1>1, <2>1 DEF DoneInv
    <3> QED
      BY <1>3, <3>1
  <2> QED
    BY <1>4, <2>1
<1>10. \A x, y \in B : x = y
  <2>1. ASSUME NEW i \in B, NEW j \in B, i < j PROVE FALSE
    <3>1. Earlier(disposed[i], disposed[j]) /\ disposed[i] = m /\ disposed[j] = m
      BY <1>1, <2>1 DEF DoneInv
    <3> QED
      BY <1>3, <3>1
  <2> QED
    BY <1>4, <2>1
<1>11. ASSUME NEW x \in C, NEW y \in C PROVE x = y
  <2>1. PICK n \in Queued : \E i \in 1..Len(porttab[n].queue) : x = <<n, i>> /\ porttab[n].queue[i] = m /\ i > Gone(n)
    BY <1>5
  <2>2. PICK i \in 1..Len(porttab[n].queue) : x = <<n, i>> /\ porttab[n].queue[i] = m
    BY <2>1
  <2>3. PICK o \in Queued : \E j \in 1..Len(porttab[o].queue) : y = <<o, j>> /\ porttab[o].queue[j] = m /\ j > Gone(o)
    BY <1>5
  <2>4. PICK j \in 1..Len(porttab[o].queue) : y = <<o, j>> /\ porttab[o].queue[j] = m
    BY <2>3
  <2>5. n = o
    <3>1. QueueOK(n) /\ QueueOK(o) /\ n \in Ports /\ o \in Ports
      BY <1>1, <1>6 DEF QueueInv
    <3>2. msgs[porttab[n].queue[i]].port = n /\ msgs[porttab[o].queue[j]].port = o
      BY <1>1, <2>2, <2>4, <3>1, QueueIs
    <3> QED
      BY <2>2, <2>4, <3>2
  <2>6. \A a, b \in 1..Len(porttab[n].queue) : a < b => porttab[n].queue[a] < porttab[n].queue[b]
    BY <1>1, <1>6, QueueIs DEF QueueInv
  <2>7. i \in Nat /\ j \in Nat /\ ~(i < j) /\ ~(j < i)
    BY <1>2, <1>6, <2>2, <2>4, <2>5, <2>6
  <2> QED
    BY <2>2, <2>4, <2>5, <2>7
<1>12. A = {} \/ B = {}
  <2>1. ASSUME NEW i \in A, NEW j \in B PROVE FALSE
    <3>1. Earlier(received[i].msg, disposed[j]) /\ received[i].msg = m /\ disposed[j] = m
      BY <1>1 DEF DoneInv
    <3> QED
      BY <1>3, <3>1
  <2> QED
    BY <2>1
<1>13. (A = {} /\ B = {}) \/ C = {}
  <2>1. ASSUME NEW x \in C PROVE A = {} /\ B = {}
    <3>1. PICK n \in Queued : \E i \in 1..Len(porttab[n].queue) : x = <<n, i>> /\ porttab[n].queue[i] = m /\ i > Gone(n)
      BY <1>5
    <3>2. PICK i \in DOMAIN porttab[n].queue : porttab[n].queue[i] = m /\ i > Gone(n)
      BY <1>6, <3>1
    <3>3. n \in Ports
      BY <1>6
    <3>4. /\ \A j \in DOMAIN received : Earlier(received[j].msg, porttab[n].queue[i])
          /\ \A j \in DOMAIN disposed : Earlier(disposed[j], porttab[n].queue[i])
      BY <1>1, <3>2, <3>3 DEF DoneInv
    <3>5. A = {}
      BY <1>3, <3>2, <3>4
    <3>6. B = {}
      BY <1>3, <3>2, <3>4
    <3> QED
      BY <3>5, <3>6
  <2> QED
    BY <2>1
<1> HIDE DEF A, B, C
<1>14. Cardinality(A) + Cardinality(B) + Cardinality(C) = 1
  <2>1. /\ A = {} => Cardinality(A) = 0
        /\ A # {} => Cardinality(A) = 1
    BY <1>9, OneOrNone
  <2>2. /\ B = {} => Cardinality(B) = 0
        /\ B # {} => Cardinality(B) = 1
    BY <1>10, OneOrNone
  <2>3. /\ C = {} => Cardinality(C) = 0
        /\ C # {} => Cardinality(C) = 1
    BY <1>11, OneOrNone
  <2> QED
    BY <1>8, <1>12, <1>13, <2>1, <2>2, <2>3
<1> QED
  BY <1>14 DEF A, B, C

LEMMA PortsImply ==
  ASSUME PortsInv
  PROVE  PortsSound
<1>1. TypeInv /\ CallInv /\ CountInv /\ QueueInv /\ DoneInv /\ NodesInv
  BY DEF PortsInv, DataInv
<1>2. MessageOnce
  BY <1>1, InOnePlace DEF MessageOnce, NodesInv
<1>3. SameIncarnation
  BY <1>1 DEF SameIncarnation, DoneInv, Earlier
<1>4. SemaphoresCount
  <2>1. ASSUME NEW n \in Ports, porttab[n].state = "alloc"
        PROVE  LET t == porttab[n] IN
               /\ Len(t.queue) = t.rsem.sem + Len(t.rsem.q) + Cardinality(Through("recv", n))
               /\ t.maxcnt = t.ssem.sem + Len(t.ssem.q) + Cardinality(Through("send", n)) + Len(t.queue)
    <3> DEFINE t == porttab[n]
               a == Counted(t.rsem, "recv", n, t.seq, call, ready)
               b == Counted(t.ssem, "send", n, t.seq, call, ready)
               m == Len(t.queue)
               x == t.maxcnt
    <3>1. m = a + 0 /\ x = b + m + 0
      BY <1>1, <2>1 DEF CountInv, CountsOK
    <3>2. a \in Int /\ b \in Int /\ m \in Nat
      BY <1>1, PortIsOK, CountedIs, PortIs
    <3>3. \A op : Through(op, n) = LetIn(op, n, t.seq, call, ready)
      BY DEF Through, LetIn
    <3>4. /\ a = t.rsem.sem + Len(t.rsem.q) + Cardinality(Through("recv", n))
          /\ b = t.ssem.sem + Len(t.ssem.q) + Cardinality(Through("send", n))
      BY <3>3 DEF Counted
    <3> HIDE DEF a, b, m, x
    <3>5. m = a /\ x = b + m
      BY <3>1, <3>2
    <3> QED
      BY <3>4, <3>5 DEF m, x
  <2> QED
    BY <2>1 DEF SemaphoresCount
<1>5. PortsTypeOK
  <2>1. ptfree \in 0..PT_MSGS
    <3>1. ptfree \in Nat /\ Cardinality(Nodes) \in Nat /\ ptfree + Cardinality(Nodes) = PT_MSGS
      BY <1>1, FS_CardinalityType DEF NodesInv, TypeInv
    <3> QED
      BY <3>1, PortsAssump
  <2>2. ASSUME NEW n \in Ports
        PROVE  porttab[n].state \in {"free", "limbo", "alloc"} /\ porttab[n].queue \in Seq(1..Len(msgs))
    <3>1. porttab[n].queue \in Seq(Nat) /\ porttab[n].state \in {"free", "limbo", "alloc"}
      BY <1>1, PortIs
    <3>2. \A i \in 1..Len(porttab[n].queue) : porttab[n].queue[i] \in 1..Len(msgs)
      BY <1>1, QueueIs DEF QueueInv
    <3> DEFINE q == porttab[n].queue
    <3> HIDE DEF q
    <3>3. q \in Seq(1..Len(msgs))
      BY <3>1, <3>2, SMTT(30) DEF q
    <3> QED
      BY <3>1, <3>3 DEF q
  <2>3. \A p \in Procs : call[p].op \in {"none", "send", "recv"}
    BY <1>1 DEF TypeInv, Call
  <2> QED
    BY <1>1, <2>1, <2>2, <2>3 DEF PortsTypeOK, TypeInv
<1> QED
  BY <1>2, <1>3, <1>4, <1>5 DEF PortsSound

\* Whatever ports are created, deleted and reset, whoever waits at them, and whatever the bounds:
\* every message is in one place, every node is counted, a process gets messages of the port it
\* asked for, in order, and the semaphores count them (ptsend, ptrecv, _ptclear).
THEOREM PortsKept == PortsSpec => []PortsSound
<1>1. PortsInit => PortsInv
  BY InitPorts
<1>2. PortsInv /\ [PortsNext]_pvars => PortsInv'
  BY PortsStep
<1>3. PortsInv => PortsSound
  BY PortsImply
<1> QED
  BY <1>1, <1>2, <1>3, PTL DEF PortsSpec
=============================================================================
