------------------------------ MODULE Checksum ------------------------------
(***************************************************************************)
(* checksumv6 over a pseudo-header and a message, word by word, and the    *)
(* receivers' checks of it.  M is 2^16 in the code: words, the index of    *)
(* the loop and the result are 16 bits wide, the sum 32.  The last word of *)
(* an odd message takes a byte from behind it: any word may be read.       *)
(***************************************************************************)
EXTENDS Integers

CONSTANTS M, HeaderLen, Lengths    \* lengths of messages, in bytes

ASSUME ChecksumAssump == M \in Nat \ {0, 1} /\ HeaderLen \in Nat /\ Lengths \subseteq Nat

VARIABLES msglen,       \* the length of the message, or 0 if there is none
          index,        \* bytes summed, 16 bits
          hsum, psum    \* sums of the words of the header and of the message
cvars == <<msglen, index, hsum, psum>>

Total == HeaderLen + msglen
ChecksumInit(l) == msglen = l /\ index = 0 /\ hsum = 0 /\ psum = 0
Summed == index >= Total

\* The body of the loop.  The index is narrower than the length it is compared with; the
\* words of a loop that never ends are not followed.
Words == IF Total < M - 1 THEN 0..(M - 1) ELSE {0}
SumWord ==
  /\ ~Summed /\ index' = (index + 2) % M
  /\ \E w \in Words :
       IF index < HeaderLen THEN hsum' = hsum + w /\ UNCHANGED psum
       ELSE psum' = (psum + w) % (M * M) /\ UNCHANGED hsum
  /\ UNCHANGED msglen

\* The carries are added once; a carry of that addition is lost.
Carries(s) == s \div M
FoldTwo(s) == IF s >= M THEN s % M ELSE s
Fold(s) == (s + Carries(s)) % M
LosesCarry(s) == (s % M) + Carries(s) >= M
Checksum(s) == M - 1 - Fold(s)
\* cksum_valid, with the header and the message summed apart; cs is the checksum field.
CksumValid(h, p, cs) == (Checksum(p + cs) + Checksum(h)) % M = M - 1

-----------------------------------------------------------------------------
\* The definition of the internet checksum: the sum modulo M - 1, with all ones for 0.
OnesSum(s) == IF s = 0 THEN 0 ELSE ((s - 1) % (M - 1)) + 1

\* checksum6.c:24 folds once.  The result is the internet checksum, and one more when
\* that addition carries again.
FoldedOnce ==
  Summed => Checksum(hsum + psum) = M - 1 - OnesSum(hsum + psum) + (IF LosesCarry(hsum + psum) THEN 1 ELSE 0)

\* cksum_valid (checksum6.c:30) takes a message for valid if and only if the sum of all of
\* it is all ones, except that a header and a message that are all ones each are refused,
\* and that no carry is lost.
ValidIffAllOnes ==
  Summed => \A cs \in 0..(M - 1) :
    ~LosesCarry(hsum) /\ ~LosesCarry(psum + cs) =>
      (CksumValid(hsum, psum, cs) <=>
         OnesSum(hsum + psum + cs) = M - 1 /\ ~(OnesSum(hsum) = M - 1 /\ OnesSum(psum + cs) = M - 1))

\* The loop ends for every message the index can count (checksum6.c:18); a message of
\* 2^16 - 1 bytes or more, header included, is summed for ever.
SumEnds == Total < M - 1 ~> Summed

\* checksum and cksum_valid against the definition of the internet checksum.
ChecksumRight == [](FoldedOnce /\ ValidIffAllOnes) /\ SumEnds
=============================================================================
