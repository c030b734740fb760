------------------------------ MODULE Fragments ------------------------------
(***************************************************************************)
(* sendto and fragmentDatagram: a datagram that does not fit the MTU is    *)
(* cut into fragments, each in a buffer of ipv6bufpool.  Lengths are in    *)
(* bytes; Unit stands for the 8 octets that fragment offsets count.        *)
(***************************************************************************)
EXTENDS Integers, Sequences

CONSTANTS Unit, MTU, HeadersLen, FragmentHeaderLen, IPV6OUTNBUFS

ASSUME FragmentsAssump ==
  /\ Unit \in Nat \ {0} /\ HeadersLen \in Nat /\ FragmentHeaderLen \in Nat /\ IPV6OUTNBUFS \in Nat
  /\ MTU \in Nat /\ MTU - HeadersLen - FragmentHeaderLen >= Unit

VARIABLES out,     \* the datagram in sendto; off: the bytes already sent; known: its
                   \* destination has an entry in the neighbour cache
          bufs,    \* free buffers of ipv6bufpool
          sent     \* fragments written to the Ethernet, in order
fvars == <<out, bufs, sent>>

NoDatagram == [id |-> "none", len |-> 0, off |-> 0, known |-> FALSE]
Smaller(a, b) == IF a < b THEN a ELSE b
CheckLengthNever(n) == n
CheckLength(n) == IF n > Unit THEN n - (n % Unit) ELSE n
MaxPayload == CheckLength(MTU - HeadersLen - FragmentHeaderLen)

\* The length of the next fragment when so many bytes remain: the last ones are cut to
\* whole units again, so that an odd rest goes in a fragment of its own.
NextLen(remain) ==
  LET p == Smaller(remain, MaxPayload) IN IF p = remain THEN CheckLength(p) ELSE p
Fragment(d) ==
  LET n == NextLen(d.len - d.off) IN
  [id |-> d.id, off |-> d.off - (d.off % Unit), len |-> n, more |-> d.off + n < d.len]

FragmentsInit == out = NoDatagram /\ bufs = IPV6OUTNBUFS /\ sent = <<>>

\* The branch for a datagram that fits the MTU is empty: nothing is sent.
SendTo(id, len) ==
  IF HeadersLen + len > MTU THEN \E known \in BOOLEAN : out' = [id |-> id, len |-> len, off |-> 0, known |-> known]
  ELSE out' = NoDatagram

\* One pass of the loop.  getbuf waits for a buffer, and no buffer is given back.  Without
\* an entry for the destination sendnsolicit is called as a function with one argument,
\* which makes it print its usage, and the fragment is not sent.
SendFragment ==
  /\ out # NoDatagram /\ bufs > 0 /\ bufs' = bufs - 1
  /\ sent' = IF out.known THEN Append(sent, Fragment(out)) ELSE sent
  /\ out' = LET next == out.off + NextLen(out.len - out.off) IN
            IF next = out.len THEN NoDatagram ELSE [out EXCEPT !.off = next]
=============================================================================
