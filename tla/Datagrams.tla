------------------------------ MODULE Datagrams ------------------------------
(***************************************************************************)
(* Fragmented datagrams on their way to a box and the echo replies it      *)
(* sends: Fragments and Reassembly over a network that reorders, loses and *)
(* duplicates.  The peer cuts its datagrams as the code does.              *)
(***************************************************************************)
EXTENDS Reassembly, Fragments

CONSTANTS Ids, Length,       \* the datagrams of the peer and their lengths
          Loads,             \* sets of datagrams that are on their way together
          Echo,              \* those that are echo requests
          PeerPayload,       \* what the peer puts into a fragment
          MaxTwice           \* fragments the network may duplicate

ASSUME DatagramsAssump ==
  /\ Length \in [Ids -> Nat \ {0}] /\ Echo \subseteq Ids /\ Loads \subseteq SUBSET Ids
  /\ PeerPayload \in Nat \ {0} /\ PeerPayload % Unit = 0

VARIABLES net,       \* fragments that may arrive, in any order; one that never does is lost
          twice
nvars == <<net, twice>>
dvars == <<rvars, fvars, nvars>>

Pieces(id) ==
  LET whole == (Length[id] - (Length[id] % Unit)) \div PeerPayload
      cut == whole * PeerPayload
      rest == Length[id] - cut
      Piece(o, n) == [id |-> id, off |-> o, len |-> n, more |-> o + n < Length[id]]
  IN  {Piece(k * PeerPayload, PeerPayload) : k \in 0..(whole - 1)}
      \cup (IF rest >= Unit THEN {Piece(cut, rest - (rest % Unit))} ELSE {})
      \cup (IF rest % Unit # 0 THEN {Piece(Length[id] - (rest % Unit), rest % Unit)} ELSE {})

DatagramsInit == ReassemblyInit /\ FragmentsInit /\ (\E load \in Loads : net = UNION {Pieces(id) : id \in load}) /\ twice = 0

\* processDatagram: an echo request is turned round and sent back.
ProcessDatagram(list) ==
  IF list # <<>> /\ list[1].id \in Echo THEN SendTo(list[1].id, list[Len(list)].off + list[Len(list)].len)
  ELSE UNCHANGED out
\* netin takes a fragment from its queue when it is not in sendto.
Netin(f) ==
  /\ f \in net /\ out = NoDatagram
  /\ \/ net' = net \ {f} /\ UNCHANGED twice
     \/ twice < MaxTwice /\ twice' = twice + 1 /\ UNCHANGED net
  /\ Receive(f) /\ ProcessDatagram(Completed)
  /\ UNCHANGED <<bufs, sent>>
NetinSends == SendFragment /\ UNCHANGED <<rvars, nvars>>
Timer == TimerNext /\ UNCHANGED <<fvars, nvars>>
Second == Tick /\ UNCHANGED <<fvars, nvars>>

DatagramsNext ==
  \/ \E id \in Ids : \E f \in Pieces(id) : Netin(f)
  \/ NetinSends \/ Timer \/ Second
DatagramsSpec == DatagramsInit /\ [][DatagramsNext]_dvars

-----------------------------------------------------------------------------
\* The values of the variables; the size is an uint8.
DatagramsTypeOK ==
  /\ \A i \in Used : table[i].id \in Ids /\ \A f \in ToSet(table[i].list) : f \in Pieces(table[i].id)
  /\ tabSize \in 0..255 /\ timer.at \in Slots /\ timer.slept \in 0..REASSEMBLY_MAX_TIME
  /\ bufs \in 0..IPV6OUTNBUFS /\ out.off \in 0..out.len

\* A datagram that is handed on (reassembly.c:80) is the one that was sent, whole and in
\* order, whatever the network does and the timer removes.
DeliveredWhole ==
  \A k \in DOMAIN done : \E id \in Ids :
    ToSet(done[k]) = Pieces(id) /\ Len(done[k]) = Cardinality(Pieces(id)) /\ Copies(done[k])

\* A datagram is complete, and leaves the table, when each of its fragments has come once,
\* the first one first and the last one last, and none has been overtaken by more than
\* three (reassembly.c:315).  Otherwise it can stay incomplete for good, though nothing
\* is missing.
OvertakenByThree ==
  \A i \in Used :
    LET list == table[i].list IN
    ~(/\ Len(list) > 1 /\ Len(list) = Cardinality(Pieces(table[i].id)) /\ ToSet(list) = Pieces(table[i].id)
      /\ table[i].last /\ table[i].over <= 3)

\* The fragments of replies that do not fit the MTU (sendto.c:107): each begins where the one
\* before it ends, up to the one without the M flag, which ends the datagram; none is too long
\* or empty, and offsets are whole units.  Only the reply in sendto's loop is unfinished.
Unfinished == sent # <<>> /\ sent[Len(sent)].more
ReplyTiles ==
  /\ \A k \in DOMAIN sent :
       LET f == sent[k] IN
       /\ f.id \in Echo /\ f.len > 0 /\ f.off % Unit = 0 /\ HeadersLen + FragmentHeaderLen + f.len <= MTU
       /\ IF k = 1 \/ ~sent[k-1].more THEN f.off = 0
          ELSE f.id = sent[k-1].id /\ f.off = sent[k-1].off + sent[k-1].len
       /\ f.off + f.len <= Length[f.id] /\ f.more = (f.off + f.len < Length[f.id])
  /\ Unfinished => out # NoDatagram

\* A reply gets out of sendto's loop if there is a buffer for each full fragment and two
\* more; the buffers are never given back (sendto.c:172).
ReplyEnds == out # NoDatagram /\ bufs >= (out.len - out.off) \div MaxPayload + 2 ~> out = NoDatagram

\* Every entry leaves the table, complete or not (ipv6.c:342).
EntryGoes == \A i \in Slots : (table[i] # NoEntry) ~> (table[i] = NoEntry)

\* The reassembly table as netin and the timer share it (ipv6.c:342, reassembly.c).
TableSound == DatagramsTypeOK /\ SizeCountsEntries /\ EntriesExpire /\ OvertakenByThree

\* Nothing stays for ever: neither an entry in the table nor sendto in its loop; and no entry
\* goes before its time.
DatagramsEnd == OnlyOldRemoved /\ EntryGoes /\ ReplyEnds
=============================================================================
