------------------------------- MODULE NatBox -------------------------------
(***************************************************************************)
(* The NAT data path: ipv6_in of net/ipv6.c for a NAT box that has its     *)
(* address, the translation table of net/nat.c, and what they use of the   *)
(* forwarding table and the neighbour cache.                               *)
(*                                                                         *)
(* One netin process per interface runs this code, at the same priority    *)
(* and without locks: outPktRW is split at the points where another netin  *)
(* can come in between with an effect on the tables.                       *)
(***************************************************************************)
EXTENDS Integers, Sequences, FiniteSets

CONSTANTS
    MAXNATENTRIES,
    MAXFWDTABENTRIES,
    Inside,      \* the inside interfaces (1 and 2); the Ethernet is 0
    Hosts,       \* addresses of hosts behind the box
    Peers,       \* addresses of hosts in the outside world
    Router,      \* the default router
    NatAddr,     \* the address of the box
    Unspec,      \* the unspecified address ::
    Ids,         \* echo identifiers the hosts and peers use
    MaxPackets,  \* bound: packets from the inside that add to a table
    MaxMoves,    \* bound: moves of a host to another inside interface
    MaxBusy      \* bound: netin processes that handle a packet at a time

NatIdx == 0..MAXNATENTRIES-1
Addrs == Hosts \cup Peers \cup {Router, NatAddr, Unspec}
Ifaces == Inside \cup {0}

ASSUME NatAssump ==
    /\ MAXNATENTRIES \in 1..32767     \* identifiers are int16 in outPktRW
    /\ MAXFWDTABENTRIES \in Nat
    /\ Inside \subseteq Nat \ {0} /\ Inside # {} /\ IsFiniteSet(Inside)
    /\ Ids \subseteq Nat
    /\ {Router, NatAddr, Unspec} \cap (Hosts \cup Peers) = {} /\ Hosts \cap Peers = {}
    /\ MaxPackets \in Nat /\ MaxMoves \in Nat /\ MaxBusy \in Nat

VARIABLES
    natTab,        \* the translation table
    NATIDCOUNTER,  \* uint16, never gets near its limit here
    fwdTab,        \* the /128 rows of the forwarding table, as getNextHop sees them
    neighbors,     \* the addresses with an entry in the neighbour cache
    where,         \* the interface each inside host is attached to
    npc, pkt, reg, \* per inside netin: where it is, its packet, its newID
    asked,         \* history: which host has sent to whom
    emitted,       \* history: the translations shown to the outside
    out,           \* the last packet handled and what became of it
    packets,       \* bounded by MaxPackets
    moved,         \* history: the hosts that have moved
    corrupt        \* outPktRW has written outside natTab

tables == <<natTab, NATIDCOUNTER, fwdTab, neighbors>>
vars == <<natTab, NATIDCOUNTER, fwdTab, neighbors, where, npc, pkt, reg,
          asked, emitted, out, packets, moved, corrupt>>

EmptyEntry == [src |-> Unspec, dest |-> Unspec, iface |-> 0, srcID |-> 0, transID |-> 0]
NoPacket == [src |-> Unspec, dest |-> Unspec, id |-> 0]
NoOut == [what |-> "none", kind |-> "echo", iface |-> 0, src |-> Unspec, dest |-> Unspec, id |-> 0]

-----------------------------------------------------------------------------
(* Plausible bugs, used to show that the properties can fail. *)

MatchesAnyPeer(k, s, id) == natTab[k].transID = id /\ natTab[k].dest # Unspec
InsertAtFront(t, ip, i) ==
    IF Len(t) >= MAXFWDTABENTRIES THEN t ELSE <<[ip |-> ip, iface |-> 0]>> \o t
OutStoreOnce(i) ==
    /\ npc[i] = "store" /\ npc' = [npc EXCEPT ![i] = "test"]
    /\ NATIDCOUNTER' = IF reg[i] = 0 THEN 1 ELSE reg[i]
    /\ UNCHANGED <<natTab, fwdTab, neighbors, where, pkt, reg, asked, emitted, out, packets, moved, corrupt>>
-----------------------------------------------------------------------------
(* The forwarding table: FwdTable shows that equal prefixes keep the order  *)
(* of insertion, that the first match wins and that a full table refuses.   *)

InsertFwd(t, ip, i) ==
    IF Len(t) >= MAXFWDTABENTRIES THEN t ELSE Append(t, [ip |-> ip, iface |-> i])

Rows(ip) == {n \in DOMAIN fwdTab : fwdTab[n].ip = ip}

\* getNextHop and the default route of fwdIPDatagram.
NextHop(ip) ==
    IF Rows(ip) = {} THEN [ip |-> Router, iface |-> 0]
    ELSE fwdTab[CHOOSE n \in Rows(ip) : \A m \in Rows(ip) : n <= m]

\* fwdIPDatagram: the frame that leaves, or nothing when the next hop is not
\* in the neighbour cache.
Forward(p, kind) ==
    LET hop == NextHop(p.dest)
    IN  [what |-> IF hop.ip \in neighbors THEN "send" ELSE "drop", kind |-> kind,
         iface |-> hop.iface, src |-> p.src, dest |-> p.dest, id |-> p.id]

-----------------------------------------------------------------------------
(* incPktRW *)

\* Entry k is the one for a packet from s with identifier id.
Matches(k, s, id) == natTab[k].transID = id /\ natTab[k].dest = s

Hits(s, id) == {k \in NatIdx : Matches(k, s, id)}
NatLookup(s, id) ==
    IF Hits(s, id) = {} THEN -1
    ELSE CHOOSE k \in Hits(s, id) : \A j \in Hits(s, id) : k <= j

\* The packet after incPktRW found entry k.
Rewritten(k, s, id) == [src |-> s, dest |-> natTab[k].src, id |-> natTab[k].srcID]

-----------------------------------------------------------------------------
\* natTab_init, fwdipv6_init, NDCache_init and the entry ipv6_init makes for
\* the default router.
Init ==
    /\ natTab = [k \in NatIdx |-> EmptyEntry]
    /\ NATIDCOUNTER = 0
    /\ fwdTab = <<>>
    /\ neighbors = {Router}
    /\ where \in [Hosts -> Inside]
    /\ npc = [i \in Inside |-> "idle"]
    /\ pkt = [i \in Inside |-> NoPacket]
    /\ reg = [i \in Inside |-> 0]
    /\ asked = {} /\ emitted = {}
    /\ out = NoOut
    /\ packets = 0 /\ moved = {}
    /\ corrupt = FALSE

\* The netin of interface i is free to take a packet.
Idle(i) ==
    /\ i \in Inside => npc[i] = "idle"
    /\ Cardinality({k \in Inside : npc[k] # "idle"}) < MaxBusy

\* A packet from s for the box itself: it belongs to a translation, or it is
\* handed to icmpv6_in or reassembly.
ForMe(i, s, id, kind) ==
    /\ Idle(i)
    /\ LET k == NatLookup(s, id)
       IN  out' = IF k # -1 THEN Forward(Rewritten(k, s, id), kind)
                  ELSE [NoOut EXCEPT !.what = "local", !.kind = kind, !.iface = i, !.src = s, !.id = id]
    /\ UNCHANGED <<tables, where, npc, pkt, reg, asked, emitted, packets, moved, corrupt>>

\* A packet from the Ethernet for somebody else.
Transit(s, id) ==
    /\ Idle(0)
    /\ LET k == NatLookup(s, id)
       IN  out' = IF k # -1 THEN Forward(Rewritten(k, s, id), "echo")
                  ELSE [NoOut EXCEPT !.what = "drop", !.src = s, !.id = id]
    /\ UNCHANGED <<tables, where, npc, pkt, reg, asked, emitted, packets, moved, corrupt>>

\* A neighbour solicitation by host h that no translation captures (the bytes
\* incPktRW reads as its identifier are the reserved field, 0; when one does,
\* the step is ForMe's): nsolicit_handler makes the neighbour entry, one more
\* row of the forwarding table, and answers.  The cache has room for all hosts.
NeighborSolicit(h) ==
    /\ Idle(where[h])
    /\ NatLookup(h, 0) = -1
    /\ packets < MaxPackets
    /\ packets' = packets + 1
    /\ neighbors' = neighbors \cup {h}
    /\ fwdTab' = InsertFwd(fwdTab, h, where[h])
    /\ out' = [NoOut EXCEPT !.what = "local", !.kind = "nsol", !.src = h]
    /\ UNCHANGED <<natTab, NATIDCOUNTER, where, npc, pkt, reg, asked, emitted, moved, corrupt>>

\* Host h is plugged into another inside network.
Move(h, i) ==
    /\ Cardinality(moved) < MaxMoves
    /\ where[h] # i
    /\ where' = [where EXCEPT ![h] = i]
    /\ moved' = moved \cup {h}
    /\ UNCHANGED <<tables, npc, pkt, reg, asked, emitted, out, packets, corrupt>>

-----------------------------------------------------------------------------
(* outPktRW *)

Goto(i, from, to) == npc[i] = from /\ npc' = [npc EXCEPT ![i] = to]

\* ipv6_in: a packet from the inside that is not for the box.
OutStart(h, d, id) ==
    LET i == where[h]
    IN  /\ packets < MaxPackets
        /\ packets' = packets + 1
        /\ Idle(i)
        /\ Goto(i, "idle", "load")
        /\ pkt' = [pkt EXCEPT ![i] = [src |-> h, dest |-> d, id |-> id]]
        /\ asked' = asked \cup {<<h, d>>}
        /\ UNCHANGED <<tables, where, reg, emitted, out, moved, corrupt>>

\* getNewID: NATIDCOUNTER++ is a load and a store.
OutLoad(i) ==
    /\ Goto(i, "load", "store")
    /\ reg' = [reg EXCEPT ![i] = NATIDCOUNTER]
    /\ UNCHANGED <<tables, where, pkt, asked, emitted, out, packets, moved, corrupt>>

OutStore(i) ==
    /\ Goto(i, "store", "test")
    /\ NATIDCOUNTER' = (reg[i] + 1) % 65536
    /\ UNCHANGED <<natTab, fwdTab, neighbors, where, pkt, reg, asked, emitted, out, packets, moved, corrupt>>

\* getNewID refuses, and ipv6_in drops the packet.
OutRefuse(i) ==
    /\ Goto(i, "test", "idle")
    /\ NATIDCOUNTER = MAXNATENTRIES
    /\ out' = [NoOut EXCEPT !.what = "drop", !.src = pkt[i].src]
    /\ UNCHANGED <<tables, where, pkt, reg, asked, emitted, packets, moved, corrupt>>

OutTest(i) ==
    /\ Goto(i, "test", "return")
    /\ NATIDCOUNTER # MAXNATENTRIES
    /\ UNCHANGED <<tables, where, pkt, reg, asked, emitted, out, packets, moved, corrupt>>

\* return NATIDCOUNTER - 1 reads the counter again.
OutReturn(i) ==
    /\ Goto(i, "return", "src")
    /\ reg' = [reg EXCEPT ![i] = NATIDCOUNTER - 1]
    /\ UNCHANGED <<tables, where, pkt, asked, emitted, out, packets, moved, corrupt>>

\* The entry is filled field by field: first the source ...
OutFillSrc(i) ==
    /\ Goto(i, "src", "dest")
    /\ IF reg[i] \in NatIdx
       THEN natTab' = [natTab EXCEPT ![reg[i]].src = pkt[i].src] /\ UNCHANGED corrupt
       ELSE corrupt' = TRUE /\ UNCHANGED natTab
    /\ UNCHANGED <<NATIDCOUNTER, fwdTab, neighbors, where, pkt, reg, asked, emitted, out, packets, moved>>

\* ... then the destination, the interface and srcID.
OutFillDest(i) ==
    /\ Goto(i, "dest", "mark")
    /\ natTab' = [natTab EXCEPT ![reg[i]] =
                     [@ EXCEPT !.dest = pkt[i].dest, !.iface = i, !.srcID = pkt[i].id]]
    /\ UNCHANGED <<NATIDCOUNTER, fwdTab, neighbors, where, pkt, reg, asked, emitted, out, packets, moved, corrupt>>

\* The packet as it leaves the box: our address and the new identifier.
OutRewritten(i) == [src |-> NatAddr, dest |-> pkt[i].dest, id |-> reg[i]]

\* The entry's transID, and the row for the way back: insertNewFwdTabEntry
\* reads the source and the interface from the entry.
OutMark(i) ==
    /\ Goto(i, "mark", "send")
    /\ natTab' = [natTab EXCEPT ![reg[i]].transID = reg[i]]
    /\ fwdTab' = InsertFwd(fwdTab, natTab[reg[i]].src, natTab[reg[i]].iface)
    /\ UNCHANGED <<NATIDCOUNTER, neighbors, where, pkt, reg, asked, emitted, out, packets, moved, corrupt>>

\* fwdIPDatagram
OutSend(i) ==
    /\ Goto(i, "send", "idle")
    /\ out' = Forward(OutRewritten(i), "echo")
    /\ emitted' = emitted \cup
         {[tid |-> reg[i], peer |-> pkt[i].dest, src |-> pkt[i].src, id |-> pkt[i].id, iface |-> i]}
    /\ UNCHANGED <<tables, where, pkt, reg, asked, packets, moved, corrupt>>

OutPktRW(i) ==
    OutLoad(i) \/ OutStore(i) \/ OutRefuse(i) \/ OutTest(i) \/ OutReturn(i)
        \/ OutFillSrc(i) \/ OutFillDest(i) \/ OutMark(i) \/ OutSend(i)

\* After a write outside the table the model stops.
Next ==
    /\ ~corrupt
    /\ \/ \E s \in Peers \cup {Router}, id \in Ids : ForMe(0, s, id, "echo") \/ Transit(s, id)
       \/ \E h \in Hosts, id \in Ids : ForMe(where[h], h, id, "echo")
       \/ \E i \in Inside : ForMe(i, Unspec, 0, "rsol")
       \/ \E h \in Hosts : NeighborSolicit(h)
       \/ \E h \in Hosts, i \in Inside : Move(h, i)
       \/ \E h \in Hosts, d \in Peers \cup Hosts, id \in Ids : h # d /\ OutStart(h, d, id)
       \/ \E i \in Inside : OutPktRW(i)

Spec == Init /\ [][Next]_vars

-----------------------------------------------------------------------------
(* Properties *)

TypeOK ==
    /\ natTab \in [NatIdx -> [src : Addrs, dest : Addrs, iface : Ifaces, srcID : Nat, transID : Nat]]
    /\ NATIDCOUNTER \in Nat /\ NATIDCOUNTER <= 65535
    /\ fwdTab \in Seq([ip : Addrs, iface : Ifaces])
    /\ neighbors \subseteq Addrs
    /\ where \in [Hosts -> Inside]
    /\ npc \in [Inside -> {"idle", "load", "store", "test", "return", "src", "dest", "mark", "send"}]
    /\ reg \in [Inside -> Nat]
    /\ corrupt \in BOOLEAN

\* A translation that has been shown to the outside brings the reply back:
\* incPktRW finds the entry of the host that sent the packet, with the
\* identifier the host used, whatever was translated since.
ReplyFindsHost ==
    \A e \in emitted :
        LET k == NatLookup(e.peer, e.tid)
        IN  /\ k # -1
            /\ natTab[k].iface = e.iface
            /\ Rewritten(k, e.peer, e.tid) = [src |-> e.peer, dest |-> e.src, id |-> e.id]

\* The rewritten reply also leaves by the interface the host is on, for a host
\* that the box has as a neighbour and that has never moved.
ReplyReachesHost ==
    \A e \in emitted :
        e.src \in neighbors \ moved => NextHop(e.src) = [ip |-> e.src, iface |-> e.iface]

\* A reply comes back to the host that asked (incPktRW and fwdIPDatagram).
RepliesReturn == ReplyFindsHost /\ ReplyReachesHost

\* No two packets are given the same identifier towards the same peer.
TranslationsDistinct ==
    \A e, f \in emitted : e.tid = f.tid /\ e.peer = f.peer => e = f

\* What the box passes on to an inside host comes from somebody the host has
\* itself sent a packet to.
UnaskedStaysOut ==
    out.what = "send" /\ out.dest \in Hosts /\ out.src # NatAddr =>
        <<out.dest, out.src>> \in asked

\* What leaves for the outside never shows the address of an inside host as
\* its source: neither a packet on its way out nor one that incPktRW rewrote.
PrivateStaysInside ==
    out.what = "send" /\ out.iface = 0 => out.src \notin Hosts

\* An entry, once a translation made with it has left the box, never changes.
EntriesStable ==
    [][\A e \in emitted : natTab'[e.tid] = natTab[e.tid]]_natTab

\* The translation table of outPktRW: its values are in range, no two packets
\* share a translation, and a translation in use never changes.
TranslationsHold == [](TypeOK /\ TranslationsDistinct) /\ EntriesStable

\* What crosses the border between inside and outside (ipv6_in).
BorderKept == PrivateStaysInside /\ UnaskedStaysOut

=============================================================================
