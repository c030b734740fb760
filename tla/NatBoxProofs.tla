---------------------------- MODULE NatBoxProofs ----------------------------
(***************************************************************************)
(* The translation table of the NAT box and what crosses the border, for   *)
(* tables, networks and numbers of packets of every size, when packets     *)
(* from the inside are handled one at a time.                              *)
(*                                                                         *)
(* NatInv says what outPktRW has done to the table when a packet is at a   *)
(* given point of it; RoomInv says what the rows of the forwarding table   *)
(* are worth while there is room for them; BorderInv is what they give.    *)
(***************************************************************************)
EXTENDS NatBox, DataLemmas

\* One packet at a time: no netin comes in between the steps of outPktRW.
Serial == MaxBusy = 1

\* The entry outPktRW makes for the packet of interface i.
Entry(i, t) == [src |-> pkt[i].src, dest |-> pkt[i].dest, iface |-> i, srcID |-> pkt[i].id, transID |-> t]

\* Where the counter has been raised and no entry is claimed, and where one is.
Unclaimed == {"test", "return", "src"}
Filling == {"dest", "mark", "send"}

\* An entry that is complete was made for a packet of an inside host.
Complete(k) ==
    /\ natTab[k].transID = k
    /\ natTab[k].src \in Hosts /\ natTab[k].dest \in Peers \cup Hosts
    /\ natTab[k].iface \in Inside
    /\ <<natTab[k].src, natTab[k].dest>> \in asked

\* A packet in progress is one that a host has sent.
PacketsInv ==
    /\ pkt \in [Inside -> [src : Addrs, dest : Addrs, id : Nat]]
    /\ \A i \in Inside : npc[i] # "idle" =>
         /\ pkt[i].src \in Hosts /\ pkt[i].dest \in Peers \cup Hosts
         /\ <<pkt[i].src, pkt[i].dest>> \in asked

\* Only one packet is in progress.
OneBusy == \A i, j \in Inside : npc[i] # "idle" /\ npc[j] # "idle" => i = j

\* The counter, and the identifier a packet in progress holds.
CounterInv ==
    /\ (\A i \in Inside : npc[i] \in {"idle", "load", "store"}) => NATIDCOUNTER <= MAXNATENTRIES
    /\ \A i \in Inside :
         /\ npc[i] = "store" => reg[i] = NATIDCOUNTER
         /\ npc[i] \in Unclaimed => NATIDCOUNTER \in 1..MAXNATENTRIES + 1
         /\ npc[i] \in {"src"} \cup Filling => reg[i] = NATIDCOUNTER - 1
         /\ npc[i] \in Filling /\ ~corrupt => reg[i] \in NatIdx

\* An entry is empty, complete, or being filled by the one packet in progress;
\* the used entries are below the counter.
TableInv ==
    /\ \A k \in NatIdx :
         \/ natTab[k] = EmptyEntry
         \/ Complete(k)
         \/ ~corrupt /\ \E i \in Inside : npc[i] \in {"dest", "mark"} /\ reg[i] = k
    /\ \A k \in NatIdx : natTab[k] # EmptyEntry =>
         k < NATIDCOUNTER /\ \A i \in Inside : npc[i] \in Unclaimed => k < NATIDCOUNTER - 1
    /\ ~corrupt => \A i \in Inside :
         /\ npc[i] = "dest" => natTab[reg[i]] = [EmptyEntry EXCEPT !.src = pkt[i].src]
         /\ npc[i] = "mark" => natTab[reg[i]] = Entry(i, 0)
         /\ npc[i] = "send" => natTab[reg[i]] = Entry(i, reg[i])

\* A translation that has left the box is what its entry says.
EmittedInv ==
    \A e \in emitted :
        /\ e \in [tid : NatIdx, peer : Peers \cup Hosts, src : Hosts, id : Nat, iface : Inside]
        /\ natTab[e.tid] = [src |-> e.src, dest |-> e.peer, iface |-> e.iface, srcID |-> e.id, transID |-> e.tid]
        /\ \A i \in Inside : npc[i] \in Filling => e.tid < reg[i]

\* The conjuncts of TypeOK.
TableType == natTab \in [NatIdx -> [src : Addrs, dest : Addrs, iface : Ifaces, srcID : Nat, transID : Nat]]
CounterType == NATIDCOUNTER \in Nat /\ NATIDCOUNTER <= 65535
RowsType == fwdTab \in Seq([ip : Addrs, iface : Ifaces])
HostsType == neighbors \subseteq Addrs /\ where \in [Hosts -> Inside]
ProcType == npc \in [Inside -> {"idle", "load", "store", "test", "return", "src", "dest", "mark", "send"}]
RegType == reg \in [Inside -> Nat]

Translations ==
    TableType /\ CounterType /\ ProcType /\ RegType /\ PacketsInv /\ OneBusy /\ CounterInv /\ TableInv /\ EmittedInv
NatInv == RowsType /\ HostsType /\ corrupt \in BOOLEAN /\ Translations

\* What the proofs use of the assumption on the constants.
LEMMA ConstFacts ==
    /\ MAXNATENTRIES \in Nat /\ MAXNATENTRIES > 0 /\ MAXNATENTRIES <= 32767
    /\ Inside \subseteq Nat /\ 0 \notin Inside /\ IsFiniteSet(Inside)
    /\ Ids \subseteq Nat
    /\ Unspec \notin Hosts /\ Unspec \notin Peers /\ NatAddr \notin Hosts /\ Router \notin Hosts
  BY NatAssump

\* With one packet at a time, a netin that may take a packet finds every inside
\* netin idle.
LEMMA IdleMeansAll ==
    ASSUME Serial, NEW i, Idle(i)
    PROVE  \A k \in Inside : npc[k] = "idle"
<1> DEFINE S == {k \in Inside : npc[k] # "idle"}
<1>1. IsFiniteSet(S)
  BY ConstFacts, FS_Subset
<1>2. Cardinality(S) \in Nat /\ Cardinality(S) < 1
  BY <1>1, FS_CardinalityType DEF Idle, Serial
<1>3. S = {}
  BY <1>1, <1>2, FS_EmptySet
<1> QED
  BY <1>3

\* The type invariant follows from NatInv.
LEMMA Types ==
    NatInv => TypeOK
  BY SMT DEF NatInv, Translations, TypeOK, TableType, CounterType, RowsType, HostsType, ProcType, RegType

\* The tables start empty and every netin idle.
LEMMA NatInvInit == Init => NatInv
<1> SUFFICES ASSUME Init PROVE NatInv
  OBVIOUS
<1>3. corrupt = FALSE
  BY DEF Init
<1>7. corrupt \in BOOLEAN
  BY <1>3
<1> USE ConstFacts DEF Init
<1>1. TableType /\ RowsType /\ HostsType
  BY DEF TableType, RowsType, HostsType, EmptyEntry, Addrs, Ifaces
<1>2. CounterType /\ ProcType /\ RegType
  BY DEF CounterType, ProcType, RegType
<1>4. PacketsInv
  BY DEF PacketsInv, NoPacket, Addrs
<1>5. OneBusy /\ CounterInv /\ EmittedInv
  BY DEF OneBusy, CounterInv, EmittedInv, Unclaimed, Filling
<1>6. TableInv
  BY DEF TableInv, Unclaimed, Filling
<1> QED
  BY <1>1, <1>2, <1>3, <1>4, <1>5, <1>6, <1>7 DEF NatInv, Translations

-----------------------------------------------------------------------------
\* The steps that leave the translations and the packets in progress alone.
Steady ==
    /\ natTab' = natTab /\ NATIDCOUNTER' = NATIDCOUNTER /\ npc' = npc /\ pkt' = pkt /\ reg' = reg
    /\ asked' = asked /\ emitted' = emitted /\ corrupt' = corrupt

\* Every step leaves the translations alone, takes in a packet or is one of
\* outPktRW.
LEMMA StepCases ==
    ASSUME [Next]_vars
    PROVE  \/ Steady
           \/ ~corrupt /\ \E h \in Hosts, d \in Peers \cup Hosts, id \in Ids : OutStart(h, d, id)
           \/ ~corrupt /\ \E i \in Inside : OutPktRW(i)
<1>1. CASE UNCHANGED vars
  BY <1>1 DEF vars, Steady
<1>2. CASE Next
  BY <1>2 DEF Next, Steady, ForMe, Transit, NeighborSolicit, Move, tables
<1> QED
  BY <1>1, <1>2

\* insertNewFwdTabEntry keeps the rows well typed.
LEMMA InsertTyped ==
    ASSUME NEW t \in Seq([ip : Addrs, iface : Ifaces]), NEW ip \in Addrs, NEW i \in Ifaces
    PROVE  InsertFwd(t, ip, i) \in Seq([ip : Addrs, iface : Ifaces])
<1> DEFINE R == [ip : Addrs, iface : Ifaces]
<1>1. [ip |-> ip, iface |-> i] \in R
  OBVIOUS
<1>2. \A e \in R : Append(t, e) \in Seq(R)
  OBVIOUS
<1> QED
  BY <1>1, <1>2 DEF InsertFwd

\* Every step keeps the rows, the neighbours and the hosts' places well typed.
LEMMA RowsStep ==
    ASSUME NatInv, [Next]_vars
    PROVE  RowsType' /\ HostsType'
<1>0. RowsType /\ HostsType /\ TableType /\ CounterInv
  BY DEF NatInv, Translations
<1>1. ASSUME NEW h \in Hosts, NeighborSolicit(h)
      PROVE  RowsType' /\ HostsType'
  <2>1. /\ fwdTab' = InsertFwd(fwdTab, h, where[h])
        /\ neighbors' = neighbors \cup {h} /\ where' = where
    BY <1>1 DEF NeighborSolicit
  <2>2. h \in Addrs /\ where[h] \in Ifaces
    BY <1>0 DEF HostsType, Addrs, Ifaces
  <2> QED
    BY <2>1, <2>2, <1>0, InsertTyped DEF RowsType, HostsType
<1>2. ASSUME NEW h \in Hosts, NEW i \in Inside, Move(h, i)
      PROVE  RowsType' /\ HostsType'
  <2>1. fwdTab' = fwdTab /\ neighbors' = neighbors /\ where' = [where EXCEPT ![h] = i]
    BY <1>2 DEF Move, tables
  <2> QED
    BY <2>1, <1>0 DEF RowsType, HostsType
<1>3. ASSUME NEW i \in Inside, OutMark(i), ~corrupt
      PROVE  RowsType' /\ HostsType'
  <2>1. /\ fwdTab' = InsertFwd(fwdTab, natTab[reg[i]].src, natTab[reg[i]].iface)
        /\ npc[i] = "mark" /\ neighbors' = neighbors /\ where' = where
    BY <1>3 DEF OutMark, Goto
  <2>2. reg[i] \in NatIdx
    BY <1>0, <2>1, <1>3 DEF CounterInv, Filling
  <2>3. natTab[reg[i]].src \in Addrs /\ natTab[reg[i]].iface \in Ifaces
    BY <1>0, <2>2 DEF TableType
  <2> QED
    BY <2>1, <2>3, <1>0, InsertTyped DEF RowsType, HostsType
<1>4. \/ \E h \in Hosts : NeighborSolicit(h)
      \/ \E h \in Hosts, i \in Inside : Move(h, i)
      \/ ~corrupt /\ \E i \in Inside : OutMark(i)
      \/ fwdTab' = fwdTab /\ neighbors' = neighbors /\ where' = where
  <2>1. CASE UNCHANGED vars
    BY <2>1 DEF vars
  <2>2. CASE Next
    <3>1. ASSUME NEW i \in Inside, OutPktRW(i), ~OutMark(i)
          PROVE  fwdTab' = fwdTab /\ neighbors' = neighbors /\ where' = where
      BY <3>1 DEF tables, OutPktRW, OutLoad, OutStore, OutRefuse, OutTest, OutReturn, OutFillSrc,
         OutFillDest, OutSend
    <3>2. \/ \E i \in Inside : OutPktRW(i)
          \/ \E h \in Hosts : NeighborSolicit(h)
          \/ \E h \in Hosts, i \in Inside : Move(h, i)
          \/ fwdTab' = fwdTab /\ neighbors' = neighbors /\ where' = where
      BY <2>2 DEF Next, tables, ForMe, Transit, OutStart
    <3> QED
      BY <2>2, <3>1, <3>2 DEF Next
  <2> QED
    BY <2>1, <2>2
<1> QED
  BY <1>0, <1>1, <1>2, <1>3, <1>4 DEF RowsType, HostsType

-----------------------------------------------------------------------------
\* outPktRW, action by action.
\* A translation that has left the box, and its entry.
LEMMA EmittedFacts ==
    ASSUME EmittedInv, NEW e \in emitted
    PROVE  /\ e.tid \in NatIdx /\ e.peer \in Peers \cup Hosts /\ e.src \in Hosts /\ e.id \in Nat /\ e.iface \in Inside
           /\ natTab[e.tid].src = e.src /\ natTab[e.tid].dest = e.peer /\ natTab[e.tid].iface = e.iface
           /\ natTab[e.tid].srcID = e.id /\ natTab[e.tid].transID = e.tid
           /\ natTab[e.tid] # EmptyEntry
           /\ \A i \in Inside : npc[i] \in Filling => e.tid < reg[i]
<1>1. e \in [tid : NatIdx, peer : Peers \cup Hosts, src : Hosts, id : Nat, iface : Inside]
  BY DEF EmittedInv
<1>2. natTab[e.tid] = [src |-> e.src, dest |-> e.peer, iface |-> e.iface, srcID |-> e.id, transID |-> e.tid]
  BY DEF EmittedInv
<1>3. e.peer # Unspec
  BY <1>1, ConstFacts
<1> QED
  BY <1>1, <1>2, <1>3 DEF EmittedInv, EmptyEntry

\* A step that changes no entry that has left the box keeps EmittedInv.
LEMMA EmittedKept ==
    ASSUME EmittedInv, emitted' = emitted,
           \A e \in emitted : natTab'[e.tid] = natTab[e.tid],
           \A i \in Inside : npc'[i] \in Filling => \A e \in emitted : e.tid < reg'[i]
    PROVE  EmittedInv'
  BY DEF EmittedInv

\* Process i goes on, and is the only one that does something.
LEMMA OnlyOne ==
    ASSUME OneBusy, ProcType, NEW i \in Inside, NEW from, NEW to, Goto(i, from, to), from # "idle",
           to \in {"idle", "load", "store", "test", "return", "src", "dest", "mark", "send"}
    PROVE  /\ npc[i] = from /\ npc'[i] = to /\ ProcType' /\ OneBusy'
           /\ \A k \in Inside : k # i => npc[k] = "idle" /\ npc'[k] = "idle"
  BY DEF OneBusy, ProcType, Goto

\* A packet from the inside is taken in: nothing of the table changes.
LEMMA StartKeeps ==
    ASSUME Serial, Translations, ~corrupt, where \in [Hosts -> Inside],
           NEW h \in Hosts, NEW d \in Peers \cup Hosts, NEW id \in Ids, OutStart(h, d, id)
    PROVE  Translations'
<1> DEFINE i == where[h]
<1> USE DEF Translations
<1>1. /\ i \in Inside /\ \A k \in Inside : npc[k] = "idle"
      /\ npc' = [npc EXCEPT ![i] = "load"]
      /\ pkt' = [pkt EXCEPT ![i] = [src |-> h, dest |-> d, id |-> id]]
      /\ asked' = asked \cup {<<h, d>>}
  BY IdleMeansAll DEF OutStart, Goto
<1>2. natTab' = natTab /\ NATIDCOUNTER' = NATIDCOUNTER /\ reg' = reg /\ emitted' = emitted /\ ~corrupt'
  BY DEF OutStart, tables
<1> HIDE DEF i
<1>3. TableType' /\ RegType' /\ CounterType'
  <2>1. TableType' /\ RegType'
    BY <1>2 DEF TableType, RegType
  <2>2. CounterType'
    BY <1>2 DEF CounterType
  <2> QED
    BY <2>1, <2>2
<1>4. ProcType' /\ \A k \in Inside : npc'[k] = IF k = i THEN "load" ELSE "idle"
  BY <1>1 DEF ProcType
<1>5. PacketsInv'
  BY <1>1, <1>4, ConstFacts DEF PacketsInv, Addrs
<1>6. OneBusy' /\ CounterInv'
  BY <1>1, <1>2, <1>4 DEF OneBusy, CounterInv, Unclaimed, Filling
<1>7. TableInv'
  BY <1>1, <1>2, <1>4 DEF TableInv, Complete, Unclaimed, Filling
<1>8. EmittedInv'
  BY <1>2, <1>4, EmittedKept DEF Filling
<1> QED
  BY <1>3, <1>4, <1>5, <1>6, <1>7, <1>8

\* getNewID loads the counter, and nobody changes it before the store.
LEMMA LoadKeeps ==
    ASSUME Translations, ~corrupt, NEW i \in Inside, OutLoad(i)
    PROVE  Translations'
<1> USE DEF Translations
<1>1. /\ npc[i] = "load" /\ npc'[i] = "store" /\ ProcType' /\ OneBusy'
      /\ \A k \in Inside : k # i => npc[k] = "idle" /\ npc'[k] = "idle"
  BY OnlyOne DEF OutLoad
<1>2. /\ reg' = [reg EXCEPT ![i] = NATIDCOUNTER]
      /\ UNCHANGED natTab /\ UNCHANGED NATIDCOUNTER /\ UNCHANGED pkt /\ UNCHANGED asked
      /\ UNCHANGED emitted /\ ~corrupt'
  BY DEF OutLoad, tables
<1>3. TableType' /\ CounterType' /\ RegType'
  BY <1>2 DEF TableType, CounterType, RegType
<1>4. PacketsInv' /\ CounterInv'
  <2>1. PacketsInv'
    BY <1>1, <1>2 DEF PacketsInv
  <2>2. CounterInv'
    BY <1>1, <1>2 DEF CounterInv, RegType, Unclaimed, Filling
  <2> QED
    BY <2>1, <2>2
<1>5. TableInv'
  BY <1>1, <1>2 DEF TableInv, Complete, Unclaimed, Filling
<1>6. EmittedInv'
  BY <1>1, <1>2, EmittedKept DEF Filling
<1> QED
  BY <1>1, <1>3, <1>4, <1>5, <1>6

\* getNewID stores the counter plus one: no identifier in use is at or above it.
LEMMA StoreKeeps ==
    ASSUME Translations, ~corrupt, NEW i \in Inside, OutStore(i)
    PROVE  Translations'
<1> USE DEF Translations
<1>1. /\ npc[i] = "store" /\ npc'[i] = "test" /\ ProcType' /\ OneBusy'
      /\ \A k \in Inside : k # i => npc[k] = "idle" /\ npc'[k] = "idle"
  BY OnlyOne DEF OutStore
<1>2. /\ UNCHANGED natTab /\ UNCHANGED reg /\ UNCHANGED pkt /\ UNCHANGED asked
      /\ UNCHANGED emitted /\ ~corrupt'
  BY DEF OutStore
<1>3. NATIDCOUNTER' = NATIDCOUNTER + 1 /\ NATIDCOUNTER <= MAXNATENTRIES
  <2>1. reg[i] = NATIDCOUNTER /\ NATIDCOUNTER <= MAXNATENTRIES
    BY <1>1 DEF CounterInv
  <2>2. NATIDCOUNTER' = (reg[i] + 1) % 65536
    BY DEF OutStore
  <2> QED
    BY <2>1, <2>2, ConstFacts DEF CounterType
<1>4. TableType' /\ RegType'
  BY <1>2 DEF TableType, RegType
<1>5. CounterType' /\ CounterInv' /\ PacketsInv'
  BY <1>1, <1>2, <1>3, ConstFacts DEF CounterType, PacketsInv, CounterInv, Unclaimed, Filling
<1>6. TableInv'
  BY <1>1, <1>2, <1>3 DEF TableInv, Complete, Unclaimed, Filling, CounterType, NatIdx
<1>7. EmittedInv'
  BY <1>1, <1>2, EmittedKept DEF Filling
<1> QED
  BY <1>1, <1>4, <1>5, <1>6, <1>7

\* getNewID refuses and the counter stays one too high.
LEMMA RefuseKeeps ==
    ASSUME Translations, ~corrupt, NEW i \in Inside, OutRefuse(i)
    PROVE  Translations'
<1> USE DEF Translations
<1>1. /\ npc[i] = "test" /\ npc'[i] = "idle" /\ ProcType' /\ OneBusy'
      /\ \A k \in Inside : k # i => npc[k] = "idle" /\ npc'[k] = "idle"
  BY OnlyOne DEF OutRefuse
<1>2. /\ NATIDCOUNTER = MAXNATENTRIES
      /\ UNCHANGED natTab /\ UNCHANGED NATIDCOUNTER /\ UNCHANGED reg /\ UNCHANGED pkt
      /\ UNCHANGED asked /\ UNCHANGED emitted /\ ~corrupt'
  BY DEF OutRefuse, tables
<1>3. TableType' /\ CounterType' /\ RegType'
  BY <1>2 DEF TableType, CounterType, RegType
<1>4. PacketsInv' /\ CounterInv'
  <2>1. PacketsInv'
    BY <1>1, <1>2 DEF PacketsInv
  <2>2. CounterInv'
    BY <1>1, <1>2 DEF CounterInv, CounterType, Unclaimed, Filling
  <2> QED
    BY <2>1, <2>2
<1>5. TableInv'
  BY <1>1, <1>2 DEF TableInv, Complete, Unclaimed, Filling
<1>6. EmittedInv'
  BY <1>1, <1>2, EmittedKept DEF Filling
<1> QED
  BY <1>1, <1>3, <1>4, <1>5, <1>6

\* getNewID goes on below the limit.
LEMMA TestKeeps ==
    ASSUME Translations, ~corrupt, NEW i \in Inside, OutTest(i)
    PROVE  Translations'
<1> USE DEF Translations
<1>1. /\ npc[i] = "test" /\ npc'[i] = "return" /\ ProcType' /\ OneBusy'
      /\ \A k \in Inside : k # i => npc[k] = "idle" /\ npc'[k] = "idle"
  BY OnlyOne DEF OutTest
<1>2. /\ UNCHANGED natTab /\ UNCHANGED NATIDCOUNTER /\ UNCHANGED reg /\ UNCHANGED pkt
      /\ UNCHANGED asked /\ UNCHANGED emitted /\ ~corrupt'
  BY DEF OutTest, tables
<1>3. TableType' /\ CounterType' /\ RegType'
  BY <1>2 DEF TableType, CounterType, RegType
<1>4. PacketsInv' /\ CounterInv'
  <2>1. PacketsInv'
    BY <1>1, <1>2 DEF PacketsInv
  <2>2. CounterInv'
    BY <1>1, <1>2 DEF CounterInv, CounterType, Unclaimed, Filling
  <2> QED
    BY <2>1, <2>2
<1>5. TableInv'
  BY <1>1, <1>2 DEF TableInv, Complete, Unclaimed, Filling
<1>6. EmittedInv'
  BY <1>1, <1>2, EmittedKept DEF Filling
<1> QED
  BY <1>1, <1>3, <1>4, <1>5, <1>6

\* getNewID returns the counter less one, an index no entry has.
LEMMA ReturnKeeps ==
    ASSUME Translations, ~corrupt, NEW i \in Inside, OutReturn(i)
    PROVE  Translations'
<1> USE DEF Translations
<1>1. /\ npc[i] = "return" /\ npc'[i] = "src" /\ ProcType' /\ OneBusy'
      /\ \A k \in Inside : k # i => npc[k] = "idle" /\ npc'[k] = "idle"
  BY OnlyOne DEF OutReturn
<1>2. /\ reg' = [reg EXCEPT ![i] = NATIDCOUNTER - 1]
      /\ UNCHANGED natTab /\ UNCHANGED NATIDCOUNTER /\ UNCHANGED pkt
      /\ UNCHANGED asked /\ UNCHANGED emitted /\ ~corrupt'
  BY DEF OutReturn, tables
<1>3. NATIDCOUNTER \in 1..MAXNATENTRIES + 1 /\ NATIDCOUNTER - 1 \in Nat
  BY <1>1, ConstFacts DEF CounterInv, Unclaimed
<1>4. TableType' /\ CounterType' /\ RegType'
  BY <1>2, <1>3 DEF TableType, CounterType, RegType
<1>5. PacketsInv' /\ CounterInv'
  <2>1. PacketsInv'
    BY <1>1, <1>2 DEF PacketsInv
  <2>2. CounterInv'
    BY <1>1, <1>2, <1>3 DEF CounterInv, CounterType, RegType, Unclaimed, Filling
  <2> QED
    BY <2>1, <2>2
<1>6. TableInv'
  BY <1>1, <1>2 DEF TableInv, Complete, Unclaimed, Filling
<1>7. EmittedInv'
  BY <1>1, <1>2, EmittedKept DEF Filling
<1> QED
  BY <1>1, <1>4, <1>5, <1>6, <1>7

\* An identifier that has been given out has no entry yet.
LEMMA ClaimedEmpty ==
    ASSUME TableInv, CounterInv, CounterType, NEW i \in Inside, npc[i] = "src", reg[i] \in NatIdx
    PROVE  natTab[reg[i]] = EmptyEntry
<1>1. reg[i] = NATIDCOUNTER - 1
  BY DEF CounterInv
<1> QED
  BY <1>1 DEF TableInv, Unclaimed, NatIdx, CounterType

\* outPktRW writes the source into an empty entry, or outside the table after
\* which the model stops.
LEMMA FillSrcKeeps ==
    ASSUME Translations, ~corrupt, NEW i \in Inside, OutFillSrc(i)
    PROVE  Translations'
<1> USE DEF Translations
<1>1. /\ npc[i] = "src" /\ npc'[i] = "dest" /\ ProcType' /\ OneBusy'
      /\ \A k \in Inside : k # i => npc[k] = "idle" /\ npc'[k] = "idle"
  BY OnlyOne DEF OutFillSrc
<1>2. /\ UNCHANGED NATIDCOUNTER /\ UNCHANGED reg /\ UNCHANGED pkt /\ UNCHANGED asked /\ UNCHANGED emitted
      /\ IF reg[i] \in NatIdx
         THEN natTab' = [natTab EXCEPT ![reg[i]].src = pkt[i].src] /\ ~corrupt'
         ELSE corrupt' /\ natTab' = natTab
  BY DEF OutFillSrc
<1>3. CounterType' /\ RegType'
  BY <1>2 DEF CounterType, RegType
<1>4. PacketsInv'
  BY <1>1, <1>2 DEF PacketsInv
<1>5. CounterInv'
  BY <1>1, <1>2 DEF CounterInv, Unclaimed, Filling
<1>6. \A e \in emitted : e.tid \in NatIdx /\ e.tid < reg[i]
  BY <1>1, EmittedFacts DEF TableInv, CounterInv, Unclaimed
<1>7. CASE reg[i] \in NatIdx
  <2>1. /\ natTab' = [natTab EXCEPT ![reg[i]] = [@ EXCEPT !.src = pkt[i].src]]
        /\ ~corrupt' /\ natTab[reg[i]] = EmptyEntry
    BY <1>1, <1>2, <1>7, ClaimedEmpty
  <2>2. natTab'[reg[i]] = [EmptyEntry EXCEPT !.src = pkt[i].src]
    BY <2>1, <1>7 DEF TableType
  <2>3. \A k \in NatIdx : k # reg[i] => natTab'[k] = natTab[k]
    BY <2>1, <1>7 DEF TableType
  <2>4. TableType'
    <3>1. pkt[i].src \in Addrs
      BY DEF PacketsInv
    <3> QED
      BY <2>1, <3>1 DEF TableType
  <2>5. TableInv'
    <3>1. reg[i] < NATIDCOUNTER
      BY <1>1 DEF CounterInv, CounterType
    <3> QED
      BY <1>1, <1>2, <2>1, <2>2, <2>3, <3>1 DEF TableInv, Complete, Unclaimed, Filling
  <2>6. EmittedInv'
    BY <1>1, <1>2, <1>6, <2>3, EmittedKept DEF Filling, NatIdx
  <2> QED
    BY <1>1, <1>3, <1>4, <1>5, <2>4, <2>5, <2>6
<1>8. CASE reg[i] \notin NatIdx
  <2>1. natTab' = natTab /\ corrupt'
    BY <1>2, <1>8
  <2>2. TableType'
    BY <2>1 DEF TableType
  <2>3. TableInv'
    BY <1>1, <1>2, <2>1 DEF TableInv, Complete, Unclaimed, Filling
  <2>4. EmittedInv'
    BY <1>1, <1>2, <1>6, <2>1, EmittedKept DEF Filling
  <2> QED
    BY <1>1, <1>3, <1>4, <1>5, <2>2, <2>3, <2>4
<1> QED
  BY <1>7, <1>8

\* outPktRW fills the rest of the entry it has claimed.
LEMMA FillDestKeeps ==
    ASSUME Translations, ~corrupt, NEW i \in Inside, OutFillDest(i)
    PROVE  Translations'
<1> USE DEF Translations
<1>1. /\ npc[i] = "dest" /\ npc'[i] = "mark" /\ ProcType' /\ OneBusy'
      /\ \A k \in Inside : k # i => npc[k] = "idle" /\ npc'[k] = "idle"
  BY OnlyOne DEF OutFillDest
<1>2. /\ UNCHANGED NATIDCOUNTER /\ UNCHANGED reg /\ UNCHANGED pkt /\ UNCHANGED asked /\ UNCHANGED emitted
      /\ ~corrupt'
      /\ natTab' = [natTab EXCEPT ![reg[i]] =
                       [@ EXCEPT !.dest = pkt[i].dest, !.iface = i, !.srcID = pkt[i].id]]
  BY DEF OutFillDest
<1>3. CounterType' /\ RegType'
  BY <1>2 DEF CounterType, RegType
<1>4. PacketsInv'
  BY <1>1, <1>2 DEF PacketsInv
<1>5. CounterInv'
  BY <1>1, <1>2 DEF CounterInv, Unclaimed, Filling
<1>6. reg[i] \in NatIdx /\ natTab[reg[i]] = [EmptyEntry EXCEPT !.src = pkt[i].src]
  BY <1>1 DEF CounterInv, TableInv, Filling
<1>7. natTab'[reg[i]] = Entry(i, 0)
  BY <1>2, <1>6 DEF TableType, Entry, EmptyEntry
<1>8. \A k \in NatIdx : k # reg[i] => natTab'[k] = natTab[k]
  BY <1>2, <1>6 DEF TableType
<1>9. TableType'
  <2>1. pkt[i].dest \in Addrs /\ pkt[i].id \in Nat /\ i \in Ifaces
    BY DEF PacketsInv, Ifaces
  <2> QED
    BY <1>2, <2>1 DEF TableType
<1>10. TableInv'
  <2>1. reg[i] < NATIDCOUNTER
    BY <1>1 DEF CounterInv, CounterType, Filling
  <2>2. Entry(i, 0)' = Entry(i, 0)
    BY <1>2 DEF Entry
  <2>3. \A k \in NatIdx : \/ natTab'[k] = EmptyEntry
                          \/ Complete(k)'
                          \/ ~corrupt' /\ \E j \in Inside : npc'[j] \in {"dest", "mark"} /\ reg'[j] = k
    <3>1. \A k \in NatIdx : k # reg[i] => natTab[k] = EmptyEntry \/ Complete(k)
      BY <1>1 DEF TableInv
    <3>2. \A k \in NatIdx : k # reg[i] => natTab'[k] = EmptyEntry \/ Complete(k)'
      BY <1>2, <1>8, <3>1 DEF Complete
    <3>3. npc'[i] \in {"dest", "mark"} /\ reg'[i] = reg[i]
      BY <1>1, <1>2
    <3>4. ~corrupt' /\ \E j \in Inside : npc'[j] \in {"dest", "mark"} /\ reg'[j] = reg[i]
      BY <1>2, <3>3, Zenon
    <3> QED
      BY <3>2, <3>4
  <2>4. \A k \in NatIdx : natTab'[k] # EmptyEntry => k < NATIDCOUNTER'
    BY <1>2, <1>8, <2>1 DEF TableInv
  <2> QED
    BY <1>1, <1>2, <1>7, <2>2, <2>3, <2>4 DEF TableInv, Unclaimed
<1>11. EmittedInv'
  <2>1. \A e \in emitted : e.tid \in NatIdx /\ e.tid < reg[i]
    BY <1>1, EmittedFacts DEF Filling
  <2> QED
    BY <1>1, <1>2, <1>8, <2>1, EmittedKept DEF Filling, NatIdx
<1> QED
  BY <1>1, <1>3, <1>4, <1>5, <1>9, <1>10, <1>11

\* outPktRW gives the entry its identifier: it is complete.
LEMMA MarkKeeps ==
    ASSUME Translations, ~corrupt, NEW i \in Inside, OutMark(i)
    PROVE  Translations'
<1> USE DEF Translations
<1>1. /\ npc[i] = "mark" /\ npc'[i] = "send" /\ ProcType' /\ OneBusy'
      /\ \A k \in Inside : k # i => npc[k] = "idle" /\ npc'[k] = "idle"
  BY OnlyOne DEF OutMark
<1>2. /\ UNCHANGED NATIDCOUNTER /\ UNCHANGED reg /\ UNCHANGED pkt /\ UNCHANGED asked /\ UNCHANGED emitted
      /\ ~corrupt'
      /\ natTab' = [natTab EXCEPT ![reg[i]] = [@ EXCEPT !.transID = reg[i]]]
  BY DEF OutMark
<1>3. CounterType' /\ RegType'
  BY <1>2 DEF CounterType, RegType
<1>4. PacketsInv'
  BY <1>1, <1>2 DEF PacketsInv
<1>5. CounterInv'
  BY <1>1, <1>2 DEF CounterInv, Unclaimed, Filling
<1>6. reg[i] \in NatIdx /\ natTab[reg[i]] = Entry(i, 0)
  BY <1>1 DEF CounterInv, TableInv, Filling
<1>7. natTab'[reg[i]] = Entry(i, reg[i])
  BY <1>2, <1>6 DEF TableType, Entry
<1>8. \A k \in NatIdx : k # reg[i] => natTab'[k] = natTab[k]
  BY <1>2, <1>6 DEF TableType
<1>9. TableType'
  BY <1>2, <1>6 DEF TableType, NatIdx
<1>10. TableInv'
  <2>1. reg[i] < NATIDCOUNTER
    BY <1>1 DEF CounterInv, CounterType, Filling
  <2>2. Entry(i, reg[i])' = Entry(i, reg[i])
    BY <1>2 DEF Entry
  <2>3. Complete(reg[i])'
    <3>1. /\ natTab'[reg[i]].transID = reg[i] /\ natTab'[reg[i]].src = pkt[i].src
          /\ natTab'[reg[i]].dest = pkt[i].dest /\ natTab'[reg[i]].iface = i
      BY <1>7 DEF Entry
    <3> QED
      BY <1>1, <1>2, <3>1 DEF Complete, PacketsInv
  <2> QED
    BY <1>1, <1>2, <1>7, <1>8, <2>1, <2>2, <2>3 DEF TableInv, Complete, Unclaimed, Filling
<1>11. EmittedInv'
  <2>1. \A e \in emitted : e.tid \in NatIdx /\ e.tid < reg[i]
    BY <1>1, EmittedFacts DEF Filling
  <2> QED
    BY <1>1, <1>2, <1>8, <2>1, EmittedKept DEF Filling, NatIdx
<1> QED
  BY <1>1, <1>3, <1>4, <1>5, <1>9, <1>10, <1>11

\* The packet leaves with a translation that differs from all before it.
LEMMA SendKeeps ==
    ASSUME Translations, ~corrupt, NEW i \in Inside, OutSend(i)
    PROVE  Translations'
<1> USE DEF Translations
<1> DEFINE new == [tid |-> reg[i], peer |-> pkt[i].dest, src |-> pkt[i].src, id |-> pkt[i].id, iface |-> i]
<1>1. /\ npc[i] = "send" /\ npc'[i] = "idle" /\ ProcType' /\ OneBusy'
      /\ \A k \in Inside : k # i => npc[k] = "idle" /\ npc'[k] = "idle"
  BY OnlyOne DEF OutSend
<1>2. /\ UNCHANGED natTab /\ UNCHANGED NATIDCOUNTER /\ UNCHANGED reg /\ UNCHANGED pkt /\ UNCHANGED asked
      /\ ~corrupt' /\ emitted' = emitted \cup {new}
  BY DEF OutSend, tables
<1>3. TableType' /\ CounterType' /\ RegType'
  BY <1>2 DEF TableType, CounterType, RegType
<1>4. PacketsInv' /\ CounterInv'
  <2>1. reg[i] \in NatIdx /\ reg[i] = NATIDCOUNTER - 1
    BY <1>1 DEF CounterInv, Filling
  <2>2. NATIDCOUNTER <= MAXNATENTRIES
    BY <2>1, ConstFacts DEF NatIdx, CounterType
  <2> QED
    BY <1>1, <1>2, <2>2 DEF PacketsInv, CounterInv, Unclaimed, Filling
<1>5. TableInv'
  BY <1>1, <1>2 DEF TableInv, Complete, Unclaimed, Filling
<1>6. EmittedInv'
  <2>1. reg[i] \in NatIdx /\ natTab[reg[i]] = Entry(i, reg[i])
    BY <1>1 DEF CounterInv, TableInv, Filling
  <2>2. pkt[i].src \in Hosts /\ pkt[i].dest \in Peers \cup Hosts /\ pkt[i].id \in Nat
    BY <1>1 DEF PacketsInv
  <2>3. /\ new \in [tid : NatIdx, peer : Peers \cup Hosts, src : Hosts, id : Nat, iface : Inside]
        /\ natTab[new.tid] = [src |-> new.src, dest |-> new.peer, iface |-> new.iface,
                              srcID |-> new.id, transID |-> new.tid]
    BY <2>1, <2>2 DEF Entry
  <2> QED
    BY <1>1, <1>2, <2>3 DEF EmittedInv, Filling
<1> QED
  BY <1>1, <1>3, <1>4, <1>5, <1>6

-----------------------------------------------------------------------------
\* The invariant, and the translations that have left the box.
LEMMA OutPktKeeps ==
    ASSUME Translations, ~corrupt, NEW i \in Inside, OutPktRW(i)
    PROVE  Translations'
  BY LoadKeeps, StoreKeeps, RefuseKeeps, TestKeeps, ReturnKeeps, FillSrcKeeps, FillDestKeeps, MarkKeeps,
     SendKeeps DEF OutPktRW

\* A step that leaves the translations alone keeps what is said of them.
LEMMA SteadyKeeps ==
    ASSUME Translations, Steady
    PROVE  Translations'
<1> USE DEF Translations, Steady
<1>1. TableType' /\ CounterType' /\ ProcType' /\ RegType'
  BY DEF TableType, CounterType, ProcType, RegType
<1>2. PacketsInv' /\ OneBusy' /\ EmittedInv'
  BY DEF PacketsInv, OneBusy, EmittedInv
<1>3. CounterInv'
  <2>1. corrupt = corrupt'
    BY Zenon
  <2> QED
    BY <2>1 DEF CounterInv
<1>4. TableInv'
  BY DEF TableInv, Complete, Entry
<1> QED
  BY <1>1, <1>2, <1>3, <1>4

\* Every step keeps NatInv.
LEMMA NatInvNext ==
    ASSUME Serial, NatInv, [Next]_vars
    PROVE  NatInv'
<1>1. RowsType' /\ HostsType'
  BY RowsStep
<1>2. Translations /\ where \in [Hosts -> Inside]
  BY DEF NatInv, HostsType
<1>3. Translations'
  BY <1>2, StepCases, SteadyKeeps, StartKeeps, OutPktKeeps
<1>4. corrupt' \in BOOLEAN
  <2>1. corrupt' \in {corrupt, TRUE}
    <3>1. CASE UNCHANGED vars
      BY <3>1, Zenon DEF vars
    <3>2. CASE Next
      <4>1. ASSUME NEW i \in Inside, OutPktRW(i) PROVE corrupt' \in {corrupt, TRUE}
        <5>1. CASE OutFillSrc(i)
          <6>1. corrupt' = corrupt \/ corrupt' = TRUE
            BY <5>1, Zenon DEF OutFillSrc
          <6> QED
            BY <6>1
        <5>2. CASE OutLoad(i)
          BY <5>2, Zenon DEF OutLoad
        <5>4. CASE OutStore(i)
          <6>1. corrupt' = corrupt
            BY <5>4 DEF OutStore
          <6> QED
            BY <6>1, Zenon
        <5>5. CASE OutRefuse(i) \/ OutTest(i) \/ OutReturn(i)
          BY <5>5, Zenon DEF OutRefuse, OutTest, OutReturn
        <5>3. CASE OutFillDest(i) \/ OutMark(i) \/ OutSend(i)
          BY <5>3, Zenon DEF OutFillDest, OutMark, OutSend
        <5> QED
          BY <4>1, <5>1, <5>2, <5>3, <5>4, <5>5 DEF OutPktRW
      <4> QED
        BY <3>2, <4>1, Zenon DEF Next, ForMe, Transit, NeighborSolicit, Move, OutStart
    <3> QED
      BY <3>1, <3>2
  <2> QED
    BY <2>1, Zenon DEF NatInv
<1> QED
  BY <1>1, <1>3, <1>4, Zenon DEF NatInv

\* What NatInv says is true of every behaviour in which packets are handled
\* one at a time.
THEOREM NatInvHolds == Serial => (Spec => []NatInv)
<1> SUFFICES ASSUME Serial PROVE Spec => []NatInv
  OBVIOUS
<1>1. Init => NatInv
  BY NatInvInit
<1>2. NatInv /\ [Next]_vars => NatInv'
  BY NatInvNext
<1> QED
  BY <1>1, <1>2, PTL DEF Spec

\* Two translations with one identifier have one entry, so they are the same.
LEMMA Distinct == NatInv => TranslationsDistinct
<1> SUFFICES ASSUME NatInv, NEW e \in emitted, NEW f \in emitted, e.tid = f.tid
             PROVE  e = f
  BY DEF TranslationsDistinct
<1>1. EmittedInv
  BY DEF NatInv, Translations
<1>2. /\ natTab[e.tid].src = e.src /\ natTab[e.tid].dest = e.peer /\ natTab[e.tid].iface = e.iface
      /\ natTab[e.tid].srcID = e.id
  BY <1>1, EmittedFacts
<1>3. /\ natTab[f.tid].src = f.src /\ natTab[f.tid].dest = f.peer /\ natTab[f.tid].iface = f.iface
      /\ natTab[f.tid].srcID = f.id
  BY <1>1, EmittedFacts
<1>4. /\ e \in [tid : NatIdx, peer : Peers \cup Hosts, src : Hosts, id : Nat, iface : Inside]
      /\ f \in [tid : NatIdx, peer : Peers \cup Hosts, src : Hosts, id : Nat, iface : Inside]
  BY <1>1 DEF EmittedInv
<1> QED
  BY <1>2, <1>3, <1>4

\* No step of outPktRW writes to an entry that has left the box: the index it
\* holds is above them all.
LEMMA Stable ==
    ASSUME NatInv, [Next]_vars, NEW e \in emitted
    PROVE  natTab'[e.tid] = natTab[e.tid]
<1>1. Translations
  BY DEF NatInv
<1>2. /\ e.tid \in NatIdx
      /\ \A i \in Inside : npc[i] \in Filling => e.tid < reg[i]
      /\ \A i \in Inside : npc[i] = "src" => e.tid # reg[i]
  BY <1>1, EmittedFacts DEF Translations, TableInv, CounterInv, CounterType, Unclaimed
<1>3. ASSUME NEW i \in Inside, OutPktRW(i)
      PROVE  natTab'[e.tid] = natTab[e.tid]
  <2>1. TableType /\ reg[i] \in Nat
    BY <1>1 DEF Translations, RegType
  <2>2. CASE OutFillSrc(i)
    BY <1>2, <2>1, <2>2 DEF OutFillSrc, Goto, TableType
  <2>3. CASE OutFillDest(i)
    <3>1. npc[i] = "dest" /\ e.tid # reg[i]
      BY <1>2, <2>1, <2>3 DEF OutFillDest, Goto, Filling, NatIdx
    <3> QED
      BY <1>2, <2>1, <2>3, <3>1 DEF OutFillDest, TableType
  <2>4. CASE OutMark(i)
    <3>1. npc[i] = "mark" /\ e.tid # reg[i]
      BY <1>2, <2>1, <2>4 DEF OutMark, Goto, Filling, NatIdx
    <3> QED
      BY <1>2, <2>1, <2>4, <3>1 DEF OutMark, TableType
  <2>5. CASE OutLoad(i) \/ OutStore(i) \/ OutRefuse(i) \/ OutTest(i) \/ OutReturn(i) \/ OutSend(i)
    BY <2>5 DEF OutLoad, OutStore, OutRefuse, OutTest, OutReturn, OutSend, tables
  <2> QED
    BY <1>3, <2>2, <2>3, <2>4, <2>5 DEF OutPktRW
<1>4. Steady \/ (\E h \in Hosts, d \in Peers \cup Hosts, id \in Ids : OutStart(h, d, id)) => natTab' = natTab
  BY DEF Steady, OutStart, tables
<1> QED
  BY <1>3, <1>4, StepCases

\* outPktRW: with packets handled one at a time no two packets share a
\* translation, and a translation that has left the box keeps its entry.
THEOREM TranslationsKept == Serial => (Spec => TranslationsHold)
<1> SUFFICES ASSUME Serial PROVE Spec => TranslationsHold
  OBVIOUS
<1>0. Spec => []NatInv
  BY NatInvHolds
<1>1. NatInv => TypeOK /\ TranslationsDistinct
  BY Types, Distinct
<1>2. NatInv /\ [Next]_vars => [\A e \in emitted : natTab'[e.tid] = natTab[e.tid]]_natTab
  BY Stable
<1> QED
  BY <1>0, <1>1, <1>2, PTL DEF Spec, TranslationsHold, EntriesStable

-----------------------------------------------------------------------------
\* incPktRW: what the lookup of the translation table returns.
LEMMA LookupLeast ==
    ASSUME NEW s, NEW id, NEW k \in Hits(s, id), \A j \in Hits(s, id) : k <= j
    PROVE  NatLookup(s, id) = k
<1>1. k \in Nat /\ \A j \in Hits(s, id) : j \in Nat
  BY DEF Hits, NatIdx
<1>2. \A m \in Hits(s, id) : (\A j \in Hits(s, id) : m <= j) => m = k
  BY <1>1
<1> QED
  BY <1>2 DEF NatLookup

\* incPktRW returns an entry that matches, when there is one.
LEMMA LookupHit ==
    ASSUME NEW s, NEW id, NatLookup(s, id) # -1
    PROVE  NatLookup(s, id) \in Hits(s, id)
<1>1. Hits(s, id) # {} /\ Hits(s, id) \subseteq Nat
  BY DEF NatLookup, Hits, NatIdx
<1>2. PICK k \in Hits(s, id) : \A j \in Hits(s, id) : k <= j
  BY <1>1, LeastNat
<1> QED
  BY <1>2, LookupLeast

\* The entry of a translation that has left is the first that matches its reply:
\* the others are empty, have another identifier or are half filled.
LEMMA ReplyFound == NatInv => ReplyFindsHost
<1> SUFFICES ASSUME NatInv, NEW e \in emitted
             PROVE  LET k == NatLookup(e.peer, e.tid)
                    IN  /\ k # -1
                        /\ natTab[k].iface = e.iface
                        /\ Rewritten(k, e.peer, e.tid) = [src |-> e.peer, dest |-> e.src, id |-> e.id]
  BY DEF ReplyFindsHost
<1>1. Translations
  BY DEF NatInv
<1>2. /\ e.tid \in NatIdx /\ e.peer \in Peers \cup Hosts
      /\ natTab[e.tid].src = e.src /\ natTab[e.tid].dest = e.peer /\ natTab[e.tid].iface = e.iface
      /\ natTab[e.tid].srcID = e.id /\ natTab[e.tid].transID = e.tid
  BY <1>1, EmittedFacts DEF Translations
<1>3. e.tid \in Hits(e.peer, e.tid)
  BY <1>2 DEF Hits, Matches
<1>4. ASSUME NEW j \in Hits(e.peer, e.tid)
      PROVE  e.tid <= j
  <2>1. j \in NatIdx /\ natTab[j].transID = e.tid /\ natTab[j].dest = e.peer
    BY DEF Hits, Matches
  <2>2. e.peer # Unspec
    BY <1>2, ConstFacts
  <2>3. CASE natTab[j] = EmptyEntry
    BY <2>1, <2>2, <2>3 DEF EmptyEntry
  <2>4. CASE Complete(j)
    BY <1>2, <2>1, <2>4 DEF Complete, NatIdx
  <2>5. ASSUME NEW i \in Inside, ~corrupt, npc[i] \in {"dest", "mark"}, reg[i] = j
        PROVE  e.tid <= j
    <3>1. CASE npc[i] = "dest"
      <4>1. natTab[j] = [EmptyEntry EXCEPT !.src = pkt[i].src]
        BY <1>1, <2>5, <3>1 DEF Translations, TableInv
      <4> QED
        BY <2>1, <2>2, <4>1 DEF EmptyEntry
    <3>2. CASE npc[i] = "mark"
      <4>1. natTab[j] = Entry(i, 0)
        BY <1>1, <2>5, <3>2 DEF Translations, TableInv
      <4> QED
        BY <2>1, <4>1 DEF Entry, NatIdx
    <3> QED
      BY <2>5, <3>1, <3>2
  <2> QED
    BY <1>1, <2>1, <2>3, <2>4, <2>5 DEF Translations, TableInv
<1>5. NatLookup(e.peer, e.tid) = e.tid
  BY <1>3, <1>4, LookupLeast
<1>6. e.tid # -1
  BY <1>2 DEF NatIdx
<1> QED
  BY <1>2, <1>5, <1>6 DEF Rewritten

\* incPktRW: with packets handled one at a time, the reply to a packet that has
\* left the box finds the entry of the host that sent it, whatever else was
\* translated in between.
THEOREM RepliesFindHost == Serial => (Spec => []ReplyFindsHost)
<1> SUFFICES ASSUME Serial PROVE Spec => []ReplyFindsHost
  OBVIOUS
<1>1. NatInv => ReplyFindsHost
  BY ReplyFound
<1>2. Spec => []NatInv
  BY NatInvHolds
<1> QED
  BY <1>1, <1>2, PTL

-----------------------------------------------------------------------------
\* The rows of the forwarding table, while it is not full: insertNewFwdTabEntry
\* refuses silently when it is.
HasRoom == Len(fwdTab) < MAXFWDTABENTRIES
\* Entry k is in use and not being filled.
Live(k) == natTab[k] # EmptyEntry /\ \A i \in Inside : npc[i] \in {"dest", "mark"} => reg[i] # k

\* A row leads to the inside, for a host that has never moved to where it is.
RowsRight ==
    \A n \in DOMAIN fwdTab :
        /\ fwdTab[n].iface \in Inside
        /\ fwdTab[n].ip \in Hosts \ moved => fwdTab[n].iface = where[fwdTab[n].ip]
\* Every entry in use has a row for its host.
LiveRows == HasRoom => \A k \in NatIdx : Live(k) => Rows(natTab[k].src) # {}
\* A packet in progress, and one that has left, came in where its host is.
PktRight == \A i \in Inside : npc[i] # "idle" /\ pkt[i].src \notin moved => i = where[pkt[i].src]
EmitRight == \A e \in emitted : e.src \notin moved => e.iface = where[e.src]
RoomInv == RowsRight /\ LiveRows /\ PktRight /\ EmitRight

\* Table u is t with a row for ip and i, unless t is full.
RowIn(t, u, ip, i) ==
    /\ DOMAIN t \subseteq DOMAIN u /\ \A n \in DOMAIN t : u[n] = t[n]
    /\ \A n \in DOMAIN u : n \in DOMAIN t \/ u[n] = [ip |-> ip, iface |-> i]
    /\ Len(u) < MAXFWDTABENTRIES => Len(t) < MAXFWDTABENTRIES /\ \E n \in DOMAIN u : u[n].ip = ip

\* insertNewFwdTabEntry adds a row at the end, unless the table is full.
LEMMA InsertRow ==
    ASSUME NEW t \in Seq([ip : Addrs, iface : Ifaces]), NEW ip, NEW i
    PROVE  RowIn(t, InsertFwd(t, ip, i), ip, i)
<1> DEFINE u == InsertFwd(t, ip, i)
<1>1. MAXFWDTABENTRIES \in Nat /\ Len(t) \in Nat /\ DOMAIN t = 1..Len(t)
  BY NatAssump
<1>2. CASE Len(t) >= MAXFWDTABENTRIES
  BY <1>1, <1>2 DEF InsertFwd, RowIn
<1>3. CASE ~(Len(t) >= MAXFWDTABENTRIES)
  <2> HIDE DEF u
  <2> DEFINE r == [ip |-> ip, iface |-> i]
  <2>1. u = Append(t, r)
    BY <1>3 DEF InsertFwd, u
  <2>2. Len(u) = Len(t) + 1 /\ DOMAIN u = 1..(Len(t) + 1)
    BY <1>1, <2>1
  <2>3. u[Len(t) + 1] = r /\ \A n \in 1..Len(t) : u[n] = t[n]
    BY <1>1, <2>1
  <2>4. Len(t) + 1 \in DOMAIN u /\ u[Len(t) + 1].ip = ip
    BY <1>1, <2>2, <2>3
  <2>5. \A n \in DOMAIN u : n \in DOMAIN t \/ n = Len(t) + 1
    BY <1>1, <2>2
  <2> QED
    BY <1>1, <1>3, <2>2, <2>3, <2>4, <2>5 DEF u, RowIn
<1> QED
  BY <1>2, <1>3

\* There are no rows, entries or packets at the start.
LEMMA RoomInit == Init => RoomInv
  BY DEF Init, RoomInv, RowsRight, LiveRows, PktRight, EmitRight, Live

\* A row for address ip, attached to interface i, is added.
LEMMA RowAdded ==
    ASSUME RowsType, RowsRight, NEW ip, NEW i \in Inside, fwdTab' = InsertFwd(fwdTab, ip, i),
           moved' = moved, where' = where, ip \in Hosts \ moved => i = where[ip]
    PROVE  /\ RowsRight'
           /\ HasRoom' => HasRoom /\ Rows(ip)' # {}
           /\ \A a : Rows(a) # {} => Rows(a)' # {}
<1> DEFINE u == fwdTab'
<1>1. /\ DOMAIN fwdTab \subseteq DOMAIN u /\ \A n \in DOMAIN fwdTab : u[n] = fwdTab[n]
      /\ \A n \in DOMAIN u : n \in DOMAIN fwdTab \/ u[n] = [ip |-> ip, iface |-> i]
      /\ Len(u) < MAXFWDTABENTRIES =>
           Len(fwdTab) < MAXFWDTABENTRIES /\ \E n \in DOMAIN u : u[n].ip = ip
  <2>1. fwdTab \in Seq([ip : Addrs, iface : Ifaces])
    BY DEF RowsType
  <2>2. RowIn(fwdTab, fwdTab', ip, i)
    BY <2>1, InsertRow
  <2> QED
    BY <2>2 DEF RowIn
<1>2. RowsRight'
  BY <1>1 DEF RowsRight
<1>3. (HasRoom' => HasRoom /\ Rows(ip)' # {}) /\ \A a : Rows(a) # {} => Rows(a)' # {}
  BY <1>1 DEF HasRoom, Rows
<1> QED
  BY <1>2, <1>3

\* The steps that leave the rows and the entries alone.
LEMMA RowsSame ==
    ASSUME RoomInv, fwdTab' = fwdTab, moved' = moved, where' = where, natTab' = natTab,
           \A k \in NatIdx : Live(k)' => Live(k)
    PROVE  RowsRight' /\ LiveRows'
<1>1. RowsRight'
  BY DEF RoomInv, RowsRight
<1>2. LiveRows'
  BY DEF RoomInv, LiveRows, HasRoom, Rows
<1> QED
  BY <1>1, <1>2

\* The packets in progress and the translations that have left are the same.
LEMMA PacketsSame ==
    ASSUME RoomInv, pkt' = pkt, moved' = moved, where' = where, emitted' = emitted,
           \A i \in Inside : npc'[i] # "idle" => npc[i] # "idle"
    PROVE  PktRight' /\ EmitRight'
  BY DEF RoomInv, PktRight, EmitRight

\* Every step keeps RoomInv.
LEMMA RoomStep ==
    ASSUME Serial, NatInv, RoomInv, [Next]_vars
    PROVE  RoomInv'
<1>0. /\ RowsType /\ where \in [Hosts -> Inside] /\ Translations
      /\ ProcType /\ RegType /\ OneBusy /\ CounterInv /\ TableInv /\ PacketsInv /\ TableType /\ CounterType /\ EmittedInv
  BY DEF NatInv, HostsType, Translations
<1>1. ASSUME UNCHANGED <<natTab, fwdTab, where, npc, pkt, reg, emitted, moved>>
      PROVE  RoomInv'
  <2>1. UNCHANGED natTab /\ UNCHANGED fwdTab /\ UNCHANGED where /\ UNCHANGED npc
    BY <1>1
  <2>2. UNCHANGED pkt /\ UNCHANGED reg /\ UNCHANGED emitted /\ UNCHANGED moved
    BY <1>1
  <2>3. \A k \in NatIdx : Live(k)' => Live(k)
    BY <2>1, <2>2 DEF Live
  <2> QED
    BY <2>1, <2>2, <2>3, RowsSame, PacketsSame DEF RoomInv
<1>2. ASSUME NEW h \in Hosts, NeighborSolicit(h)
      PROVE  RoomInv'
  <2>1. /\ fwdTab' = InsertFwd(fwdTab, h, where[h])
        /\ UNCHANGED natTab /\ UNCHANGED where /\ UNCHANGED npc
        /\ UNCHANGED pkt /\ UNCHANGED reg /\ UNCHANGED emitted /\ UNCHANGED moved
    BY <1>2 DEF NeighborSolicit
  <2>2. /\ RowsRight'
        /\ HasRoom' => HasRoom
        /\ \A a : Rows(a) # {} => Rows(a)' # {}
    BY <1>0, <2>1, RowAdded DEF RoomInv
  <2>3. LiveRows'
    BY <2>1, <2>2 DEF RoomInv, LiveRows, Live
  <2> QED
    BY <2>1, <2>2, <2>3, PacketsSame DEF RoomInv
<1>3. ASSUME NEW h \in Hosts, NEW i \in Inside, Move(h, i)
      PROVE  RoomInv'
  <2>1. /\ where' = [where EXCEPT ![h] = i] /\ moved' = moved \cup {h}
        /\ UNCHANGED natTab /\ UNCHANGED fwdTab /\ UNCHANGED npc
        /\ UNCHANGED pkt /\ UNCHANGED reg /\ UNCHANGED emitted
    BY <1>3 DEF Move, tables
  <2>2. \A g : g \notin moved' => g \notin moved /\ where'[g] = where[g]
    BY <1>0, <2>1
  <2>3. RowsRight'
    BY <2>1, <2>2 DEF RoomInv, RowsRight
  <2>4. LiveRows'
    BY <2>1 DEF RoomInv, LiveRows, HasRoom, Rows, Live
  <2>5. PktRight' /\ EmitRight'
    BY <2>1, <2>2 DEF RoomInv, PktRight, EmitRight
  <2> QED
    BY <2>3, <2>4, <2>5 DEF RoomInv
<1>4. ASSUME NEW h \in Hosts, NEW d \in Peers \cup Hosts, NEW id \in Ids, OutStart(h, d, id)
      PROVE  RoomInv'
  <2>1. /\ where[h] \in Inside
        /\ npc' = [npc EXCEPT ![where[h]] = "load"]
        /\ pkt' = [pkt EXCEPT ![where[h]] = [src |-> h, dest |-> d, id |-> id]]
        /\ npc[where[h]] = "idle"
        /\ UNCHANGED natTab /\ UNCHANGED fwdTab /\ UNCHANGED where
        /\ UNCHANGED reg /\ UNCHANGED emitted /\ UNCHANGED moved
    BY <1>0, <1>4 DEF OutStart, Goto, tables
  <2>2. \A k \in NatIdx : Live(k)' => Live(k)
    BY <1>0, <2>1 DEF Live, ProcType
  <2>3. PktRight'
    BY <1>0, <2>1 DEF RoomInv, PktRight, ProcType, PacketsInv
  <2>4. EmitRight'
    BY <2>1 DEF RoomInv, EmitRight
  <2> QED
    BY <2>1, <2>2, <2>3, <2>4, RowsSame DEF RoomInv
<1>5. ASSUME NEW i \in Inside,
             OutLoad(i) \/ OutStore(i) \/ OutRefuse(i) \/ OutTest(i) \/ OutReturn(i)
      PROVE  RoomInv'
  <2>1. /\ npc[i] \notin {"idle", "dest", "mark"} /\ npc'[i] \notin {"dest", "mark"}
        /\ \A k \in Inside : k # i => npc'[k] = npc[k]
    BY <1>0, <1>5 DEF OutLoad, OutStore, OutRefuse, OutTest, OutReturn, Goto, ProcType
  <2>2. \A k \in Inside : k # i => reg'[k] = reg[k]
    BY <1>0, <1>5 DEF OutLoad, OutStore, OutRefuse, OutTest, OutReturn, RegType
  <2>3. /\ UNCHANGED natTab /\ UNCHANGED fwdTab /\ UNCHANGED where
        /\ UNCHANGED pkt /\ UNCHANGED emitted /\ UNCHANGED moved
    BY <1>5 DEF OutLoad, OutStore, OutRefuse, OutTest, OutReturn, tables
  <2>4. \A k \in NatIdx : Live(k)' => Live(k)
    BY <2>1, <2>2, <2>3 DEF Live
  <2>5. \A k \in Inside : npc'[k] # "idle" => npc[k] # "idle"
    BY <2>1
  <2> QED
    BY <2>3, <2>4, <2>5, RowsSame, PacketsSame DEF RoomInv
<1>6. ASSUME NEW i \in Inside, OutFillSrc(i), ~corrupt
      PROVE  RoomInv'
  <2>1. /\ npc[i] = "src" /\ npc'[i] = "dest"
        /\ \A k \in Inside : k # i => npc[k] = "idle" /\ npc'[k] = "idle"
    BY <1>0, <1>6, OnlyOne DEF OutFillSrc
  <2>2. /\ UNCHANGED fwdTab /\ UNCHANGED where /\ UNCHANGED reg
        /\ UNCHANGED pkt /\ UNCHANGED emitted /\ UNCHANGED moved
        /\ \A k \in NatIdx : k # reg[i] => natTab'[k] = natTab[k]
    BY <1>0, <1>6 DEF OutFillSrc, TableType
  <2>3. \A k \in NatIdx : Live(k)' => Live(k) /\ k # reg[i]
    BY <2>1, <2>2 DEF Live
  <2>4. RowsRight'
    BY <2>2 DEF RoomInv, RowsRight
  <2>5. LiveRows'
    BY <2>2, <2>3 DEF RoomInv, LiveRows, HasRoom, Rows
  <2> QED
    BY <2>1, <2>2, <2>4, <2>5, PacketsSame DEF RoomInv
<1>7. ASSUME NEW i \in Inside, OutFillDest(i), ~corrupt
      PROVE  RoomInv'
  <2>1. /\ npc[i] = "dest" /\ npc'[i] = "mark"
        /\ \A k \in Inside : k # i => npc[k] = "idle" /\ npc'[k] = "idle"
    BY <1>0, <1>7, OnlyOne DEF OutFillDest
  <2>2. /\ UNCHANGED fwdTab /\ UNCHANGED where /\ UNCHANGED reg
        /\ UNCHANGED pkt /\ UNCHANGED emitted /\ UNCHANGED moved
        /\ \A k \in NatIdx : k # reg[i] => natTab'[k] = natTab[k]
    BY <1>0, <1>7 DEF OutFillDest, TableType
  <2>3. \A k \in NatIdx : Live(k)' => Live(k) /\ k # reg[i]
    BY <2>1, <2>2 DEF Live
  <2>4. RowsRight'
    BY <2>2 DEF RoomInv, RowsRight
  <2>5. LiveRows'
    BY <2>2, <2>3 DEF RoomInv, LiveRows, HasRoom, Rows
  <2> QED
    BY <2>1, <2>2, <2>4, <2>5, PacketsSame DEF RoomInv
<1>8. ASSUME NEW i \in Inside, OutMark(i), ~corrupt
      PROVE  RoomInv'
  <2>1. /\ npc[i] = "mark" /\ npc'[i] = "send"
        /\ \A k \in Inside : k # i => npc[k] = "idle" /\ npc'[k] = "idle"
    BY <1>0, <1>8, OnlyOne DEF OutMark
  <2>2. /\ UNCHANGED where /\ UNCHANGED reg
        /\ UNCHANGED pkt /\ UNCHANGED emitted /\ UNCHANGED moved
        /\ natTab' = [natTab EXCEPT ![reg[i]] = [@ EXCEPT !.transID = reg[i]]]
        /\ fwdTab' = InsertFwd(fwdTab, natTab[reg[i]].src, natTab[reg[i]].iface)
    BY <1>8 DEF OutMark
  <2>3. reg[i] \in NatIdx /\ natTab[reg[i]] = Entry(i, 0)
    BY <1>0, <1>8, <2>1 DEF CounterInv, TableInv, Filling
  <2>4. natTab[reg[i]].src = pkt[i].src /\ natTab[reg[i]].iface = i
    BY <2>3 DEF Entry
  <2>5. fwdTab' = InsertFwd(fwdTab, pkt[i].src, i)
    BY <2>2, <2>4
  <2>6. pkt[i].src \in Hosts \ moved => i = where[pkt[i].src]
    BY <2>1 DEF RoomInv, PktRight
  <2>7. /\ RowsRight'
        /\ HasRoom' => HasRoom /\ Rows(pkt[i].src)' # {}
        /\ \A a : Rows(a) # {} => Rows(a)' # {}
    BY <1>0, <2>2, <2>5, <2>6, RowAdded DEF RoomInv
  <2>8. \A k \in NatIdx : natTab'[k].src = natTab[k].src
    BY <1>0, <2>2, <2>3 DEF TableType
  <2>9. \A k \in NatIdx : k # reg[i] => natTab'[k] = natTab[k]
    BY <1>0, <2>2, <2>3 DEF TableType
  <2>10. \A k \in NatIdx : Live(k)' => Live(k) \/ k = reg[i]
    BY <2>1, <2>2, <2>9 DEF Live
  <2>11. ASSUME HasRoom', NEW k \in NatIdx, Live(k)'
         PROVE  Rows(natTab[k].src)' # {}
    <3>1. \A a : a = natTab'[k].src => Rows(a)' # {}
      <4>1. natTab'[k].src = natTab[k].src
        BY <2>8
      <4>2. Rows(natTab[k].src) # {} \/ natTab[k].src = pkt[i].src
        BY <2>4, <2>7, <2>10, <2>11 DEF RoomInv, LiveRows
      <4>3. \A a : a = natTab[k].src => Rows(a) # {} \/ a = pkt[i].src
        BY <4>2
      <4>4. \A a : a = pkt[i].src => Rows(a)' # {}
        BY <2>2, <2>7, <2>11 DEF Rows
      <4> QED
        BY <2>7, <4>1, <4>3, <4>4
    <3> QED
      BY <3>1 DEF Rows
  <2>12. LiveRows'
    BY <2>11 DEF LiveRows
  <2> QED
    BY <2>1, <2>2, <2>7, <2>12, PacketsSame DEF RoomInv
<1>9. ASSUME NEW i \in Inside, OutSend(i)
      PROVE  RoomInv'
  <2> DEFINE new == [tid |-> reg[i], peer |-> pkt[i].dest, src |-> pkt[i].src, id |-> pkt[i].id, iface |-> i]
  <2>1. /\ npc[i] = "send" /\ npc'[i] = "idle"
        /\ \A k \in Inside : k # i => npc[k] = "idle" /\ npc'[k] = "idle"
    BY <1>0, <1>9, OnlyOne DEF OutSend
  <2>2. /\ UNCHANGED natTab /\ UNCHANGED fwdTab /\ UNCHANGED where /\ UNCHANGED reg
        /\ UNCHANGED pkt /\ UNCHANGED moved /\ emitted' = emitted \cup {new}
    BY <1>9 DEF OutSend, tables
  <2>3. \A k \in NatIdx : Live(k)' => Live(k)
    BY <2>1, <2>2 DEF Live
  <2>4. PktRight'
    BY <2>1 DEF PktRight
  <2>5. EmitRight'
    <3>1. pkt[i].src \notin moved => i = where[pkt[i].src]
      BY <2>1 DEF RoomInv, PktRight
    <3>2. new.src = pkt[i].src /\ new.iface = i
      OBVIOUS
    <3> QED
      BY <2>2, <3>1, <3>2 DEF RoomInv, EmitRight
  <2> QED
    BY <2>2, <2>3, <2>4, <2>5, RowsSame DEF RoomInv
<1>10. CASE UNCHANGED vars
  BY <1>1, <1>10 DEF vars
<1>11. CASE Next
  <2>1. ASSUME NEW i, NEW s, NEW id, NEW kind, ForMe(i, s, id, kind) PROVE RoomInv'
    BY <1>1, <2>1 DEF ForMe, tables
  <2>2. ASSUME NEW s, NEW id, Transit(s, id) PROVE RoomInv'
    BY <1>1, <2>2 DEF Transit, tables
  <2>3. ASSUME NEW i \in Inside, OutPktRW(i) PROVE RoomInv'
    BY <1>5, <1>6, <1>7, <1>8, <1>9, <1>11, <2>3 DEF OutPktRW, Next
  <2> QED
    BY <1>2, <1>3, <1>4, <1>11, <2>1, <2>2, <2>3 DEF Next
<1> QED
  BY <1>10, <1>11

-----------------------------------------------------------------------------
\* What the box passes on.
LEMMA NextHopRow ==
    ASSUME RowsType, NEW ip, Rows(ip) # {}
    PROVE  \E n \in DOMAIN fwdTab : fwdTab[n].ip = ip /\ NextHop(ip) = fwdTab[n]
<1>1. Rows(ip) \subseteq Nat
  BY DEF Rows, RowsType
<1>2. PICK k \in Rows(ip) : \A j \in Rows(ip) : k <= j
  BY <1>1, LeastNat
<1>3. \A m \in Rows(ip) : (\A j \in Rows(ip) : m <= j) => m = k
  BY <1>1, <1>2
<1>4. NextHop(ip) = fwdTab[k]
  BY <1>2, <1>3 DEF NextHop
<1> QED
  BY <1>2, <1>4 DEF Rows

\* The entry incPktRW finds while no packet from the inside is in progress.
LEMMA HitComplete ==
    ASSUME NatInv, \A i \in Inside : npc[i] = "idle", NEW s, NEW id, NatLookup(s, id) # -1, s # Unspec
    PROVE  LET k == NatLookup(s, id)
           IN  k \in NatIdx /\ Complete(k) /\ Live(k) /\ natTab[k].dest = s
<1> DEFINE k == NatLookup(s, id)
<1>1. k \in NatIdx /\ natTab[k].dest = s
  BY LookupHit DEF Hits, Matches
<1>2. natTab[k] # EmptyEntry
  BY <1>1 DEF EmptyEntry
<1>3. TableInv
  BY DEF NatInv, Translations
<1> HIDE DEF k
<1>4. Complete(k) /\ Live(k)
  BY <1>1, <1>2, <1>3 DEF TableInv, Live
<1> QED
  BY <1>1, <1>4 DEF k

\* The packet that incPktRW rewrote, and that goes on.
LEMMA ForwardedHit ==
    ASSUME NatInv, RoomInv, \A i \in Inside : npc[i] = "idle", NEW s, NEW id, NEW kind,
           out' = Forward(Rewritten(NatLookup(s, id), s, id), kind), NatLookup(s, id) # -1,
           UNCHANGED tables, UNCHANGED asked
    PROVE  UnaskedStaysOut' /\ (HasRoom => PrivateStaysInside')
<1> DEFINE k == NatLookup(s, id)
           d == natTab[k].src
<1>1. out'.src = s /\ out'.dest = d /\ out'.iface = NextHop(d).iface
  BY DEF Forward, Rewritten
<1>2. UNCHANGED asked
  OBVIOUS
<1>3. CASE s = Unspec
  <2>1. k \in NatIdx /\ natTab[k].dest = Unspec
    BY <1>3, LookupHit DEF Hits, Matches
  <2>2. TableInv
    BY DEF NatInv, Translations
  <2> HIDE DEF k
  <2>3. ~Complete(k)
    BY <2>1, ConstFacts DEF Complete
  <2>4. natTab[k] = EmptyEntry
    BY <2>1, <2>2, <2>3 DEF TableInv
  <2>5. d = Unspec
    BY <2>4 DEF EmptyEntry
  <2>6. out'.src \notin Hosts /\ out'.dest \notin Hosts
    BY <1>1, <1>3, <2>5, ConstFacts
  <2> QED
    BY <2>6 DEF UnaskedStaysOut, PrivateStaysInside
<1>4. CASE s # Unspec
  <2>1. k \in NatIdx /\ Complete(k) /\ Live(k) /\ natTab[k].dest = s
    BY <1>4, HitComplete
  <2> HIDE DEF k
  <2>2. d \in Hosts /\ <<d, s>> \in asked
    BY <2>1 DEF Complete
  <2>3. UnaskedStaysOut'
    BY <1>1, <1>2, <2>2 DEF UnaskedStaysOut
  <2>4. ASSUME HasRoom PROVE PrivateStaysInside'
    <3>1. Rows(d) # {}
      BY <2>1, <2>4 DEF RoomInv, LiveRows
    <3>2. NextHop(d).iface \in Inside
      BY <3>1, NextHopRow DEF RoomInv, RowsRight, NatInv
    <3>3. out'.iface # 0
      BY <1>1, <3>2, ConstFacts
    <3> QED
      BY <3>3 DEF PrivateStaysInside
  <2> QED
    BY <2>3, <2>4
<1> QED
  BY <1>3, <1>4

\* What has crossed the border last.
BorderInv == UnaskedStaysOut /\ (HasRoom => PrivateStaysInside)

\* Every step keeps BorderInv: only incPktRW and the end of outPktRW let a packet
\* through.
LEMMA BorderStep ==
    ASSUME Serial, NatInv, RoomInv, BorderInv, [Next]_vars
    PROVE  BorderInv'
<1>0. RowsType /\ PacketsInv /\ ProcType
  BY DEF NatInv, Translations
<1>1. ASSUME out'.what # "send"
      PROVE  BorderInv'
  BY <1>1 DEF BorderInv, UnaskedStaysOut, PrivateStaysInside
<1>2. ASSUME UNCHANGED out, asked \subseteq asked', HasRoom' => HasRoom
      PROVE  BorderInv'
  BY <1>2 DEF BorderInv, UnaskedStaysOut, PrivateStaysInside
<1>3. ASSUME NEW i, NEW s, NEW id, NEW kind, ForMe(i, s, id, kind)
      PROVE  BorderInv'
  <2>1. UNCHANGED tables /\ UNCHANGED asked /\ Idle(i) /\ UNCHANGED fwdTab
    BY <1>3 DEF ForMe, tables
  <2>2. CASE NatLookup(s, id) # -1
    <3>1. out' = Forward(Rewritten(NatLookup(s, id), s, id), kind)
      BY <1>3, <2>2 DEF ForMe
    <3>2. UnaskedStaysOut' /\ (HasRoom => PrivateStaysInside')
      BY <2>1, <2>2, <3>1, IdleMeansAll, ForwardedHit
    <3> QED
      BY <2>1, <3>2 DEF BorderInv, HasRoom
  <2>3. CASE NatLookup(s, id) = -1
    <3>1. out'.what = "local"
      BY <1>3, <2>3 DEF ForMe, NoOut
    <3> QED
      BY <1>1, <3>1
  <2> QED
    BY <2>2, <2>3
<1>4. ASSUME NEW s, NEW id, Transit(s, id)
      PROVE  BorderInv'
  <2>1. UNCHANGED tables /\ UNCHANGED asked /\ Idle(0) /\ UNCHANGED fwdTab
    BY <1>4 DEF Transit, tables
  <2>2. CASE NatLookup(s, id) # -1
    <3>1. out' = Forward(Rewritten(NatLookup(s, id), s, id), "echo")
      BY <1>4, <2>2 DEF Transit
    <3>2. UnaskedStaysOut' /\ (HasRoom => PrivateStaysInside')
      BY <2>1, <2>2, <3>1, IdleMeansAll, ForwardedHit
    <3> QED
      BY <2>1, <3>2 DEF BorderInv, HasRoom
  <2>3. CASE NatLookup(s, id) = -1
    <3>1. out'.what = "drop"
      BY <1>4, <2>3 DEF Transit, NoOut
    <3> QED
      BY <1>1, <3>1
  <2> QED
    BY <2>2, <2>3
<1>5. ASSUME NEW h \in Hosts, NeighborSolicit(h)
      PROVE  BorderInv'
  BY <1>1, <1>5 DEF NeighborSolicit, NoOut
<1>6. ASSUME NEW i \in Inside, OutRefuse(i)
      PROVE  BorderInv'
  BY <1>1, <1>6 DEF OutRefuse, NoOut
<1>7. ASSUME NEW i \in Inside, OutSend(i)
      PROVE  BorderInv'
  <2>1. out'.src = NatAddr
    BY <1>7 DEF OutSend, Forward, OutRewritten
  <2> QED
    BY <2>1, ConstFacts DEF BorderInv, UnaskedStaysOut, PrivateStaysInside
<1>8. ASSUME NEW i \in Inside, OutMark(i), ~corrupt
      PROVE  BorderInv'
  <2>1. UNCHANGED out /\ UNCHANGED asked
        /\ fwdTab' = InsertFwd(fwdTab, natTab[reg[i]].src, natTab[reg[i]].iface)
    BY <1>8 DEF OutMark
  <2>2. RowIn(fwdTab, fwdTab', natTab[reg[i]].src, natTab[reg[i]].iface)
    BY <1>0, <2>1, InsertRow DEF RowsType
  <2>3. HasRoom' => HasRoom
    BY <2>2 DEF RowIn, HasRoom
  <2> QED
    BY <1>2, <2>1, <2>3
<1>9. ASSUME NEW i \in Inside, OutPktRW(i), ~OutMark(i), ~OutSend(i), ~OutRefuse(i)
      PROVE  BorderInv'
  <2>1. UNCHANGED out /\ UNCHANGED asked /\ UNCHANGED fwdTab
    BY <1>9 DEF OutPktRW, OutLoad, OutStore, OutTest, OutReturn, OutFillSrc, OutFillDest, tables
  <2> QED
    BY <1>2, <2>1 DEF HasRoom
<1>10. ASSUME NEW h \in Hosts, NEW i \in Inside, Move(h, i)
       PROVE  BorderInv'
  <2>1. UNCHANGED out /\ UNCHANGED asked /\ UNCHANGED fwdTab
    BY <1>10 DEF Move, tables
  <2> QED
    BY <1>2, <2>1 DEF HasRoom
<1>11. ASSUME NEW h \in Hosts, NEW d \in Peers \cup Hosts, NEW id \in Ids, OutStart(h, d, id)
       PROVE  BorderInv'
  <2>1. UNCHANGED out /\ asked' = asked \cup {<<h, d>>} /\ UNCHANGED fwdTab
    BY <1>11 DEF OutStart, tables
  <2> QED
    BY <1>2, <2>1 DEF HasRoom
<1>12. CASE UNCHANGED vars
  <2>1. UNCHANGED out /\ UNCHANGED asked /\ UNCHANGED fwdTab
    BY <1>12 DEF vars
  <2> QED
    BY <1>2, <2>1 DEF HasRoom
<1>13. CASE Next
  BY <1>3, <1>4, <1>5, <1>6, <1>7, <1>8, <1>9, <1>10, <1>11, <1>13 DEF Next
<1> QED
  BY <1>12, <1>13

\* Together: NatInv, the rows, and the border.
THEOREM BoxInvHolds == Serial => (Spec => [](NatInv /\ RoomInv /\ BorderInv))
<1> SUFFICES ASSUME Serial PROVE Spec => [](NatInv /\ RoomInv /\ BorderInv)
  OBVIOUS
<1>1. Init => RoomInv /\ BorderInv
  BY RoomInit DEF Init, BorderInv, UnaskedStaysOut, PrivateStaysInside, NoOut
<1>2. NatInv /\ RoomInv /\ BorderInv /\ [Next]_vars => RoomInv' /\ BorderInv'
  BY RoomStep, BorderStep
<1>3. Spec => []NatInv
  BY NatInvHolds
<1> QED
  BY <1>1, <1>2, <1>3, PTL DEF Spec

\* ipv6_in: with packets handled one at a time and while the forwarding table has
\* room, no packet shows the address of an inside host to the outside, and an
\* inside host hears only from those it has itself sent to.
THEOREM BorderIsKept == Serial => (Spec => [](HasRoom => BorderKept))
<1> SUFFICES ASSUME Serial PROVE Spec => [](HasRoom => BorderKept)
  OBVIOUS
<1>1. BorderInv => (HasRoom => BorderKept)
  BY DEF BorderInv, BorderKept
<1>2. Spec => [](NatInv /\ RoomInv /\ BorderInv)
  BY BoxInvHolds
<1> QED
  BY <1>1, <1>2, PTL

\* ipv6_in: nobody an inside host has not sent to gets through, however full the
\* tables are.
THEOREM NobodyUnasked == Serial => (Spec => []UnaskedStaysOut)
<1> SUFFICES ASSUME Serial PROVE Spec => []UnaskedStaysOut
  OBVIOUS
<1>1. BorderInv => UnaskedStaysOut
  BY DEF BorderInv
<1>2. Spec => [](NatInv /\ RoomInv /\ BorderInv)
  BY BoxInvHolds
<1> QED
  BY <1>1, <1>2, PTL

\* The first row for a host that has never moved leads to where it is.
LEMMA ReplyReaches == NatInv /\ RoomInv /\ HasRoom => ReplyReachesHost
<1> SUFFICES ASSUME NatInv, RoomInv, HasRoom, NEW e \in emitted, e.src \notin moved
             PROVE  NextHop(e.src) = [ip |-> e.src, iface |-> e.iface]
  BY DEF ReplyReachesHost
<1>1. Translations /\ RowsType
  BY DEF NatInv
<1>2. /\ e.tid \in NatIdx /\ e.src \in Hosts /\ natTab[e.tid].src = e.src /\ natTab[e.tid] # EmptyEntry
      /\ \A i \in Inside : npc[i] \in Filling => e.tid < reg[i]
  BY <1>1, EmittedFacts DEF Translations
<1>3. Live(e.tid)
  BY <1>2 DEF Live, Filling, NatIdx
<1>4. Rows(e.src) # {}
  BY <1>2, <1>3 DEF RoomInv, LiveRows
<1>5. PICK n \in DOMAIN fwdTab : fwdTab[n].ip = e.src /\ NextHop(e.src) = fwdTab[n]
  BY <1>1, <1>4, NextHopRow
<1>6. fwdTab[n].iface = where[e.src] /\ e.iface = where[e.src]
  BY <1>2, <1>5 DEF RoomInv, RowsRight, EmitRight
<1>7. fwdTab[n] \in [ip : Addrs, iface : Ifaces]
  <2> DEFINE R == [ip : Addrs, iface : Ifaces]
  <2>1. fwdTab \in Seq(R)
    BY <1>1 DEF RowsType
  <2> HIDE DEF R
  <2>2. fwdTab[n] \in R
    BY <2>1
  <2> QED
    BY <2>2 DEF R
<1> QED
  BY <1>5, <1>6, <1>7

\* incPktRW and fwdIPDatagram: with packets handled one at a time and while the
\* forwarding table has room, a reply comes back to the host that asked.
THEOREM RepliesComeBack == Serial => (Spec => [](HasRoom => RepliesReturn))
<1> SUFFICES ASSUME Serial PROVE Spec => [](HasRoom => RepliesReturn)
  OBVIOUS
<1>1. NatInv /\ RoomInv => (HasRoom => RepliesReturn)
  BY ReplyFound, ReplyReaches DEF RepliesReturn
<1>2. Spec => [](NatInv /\ RoomInv /\ BorderInv)
  BY BoxInvHolds
<1> QED
  BY <1>1, <1>2, PTL
=============================================================================
