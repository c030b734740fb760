--------------------------- MODULE NeighbourProofs ---------------------------
(***************************************************************************)
(* The neighbour cache, the rows of its neighbours and the addresses of    *)
(* the router, for any number of interfaces, hosts, prefixes and entries,  *)
(* any messages and any interleaving of the netins and main, with one      *)
(* process at a time between finding a free entry and marking it.          *)
(*                                                                         *)
(* NeighbourInv follows an entry from hand to hand: OwnInv says who may    *)
(* write its address, HandInv what a handler that holds an entry may rely  *)
(* on, EntryInv what can be read off the entry, MainInv where ipv6_init is *)
(* and what is therefore initialised, ConfInv what an advertisement of the *)
(* router has set so far.                                                  *)
(***************************************************************************)
EXTENDS Neighbour, DataLemmas

-----------------------------------------------------------------------------
(* The inductive invariant *)

\* One process at a time looks for a free entry, as the run has it.
Serial == MaxBusy = 1

P == Ifaces \cup {Main}
Sources == Hosts \cup Prefixes \cup {RouterLink, Unspec}
Received == [type : {"NS", "NA"}, src : Sources, opt : BOOLEAN]
NoMessage == [type |-> "none"]
Macs == Hosts \cup {Router, NoMac}
Pcs == {"idle", "find", "mark", "fill", "update", "asleep", "router", "tell",
        "solicit", "ndinit", "fwdinit", "wait", "nsol1", "nsol2", "last", "done"}
Waits == {"solicit", "ndinit", "fwdinit", "wait"}
After == {"nsol1", "nsol2", "last", "done"}
Hunts == {"find", "mark", "fill"}

Procs == [pc : Pcs, msg : Received \cup {NoMessage}, entry : Nat, new : BOOLEAN]
Caches == [ip : Addresses, mac : Macs, state : States]

TypeInv ==
  /\ host \in BOOLEAN /\ ready \subseteq {"nd", "fwd"}
  /\ cache \in [Entries -> Caches]
  /\ rows \in Seq([ip : Addresses, iface : Ifaces]) /\ Len(rows) <= MAXFWDTABENTRIES
  /\ conf \in [addr : Prefixes \cup {NoPrefix}, has : BOOLEAN, mac : {NoMac, Router}, link : {NoMac, RouterLink},
               ip : Prefixes \cup {NoPrefix}]
  /\ proc \in [P -> Procs]
  /\ told \in [Inside -> Prefixes \cup {NoPrefix}]

\* Where a netin may be, and what it has in hand there.
NetinInv ==
  \A i \in Ifaces :
    /\ proc[i].pc \in Hunts \cup {"idle", "update", "asleep"} \/ (i = 0 /\ proc[i].pc \in {"router", "tell"})
    /\ proc[i].pc \in Hunts \cup {"update"} =>
         /\ proc[i].msg \in Received /\ (proc[i].msg.opt => proc[i].msg.src # Unspec)
         /\ proc[i].msg.src \in Hosts => Home[proc[i].msg.src] = i
         /\ "nd" \in ready
    /\ proc[i].pc \in Hunts => proc[i].new
    /\ proc[i].pc \in {"mark", "fill", "update"} => proc[i].entry \in Entries
    /\ proc[i].pc # "tell" => proc[i].entry \in Entries \cup {None}

\* An entry that was found, until its address is filled in: nobody else has found it, and
\* it has no address and no MAC address yet.
Owns(p) == proc[p].pc \in {"mark", "fill"} /\ proc[p].entry # None
OwnInv ==
  /\ \A p \in P : \A q \in P : Owns(p) /\ Owns(q) /\ proc[p].entry = proc[q].entry => p = q
  /\ \A p \in P : Owns(p) => /\ proc[p].entry \in Entries
                             /\ cache[proc[p].entry].ip = Unspec /\ cache[proc[p].entry].mac = NoMac
                             /\ proc[p].pc = "fill" => cache[proc[p].entry].state # "NOENTRY"
  /\ \A p \in P : \A q \in P : proc[p].pc = "mark" /\ proc[q].pc = "mark" => p = q

\* A handler that looks for a free entry: its host has none.  One that updates an entry: it
\* is the one of its address, unless it has none.
HandInv ==
  \A i \in Ifaces :
    /\ proc[i].pc \in Hunts /\ proc[i].msg.src \in Hosts => \A e \in Entries : cache[e].ip # proc[i].msg.src
    /\ proc[i].pc = "update" => cache[proc[i].entry].ip = proc[i].msg.src \/ proc[i].msg.src = Unspec

Updates(i, e) == proc[i].pc = "update" /\ proc[i].new /\ proc[i].entry = e /\ proc[i].msg.src = cache[e].ip
MainHas(e) == proc[Main].pc \in {"nsol1", "nsol2", "last"} /\ proc[Main].entry = e
EntryInv ==
  /\ \A e \in Entries : cache[e].state = "NOENTRY" => cache[e] = Empty
  /\ \A e \in Entries : cache[e].ip \in Hosts \cup Prefixes =>
       cache[e].state = "REACHABLE" \/ MainHas(e) \/ \E i \in Ifaces : Updates(i, e)

\* The second entry of ipv6_init has the router's global address; no netin is about to make
\* another one for it.
MainInv ==
  /\ proc[Main].pc \in Hunts \cup Waits \cup After /\ proc[Main].entry \in Entries \cup {None}
  /\ proc[Main].pc = "mark" => proc[Main].entry \in Entries
  /\ ready = CASE proc[Main].pc \in {"solicit", "ndinit"} -> {}
               [] proc[Main].pc = "fwdinit" -> {"nd"}
               [] OTHER -> {"nd", "fwd"}
  /\ "fwd" \notin ready => routed = {}
  /\ proc[Main].pc \in After /\ proc[Main].entry # None =>
       /\ cache[proc[Main].entry].ip \in Prefixes
       /\ \A i \in Ifaces : proc[i].pc \in Hunts \/ (proc[i].pc = "update" /\ proc[i].new) =>
            proc[i].msg.src # cache[proc[Main].entry].ip
  /\ proc[Main].pc = "done" /\ proc[Main].entry # None => cache[proc[Main].entry].state = "REACHABLE"

ConfInv ==
  /\ conf.has => conf.addr \in Prefixes
  /\ conf.has /\ proc[0].pc # "router" => conf.link = RouterLink /\ conf.ip \in Prefixes
  /\ proc[Main].pc \notin Waits => conf.has /\ conf.link = RouterLink /\ conf.ip \in Prefixes

\* While netin advertises inside, the networks before the one it is at have been told.
ToldInv ==
  /\ InsideFollows
  /\ proc[0].pc = "tell" => /\ proc[0].entry \in Inside
                            /\ \A j \in Inside : j < proc[0].entry => told[j] = conf.addr

NeighbourInv ==
  /\ TypeInv /\ NetinInv /\ OwnInv /\ HandInv /\ EntryInv /\ MainInv /\ ConfInv /\ ToldInv
  /\ ProcessingHeld /\ BindingTrue /\ OneEntryPerHost /\ NeighbourHasRow

-----------------------------------------------------------------------------
(* Interfaces, names, lookups *)

LEMMA IfacesAre ==
  /\ Ifaces \subseteq Nat /\ 0 \in Ifaces /\ Inside \subseteq Ifaces /\ Inside \subseteq Nat \ {0} /\ Inside # {}
  /\ Main \notin Ifaces /\ Main \in P /\ Ifaces \subseteq P /\ 0 # Main
BY NeighbourAssump DEF Ifaces, Main, P

LEMMA NamesAre ==
  /\ Hosts \cap Prefixes = {} /\ Unspec \notin Hosts \cup Prefixes /\ RouterLink \notin Hosts \cup Prefixes
  /\ NoPrefix \notin Prefixes /\ Unspec # RouterLink
  /\ Sources \subseteq Addresses /\ Router \in Macs /\ NoMac \in Macs /\ Hosts \subseteq Macs
  /\ \A a : (a \in Hosts => Owner(a) = a) /\ (a \notin Hosts => Owner(a) = Router)
<1>1. Unspec # RouterLink
  BY DEF Unspec, RouterLink
<1> QED
  BY <1>1, NeighbourAssump DEF Sources, Addresses, Macs, Owner

LEMMA NoneIs == None \notin Entries
BY NeighbourAssump DEF Entries, None

\* First is None or the least number of a set of entries.
LEMMA FirstIs ==
  ASSUME NEW S \in SUBSET Entries
  PROVE  (First(S) = None /\ S = {}) \/ (First(S) # None /\ First(S) \in S)
<1>1. Entries \subseteq Nat \ {0}
  BY NeighbourAssump DEF Entries
<1>2. CASE S # {}
  <2>1. \E n \in S : \A m \in S : n <= m
    BY <1>1, <1>2, LeastNat
  <2> QED
    BY <1>1, <1>2, <2>1 DEF First, Min, None
<1>3. CASE S = {}
  BY <1>3 DEF First
<1> QED
  BY <1>2, <1>3

LEMMA MinIs ==
  ASSUME NEW S \in SUBSET Nat, S # {}
  PROVE  Min(S) \in S /\ Min(S) \in Nat /\ \A m \in S : ~(m < Min(S))
<1>1. \E n \in S : \A m \in S : n <= m
  BY LeastNat
<1>2. Min(S) \in S /\ \A m \in S : Min(S) <= m
  BY <1>1 DEF Min
<1> DEFINE n == Min(S)
<1>3. n \in Nat /\ n \in S /\ \A m \in S : m \in Nat /\ n <= m
  BY <1>2
<1> HIDE DEF n
<1>4. \A m \in S : ~(m < n)
  BY ONLY <1>3
<1> QED
  BY <1>3, <1>4 DEF n

LEMMA LookupIs ==
  ASSUME NEW a
  PROVE  \/ LookupNDEntry(a) = None /\ (\A e \in Entries : cache[e].ip # a)
         \/ LookupNDEntry(a) # None /\ LookupNDEntry(a) \in Entries /\ cache[LookupNDEntry(a)].ip = a
<1> DEFINE S == {e \in Entries : cache[e].ip = a}
<1>1. (First(S) = None /\ S = {}) \/ (First(S) # None /\ First(S) \in S)
  BY FirstIs
<1> QED
  BY <1>1 DEF LookupNDEntry

LEMMA AvailIs ==
  ASSUME Avail # None
  PROVE  Avail \in Entries /\ cache[Avail].state = "NOENTRY"
<1> DEFINE S == {e \in Entries : cache[e].state = "NOENTRY"}
<1>1. (First(S) = None /\ S = {}) \/ (First(S) # None /\ First(S) \in S)
  BY FirstIs
<1> QED
  BY <1>1 DEF Avail

\* Nobody is between finding and marking when another may look for an entry.
LEMMA NobodyMarks ==
  ASSUME Serial, TypeInv, ~BusyFull, NEW p \in P
  PROVE  proc[p].pc # "mark"
<1>1. DOMAIN proc = P /\ IsFiniteSet(P)
  <2>1. IsFiniteSet(Ifaces)
    BY NeighbourAssump, FS_AddElement, FS_Union, FS_Singleton DEF Ifaces
  <2> QED
    BY <2>1, FS_Union, FS_Singleton DEF P, TypeInv
<1>2. IsFiniteSet(Busy)
  BY <1>1, FS_Subset DEF Busy
<1>3. Cardinality(Busy) \in Nat /\ ~(Cardinality(Busy) >= 1)
  BY <1>2, FS_CardinalityType DEF BusyFull, Serial
<1>4. Busy = {}
  BY <1>2, <1>3, FS_EmptySet
<1> QED
  BY <1>1, <1>4 DEF Busy

\* Main runs while no netin does: a netin has nothing in hand, or it looks for an entry and
\* waits for main.
LEMMA MainAlone ==
  ASSUME Serial, TypeInv, MainRuns, NEW i \in Ifaces
  PROVE  proc[i].pc \in {"idle", "asleep"} \/ (proc[i].pc = "find" /\ proc[Main].pc = "mark")
<1>1. DOMAIN proc = P /\ P = Ifaces \cup {Main}
  BY DEF P, TypeInv
<1>2. \A j \in Ifaces : proc[j].pc # "mark"
  BY DEF MainRuns, NetinBlocked
<1>3. ASSUME BusyFull  PROVE Busy # {}
  BY <1>3, FS_EmptySet DEF BusyFull, Serial
<1>4. BusyFull => proc[Main].pc = "mark"
  BY <1>1, <1>2, <1>3 DEF Busy
<1> QED
  BY <1>4 DEF MainRuns, NetinBlocked
-----------------------------------------------------------------------------
(* One process goes on, one entry changes *)

Others(p) == proc' \in [P -> Procs] /\ \A q \in P : q # p => proc'[q] = proc[q]
Goes(p, pc, e) ==
  /\ Others(p)
  /\ proc'[p].pc = pc /\ proc'[p].entry = e /\ proc'[p].msg = proc[p].msg /\ proc'[p].new = proc[p].new
Sets(e, ip, mac, state) ==
  /\ cache' \in [Entries -> Caches] /\ \A f \in Entries : f # e => cache'[f] = cache[f]
  /\ cache'[e].ip = ip /\ cache'[e].mac = mac /\ cache'[e].state = state

LEMMA GotoIs ==
  ASSUME TypeInv, NEW p \in P, NEW pc \in Pcs, Goto(p, pc)
  PROVE  Goes(p, pc, proc[p].entry)
BY DEF TypeInv, Procs, Goto, Goes, Others

LEMMA FindIs ==
  ASSUME TypeInv, NEW p \in P, NEW pc \in Pcs, NEW e \in Nat, proc' = [proc EXCEPT ![p].entry = e, ![p].pc = pc]
  PROVE  Goes(p, pc, e)
<1>1. proc[p] \in Procs
  BY DEF TypeInv
<1>2. proc' = [proc EXCEPT ![p] = [proc[p] EXCEPT !.entry = e, !.pc = pc]]
  OBVIOUS
<1> DEFINE r == [proc[p] EXCEPT !.entry = e, !.pc = pc]
<1>3. r \in Procs /\ r.pc = pc /\ r.entry = e /\ r.msg = proc[p].msg /\ r.new = proc[p].new
  BY <1>1 DEF Procs
<1> HIDE DEF r
<1>4. proc' = [proc EXCEPT ![p] = r]
  BY <1>2 DEF r
<1>5. proc \in [P -> Procs]
  BY DEF TypeInv
<1> QED
  BY <1>3, <1>4, <1>5 DEF Goes, Others

LEMMA DoneIs ==
  ASSUME TypeInv, NEW p \in P, proc' = [proc EXCEPT ![p] = Idle]
  PROVE  Others(p) /\ proc'[p] = Idle
<1>1. Idle \in Procs
  BY DEF Idle, Procs, Pcs, NoMessage, None
<1> QED
  BY <1>1 DEF TypeInv, Others

LEMMA StateIs ==
  ASSUME TypeInv, NEW e \in Entries, NEW state \in States, cache' = [cache EXCEPT ![e].state = state]
  PROVE  Sets(e, cache[e].ip, cache[e].mac, state)
BY DEF TypeInv, Caches, Sets

LEMMA AddressIs ==
  ASSUME TypeInv, NEW e \in Entries, NEW ip \in Addresses, cache' = [cache EXCEPT ![e].ip = ip]
  PROVE  Sets(e, ip, cache[e].mac, cache[e].state)
BY DEF TypeInv, Caches, Sets

LEMMA ReachableIs ==
  ASSUME TypeInv, NEW e \in Entries, NEW mac \in Macs,
         cache' = [cache EXCEPT ![e].state = "REACHABLE", ![e].mac = mac]
  PROVE  Sets(e, cache[e].ip, mac, "REACHABLE")
<1> DEFINE r == [cache[e] EXCEPT !.state = "REACHABLE", !.mac = mac]
<1>1. cache[e] \in Caches /\ cache \in [Entries -> Caches]
  BY DEF TypeInv
<1>2. r \in Caches /\ r.ip = cache[e].ip /\ r.mac = mac /\ r.state = "REACHABLE"
  BY <1>1 DEF Caches, States
<1>3. cache' = [cache EXCEPT ![e] = r]
  OBVIOUS
<1> HIDE DEF r
<1> QED
  BY <1>1, <1>2, <1>3 DEF Sets

\* A netin that has nothing in hand any more.
LEMMA IdleInv ==
  ASSUME NeighbourInv, NEW i \in Ifaces, Others(i), proc'[i] = Idle,
         proc[i].pc \in {"find", "asleep"},
         UNCHANGED <<host, cache, rows, ready, conf, told, routed>>
  PROVE  NeighbourInv'
<1>0. /\ Main \notin Ifaces /\ Main \in P /\ Ifaces \subseteq P /\ 0 # Main /\ 0 \in Ifaces
      /\ Idle.pc = "idle" /\ Idle.entry = None
  BY IfacesAre DEF Idle
<1>1. TypeInv'
  BY DEF NeighbourInv, TypeInv, Others
<1>2. NetinInv'
  BY <1>0 DEF NeighbourInv, NetinInv, Others, Hunts
<1>3. OwnInv'
  BY <1>0 DEF NeighbourInv, OwnInv, Owns, Others
<1>4. HandInv'
  BY <1>0 DEF NeighbourInv, HandInv, Others, Hunts
<1>5. EntryInv'
  BY <1>0 DEF NeighbourInv, EntryInv, Updates, MainHas, Others
<1>6. MainInv'
  BY <1>0 DEF NeighbourInv, MainInv, Others, Hunts
<1>7. ConfInv' /\ ToldInv'
  BY <1>0 DEF NeighbourInv, ConfInv, ToldInv, InsideFollows, Others
<1>8. ProcessingHeld'
  BY <1>0 DEF NeighbourInv, ProcessingHeld, Others, TypeInv
<1> QED
  BY <1>1, <1>2, <1>3, <1>4, <1>5, <1>6, <1>7, <1>8 DEF NeighbourInv, BindingTrue, OneEntryPerHost, NeighbourHasRow

\* getAvailNDEntry, for netin.
LEMMA FindNetinInv ==
  ASSUME Serial, NeighbourInv, NEW i \in Ifaces, FindFree(i)
  PROVE  NeighbourInv'
<1>0. /\ Main \notin Ifaces /\ Main \in P /\ Ifaces \subseteq P /\ 0 # Main /\ 0 \in Ifaces /\ i \in P /\ i # Main
  BY IfacesAre
<1>1. /\ proc[i].pc = "find" /\ ~BusyFull /\ UNCHANGED <<host, cache, rows, ready, conf, told, routed>>
      /\ \/ Avail # None /\ proc' = [proc EXCEPT ![i].entry = Avail, ![i].pc = "mark"]
         \/ proc' = [proc EXCEPT ![i] = Idle]
  BY <1>0 DEF FindFree
<1>2. TypeInv
  BY DEF NeighbourInv
<1>3. CASE proc' = [proc EXCEPT ![i] = Idle]
  BY <1>0, <1>1, <1>2, <1>3, DoneIs, IdleInv
<1>4. CASE Avail # None /\ proc' = [proc EXCEPT ![i].entry = Avail, ![i].pc = "mark"]
  <2>1. Avail \in Entries /\ cache[Avail].state = "NOENTRY" /\ Avail \in Nat /\ Avail # None
    BY <1>4, AvailIs DEF Entries
  <2>2. Goes(i, "mark", Avail)
    BY <1>0, <1>2, <1>4, <2>1, FindIs DEF Pcs
  <2>3. cache[Avail].ip = Unspec /\ cache[Avail].mac = NoMac
    BY <2>1 DEF NeighbourInv, EntryInv, Empty
  <2>4. \A p \in P : proc[p].pc # "mark"
    BY <1>1, <1>2, NobodyMarks
  <2>5. \A p \in P : Owns(p) => proc[p].entry # Avail
    BY <2>1, <2>4 DEF NeighbourInv, OwnInv, Owns
  <2>11. TypeInv'
    BY <1>1, <2>2 DEF NeighbourInv, TypeInv, Goes, Others
  <2>12. NetinInv'
    BY <1>0, <1>1, <2>1, <2>2 DEF NeighbourInv, NetinInv, Goes, Others, Hunts
  <2>13. OwnInv'
    BY <1>0, <1>1, <2>1, <2>2, <2>3, <2>4, <2>5 DEF NeighbourInv, OwnInv, Owns, Goes, Others
  <2>14. HandInv'
    BY <1>0, <1>1, <2>2 DEF NeighbourInv, HandInv, Goes, Others, Hunts
  <2>15. EntryInv'
    BY <1>0, <1>1, <2>2 DEF NeighbourInv, EntryInv, Updates, MainHas, Goes, Others
  <2>16. MainInv'
    BY <1>0, <1>1, <2>2 DEF NeighbourInv, MainInv, Goes, Others, Hunts
  <2>17. ConfInv' /\ ToldInv'
    BY <1>0, <1>1, <2>2 DEF NeighbourInv, ConfInv, ToldInv, InsideFollows, Goes, Others
  <2>18. ProcessingHeld'
    BY <1>0, <1>1, <1>2, <2>2, <2>11 DEF NeighbourInv, ProcessingHeld, Goes, Others, TypeInv
  <2> QED
    BY <1>1, <2>11, <2>12, <2>13, <2>14, <2>15, <2>16, <2>17, <2>18
    DEF NeighbourInv, BindingTrue, OneEntryPerHost, NeighbourHasRow
<1> QED
  BY <1>1, <1>3, <1>4
\* getAvailNDEntry, for main.
LEMMA FindMainInv ==
  ASSUME Serial, NeighbourInv, FindFree(Main)
  PROVE  NeighbourInv'
<1>0. Main \notin Ifaces /\ Main \in P /\ Ifaces \subseteq P /\ 0 # Main /\ 0 \in Ifaces
  BY IfacesAre
<1>1. /\ proc[Main].pc = "find" /\ ~BusyFull /\ UNCHANGED <<host, cache, rows, ready, conf, told, routed>>
      /\ \/ Avail # None /\ proc' = [proc EXCEPT ![Main].entry = Avail, ![Main].pc = "mark"]
         \/ proc' = [proc EXCEPT ![Main].entry = None, ![Main].pc = "fill"]
  BY DEF FindFree
<1>2. TypeInv
  BY DEF NeighbourInv
<1>3. \A p \in P : proc[p].pc # "mark"
  BY <1>1, <1>2, NobodyMarks
<1>4. ASSUME NEW pc, NEW e, Goes(Main, pc, e),
             (pc = "mark" /\ e # None /\ e \in Entries /\ cache[e].state = "NOENTRY") \/ (pc = "fill" /\ e = None)
      PROVE  NeighbourInv'
  <2>1. e # None => cache[e].ip = Unspec /\ cache[e].mac = NoMac
    BY <1>4 DEF NeighbourInv, EntryInv, Empty
  <2>2. e # None => \A p \in P : Owns(p) => proc[p].entry # e
    BY <1>3, <1>4 DEF NeighbourInv, OwnInv, Owns
  <2>11. TypeInv'
    BY <1>1, <1>4 DEF NeighbourInv, TypeInv, Goes, Others
  <2>12. NetinInv'
    BY <1>0, <1>1, <1>4 DEF NeighbourInv, NetinInv, Goes, Others, Hunts
  <2>13. OwnInv'
    BY <1>0, <1>1, <1>3, <1>4, <2>1, <2>2 DEF NeighbourInv, OwnInv, Owns, Goes, Others
  <2>14. HandInv'
    BY <1>0, <1>1, <1>4 DEF NeighbourInv, HandInv, Goes, Others, Hunts
  <2>15. EntryInv'
    BY <1>0, <1>1, <1>4 DEF NeighbourInv, EntryInv, Updates, MainHas, Goes, Others
  <2>16. MainInv'
    BY <1>0, <1>1, <1>4 DEF NeighbourInv, MainInv, Goes, Others, Hunts, After
  <2>17. ConfInv' /\ ToldInv'
    BY <1>0, <1>1, <1>4 DEF NeighbourInv, ConfInv, ToldInv, InsideFollows, Goes, Others, Waits
  <2>18. ProcessingHeld'
    BY <1>0, <1>1, <1>2, <1>4, <2>11 DEF NeighbourInv, ProcessingHeld, Goes, Others, TypeInv
  <2> QED
    BY <1>1, <2>11, <2>12, <2>13, <2>14, <2>15, <2>16, <2>17, <2>18
    DEF NeighbourInv, BindingTrue, OneEntryPerHost, NeighbourHasRow
<1>5. None \in Nat /\ (Avail # None => Avail \in Entries /\ Avail \in Nat /\ cache[Avail].state = "NOENTRY")
  BY AvailIs DEF Entries, None
<1>6. CASE Avail # None /\ proc' = [proc EXCEPT ![Main].entry = Avail, ![Main].pc = "mark"]
  BY <1>0, <1>2, <1>4, <1>5, <1>6, FindIs DEF Pcs
<1>7. CASE proc' = [proc EXCEPT ![Main].entry = None, ![Main].pc = "fill"]
  BY <1>0, <1>2, <1>4, <1>5, <1>7, FindIs DEF Pcs
<1> QED
  BY <1>1, <1>6, <1>7

\* The mark on the entry that was found.
LEMMA MarkInv ==
  ASSUME NeighbourInv, NEW p \in P, MarkFree(p)
  PROVE  NeighbourInv'
<1> DEFINE e == proc[p].entry
<1>0. Main \notin Ifaces /\ Main \in P /\ P = Ifaces \cup {Main} /\ 0 # Main /\ 0 \in Ifaces
  BY IfacesAre DEF P
<1>1. /\ proc[p].pc = "mark" /\ cache' = [cache EXCEPT ![e].state = "PROCESSING"] /\ Goto(p, "fill")
      /\ UNCHANGED <<host, rows, ready, conf, told, routed>>
  BY DEF MarkFree
<1>2. TypeInv
  BY DEF NeighbourInv
<1>3. Goes(p, "fill", e)
  BY <1>1, <1>2, GotoIs DEF Pcs
<1>4. e \in Entries /\ e # None
  BY <1>0, <1>1 DEF NeighbourInv, NetinInv, MainInv, Entries, None
<1>5. Sets(e, cache[e].ip, cache[e].mac, "PROCESSING")
  BY <1>1, <1>2, <1>4, StateIs DEF States
<1>6. Owns(p) /\ cache[e].ip = Unspec /\ cache[e].mac = NoMac
  BY <1>1, <1>4 DEF NeighbourInv, OwnInv, Owns
<1>7. Unspec \notin Hosts \cup Prefixes
  BY NamesAre
<1> HIDE DEF e
<1>8. \A f \in Entries : cache'[f].ip = cache[f].ip /\ cache'[f].mac = cache[f].mac
  BY <1>5 DEF Sets
<1>11. TypeInv'
  BY <1>1, <1>2, <1>3, <1>5 DEF TypeInv, Goes, Others, Sets
<1>12. NetinInv'
  BY <1>0, <1>1, <1>3, <1>4 DEF NeighbourInv, NetinInv, Goes, Others, Hunts
<1>13. OwnInv'
  BY <1>0, <1>1, <1>3, <1>4, <1>5, <1>6, <1>8 DEF NeighbourInv, OwnInv, Owns, Goes, Others, Sets, e
<1>14. HandInv'
  BY <1>0, <1>1, <1>3, <1>8 DEF NeighbourInv, HandInv, NetinInv, Goes, Others, Hunts
<1>15. EntryInv'
  BY <1>0, <1>1, <1>3, <1>5, <1>6, <1>7, <1>8 DEF NeighbourInv, EntryInv, Updates, MainHas, Goes, Others, Sets
<1>16. MainInv'
  BY <1>0, <1>1, <1>3, <1>4, <1>5, <1>6, <1>7, <1>8 DEF NeighbourInv, MainInv, Goes, Others, Hunts, After, Sets
<1>17. ConfInv' /\ ToldInv'
  BY <1>0, <1>1, <1>3 DEF NeighbourInv, ConfInv, ToldInv, InsideFollows, Goes, Others, Waits
<1>18. ProcessingHeld'
  BY <1>0, <1>1, <1>2, <1>3, <1>5, <1>11 DEF NeighbourInv, ProcessingHeld, Goes, Others, TypeInv, Sets
<1>19. BindingTrue' /\ OneEntryPerHost' /\ NeighbourHasRow'
  BY <1>1, <1>8 DEF NeighbourInv, BindingTrue, OneEntryPerHost, NeighbourHasRow
<1> QED
  BY <1>11, <1>12, <1>13, <1>14, <1>15, <1>16, <1>17, <1>18, <1>19 DEF NeighbourInv
\* The address of a neighbour goes into its entry.
LEMMA SolAddressInv ==
  ASSUME NeighbourInv, NEW i \in Ifaces, SolAddress(i)
  PROVE  NeighbourInv'
<1> DEFINE e == proc[i].entry
           a == proc[i].msg.src
<1>0. Main \notin Ifaces /\ Main \in P /\ P = Ifaces \cup {Main} /\ 0 # Main /\ 0 \in Ifaces /\ i # Main
  BY IfacesAre DEF P
<1>1. /\ proc[i].pc = "fill" /\ cache' = [cache EXCEPT ![e].ip = a] /\ Goto(i, "update")
      /\ UNCHANGED <<host, rows, ready, conf, told, routed>>
  BY DEF SolAddress
<1>2. TypeInv
  BY DEF NeighbourInv
<1>3. Goes(i, "update", e)
  BY <1>0, <1>1, <1>2, GotoIs DEF Pcs
<1>4. /\ e \in Entries /\ e # None /\ proc[i].msg \in Received /\ a \in Sources /\ proc[i].new
      /\ a \in Hosts => Home[a] = i
  BY <1>1 DEF NeighbourInv, NetinInv, Hunts, Entries, None, Received
<1>5. Sets(e, a, cache[e].mac, cache[e].state)
  BY <1>1, <1>2, <1>4, AddressIs, NamesAre
<1>6. Owns(i) /\ cache[e].ip = Unspec /\ cache[e].mac = NoMac /\ cache[e].state # "NOENTRY"
  BY <1>0, <1>1, <1>4 DEF NeighbourInv, OwnInv, Owns
<1>7. Unspec \notin Hosts \cup Prefixes
  BY NamesAre
<1>8. a \in Hosts => \A f \in Entries : cache[f].ip # a
  BY <1>1 DEF NeighbourInv, HandInv, Hunts
<1>9. \A q \in P : Owns(q) /\ proc[q].entry = e => q = i
  BY <1>0, <1>6 DEF NeighbourInv, OwnInv
<1>10. /\ \A f \in Entries : cache'[f].mac = cache[f].mac /\ cache'[f].state = cache[f].state
       /\ \A j \in Ifaces : j # i => proc'[j] = proc[j]
       /\ proc'[Main] = proc[Main]
  BY <1>0, <1>3, <1>5 DEF Sets, Goes, Others
<1> HIDE DEF e, a
<1>11. TypeInv'
  BY <1>1, <1>2, <1>3, <1>5 DEF TypeInv, Goes, Others, Sets
<1>12. NetinInv'
  BY <1>0, <1>1, <1>3, <1>4 DEF NeighbourInv, NetinInv, Goes, Others, Hunts
<1>13. OwnInv'
  BY <1>0, <1>1, <1>3, <1>4, <1>5, <1>9, <1>10 DEF NeighbourInv, OwnInv, Owns, Goes, Others, Sets
<1>14. HandInv'
  <2>1. ASSUME NEW j \in Ifaces, j # i, proc[j].pc \in Hunts, proc[j].msg.src \in Hosts
        PROVE  proc[j].msg.src # a
    BY <1>4, <2>1 DEF NeighbourInv, NetinInv
  <2>2. ASSUME NEW j \in Ifaces, j # i, proc[j].pc = "update", proc[j].entry = e
        PROVE  proc[j].msg.src = Unspec
    BY <1>6, <2>2 DEF NeighbourInv, HandInv
  <2>3. ASSUME NEW j \in Ifaces
        PROVE  proc'[j].pc \in Hunts /\ proc'[j].msg.src \in Hosts => \A f \in Entries : cache'[f].ip # proc'[j].msg.src
    BY <1>3, <1>5, <1>10, <2>1, <2>3 DEF NeighbourInv, HandInv, Goes, Sets, Hunts
  <2>4. ASSUME NEW j \in Ifaces, proc'[j].pc = "update"
        PROVE  cache'[proc'[j].entry].ip = proc'[j].msg.src \/ proc'[j].msg.src = Unspec
    <3>1. CASE j = i
      BY <1>3, <1>5, <3>1 DEF Goes, Sets, a
    <3>2. CASE j # i
      <4>1. proc'[j] = proc[j] /\ proc[j].pc = "update" /\ proc[j].entry \in Entries
        BY <1>10, <3>2, <2>4 DEF NeighbourInv, NetinInv
      <4>2. CASE proc[j].entry = e
        BY <2>2, <3>2, <4>1, <4>2
      <4>3. CASE proc[j].entry # e
        BY <1>5, <4>1, <4>3 DEF NeighbourInv, HandInv, Sets
      <4> QED
        BY <4>2, <4>3
    <3> QED
      BY <3>1, <3>2
  <2> QED
    BY <2>3, <2>4 DEF HandInv
<1>15. EntryInv'
  <2>1. \A f \in Entries : f # e => cache'[f] = cache[f]
    BY <1>5 DEF Sets
  <2>2. \A f \in Entries : f = e => Updates(i, f)'
    BY <1>3, <1>4, <1>5 DEF Updates, Goes, Sets, a
  <2>3. \A f \in Entries : \A j \in Ifaces : f # e /\ Updates(j, f) => Updates(j, f)'
    BY <1>1, <1>10, <2>1 DEF Updates
  <2>4. \A f \in Entries : MainHas(f) => MainHas(f)'
    BY <1>10 DEF MainHas
  <2>5. \A f \in Entries : cache'[f].state = "NOENTRY" => cache'[f] = Empty
    BY <1>6, <1>10, <2>1 DEF NeighbourInv, EntryInv
  <2>6. ASSUME NEW f \in Entries, f # e, cache'[f].ip \in Hosts \cup Prefixes
        PROVE  cache'[f].state = "REACHABLE" \/ MainHas(f)' \/ \E j \in Ifaces : Updates(j, f)'
    BY <2>1, <2>3, <2>4, <2>6 DEF NeighbourInv, EntryInv
  <2> QED
    BY <2>2, <2>5, <2>6 DEF EntryInv
<1>16. MainInv'
  BY <1>0, <1>1, <1>3, <1>4, <1>5, <1>6, <1>7, <1>10 DEF NeighbourInv, MainInv, Goes, Hunts, Sets
<1>17. ConfInv' /\ ToldInv'
  BY <1>0, <1>1, <1>3 DEF NeighbourInv, ConfInv, ToldInv, InsideFollows, Goes, Others, Waits
<1>18. ProcessingHeld'
  <2>1. DOMAIN proc = P /\ DOMAIN proc' = P
    BY <1>2, <1>11 DEF TypeInv
  <2>2. \A q \in P : proc'[q].entry = proc[q].entry /\ (proc[q].pc \in {"fill", "update"} => proc'[q].pc \in {"fill", "update"})
    BY <1>0, <1>3, <1>10 DEF Goes, e
  <2> QED
    BY <1>10, <2>1, <2>2 DEF NeighbourInv, ProcessingHeld
<1>19. BindingTrue' /\ OneEntryPerHost' /\ NeighbourHasRow'
  BY <1>1, <1>5, <1>6, <1>8 DEF NeighbourInv, BindingTrue, OneEntryPerHost, NeighbourHasRow, Sets
<1> QED
  BY <1>11, <1>12, <1>13, <1>14, <1>15, <1>16, <1>17, <1>18, <1>19 DEF NeighbourInv
\* An entry becomes reachable, with the MAC address of its neighbour or the one it had; the
\* handler is done with it.
Releases(i, e) ==
  /\ Others(i) /\ proc[i].pc = "update" /\ proc[i].entry = e
  /\ proc'[i].pc \in {"asleep", "idle"} /\ proc'[i].entry \in Entries \cup {None}
LEMMA ReachableInv ==
  ASSUME NeighbourInv, NEW e \in Entries, NEW mac, Sets(e, cache[e].ip, mac, "REACHABLE"),
         mac = cache[e].mac \/ (cache[e].ip # Unspec /\ mac = Owner(cache[e].ip)),
         NEW i \in Ifaces, UNCHANGED proc \/ Releases(i, e),
         TypeInv', NeighbourHasRow', UNCHANGED <<host, ready, conf, told>>,
         UNCHANGED routed \/ "fwd" \in ready
  PROVE  NeighbourInv'
<1>0. Main \notin Ifaces /\ Main \in P /\ P = Ifaces \cup {Main} /\ 0 # Main /\ 0 \in Ifaces /\ i # Main
  BY IfacesAre DEF P
<1>1. TypeInv
  BY DEF NeighbourInv
<1>2. /\ \A f \in Entries : cache'[f].ip = cache[f].ip
      /\ \A f \in Entries : cache'[f].state = cache[f].state \/ (f = e /\ cache'[f].state = "REACHABLE")
      /\ \A f \in Entries : f # e => cache'[f] = cache[f]
  BY DEF Sets
<1>3. /\ \A p \in P : p # i => proc'[p] = proc[p]
      /\ proc'[Main] = proc[Main]
      /\ \/ proc'[i] = proc[i]
         \/ proc'[i].pc \in {"asleep", "idle"} /\ proc[i].pc = "update" /\ proc[i].entry = e /\ proc'[i].entry \in Entries \cup {None}
  BY <1>0 DEF Releases, Others
<1>4. \A f \in Entries : cache[f].ip = Unspec => cache'[f].mac = cache[f].mac
  BY DEF Sets
<1>5. UNCHANGED <<host, ready, conf, told>>
  OBVIOUS
<1>12. NetinInv'
  BY <1>0, <1>3 DEF NeighbourInv, NetinInv, Hunts
<1>13. OwnInv'
  <2>1. \A p \in P : Owns(p)' => Owns(p) /\ proc'[p] = proc[p]
    BY <1>3 DEF Owns
  <2>2. \A p \in P : proc'[p].pc = "mark" => proc[p].pc = "mark"
    BY <1>3
  <2>3. ASSUME NEW p \in P, Owns(p)'
        PROVE  /\ proc'[p].entry \in Entries
               /\ cache'[proc'[p].entry].ip = Unspec /\ cache'[proc'[p].entry].mac = NoMac
               /\ proc'[p].pc = "fill" => cache'[proc'[p].entry].state # "NOENTRY"
    BY <1>2, <1>4, <2>1, <2>3 DEF NeighbourInv, OwnInv
  <2> QED
    BY <2>1, <2>2, <2>3 DEF NeighbourInv, OwnInv
<1>14. HandInv'
  BY <1>0, <1>2, <1>3 DEF NeighbourInv, HandInv, NetinInv, Hunts
<1>15. EntryInv'
  <2>1. \A f \in Entries : \A j \in Ifaces : f # e /\ Updates(j, f) => Updates(j, f)'
    BY <1>0, <1>2, <1>3 DEF Updates
  <2>2. \A f \in Entries : MainHas(f) => MainHas(f)'
    BY <1>3 DEF MainHas
  <2>3. \A f \in Entries : cache'[f].state = "NOENTRY" => cache'[f] = Empty
    BY <1>2 DEF NeighbourInv, EntryInv, Sets
  <2>4. ASSUME NEW f \in Entries, f # e, cache'[f].ip \in Hosts \cup Prefixes
        PROVE  cache'[f].state = "REACHABLE" \/ MainHas(f)' \/ \E j \in Ifaces : Updates(j, f)'
    BY <1>2, <2>1, <2>2, <2>4 DEF NeighbourInv, EntryInv
  <2>5. cache'[e].state = "REACHABLE"
    BY DEF Sets
  <2> QED
    BY <2>3, <2>4, <2>5 DEF EntryInv
<1>16. MainInv'
  <2>1. \A j \in Ifaces : proc'[j].pc \in Hunts \/ (proc'[j].pc = "update" /\ proc'[j].new) => proc'[j] = proc[j]
    BY <1>0, <1>3 DEF Hunts
  <2> QED
    BY <1>0, <1>2, <1>3, <2>1 DEF NeighbourInv, MainInv
<1>17. ConfInv' /\ ToldInv'
  <2>1. proc[0].pc \notin {"router", "tell"} => proc'[0].pc \notin {"router", "tell"}
    BY <1>0, <1>3
  <2>2. proc[0].pc \in {"router", "tell"} => proc'[0] = proc[0]
    BY <1>0, <1>3
  <2> QED
    BY <1>3, <1>5, <2>1, <2>2 DEF NeighbourInv, ConfInv, ToldInv, InsideFollows
<1>18. ProcessingHeld'
  <2>1. DOMAIN proc = P /\ DOMAIN proc' = P
    BY <1>1 DEF TypeInv
  <2>2. \A q \in P : proc[q].pc \in {"fill", "update"} /\ proc[q].entry # e => proc'[q] = proc[q]
    BY <1>3
  <2>3. cache'[e].state = "REACHABLE"
    BY DEF Sets
  <2> QED
    BY <1>2, <2>1, <2>2, <2>3 DEF NeighbourInv, ProcessingHeld
<1>19. BindingTrue' /\ OneEntryPerHost'
  BY <1>2 DEF NeighbourInv, BindingTrue, OneEntryPerHost, Sets
<1> QED
  BY <1>12, <1>13, <1>14, <1>15, <1>16, <1>17, <1>18, <1>19 DEF NeighbourInv

\* A row for a neighbour that was answered.
LEMMA RowIs ==
  ASSUME NeighbourInv, NEW i \in Ifaces, NEW h \in Sources, h \in Hosts => Home[h] = i, RowFree,
         rows' = Append(rows, [ip |-> h, iface |-> i]), routed' = routed \cup {h}
  PROVE  /\ rows' \in Seq([ip : Addresses, iface : Ifaces]) /\ Len(rows') <= MAXFWDTABENTRIES
         /\ NeighbourHasRow'
<1> DEFINE r == [ip |-> h, iface |-> i]
           R == [ip : Addresses, iface : Ifaces]
<1>1. rows \in Seq(R) /\ Len(rows) < MAXFWDTABENTRIES /\ r \in R
  BY NamesAre DEF NeighbourInv, TypeInv, RowFree
<1> HIDE DEF R
<1>2. Len(rows) \in Nat /\ DOMAIN rows = 1..Len(rows) /\ MAXFWDTABENTRIES \in Nat
  BY <1>1, LenProperties, NeighbourAssump
<1>3. /\ rows' \in Seq(R) /\ Len(rows') = Len(rows) + 1
      /\ \A k \in 1..Len(rows) : rows'[k] = rows[k]
      /\ rows'[Len(rows) + 1] = r
  BY <1>1, AppendProperties
<1>4. DOMAIN rows' = 1..Len(rows')
  BY <1>3, LenProperties
<1>5. ASSUME NEW g \in routed' \cap Hosts
      PROVE  \E k \in DOMAIN rows' : rows'[k] = [ip |-> g, iface |-> Home[g]]
  <2>1. CASE g = h
    <3>1. Len(rows) + 1 \in DOMAIN rows'
      BY <1>2, <1>3, <1>4
    <3> QED
      BY <1>3, <1>5, <2>1, <3>1
  <2>2. CASE g # h
    <3>1. PICK k \in DOMAIN rows : rows[k] = [ip |-> g, iface |-> Home[g]]
      BY <1>5, <2>2 DEF NeighbourInv, NeighbourHasRow
    <3>2. k \in DOMAIN rows' /\ rows'[k] = rows[k]
      BY <1>2, <1>3, <1>4, <3>1
    <3> QED
      BY <3>1, <3>2
  <2> QED
    BY <2>1, <2>2
<1>6. Len(rows') <= MAXFWDTABENTRIES
  BY <1>1, <1>2, <1>3
<1> QED
  BY <1>3, <1>5, <1>6 DEF NeighbourHasRow, R
\* The second half of nsolicit_handler.
LEMMA SolUpdateInv ==
  ASSUME NeighbourInv, NEW i \in Ifaces, SolUpdate(i)
  PROVE  NeighbourInv'
<1> DEFINE e == proc[i].entry
           h == proc[i].msg.src
           opt == proc[i].msg.opt
<1>0. i \in P /\ i # Main
  BY IfacesAre
<1>1. /\ proc[i].pc = "update" /\ UNCHANGED <<host, ready, conf, told>>
      /\ \/ /\ opt
            /\ cache' = [cache EXCEPT ![e].state = "REACHABLE", ![e].mac = Owner(h)]
            /\ \/ RowFree /\ rows' = Append(rows, [ip |-> cache[e].ip, iface |-> i]) /\ routed' = routed \cup {h}
               \/ UNCHANGED <<rows, routed>>
            /\ Goto(i, "asleep") \/ Done(i)
         \/ /\ cache' = [cache EXCEPT ![e].state = "REACHABLE"]
            /\ Done(i) /\ UNCHANGED <<rows, routed>>
  BY DEF SolUpdate
<1>2. TypeInv
  BY DEF NeighbourInv
<1>3. /\ e \in Entries /\ proc[i].msg \in Received /\ h \in Sources /\ (opt => h # Unspec)
      /\ h \in Hosts => Home[h] = i
      /\ cache[e].ip = h \/ h = Unspec
  BY <1>1 DEF NeighbourInv, NetinInv, HandInv, Received
<1>4. Releases(i, e)
  <2>1. CASE Goto(i, "asleep")
    <3>1. Goes(i, "asleep", e)
      BY <1>0, <1>2, <2>1, GotoIs DEF Pcs
    <3> QED
      BY <1>1, <1>3, <3>1 DEF Goes, Releases
  <2>2. CASE Done(i)
    <3>1. Others(i) /\ proc'[i] = Idle
      BY <1>0, <1>2, <2>2, DoneIs DEF Done
    <3> QED
      BY <1>1, <1>3, <3>1 DEF Releases, Idle
  <2> QED
    BY <1>1, <2>1, <2>2
<1>5. \E mac \in Macs : /\ Sets(e, cache[e].ip, mac, "REACHABLE")
                        /\ mac = cache[e].mac \/ (cache[e].ip # Unspec /\ mac = Owner(cache[e].ip))
  <2>1. CASE opt /\ cache' = [cache EXCEPT ![e].state = "REACHABLE", ![e].mac = Owner(h)]
    <3>1. Owner(h) \in Macs /\ h = cache[e].ip /\ h # Unspec
      BY <1>3, <2>1, NamesAre
    <3> HIDE DEF e, h, opt
    <3>2. Sets(e, cache[e].ip, Owner(h), "REACHABLE")
      BY <1>2, <1>3, <2>1, <3>1, ReachableIs
    <3> QED
      BY <3>1, <3>2
  <2>2. CASE cache' = [cache EXCEPT ![e].state = "REACHABLE"]
    <3>1. Sets(e, cache[e].ip, cache[e].mac, "REACHABLE")
      BY <1>2, <1>3, <2>2, StateIs DEF States
    <3>2. cache[e].mac \in Macs
      BY <1>2, <1>3 DEF TypeInv, Caches
    <3> QED
      BY <3>1, <3>2
  <2> QED
    BY <1>1, <2>1, <2>2
<1>6. /\ rows' \in Seq([ip : Addresses, iface : Ifaces]) /\ Len(rows') <= MAXFWDTABENTRIES
      /\ NeighbourHasRow'
      /\ UNCHANGED routed \/ "fwd" \in ready
  <2>1. CASE UNCHANGED <<rows, routed>>
    BY <2>1 DEF NeighbourInv, TypeInv, NeighbourHasRow
  <2>2. CASE opt /\ RowFree /\ rows' = Append(rows, [ip |-> cache[e].ip, iface |-> i]) /\ routed' = routed \cup {h}
    <3>1. cache[e].ip = h
      BY <1>3, <2>2
    <3> HIDE DEF e, h, opt
    <3> QED
      BY <1>3, <2>2, <3>1, RowIs DEF RowFree
  <2> QED
    BY <1>1, <2>1, <2>2
<1> HIDE DEF e, h, opt
<1>7. TypeInv'
  BY <1>1, <1>2, <1>4, <1>5, <1>6 DEF TypeInv, Releases, Others, Sets
<1> QED
  BY <1>1, <1>3, <1>4, <1>5, <1>6, <1>7, ReachableInv

\* nadvert_handler.
LEMMA AdvertisedInv ==
  ASSUME NeighbourInv, NEW i \in Ifaces, NEW m, Valid(m), Advertised(i, m)
  PROVE  NeighbourInv'
<1> DEFINE e == LookupNDEntry(m.src)
<1>1. /\ m.type = "NA" /\ e # None
      /\ cache' = [cache EXCEPT ![e].state = "REACHABLE", ![e].mac = IF m.opt THEN Owner(m.src) ELSE @]
      /\ UNCHANGED <<host, rows, ready, conf, proc, told, routed>>
  BY DEF Advertised
<1>2. TypeInv
  BY DEF NeighbourInv
<1>3. m \in Received /\ m.src \in Sources /\ m.src # Unspec
  BY <1>1 DEF Valid, Received, Sources
<1>4. e \in Entries /\ cache[e].ip = m.src
  BY <1>1, LookupIs
<1> HIDE DEF e
<1> DEFINE mac == IF m.opt THEN Owner(m.src) ELSE cache[e].mac
<1>5. mac \in Macs
  BY <1>2, <1>3, <1>4, NamesAre DEF TypeInv, Caches
<1>6. cache' = [cache EXCEPT ![e].state = "REACHABLE", ![e].mac = mac]
  BY <1>1
<1>7. mac = cache[e].mac \/ (cache[e].ip # Unspec /\ mac = Owner(cache[e].ip))
  BY <1>3, <1>4
<1> HIDE DEF mac
<1>8. Sets(e, cache[e].ip, mac, "REACHABLE")
  BY <1>2, <1>4, <1>5, <1>6, ReachableIs
<1>9. TypeInv' /\ NeighbourHasRow'
  BY <1>1, <1>2, <1>8 DEF NeighbourInv, TypeInv, Sets, NeighbourHasRow
<1> QED
  BY <1>1, <1>4, <1>7, <1>8, <1>9, ReachableInv

\* sleep(3) ends.
LEMMA SolWakeInv ==
  ASSUME NeighbourInv, NEW i \in Ifaces, SolWake(i)
  PROVE  NeighbourInv'
<1>1. TypeInv /\ i \in P
  BY IfacesAre DEF NeighbourInv
<1> QED
  BY <1>1, DoneIs, IdleInv DEF SolWake, Done

\* The first half of nsolicit_handler.
LEMMA SolicitedInv ==
  ASSUME NeighbourInv, NEW i \in Ifaces, NEW m, Valid(m), m.src = Unspec \/ Where(m.src) = i, Solicited(i, m)
  PROVE  NeighbourInv'
<1> DEFINE e == LookupNDEntry(m.src)
           r == [pc |-> IF e = None THEN "find" ELSE "update", msg |-> m, entry |-> e, new |-> e = None]
<1>0. Main \notin Ifaces /\ Main \in P /\ P = Ifaces \cup {Main} /\ 0 # Main /\ 0 \in Ifaces /\ i # Main /\ i \in P
  BY IfacesAre DEF P
<1>1. /\ proc[i].pc = "idle" /\ "nd" \in ready /\ proc' = [proc EXCEPT ![i] = r]
      /\ UNCHANGED <<host, cache, rows, ready, conf, told, routed>>
  BY DEF Solicited, Ready
<1>2. TypeInv
  BY DEF NeighbourInv
<1>3. /\ m \in Received /\ (m.opt => m.src # Unspec)
      /\ m.src \in Hosts => Home[m.src] = i
  BY NamesAre DEF Valid, Received, Sources, Where
<1>4. /\ e = None => \A f \in Entries : cache[f].ip # m.src
      /\ e # None => e \in Entries /\ cache[e].ip = m.src
      /\ e \in Entries \cup {None}
  BY LookupIs
<1>5. r \in Procs
  BY <1>3, <1>4 DEF Procs, Pcs, Entries, None
<1>6. Others(i) /\ proc'[i] = r
  BY <1>0, <1>1, <1>2, <1>5 DEF TypeInv, Others
<1>7. /\ proc'[i].msg = m /\ proc'[i].entry = e
      /\ (proc'[i].pc = "find" /\ e = None /\ proc'[i].new) \/ (proc'[i].pc = "update" /\ e # None /\ ~proc'[i].new)
  <2> HIDE DEF e
  <2>1. r.msg = m /\ r.entry = e /\ (r.new <=> e = None) /\ r.pc = IF e = None THEN "find" ELSE "update"
    OBVIOUS
  <2> HIDE DEF r
  <2> QED
    BY <1>6, <2>1
<1> HIDE DEF r, e
<1>8. \A p \in P : p # i => proc'[p] = proc[p]
  BY <1>6 DEF Others
<1>11. TypeInv'
  BY <1>1, <1>2, <1>6 DEF TypeInv, Others
<1>12. NetinInv'
  BY <1>0, <1>1, <1>3, <1>4, <1>7, <1>8 DEF NeighbourInv, NetinInv, Hunts
<1>13. OwnInv'
  BY <1>0, <1>1, <1>7, <1>8 DEF NeighbourInv, OwnInv, Owns
<1>14. HandInv'
  BY <1>0, <1>1, <1>4, <1>7, <1>8 DEF NeighbourInv, HandInv, Hunts
<1>15. EntryInv'
  BY <1>0, <1>1, <1>7, <1>8 DEF NeighbourInv, EntryInv, Updates, MainHas
<1>16. MainInv'
  BY <1>0, <1>1, <1>4, <1>7, <1>8 DEF NeighbourInv, MainInv, Hunts
<1>17. ConfInv' /\ ToldInv'
  BY <1>0, <1>1, <1>7, <1>8 DEF NeighbourInv, ConfInv, ToldInv, InsideFollows
<1>18. ProcessingHeld'
  <2>1. DOMAIN proc = P /\ DOMAIN proc' = P
    BY <1>2, <1>11 DEF TypeInv
  <2> QED
    BY <1>1, <1>8, <2>1 DEF NeighbourInv, ProcessingHeld
<1> QED
  BY <1>1, <1>11, <1>12, <1>13, <1>14, <1>15, <1>16, <1>17, <1>18
  DEF NeighbourInv, BindingTrue, OneEntryPerHost, NeighbourHasRow
-----------------------------------------------------------------------------
(* Advertisements of the router *)

\* A step of the handler of router advertisements.
LEMMA RouterStepInv ==
  ASSUME NeighbourInv, Others(0), proc[0].pc \in {"idle", "router", "tell"},
         proc'[0].pc \in {"idle", "router", "tell"}, proc'[0].pc # "tell" => proc'[0].entry \in Entries \cup {None},
         TypeInv', ConfInv', ToldInv', UNCHANGED <<cache, rows, ready, routed>>
  PROVE  NeighbourInv'
<1>0. Main \notin Ifaces /\ Main \in P /\ P = Ifaces \cup {Main} /\ 0 # Main /\ 0 \in Ifaces
  BY IfacesAre DEF P
<1>1. \A p \in P : p # 0 => proc'[p] = proc[p]
  BY DEF Others
<1>2. TypeInv
  BY DEF NeighbourInv
<1>12. NetinInv'
  BY <1>0, <1>1 DEF NeighbourInv, NetinInv, Hunts
<1>13. OwnInv'
  BY <1>0, <1>1 DEF NeighbourInv, OwnInv, Owns
<1>14. HandInv'
  BY <1>0, <1>1 DEF NeighbourInv, HandInv, Hunts
<1>15. EntryInv'
  BY <1>0, <1>1 DEF NeighbourInv, EntryInv, Updates, MainHas
<1>16. MainInv'
  BY <1>0, <1>1 DEF NeighbourInv, MainInv, Hunts
<1>18. ProcessingHeld'
  <2>1. DOMAIN proc = P /\ DOMAIN proc' = P
    BY <1>2 DEF TypeInv
  <2> QED
    BY <1>1, <2>1 DEF NeighbourInv, ProcessingHeld
<1> QED
  BY <1>12, <1>13, <1>14, <1>15, <1>16, <1>18 DEF NeighbourInv, BindingTrue, OneEntryPerHost, NeighbourHasRow

\* radvert_handler.
LEMMA RaOptionsInv ==
  ASSUME NeighbourInv, NEW ad \in Adverts, RaOptions(ad)
  PROVE  NeighbourInv'
<1>0. 0 \in Ifaces /\ 0 \in P /\ Main \in P /\ 0 # Main
  BY IfacesAre
<1>1. /\ proc[0].pc = "idle" /\ Goto(0, "router") /\ UNCHANGED <<host, cache, rows, ready, told, routed>>
  BY DEF RaOptions, Ready
<1>2. TypeInv
  BY DEF NeighbourInv
<1>3. Goes(0, "router", proc[0].entry)
  BY <1>0, <1>1, <1>2, GotoIs DEF Pcs
<1>4. ad.prefix \in Prefixes
  BY NeighbourAssump
<1>5. /\ conf' \in [addr : Prefixes \cup {NoPrefix}, has : BOOLEAN, mac : {NoMac, Router}, link : {NoMac, RouterLink},
                    ip : Prefixes \cup {NoPrefix}]
      /\ conf'.link = conf.link /\ conf'.ip = conf.ip
      /\ ((conf'.has <=> conf.has) /\ conf'.addr = conf.addr) \/ (conf'.has /\ conf'.addr = ad.prefix)
  <2>1. CASE "prefix" \in Seen(ad)
    BY <1>2, <1>4, <2>1 DEF RaOptions, TypeInv
  <2>2. CASE "prefix" \notin Seen(ad)
    BY <1>2, <2>2 DEF RaOptions, TypeInv
  <2> QED
    BY <2>1, <2>2
<1>6. TypeInv'
  BY <1>1, <1>2, <1>3, <1>5 DEF TypeInv, Goes, Others
<1>7. ConfInv'
  BY <1>0, <1>3, <1>4, <1>5 DEF NeighbourInv, ConfInv, Goes, Others
<1>8. ToldInv'
  BY <1>3 DEF ToldInv, InsideFollows, Goes
<1> QED
  BY <1>0, <1>1, <1>3, <1>6, <1>7, <1>8, RouterStepInv DEF NeighbourInv, NetinInv, Goes

\* icmpv6_in sets the addresses of the router.
LEMMA RaRouterInv ==
  ASSUME NeighbourInv, RaRouter
  PROVE  NeighbourInv'
<1>0. 0 \in Ifaces /\ 0 \in P /\ Main \in P /\ 0 # Main
  BY IfacesAre
<1>1. /\ proc[0].pc = "router" /\ UNCHANGED <<host, cache, rows, ready, told, routed>>
      /\ conf' = [conf EXCEPT !.link = RouterLink, !.ip = conf.addr]
  BY DEF RaRouter
<1>2. TypeInv
  BY DEF NeighbourInv
<1>3. Min(Inside) \in Inside /\ Min(Inside) \in Nat /\ \A j \in Inside : ~(j < Min(Inside))
  <2>1. Inside \in SUBSET Nat /\ Inside # {}
    BY IfacesAre
  <2> QED
    BY <2>1, MinIs
<1>4. /\ Others(0)
      /\ \/ host /\ proc'[0] = Idle
         \/ proc'[0].pc = "tell" /\ proc'[0].entry = Min(Inside)
  <2>1. CASE host
    BY <1>0, <1>2, <2>1, DoneIs DEF RaRouter, Done
  <2>2. CASE ~host
    <3>1. proc' = [proc EXCEPT ![0].entry = Min(Inside), ![0].pc = "tell"]
      BY <1>0, <1>2, <2>2 DEF RaRouter, TypeInv
    <3> QED
      BY <1>0, <1>2, <1>3, <3>1, FindIs DEF Pcs, Goes
  <2> QED
    BY <2>1, <2>2
<1>5. /\ conf' \in [addr : Prefixes \cup {NoPrefix}, has : BOOLEAN, mac : {NoMac, Router}, link : {NoMac, RouterLink},
                    ip : Prefixes \cup {NoPrefix}]
      /\ conf'.link = RouterLink /\ conf'.ip = conf.addr /\ conf'.addr = conf.addr /\ conf'.has = conf.has
  BY <1>1, <1>2 DEF TypeInv
<1>6. TypeInv'
  BY <1>1, <1>2, <1>4, <1>5 DEF TypeInv, Others
<1>7. ConfInv'
  BY <1>0, <1>4, <1>5 DEF NeighbourInv, ConfInv, Others
<1>8. ToldInv'
  <2>1. CASE host /\ proc'[0] = Idle
    BY <1>1, <2>1 DEF ToldInv, InsideFollows, Idle
  <2>2. CASE proc'[0].pc = "tell" /\ proc'[0].entry = Min(Inside)
    BY <1>3, <2>2 DEF ToldInv, InsideFollows
  <2> QED
    BY <1>4, <2>1, <2>2
<1> QED
  BY <1>1, <1>4, <1>6, <1>7, <1>8, RouterStepInv DEF Idle

\* A network is told.
LEMMA RaTellInv ==
  ASSUME NeighbourInv, RaTell
  PROVE  NeighbourInv'
<1> DEFINE i == proc[0].entry
           later == {j \in Inside : j > i}
<1>0. 0 \in Ifaces /\ 0 \in P /\ Main \in P /\ 0 # Main /\ Inside \subseteq Nat
  BY IfacesAre
<1>1. /\ proc[0].pc = "tell" /\ UNCHANGED <<host, cache, rows, ready, conf, routed>>
      /\ told' = [told EXCEPT ![i] = conf.addr]
  BY DEF RaTell
<1>2. TypeInv /\ told \in [Inside -> Prefixes \cup {NoPrefix}] /\ conf.addr \in Prefixes \cup {NoPrefix}
  BY DEF NeighbourInv, TypeInv
<1>3. i \in Inside /\ \A j \in Inside : j < i => told[j] = conf.addr
  BY <1>1 DEF NeighbourInv, ToldInv
<1>4. told' \in [Inside -> Prefixes \cup {NoPrefix}] /\ told'[i] = conf.addr /\ \A j \in Inside : j < i => told'[j] = conf.addr
  BY <1>1, <1>2, <1>3
<1>5. later # {} => Min(later) \in later /\ Min(later) \in Nat /\ \A j \in later : ~(j < Min(later))
  <2>1. later \in SUBSET Nat
    BY <1>0
  <2> QED
    BY <2>1, MinIs
<1>6. /\ Others(0)
      /\ \/ later = {} /\ proc'[0] = Idle
         \/ later # {} /\ proc'[0].pc = "tell" /\ proc'[0].entry = Min(later)
  <2>1. CASE later = {}
    BY <1>0, <1>2, <2>1, DoneIs DEF RaTell, Done
  <2>2. CASE later # {}
    <3>1. proc' = [proc EXCEPT ![0].entry = Min(later)]
      BY <2>2 DEF RaTell
    <3> HIDE DEF later
    <3>2. Goes(0, proc[0].pc, Min(later))
      <4>1. proc' = [proc EXCEPT ![0] = [proc[0] EXCEPT !.entry = Min(later)]]
        BY <3>1
      <4>2. proc[0] \in Procs /\ proc \in [P -> Procs]
        BY <1>0, <1>2 DEF TypeInv
      <4> DEFINE r == [proc[0] EXCEPT !.entry = Min(later)]
      <4>3. r \in Procs /\ r.pc = proc[0].pc /\ r.entry = Min(later) /\ r.msg = proc[0].msg /\ r.new = proc[0].new
        BY <1>5, <2>2, <4>2 DEF Procs
      <4> HIDE DEF r
      <4>4. proc' = [proc EXCEPT ![0] = r]
        BY <4>1 DEF r
      <4> QED
        BY <1>0, <4>2, <4>3, <4>4 DEF Goes, Others
    <3> QED
      BY <1>1, <2>2, <3>2 DEF Goes
  <2> QED
    BY <2>1, <2>2
<1>7. TypeInv'
  BY <1>1, <1>2, <1>4, <1>6 DEF TypeInv, Others
<1>8. ConfInv'
  BY <1>0, <1>1, <1>6 DEF NeighbourInv, ConfInv, Others, Idle
<1>9. ToldInv'
  <2>1. CASE later = {} /\ proc'[0] = Idle
    <3>1. \A j \in Inside : j < i \/ j = i
      <4>1. i \in Nat /\ (\A j \in Inside : ~(j > i) /\ j \in Nat)
        BY <1>0, <1>3, <2>1
      <4> HIDE DEF i
      <4> QED
        BY ONLY <4>1
    <3> HIDE DEF i, later
    <3>2. \A j \in Inside : told'[j] = conf'.addr
      BY <1>1, <1>4, <3>1
    <3>3. proc'[0].pc = "idle"
      BY <2>1 DEF Idle
    <3> QED
      BY <3>2, <3>3 DEF ToldInv, InsideFollows
  <2>2. CASE later # {} /\ proc'[0].pc = "tell" /\ proc'[0].entry = Min(later)
    <3>1. Min(later) \in Inside /\ \A j \in Inside : j < Min(later) => j < i \/ j = i
      <4>1. i \in Nat /\ Min(later) \in Inside /\ (\A j \in Inside : j \in Nat /\ (j > i => ~(j < Min(later))))
        BY <1>0, <1>3, <1>5, <2>2
      <4> HIDE DEF i, later
      <4> QED
        BY ONLY <4>1
    <3> HIDE DEF i, later
    <3>2. \A j \in Inside : j < Min(later) => told'[j] = conf'.addr
      BY <1>1, <1>4, <3>1
    <3> QED
      BY <2>2, <3>1, <3>2 DEF ToldInv, InsideFollows
  <2> QED
    BY <1>6, <2>1, <2>2
<1> QED
  BY <1>1, <1>6, <1>7, <1>8, <1>9, RouterStepInv DEF Idle

\* rsolicit_handler.
LEMMA RsAnswerInv ==
  ASSUME NeighbourInv, NEW i \in Ifaces, RsAnswer(i)
  PROVE  NeighbourInv'
<1>1. /\ i \in Inside /\ told' = [told EXCEPT ![i] = conf.addr] /\ UNCHANGED <<host, cache, rows, ready, conf, proc, routed>>
  BY DEF RsAnswer
<1>2. TypeInv /\ told \in [Inside -> Prefixes \cup {NoPrefix}] /\ conf.addr \in Prefixes \cup {NoPrefix}
  BY DEF NeighbourInv, TypeInv
<1>3. told' \in [Inside -> Prefixes \cup {NoPrefix}] /\ \A j \in Inside : told'[j] = told[j] \/ told'[j] = conf.addr
  BY <1>1, <1>2
<1>4. TypeInv'
  BY <1>1, <1>2, <1>3 DEF TypeInv
<1>5. ToldInv'
  BY <1>1, <1>3 DEF NeighbourInv, ToldInv, InsideFollows
<1> QED
  BY <1>1, <1>4, <1>5 DEF NeighbourInv, NetinInv, OwnInv, Owns, HandInv, EntryInv, Updates, MainHas, MainInv, ConfInv,
     ProcessingHeld, BindingTrue, OneEntryPerHost, NeighbourHasRow
-----------------------------------------------------------------------------
(* ipv6_init *)

\* Every netin has nothing in hand when main takes a step other than marking an entry.
Rest == \A i \in Ifaces : proc[i].pc \in {"idle", "asleep"}
LEMMA AtRest ==
  ASSUME Serial, TypeInv, MainRuns, proc[Main].pc # "mark"
  PROVE  Rest
BY MainAlone DEF Rest

\* main goes on.
LEMMA MainGoesInv ==
  ASSUME NeighbourInv, Rest, NEW pc, Goes(Main, pc, proc[Main].entry),
         \/ proc[Main].pc = "solicit" /\ pc = "ndinit"
         \/ proc[Main].pc = "wait" /\ pc = "find" /\ conf.has
         \/ proc[Main].pc = "nsol1" /\ pc = "nsol2"
         \/ proc[Main].pc = "nsol2" /\ pc = "last",
         UNCHANGED <<host, cache, rows, ready, conf, told, routed>>
  PROVE  NeighbourInv'
<1>0. Main \notin Ifaces /\ Main \in P /\ P = Ifaces \cup {Main} /\ 0 # Main /\ 0 \in Ifaces
  BY IfacesAre DEF P
<1>1. \A i \in Ifaces : proc'[i] = proc[i] /\ proc[i].pc \in {"idle", "asleep"}
  BY <1>0 DEF Goes, Others, Rest
<1>2. TypeInv
  BY DEF NeighbourInv
<1>11. TypeInv'
  BY <1>2 DEF TypeInv, Goes, Others
<1>12. NetinInv'
  BY <1>0, <1>1 DEF NeighbourInv, NetinInv, Hunts
<1>13. OwnInv'
  BY <1>0, <1>1 DEF NeighbourInv, OwnInv, Owns, Goes
<1>14. HandInv'
  BY <1>0, <1>1 DEF NeighbourInv, HandInv, Hunts
<1>15. EntryInv'
  BY <1>0, <1>1 DEF NeighbourInv, EntryInv, Updates, MainHas, Goes
<1>16. MainInv'
  BY <1>0, <1>1 DEF NeighbourInv, MainInv, Hunts, After, Waits, Goes
<1>17. ConfInv' /\ ToldInv'
  BY <1>0, <1>1 DEF NeighbourInv, ConfInv, ToldInv, InsideFollows, Waits, Goes
<1>18. ProcessingHeld'
  <2>1. DOMAIN proc = P /\ DOMAIN proc' = P
    BY <1>2, <1>11 DEF TypeInv
  <2> QED
    BY <1>0, <1>1, <2>1 DEF NeighbourInv, ProcessingHeld, Goes
<1> QED
  BY <1>11, <1>12, <1>13, <1>14, <1>15, <1>16, <1>17, <1>18
  DEF NeighbourInv, BindingTrue, OneEntryPerHost, NeighbourHasRow

\* NDCache_init and fwdipv6_init: nothing is lost but what came before them.
LEMMA MainInitInv ==
  ASSUME NeighbourInv, Rest, MainNdInit \/ MainFwdInit
  PROVE  NeighbourInv'
<1>0. Main \notin Ifaces /\ Main \in P /\ P = Ifaces \cup {Main} /\ 0 # Main /\ 0 \in Ifaces
  BY IfacesAre DEF P
<1>1. /\ UNCHANGED <<host, conf, told, routed>>
      /\ \/ /\ proc[Main].pc = "ndinit" /\ Goto(Main, "fwdinit") /\ ready' = {"nd"}
            /\ cache' = [e \in Entries |-> Empty] /\ UNCHANGED rows
         \/ proc[Main].pc = "fwdinit" /\ Goto(Main, "wait") /\ ready' = {"nd", "fwd"} /\ rows' = <<>> /\ UNCHANGED cache
  BY DEF MainNdInit, MainFwdInit, MainStep
<1>2. TypeInv
  BY DEF NeighbourInv
<1>3. \E pc \in {"fwdinit", "wait"} : Goes(Main, pc, proc[Main].entry) /\ (pc = "fwdinit" <=> proc[Main].pc = "ndinit")
  BY <1>0, <1>1, <1>2, GotoIs DEF Pcs
<1>4. Empty \in Caches /\ Empty.ip = Unspec /\ Empty.mac = NoMac /\ Empty.state = "NOENTRY"
  BY DEF Caches, Empty, Addresses, Macs, States
<1>5. \/ cache' = cache
      \/ cache' \in [Entries -> Caches] /\ \A e \in Entries : cache'[e] = Empty
  BY <1>1, <1>4
<1>6. /\ proc' \in [P -> Procs]
      /\ \A i \in Ifaces : proc'[i] = proc[i] /\ proc[i].pc \in {"idle", "asleep"}
      /\ proc'[Main].entry = proc[Main].entry /\ proc'[Main].pc \in {"fwdinit", "wait"}
      /\ (proc[Main].pc = "ndinit" /\ proc'[Main].pc = "fwdinit") \/ (proc[Main].pc = "fwdinit" /\ proc'[Main].pc = "wait")
  BY <1>0, <1>1, <1>3 DEF Goes, Others, Rest
<1>7. proc[Main].pc \in {"ndinit", "fwdinit"} => routed = {}
  BY DEF NeighbourInv, MainInv
<1>8. Unspec \notin Hosts \cup Prefixes
  BY NamesAre
<1>9. rows' \in Seq([ip : Addresses, iface : Ifaces]) /\ Len(rows') <= MAXFWDTABENTRIES
  <2>1. CASE UNCHANGED rows
    BY <1>2, <2>1 DEF TypeInv
  <2>2. CASE rows' = <<>>
    <3>1. MAXFWDTABENTRIES \in Nat /\ Len(rows') = 0
      BY <2>2, NeighbourAssump
    <3>2. 0 <= MAXFWDTABENTRIES
      BY <3>1
    <3> QED
      BY <2>2, <3>1, <3>2
  <2> QED
    BY <1>1, <2>1, <2>2
<1>11. TypeInv'
  BY <1>1, <1>2, <1>5, <1>6, <1>9 DEF TypeInv
<1>12. NetinInv'
  BY <1>0, <1>6 DEF NeighbourInv, NetinInv, Hunts
<1>13. OwnInv'
  BY <1>0, <1>6 DEF OwnInv, Owns
<1>14. HandInv'
  BY <1>0, <1>6 DEF HandInv, Hunts
<1>15. EntryInv'
  BY <1>0, <1>4, <1>5, <1>6, <1>8 DEF NeighbourInv, EntryInv, Updates, MainHas
<1>16. MainInv'
  BY <1>0, <1>1, <1>6, <1>7 DEF NeighbourInv, MainInv, Hunts, After, Waits
<1>17. ConfInv' /\ ToldInv'
  BY <1>0, <1>1, <1>6 DEF NeighbourInv, ConfInv, ToldInv, InsideFollows, Waits
<1>18. ProcessingHeld'
  <2>1. DOMAIN proc = P /\ P = Ifaces \cup {Main}
    BY <1>0, <1>2 DEF TypeInv
  <2>2. \A e \in Entries : cache[e].state # "PROCESSING"
    BY <1>6, <2>1 DEF NeighbourInv, ProcessingHeld
  <2> QED
    BY <1>4, <1>5, <2>2 DEF ProcessingHeld
<1>19. BindingTrue' /\ OneEntryPerHost' /\ NeighbourHasRow'
  BY <1>1, <1>4, <1>5, <1>6, <1>7, <1>8 DEF NeighbourInv, BindingTrue, OneEntryPerHost, NeighbourHasRow
<1> QED
  BY <1>11, <1>12, <1>13, <1>14, <1>15, <1>16, <1>17, <1>18, <1>19 DEF NeighbourInv
\* One of the two entries of the default router is filled, if there is one.
LEMMA MainFillInv ==
  ASSUME NeighbourInv, Rest, MainFill
  PROVE  NeighbourInv'
<1> DEFINE e == proc[Main].entry
           second == proc[Main].new
           a == IF second THEN conf.ip ELSE conf.link
<1>0. Main \notin Ifaces /\ Main \in P /\ P = Ifaces \cup {Main} /\ 0 # Main /\ 0 \in Ifaces
  BY IfacesAre DEF P
<1>1. /\ proc[Main].pc = "fill" /\ UNCHANGED <<host, rows, ready, conf, told, routed>>
      /\ cache' = IF e = None THEN cache ELSE [cache EXCEPT ![e].ip = a, ![e].state = "INCOMPLETE"]
      /\ proc' = [proc EXCEPT ![Main].new = TRUE, ![Main].pc = IF second THEN "nsol1" ELSE "find"]
  BY DEF MainFill
<1>2. TypeInv
  BY DEF NeighbourInv
<1>3. /\ proc' \in [P -> Procs] /\ \A p \in P : p # Main => proc'[p] = proc[p]
      /\ proc'[Main].entry = e
      /\ (proc'[Main].pc = "find" /\ ~second) \/ (proc'[Main].pc = "nsol1" /\ second)
  <2> DEFINE r == [proc[Main] EXCEPT !.new = TRUE, !.pc = IF second THEN "nsol1" ELSE "find"]
  <2>1. proc[Main] \in Procs /\ proc \in [P -> Procs]
    BY <1>0, <1>2 DEF TypeInv
  <2>2. r \in Procs /\ r.entry = e /\ ((r.pc = "find" /\ ~second) \/ (r.pc = "nsol1" /\ second))
    BY <2>1 DEF Procs, Pcs
  <2>3. proc' = [proc EXCEPT ![Main] = r]
    BY <1>1
  <2> HIDE DEF r
  <2> QED
    BY <1>0, <2>1, <2>2, <2>3
<1>4. e \in Entries \cup {None} /\ conf.ip \in Prefixes /\ conf.link = RouterLink
  BY <1>1 DEF NeighbourInv, MainInv, ConfInv, Waits
<1>5. a \in Prefixes \cup {RouterLink} /\ (second => a \in Prefixes) /\ (~second => a = RouterLink)
  BY <1>4
<1>6. e # None => /\ cache[e].ip = Unspec /\ cache[e].mac = NoMac
                  /\ \A q \in P : Owns(q) /\ proc[q].entry = e => q = Main
  BY <1>0, <1>1 DEF NeighbourInv, OwnInv, Owns
<1>7. /\ Unspec \notin Hosts \cup Prefixes /\ RouterLink \notin Hosts \cup Prefixes /\ Hosts \cap Prefixes = {}
      /\ a \in Addresses /\ a \notin Hosts
  BY <1>5, NamesAre DEF Sources
<1>8. e # None => Sets(e, a, cache[e].mac, "INCOMPLETE")
  <2>1. SUFFICES ASSUME e # None  PROVE Sets(e, a, cache[e].mac, "INCOMPLETE")
    OBVIOUS
  <2>2. e \in Entries /\ cache[e] \in Caches /\ cache \in [Entries -> Caches]
    BY <1>2, <1>4, <2>1 DEF TypeInv
  <2> DEFINE r == [cache[e] EXCEPT !.ip = a, !.state = "INCOMPLETE"]
  <2>3. cache' = [cache EXCEPT ![e] = r]
    BY <1>1, <2>1
  <2> HIDE DEF a, e
  <2>4. r \in Caches /\ r.ip = a /\ r.mac = cache[e].mac /\ r.state = "INCOMPLETE"
    BY <1>7, <2>2 DEF Caches, States
  <2> HIDE DEF r
  <2> QED
    BY <2>2, <2>3, <2>4 DEF Sets
<1>9. e = None => cache' = cache
  BY <1>1
<1>10. \A i \in Ifaces : proc'[i] = proc[i] /\ proc[i].pc \in {"idle", "asleep"}
  BY <1>0, <1>3 DEF Rest
<1> HIDE DEF e, a, second
<1>11. TypeInv'
  BY <1>1, <1>2, <1>3, <1>8, <1>9 DEF TypeInv, Sets
<1>12. NetinInv'
  BY <1>0, <1>10 DEF NeighbourInv, NetinInv, Hunts
<1>13. OwnInv'
  BY <1>0, <1>3, <1>10 DEF OwnInv, Owns
<1>14. HandInv'
  BY <1>0, <1>10 DEF HandInv, Hunts
<1>15. EntryInv'
  <2>1. \A f \in Entries : ~MainHas(f) /\ \A i \in Ifaces : ~Updates(i, f)
    BY <1>1, <1>10 DEF MainHas, Updates
  <2>2. \A f \in Entries : f # e \/ e = None => cache'[f] = cache[f]
    BY <1>8, <1>9 DEF Sets
  <2>3. ASSUME NEW f \in Entries, cache'[f].ip \in Hosts \cup Prefixes, f = e, e # None
        PROVE  MainHas(f)'
    BY <1>3, <1>5, <1>7, <1>8, <2>3 DEF Sets, MainHas
  <2>4. \A f \in Entries : f = e /\ e # None => cache'[f].state = "INCOMPLETE"
    BY <1>8 DEF Sets
  <2> QED
    BY <2>1, <2>2, <2>3, <2>4 DEF NeighbourInv, EntryInv
<1>16. MainInv'
  BY <1>0, <1>1, <1>3, <1>4, <1>5, <1>8, <1>10 DEF NeighbourInv, MainInv, Hunts, After, Waits, Sets
<1>17. ConfInv' /\ ToldInv'
  BY <1>0, <1>1, <1>10 DEF NeighbourInv, ConfInv, ToldInv, InsideFollows, Waits
<1>18. ProcessingHeld'
  <2>1. DOMAIN proc = P /\ P = Ifaces \cup {Main}
    BY <1>0, <1>2 DEF TypeInv
  <2>2. \A f \in Entries : cache[f].state = "PROCESSING" => f = e
    BY <1>10, <2>1 DEF NeighbourInv, ProcessingHeld, e
  <2>3. \A f \in Entries : cache'[f].state # "PROCESSING"
    BY <1>8, <1>9, <2>2, NoneIs DEF Sets
  <2> QED
    BY <2>3 DEF ProcessingHeld
<1>19. BindingTrue' /\ OneEntryPerHost' /\ NeighbourHasRow'
  BY <1>1, <1>6, <1>7, <1>8, <1>9 DEF NeighbourInv, BindingTrue, OneEntryPerHost, NeighbourHasRow, Sets
<1> QED
  BY <1>11, <1>12, <1>13, <1>14, <1>15, <1>16, <1>17, <1>18, <1>19 DEF NeighbourInv

\* The second entry becomes reachable, with the MAC address of the router if it is known.
LEMMA MainLastInv ==
  ASSUME NeighbourInv, Rest, MainLast
  PROVE  NeighbourInv'
<1> DEFINE e == proc[Main].entry
<1>0. Main \notin Ifaces /\ Main \in P /\ P = Ifaces \cup {Main} /\ 0 # Main /\ 0 \in Ifaces
  BY IfacesAre DEF P
<1>1. /\ proc[Main].pc = "last" /\ Goto(Main, "done") /\ UNCHANGED <<host, rows, ready, conf, told, routed>>
      /\ cache' = IF e = None THEN cache ELSE [cache EXCEPT ![e].mac = conf.mac, ![e].state = "REACHABLE"]
  BY DEF MainLast, MainStep
<1>2. TypeInv /\ conf.mac \in {NoMac, Router} /\ conf.mac \in Macs
  BY NamesAre DEF NeighbourInv, TypeInv
<1>3. Goes(Main, "done", e)
  BY <1>0, <1>1, <1>2, GotoIs DEF Pcs
<1>4. e \in Entries \cup {None} /\ (e # None => cache[e].ip \in Prefixes)
  BY <1>1 DEF NeighbourInv, MainInv, After
<1>5. Hosts \cap Prefixes = {} /\ (\A x : x \notin Hosts => Owner(x) = Router) /\ Unspec \notin Prefixes
  BY NamesAre
<1>6. e # None => Sets(e, cache[e].ip, conf.mac, "REACHABLE")
  <2>1. SUFFICES ASSUME e # None  PROVE Sets(e, cache[e].ip, conf.mac, "REACHABLE")
    OBVIOUS
  <2>2. e \in Entries /\ cache' = [cache EXCEPT ![e].state = "REACHABLE", ![e].mac = conf.mac]
    BY <1>1, <1>2, <1>4, <2>1 DEF TypeInv, Caches
  <2> HIDE DEF e
  <2> QED
    BY <1>2, <2>2, ReachableIs
<1>7. e = None => cache' = cache
  BY <1>1
<1>8. /\ \A i \in Ifaces : proc'[i] = proc[i] /\ proc[i].pc \in {"idle", "asleep"}
      /\ proc'[Main].pc = "done" /\ proc'[Main].entry = e
  BY <1>0, <1>3 DEF Rest, Goes, Others
<1> HIDE DEF e
<1>9. \A f \in Entries : f # e \/ e = None => cache'[f] = cache[f]
  BY <1>6, <1>7 DEF Sets
<1>10. \A f \in Entries : cache'[f].ip = cache[f].ip
  BY <1>6, <1>7 DEF Sets
<1>11. TypeInv'
  BY <1>1, <1>2, <1>3, <1>6, <1>7 DEF TypeInv, Sets, Goes, Others
<1>12. NetinInv'
  BY <1>0, <1>8 DEF NeighbourInv, NetinInv, Hunts
<1>13. OwnInv'
  BY <1>0, <1>8 DEF OwnInv, Owns
<1>14. HandInv'
  BY <1>0, <1>8 DEF HandInv, Hunts
<1>15. EntryInv'
  <2>1. \A f \in Entries : (MainHas(f) => f = e) /\ \A i \in Ifaces : ~Updates(i, f)
    BY <1>8 DEF MainHas, Updates, e
  <2>2. \A f \in Entries : f = e /\ e # None => cache'[f].state = "REACHABLE"
    BY <1>6 DEF Sets
  <2> QED
    BY <1>9, <2>1, <2>2, NoneIs DEF NeighbourInv, EntryInv
<1>16. MainInv'
  BY <1>0, <1>1, <1>4, <1>6, <1>8 DEF NeighbourInv, MainInv, Hunts, After, Waits, Sets
<1>17. ConfInv' /\ ToldInv'
  BY <1>0, <1>1, <1>8 DEF NeighbourInv, ConfInv, ToldInv, InsideFollows, Waits
<1>18. ProcessingHeld'
  <2>1. DOMAIN proc = P /\ P = Ifaces \cup {Main}
    BY <1>0, <1>2 DEF TypeInv
  <2>2. \A f \in Entries : cache[f].state # "PROCESSING"
    BY <1>1, <1>8, <2>1 DEF NeighbourInv, ProcessingHeld
  <2>3. \A f \in Entries : cache'[f].state # "PROCESSING"
    BY <1>6, <1>7, <2>2 DEF Sets
  <2> QED
    BY <2>3 DEF ProcessingHeld
<1>19. BindingTrue' /\ OneEntryPerHost' /\ NeighbourHasRow'
  BY <1>1, <1>2, <1>4, <1>5, <1>6, <1>9, <1>10 DEF NeighbourInv, BindingTrue, OneEntryPerHost, NeighbourHasRow, Sets
<1> QED
  BY <1>11, <1>12, <1>13, <1>14, <1>15, <1>16, <1>17, <1>18, <1>19 DEF NeighbourInv
-----------------------------------------------------------------------------
(* All steps *)

LEMMA NeighbourInitInv ==
  ASSUME Init
  PROVE  NeighbourInv
<1> DEFINE m == [Idle EXCEPT !.pc = "solicit"]
<1>0. Main \notin Ifaces /\ Main \in P /\ P = Ifaces \cup {Main} /\ 0 # Main /\ 0 \in Ifaces
  BY IfacesAre DEF P
<1>1. /\ host \in BOOLEAN /\ rows = <<>> /\ ready = {} /\ routed = {}
      /\ conf = [addr |-> NoPrefix, has |-> FALSE, mac |-> NoMac, link |-> NoMac, ip |-> NoPrefix]
      /\ cache = [e \in Entries |-> Empty] /\ told = [i \in Inside |-> NoPrefix]
      /\ proc = [p \in P |-> IF p = Main THEN m ELSE Idle]
  BY DEF Init, P
<1>2. /\ Empty \in Caches /\ Empty.ip = Unspec /\ Empty.mac = NoMac /\ Empty.state = "NOENTRY"
      /\ Idle \in Procs /\ Idle.pc = "idle" /\ Idle.entry = None
      /\ m \in Procs /\ m.pc = "solicit" /\ m.entry = None
  BY DEF Caches, Empty, Addresses, Macs, States, Procs, Idle, Pcs, NoMessage, None
<1> HIDE DEF m
<1>3. /\ proc \in [P -> Procs] /\ \A i \in Ifaces : proc[i] = Idle
      /\ proc[Main].pc = "solicit" /\ proc[Main].entry = None
  BY <1>0, <1>1, <1>2
<1>4. cache \in [Entries -> Caches] /\ \A e \in Entries : cache[e] = Empty
  BY <1>1, <1>2
<1>5. Unspec \notin Hosts \cup Prefixes
  BY NamesAre
<1>11. TypeInv
  <2>1. rows \in Seq([ip : Addresses, iface : Ifaces]) /\ Len(rows) = 0
    BY <1>1
  <2>2. MAXFWDTABENTRIES \in Nat
    BY NeighbourAssump
  <2>3. Len(rows) <= MAXFWDTABENTRIES
    BY <2>1, <2>2
  <2> QED
    BY <1>1, <1>3, <1>4, <2>1, <2>3 DEF TypeInv
<1>12. NetinInv
  BY <1>2, <1>3 DEF NetinInv, Hunts
<1>13. OwnInv
  BY <1>0, <1>2, <1>3 DEF OwnInv, Owns
<1>14. HandInv
  BY <1>2, <1>3 DEF HandInv, Hunts
<1>15. EntryInv
  BY <1>2, <1>4, <1>5 DEF EntryInv
<1>16. MainInv
  BY <1>1, <1>3 DEF MainInv, Waits, After
<1>17. ConfInv /\ ToldInv
  BY <1>0, <1>1, <1>2, <1>3 DEF ConfInv, ToldInv, InsideFollows, Waits
<1>18. ProcessingHeld /\ BindingTrue /\ OneEntryPerHost /\ NeighbourHasRow
  BY <1>1, <1>2, <1>4, <1>5 DEF ProcessingHeld, BindingTrue, OneEntryPerHost, NeighbourHasRow
<1> QED
  BY <1>11, <1>12, <1>13, <1>14, <1>15, <1>16, <1>17, <1>18 DEF NeighbourInv

LEMMA MainNextInv ==
  ASSUME Serial, NeighbourInv, MainNext
  PROVE  NeighbourInv'
<1>0. TypeInv /\ Main \in P
  BY IfacesAre DEF NeighbourInv
<1>1. MainRuns /\ proc[Main].pc # "mark" => Rest
  BY <1>0, AtRest
<1>2. \A pc \in Pcs : Goto(Main, pc) => Goes(Main, pc, proc[Main].entry)
  BY <1>0, GotoIs
<1>3. CASE MainSolicit \/ MainGo \/ MainNsol
  <2>1. /\ Rest /\ UNCHANGED <<host, cache, rows, ready, conf, told, routed>>
        /\ \/ proc[Main].pc = "solicit" /\ Goto(Main, "ndinit")
           \/ proc[Main].pc = "wait" /\ Goto(Main, "find") /\ conf.has
           \/ proc[Main].pc = "nsol1" /\ Goto(Main, "nsol2")
           \/ proc[Main].pc = "nsol2" /\ Goto(Main, "last")
    BY <1>1, <1>3 DEF MainSolicit, MainGo, MainNsol, MainStep
  <2> QED
    BY <1>2, <2>1, MainGoesInv DEF Pcs
<1>4. CASE MainNdInit \/ MainFwdInit
  BY <1>1, <1>4, MainInitInv DEF MainNdInit, MainFwdInit, MainStep
<1>5. CASE MainFill
  BY <1>1, <1>5, MainFillInv DEF MainFill
<1>6. CASE MainLast
  BY <1>1, <1>6, MainLastInv DEF MainLast, MainStep
<1> QED
  BY <1>0, <1>3, <1>4, <1>5, <1>6, FindMainInv, MarkInv DEF MainNext

LEMMA NeighbourStep ==
  ASSUME Serial, NeighbourInv, Next
  PROVE  NeighbourInv'
<1>0. Ifaces \subseteq P
  BY IfacesAre
<1>1. ASSUME NEW i \in Ifaces, Arrives(i)
      PROVE  NeighbourInv'
  BY <1>1, SolicitedInv, AdvertisedInv, RsAnswerInv DEF Arrives
<1>2. ASSUME NEW i \in Ifaces, NetinNext(i)
      PROVE  NeighbourInv'
  BY <1>0, <1>2, FindNetinInv, MarkInv, SolAddressInv, SolUpdateInv, SolWakeInv, RaRouterInv, RaTellInv DEF NetinNext
<1> QED
  BY <1>1, <1>2, RaOptionsInv, MainNextInv DEF Next

LEMMA NeighbourStutter ==
  ASSUME NeighbourInv, UNCHANGED vars
  PROVE  NeighbourInv'
<1>1. UNCHANGED <<host, cache, rows, ready, conf, proc, told, routed>>
  BY DEF vars
<1> QED
  BY <1>1 DEF NeighbourInv, TypeInv, NetinInv, OwnInv, Owns, HandInv, EntryInv, Updates, MainHas, MainInv, ConfInv,
     ToldInv, InsideFollows, ProcessingHeld, BindingTrue, OneEntryPerHost, NeighbourHasRow

LEMMA NeighbourInvHolds == Serial => (Spec => []NeighbourInv)
<1> SUFFICES ASSUME Serial  PROVE Spec => []NeighbourInv
  OBVIOUS
<1>1. Init => NeighbourInv
  BY NeighbourInitInv
<1>2. NeighbourInv /\ [Next]_vars => NeighbourInv'
  BY NeighbourStep, NeighbourStutter
<1> QED
  BY <1>1, <1>2, PTL DEF Spec

\* The neighbour cache as netins and main share it: an entry that is being processed is in
\* somebody's hands, no address is bound to another station's MAC address, and a host has
\* one entry (ndcache.c:84, nsolicit.c:142 and 175).
THEOREM CacheIsSound == Serial => (Spec => []NeighboursKnown)
<1> SUFFICES ASSUME Serial  PROVE Spec => []NeighboursKnown
  OBVIOUS
<1>1. NeighbourInv => NeighboursKnown
  <2> SUFFICES ASSUME NeighbourInv  PROVE NeighboursKnown
    OBVIOUS
  <2>1. TypeInv /\ NetinInv /\ ToldInv
    BY DEF NeighbourInv
  <2>2. \A k \in DOMAIN rows : rows[k] \in [ip : Addresses, iface : Ifaces]
    <3> DEFINE R == [ip : Addresses, iface : Ifaces]
    <3>1. rows \in Seq(R)
      BY <2>1 DEF TypeInv
    <3> HIDE DEF R
    <3>2. \A k \in DOMAIN rows : rows[k] \in R
      BY <3>1, ElementOfSeq, LenProperties
    <3> QED
      BY <3>2 DEF R
  <2>3. \A i \in Ifaces : proc[i].entry \in Entries \cup {None} \cup Inside
    BY <2>1 DEF NetinInv, ToldInv, Hunts
  <2>4. TypeOK
    BY <2>1, <2>2, <2>3 DEF TypeInv, TypeOK, Caches, Macs
  <2> QED
    BY <2>4 DEF NeighbourInv, NeighboursKnown
<1> QED
  BY <1>1, NeighbourInvHolds, PTL

\* A host whose solicitation was answered while there was room in the forwarding table is
\* forwarded to on the interface it is on (nsolicit.c:178), whatever the other netins did
\* with the tables between its steps.
THEOREM AnsweredHasRow == Serial => (Spec => []NeighbourHasRow)
<1> SUFFICES ASSUME Serial  PROVE Spec => []NeighbourHasRow
  OBVIOUS
<1>1. NeighbourInv => NeighbourHasRow
  BY DEF NeighbourInv
<1> QED
  BY <1>1, NeighbourInvHolds, PTL

\* What the router advertises reaches ipv6_init and the inside networks: main reads the
\* router's addresses only when they are set, its global address is reachable at the end,
\* whoever else made an entry for it, and inside the prefix is the one of the box
\* (ipv6.c:254, icmpv6.c:126).
THEOREM RouterIsFollowed == Serial => (Spec => []RouterFollowed)
<1> SUFFICES ASSUME Serial  PROVE Spec => []RouterFollowed
  OBVIOUS
<1>1. NeighbourInv => RouterFollowed
  <2> SUFFICES ASSUME NeighbourInv  PROVE RouterFollowed
    OBVIOUS
  <2>1. MainSeesRouter
    BY NamesAre DEF NeighbourInv, ConfInv, Waits, MainSeesRouter
  <2>2. ASSUME proc[Main].pc = "done", proc[Main].entry # None, conf.ip = cache[proc[Main].entry].ip
        PROVE  cache[LookupNDEntry(conf.ip)].state = "REACHABLE"
    <3> DEFINE e == proc[Main].entry
               f == LookupNDEntry(conf.ip)
    <3>1. e \in Entries /\ cache[e].ip \in Prefixes /\ cache[e].ip = conf.ip
      BY <2>2 DEF NeighbourInv, MainInv, After
    <3>2. f \in Entries /\ cache[f].ip = conf.ip
      BY <3>1, LookupIs
    <3>3. \A i \in Ifaces : ~Updates(i, f)
      BY <2>2, <3>1, <3>2 DEF NeighbourInv, MainInv, After, Updates
    <3>4. ~MainHas(f)
      BY <2>2 DEF MainHas
    <3> HIDE DEF e, f
    <3>5. cache[f].state = "REACHABLE"
      BY <3>1, <3>2, <3>3, <3>4 DEF NeighbourInv, EntryInv
    <3> QED
      BY <3>5 DEF f
  <2>3. RouterReachable
    BY <2>2 DEF RouterReachable
  <2> QED
    BY <2>1, <2>3 DEF NeighbourInv, ToldInv, RouterFollowed
<1> QED
  BY <1>1, NeighbourInvHolds, PTL
=============================================================================
