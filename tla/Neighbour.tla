------------------------------ MODULE Neighbour ------------------------------
(***************************************************************************)
(* Neighbour discovery and address configuration: the neighbour cache, the *)
(* handlers of solicitations and advertisements that netin runs, and       *)
(* ipv6_init, which runs beside them in the process main.  The netins      *)
(* outrank main and are preempted by each other; they share the cache, the *)
(* forwarding table and the router's addresses without a lock.             *)
(***************************************************************************)
EXTENDS Integers, Sequences, FiniteSets, FiniteSetsExt

CONSTANTS Inside,            \* the interfaces of the othernets; 0 is the Ethernet
          Hosts, Home,       \* neighbours that are hosts, and their interfaces
          Prefixes,          \* prefixes; p also stands for the router's address in p
          Adverts,           \* router advertisements: [opts, prefix]
          Messages,          \* solicitations and advertisements of neighbours that arrive
          MAXNDENTRY, MAXFWDTABENTRIES,
          MaxBusy            \* processes between finding a free entry and taking it

VARIABLES host, cache, rows, ready, conf, proc, told, routed
vars == <<host, cache, rows, ready, conf, proc, told, routed>>

None == 0
NoMac == "no mac"
NoPrefix == "no prefix"
Unspec == "::"
RouterLink == "router link-local"
Router == "router"
Ifaces == {0} \cup Inside
Main == -1                      \* the process that runs ipv6_init
Entries == 1..MAXNDENTRY
States == {"NOENTRY", "PROCESSING", "INCOMPLETE", "REACHABLE"}

ASSUME NeighbourAssump ==
  /\ Inside \subseteq Nat \ {0} /\ Inside # {} /\ IsFiniteSet(Inside)
  /\ Home \in [Hosts -> Ifaces] /\ \A ad \in Adverts : ad.prefix \in Prefixes
  /\ Hosts \cap Prefixes = {} /\ {Unspec, RouterLink, NoPrefix} \cap (Hosts \cup Prefixes) = {}
  /\ MAXNDENTRY \in Nat \ {0} /\ MAXFWDTABENTRIES \in Nat

\* Whose address it is; a MAC address is named like its station.
Owner(a) == IF a \in Hosts THEN a ELSE Router
Where(a) == IF a \in Hosts THEN Home[a] ELSE 0

\* What nsolicit_valid and nadvert_valid let through: the unspecified source carries no
\* link-layer option.  The test of the checksum accepts every sum but one.
Valid(m) ==
  /\ m \in [type : {"NS", "NA"}, src : Hosts \cup Prefixes \cup {RouterLink, Unspec}, opt : BOOLEAN]
  /\ m.src = Unspec => m.type = "NS" /\ ~m.opt

Empty == [ip |-> Unspec, mac |-> NoMac, state |-> "NOENTRY"]
Idle == [pc |-> "idle", msg |-> [type |-> "none"], entry |-> None, new |-> FALSE]

Init ==
  /\ host \in BOOLEAN
  /\ cache = [e \in Entries |-> Empty] /\ rows = <<>> /\ ready = {}
  /\ conf = [addr |-> NoPrefix, has |-> FALSE, mac |-> NoMac, link |-> NoMac, ip |-> NoPrefix]
  /\ proc = [p \in Ifaces \cup {Main} |-> IF p = Main THEN [Idle EXCEPT !.pc = "solicit"] ELSE Idle]
  /\ told = [i \in Inside |-> NoPrefix]
  /\ routed = {}                      \* history: neighbours answered while a row could be had

First(S) == IF S = {} THEN None ELSE Min(S)
\* An entry that was never filled matches the unspecified address.
LookupNDEntry(a) == First({e \in Entries : cache[e].ip = a})
AvailStale == First({e \in Entries : cache[e].state # "REACHABLE"})
Avail == First({e \in Entries : cache[e].state = "NOENTRY"})

\* The processes run by priority: main only while every netin is blocked.
Busy == {p \in DOMAIN proc : proc[p].pc = "mark"}
BusyFull == Cardinality(Busy) >= MaxBusy
NetinBlocked(i) == proc[i].pc \in {"idle", "asleep"} \/ (proc[i].pc = "find" /\ BusyFull)
MainRuns == \A i \in Ifaces : NetinBlocked(i)
Goto(p, pc) == proc' = [proc EXCEPT ![p].pc = pc]
Done(i) == proc' = [proc EXCEPT ![i] = Idle]

-----------------------------------------------------------------------------
\* ipv6_in and icmpv6_in give a message to its handler; on a host one interface is up.
Ready(i) == proc[i].pc = "idle" /\ (host => i = 0)

\* nsolicit_handler up to the search for an entry.  Until NDCache_init the entries are null
\* pointers and the handler finds neither an entry nor a free one.
Solicited(i, m) ==
  LET e == LookupNDEntry(m.src) IN
  /\ Ready(i) /\ m.type = "NS" /\ "nd" \in ready
  /\ proc' = [proc EXCEPT ![i] = [pc |-> IF e = None THEN "find" ELSE "update", msg |-> m, entry |-> e, new |-> e = None]]
  /\ UNCHANGED <<host, cache, rows, ready, conf, told, routed>>

\* getAvailNDEntry: the scan, and then the mark on what the scan has found.
FindFree(p) ==
  /\ proc[p].pc = "find" /\ (p = Main => MainRuns)
  /\ ~BusyFull
  /\ proc' = IF Avail # None THEN [proc EXCEPT ![p].entry = Avail, ![p].pc = "mark"]
             ELSE IF p = Main THEN [proc EXCEPT ![p].entry = None, ![p].pc = "fill"]
             ELSE [proc EXCEPT ![p] = Idle]
  /\ UNCHANGED <<host, cache, rows, ready, conf, told, routed>>
MarkFree(p) ==
  /\ proc[p].pc = "mark" /\ (p = Main => MainRuns)
  /\ cache' = [cache EXCEPT ![proc[p].entry].state = "PROCESSING"]
  /\ Goto(p, "fill")
  /\ UNCHANGED <<host, rows, ready, conf, told, routed>>
SolAddress(i) ==
  /\ i # Main /\ proc[i].pc = "fill"
  /\ cache' = [cache EXCEPT ![proc[i].entry].ip = proc[i].msg.src]
  /\ Goto(i, "update")
  /\ UNCHANGED <<host, rows, ready, conf, told, routed>>

RowFree == "fwd" \in ready /\ Len(rows) < MAXFWDTABENTRIES
\* nsolicit_handler, second half up to sendNAD.  The address of the row is read from the
\* entry; before fwdipv6_init the row goes nowhere.
SolUpdate(i) ==
  LET e == proc[i].entry
      a == cache[e].ip IN
  /\ proc[i].pc = "update"
  /\ IF proc[i].msg.opt
     THEN /\ cache' = [cache EXCEPT ![e].state = "REACHABLE", ![e].mac = Owner(proc[i].msg.src)]
          /\ rows' = IF RowFree THEN Append(rows, [ip |-> a, iface |-> i]) ELSE rows
          /\ routed' = IF RowFree THEN routed \cup {proc[i].msg.src} ELSE routed
          /\ IF proc[i].new THEN Goto(i, "asleep") ELSE Done(i)
     ELSE /\ cache' = [cache EXCEPT ![e].state = "REACHABLE"]
          /\ Done(i) /\ UNCHANGED <<rows, routed>>
  /\ UNCHANGED <<host, ready, conf, told>>
\* sleep(3) ends and sendNSOL goes out.
SolWake(i) == proc[i].pc = "asleep" /\ Done(i) /\ UNCHANGED <<host, cache, rows, ready, conf, told, routed>>

\* nadvert_handler.
Advertised(i, m) ==
  LET e == LookupNDEntry(m.src) IN
  /\ Ready(i) /\ m.type = "NA" /\ "nd" \in ready /\ e # None
  /\ cache' = [cache EXCEPT ![e].state = "REACHABLE", ![e].mac = IF m.opt THEN Owner(m.src) ELSE @]
  /\ UNCHANGED <<host, rows, ready, conf, proc, told, routed>>

SeenOne(ad) == {ad.opts[1]}
\* radvert_handler: an option it does not know ends the loop over the options.  A NAT box
\* drops the advertisements of other stations.
Seen(ad) == {ad.opts[k] : k \in {k \in DOMAIN ad.opts : \A j \in 1..k : ad.opts[j] # "other"}}
RaOptions(ad) ==
  /\ Ready(0) /\ Goto(0, "router")
  /\ conf' = [conf EXCEPT !.mac = IF "lladdr" \in Seen(ad) THEN Router ELSE @,
                          !.addr = IF "prefix" \in Seen(ad) THEN ad.prefix ELSE @,
                          !.has = @ \/ "prefix" \in Seen(ad)]
  /\ UNCHANGED <<host, cache, rows, ready, told, routed>>
RaRouterOnce ==
  /\ proc[0].pc = "router"
  /\ conf' = [conf EXCEPT !.link = RouterLink, !.ip = conf.addr]
  /\ IF host \/ conf.link = RouterLink THEN Done(0) ELSE proc' = [proc EXCEPT ![0].pc = "tell", ![0].entry = Min(Inside)]
  /\ UNCHANGED <<host, cache, rows, ready, told, routed>>
\* icmpv6_in sets the router's addresses; a NAT box then advertises inside.
RaRouter ==
  /\ proc[0].pc = "router"
  /\ conf' = [conf EXCEPT !.link = RouterLink, !.ip = conf.addr]
  /\ IF host THEN Done(0) ELSE proc' = [proc EXCEPT ![0].pc = "tell", ![0].entry = Min(Inside)]
  /\ UNCHANGED <<host, cache, rows, ready, told, routed>>
RaTell ==
  LET i == proc[0].entry
      later == {j \in Inside : j > i} IN
  /\ proc[0].pc = "tell"
  /\ told' = [told EXCEPT ![i] = conf.addr]
  /\ IF later = {} THEN Done(0) ELSE proc' = [proc EXCEPT ![0].entry = Min(later)]
  /\ UNCHANGED <<host, cache, rows, ready, conf, routed>>
\* rsolicit_handler: a NAT box advertises on the interface the solicitation came from.
\* rsolicit_valid writes its pseudo-header over the message, so that only solicitations
\* from the unspecified address pass.
RsAnswer(i) ==
  /\ Ready(i) /\ ~host /\ i \in Inside
  /\ told' = [told EXCEPT ![i] = conf.addr]
  /\ UNCHANGED <<host, cache, rows, ready, conf, proc, routed>>

-----------------------------------------------------------------------------
\* ipv6_init, in main, from the router solicitation on.
MainStep(from, to) == MainRuns /\ proc[Main].pc = from /\ Goto(Main, to)
MainSolicit == MainStep("solicit", "ndinit") /\ UNCHANGED <<host, cache, rows, ready, conf, told, routed>>
MainNdInitBoth ==
  /\ MainStep("ndinit", "fwdinit") /\ ready' = {"nd", "fwd"} /\ cache' = [e \in Entries |-> Empty]
  /\ UNCHANGED <<host, rows, conf, told, routed>>
MainNdInit ==
  /\ MainStep("ndinit", "fwdinit") /\ ready' = {"nd"} /\ cache' = [e \in Entries |-> Empty]
  /\ UNCHANGED <<host, rows, conf, told, routed>>
MainFwdInit ==
  /\ MainStep("fwdinit", "wait") /\ ready' = {"nd", "fwd"} /\ rows' = <<>>
  /\ UNCHANGED <<host, cache, conf, told, routed>>
MainGo ==
  /\ conf.has /\ MainStep("wait", "find")
  /\ UNCHANGED <<host, cache, rows, ready, conf, told, routed>>
\* The two entries of the default router.  A null entry is written to nowhere.
MainFill ==
  LET e == proc[Main].entry
      second == proc[Main].new IN
  /\ MainRuns /\ proc[Main].pc = "fill"
  /\ cache' = IF e = None THEN cache
              ELSE [cache EXCEPT ![e].ip = IF second THEN conf.ip ELSE conf.link, ![e].state = "INCOMPLETE"]
  /\ proc' = [proc EXCEPT ![Main].new = TRUE, ![Main].pc = IF second THEN "nsol1" ELSE "find"]
  /\ UNCHANGED <<host, rows, ready, conf, told, routed>>
\* sendNSOL and sleep(1), twice.
MainNsol ==
  /\ MainStep("nsol1", "nsol2") \/ MainStep("nsol2", "last")
  /\ UNCHANGED <<host, cache, rows, ready, conf, told, routed>>
MainLast ==
  LET e == proc[Main].entry IN
  /\ MainStep("last", "done")
  /\ cache' = IF e = None THEN cache ELSE [cache EXCEPT ![e].mac = conf.mac, ![e].state = "REACHABLE"]
  /\ UNCHANGED <<host, rows, ready, conf, told, routed>>

MainNext == MainSolicit \/ MainNdInit \/ MainFwdInit \/ MainGo \/ MainFill \/ MainNsol \/ MainLast \/ FindFree(Main) \/ MarkFree(Main)
NetinNext(i) ==
  \/ FindFree(i) \/ MarkFree(i) \/ SolAddress(i) \/ SolUpdate(i) \/ SolWake(i)
  \/ (i = 0 /\ (RaRouter \/ RaTell))
Arrives(i) ==
  \/ \E m \in Messages : Valid(m) /\ (m.src = Unspec \/ Where(m.src) = i) /\ (Solicited(i, m) \/ Advertised(i, m))
  \/ RsAnswer(i)
Next ==
  \/ \E i \in Ifaces : Arrives(i) \/ NetinNext(i)
  \/ \E ad \in Adverts : RaOptions(ad)
  \/ MainNext
Spec == Init /\ [][Next]_vars

\* The handlers run to their end, the load leaves main the processor again and again, and
\* the router advertises a prefix again and again.
GoodAdvert == \E ad \in Adverts : "prefix" \in Seen(ad) /\ RaOptions(ad)
Fairness == (\A i \in Ifaces : WF_vars(NetinNext(i))) /\ SF_vars(MainNext) /\ []<>MainRuns /\ SF_vars(GoodAdvert)
FairSpec == Spec /\ Fairness

-----------------------------------------------------------------------------
Addresses == Hosts \cup Prefixes \cup {RouterLink, Unspec, NoPrefix, NoMac}

\* The values of the variables.
TypeOK ==
  /\ host \in BOOLEAN /\ ready \subseteq {"nd", "fwd"}
  /\ cache \in [Entries -> [ip : Addresses, mac : Hosts \cup {Router, NoMac}, state : States]]
  /\ Len(rows) <= MAXFWDTABENTRIES
  /\ \A k \in DOMAIN rows : rows[k] \in [ip : Addresses, iface : Ifaces]
  /\ conf.has \in BOOLEAN /\ conf.addr \in Prefixes \cup {NoPrefix}
  /\ \A i \in Ifaces : proc[i].entry \in Entries \cup {None} \cup Inside
  /\ told \in [Inside -> Prefixes \cup {NoPrefix}]

\* An entry that is marked NDPROCESSING (ndcache.c:84) is in the hands of the process that
\* marked it: no entry is lost in a handler that returns early or sleeps.
ProcessingHeld ==
  \A e \in Entries : cache[e].state = "PROCESSING" => \E p \in DOMAIN proc : proc[p].entry = e /\ proc[p].pc \in {"fill", "update"}

\* The MAC address of an entry is the one its own neighbour has announced (nsolicit.c:175),
\* never that of the neighbour whose handler ran at the same time.
BindingTrue ==
  \A e \in Entries : cache[e].mac # NoMac /\ cache[e].ip # Unspec => cache[e].mac = Owner(cache[e].ip)

\* A host has one entry, however often it solicits and whatever happens to free entries
\* meanwhile (nsolicit.c:142).  The router may have two: ipv6_init takes entries without a
\* lookup (ipv6.c:259), and its incomplete one may hide the router's own.
OneEntryPerHost == \A e, f \in Entries : cache[e].ip = cache[f].ip /\ cache[e].ip \in Hosts => e = f

\* The neighbour cache as several netin and main share it without a lock.
NeighboursKnown == TypeOK /\ ProcessingHeld /\ BindingTrue /\ OneEntryPerHost

\* A neighbour whose solicitation was answered can also be forwarded to, by the interface
\* it is on: the row takes the address from the entry (nsolicit.c:178), not from the
\* packet.  The table may be full, and rows from before fwdipv6_init are lost.
NeighbourHasRow == \A h \in routed \cap Hosts : \E k \in DOMAIN rows : rows[k] = [ip |-> h, iface |-> Home[h]]

\* When main leaves its loop on hasIPv6Addr (ipv6.c:254) the router's addresses are set,
\* though the flag is raised before them (radvert.c:91 and icmpv6.c:86): main does not get
\* the processor in between.
MainSeesRouter == proc[Main].pc \notin {"solicit", "ndinit", "fwdinit", "wait"} => conf.link = RouterLink /\ conf.ip # NoPrefix

\* After ipv6_init the router's global address is in the cache and reachable, as long as it
\* was given an entry and the prefix has not changed since.
RouterReachable ==
  LET e == proc[Main].entry IN
  proc[Main].pc = "done" /\ e # None /\ conf.ip = cache[e].ip => cache[LookupNDEntry(conf.ip)].state = "REACHABLE"

\* Between advertisements of the router the inside networks have been told the prefix the
\* box uses (icmpv6.c:126), also by the answers to solicitations in between.
InsideFollows == ~host /\ proc[0].pc \notin {"router", "tell"} => \A i \in Inside : told[i] = conf.addr

\* What the handlers of advertisements tell ipv6_init and the inside networks.
RouterFollowed == MainSeesRouter /\ RouterReachable /\ InsideFollows

\* ipv6_init comes to its end.
SetUpEnds == <>(proc[Main].pc = "done")
=============================================================================
