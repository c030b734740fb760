------------------------------ MODULE FwdTable ------------------------------
(***************************************************************************)
(* The IPv6 forwarding table of net/fwdipv6.c: entries, the array of       *)
(* pointers that is kept sorted, insertion, the bubble sort and the        *)
(* longest-prefix lookup.  No lock protects the table and every caller     *)
(* (nsolicit_handler, outPktRW, the shell) can be preempted by another,    *)
(* so an insertion is a sequence of small steps of its process.            *)
(***************************************************************************)
EXTENDS Integers, Sequences

CONSTANTS
    MAXFWDTABENTRIES,
    IPV6_ASIZE,     \* bytes of an address (16)
    BYTE,           \* bits of a byte (8)
    PrefixLens,     \* prefix lengths callers use
    Ifaces,
    Procs,          \* processes that insert
    MaxInserts      \* bound: calls of insertNewFwdTabEntry

Idx == 0..MAXFWDTABENTRIES-1
Addrs == [1..IPV6_ASIZE -> 0..2^BYTE-1]

ASSUME FwdAssump ==
    /\ MAXFWDTABENTRIES \in Nat \ {0}
    /\ IPV6_ASIZE \in Nat \ {0} /\ BYTE \in Nat \ {0}
    /\ PrefixLens \subseteq 1..(BYTE * IPV6_ASIZE)
    /\ 0 \in Ifaces
    /\ MaxInserts \in Nat

VARIABLES
    fwdTab,      \* the entries
    fwdTabPTR,   \* fwdTabPTR[j]: the index in fwdTab of the j-th entry
    pc,          \* per process: "idle", "find", "fill", "sort", "swap1", "swap2"
    arg,         \* per process: the entry to insert
    at,          \* per process: index, i, j and temp of its calls
    accepted,    \* history: the entries insertions returned 1 for, in order of filling
    calls        \* insertions called so far

fwdVars == <<fwdTab, fwdTabPTR, pc, arg, at, accepted, calls>>

NoRow == [ttl |-> 0, iface |-> 0, prefixLen |-> 0, ipAddr |-> [b \in 1..IPV6_ASIZE |-> 0]]
Rows == [ttl : {0, 900}, iface : Ifaces, prefixLen : Nat, ipAddr : Addrs \cup {NoRow.ipAddr}]

\* The entry the j-th pointer leads to.
Row(j) == fwdTab[fwdTabPTR[j]]

AtRest == \A p \in Procs : pc[p] \in {"idle", "find"}

-----------------------------------------------------------------------------
(* Plausible bugs, used to show that the properties can fail. *)

OutOfOrderEqual(j) == Row(j).prefixLen <= Row(j + 1).prefixLen /\ Row(j + 1).prefixLen > 0
Swap2NoTemp(p) ==
    /\ pc[p] = "swap2"
    /\ pc' = [pc EXCEPT ![p] = "sort"]
    /\ at' = [at EXCEPT ![p].j = @ + 1]
    /\ UNCHANGED <<fwdTab, fwdTabPTR, arg, accepted, calls>>
-----------------------------------------------------------------------------
\* match(a, b, len)
Match(a, b, len) == \A k \in 1..len : a[k] = b[k]

\* getNextHop: the first row, from longest to shortest prefix, whose whole
\* bytes match; -1 for the default router.
GetNextHop(ip) ==
    LET used == {j \in Idx : \A k \in 0..j : Row(k).prefixLen # 0}
        hits == {j \in used : Match(ip, Row(j).ipAddr, Row(j).prefixLen \div BYTE)}
    IN  IF hits = {} THEN -1 ELSE CHOOSE j \in hits : \A k \in hits : j <= k

\* fwdipv6_init
FwdInit ==
    /\ fwdTab = [j \in Idx |-> NoRow]
    /\ fwdTabPTR = [j \in Idx |-> j]
    /\ pc = [p \in Procs |-> "idle"]
    /\ arg = [p \in Procs |-> NoRow]
    /\ at = [p \in Procs |-> [index |-> 0, i |-> 0, j |-> 0, temp |-> 0]]
    /\ accepted = <<>>
    /\ calls = 0

\* A process calls insertNewFwdTabEntry.
Call(p, ip, len, iface) ==
    /\ pc[p] = "idle"
    /\ calls < MaxInserts
    /\ calls' = calls + 1
    /\ arg' = [arg EXCEPT ![p] = [ttl |-> 900, iface |-> iface, prefixLen |-> len, ipAddr |-> ip]]
    /\ pc' = [pc EXCEPT ![p] = "find"]
    /\ UNCHANGED <<fwdTab, fwdTabPTR, at, accepted>>

\* A row getNextAvailFwdIndex may return.
Free(j) == Row(j).ttl = 0

\* getNextAvailFwdIndex; a full table ends the call with -1.
Find(p) ==
    /\ pc[p] = "find"
    /\ \/ /\ \A j \in Idx : ~Free(j)
          /\ pc' = [pc EXCEPT ![p] = "idle"]
          /\ UNCHANGED at
       \/ \E j \in Idx :
            /\ Free(j) /\ \A k \in 0..j-1 : ~Free(k)
            /\ at' = [at EXCEPT ![p].index = j]
            /\ pc' = [pc EXCEPT ![p] = "fill"]
    /\ UNCHANGED <<fwdTab, fwdTabPTR, arg, accepted, calls>>

\* Fill the entry the pointer at that index leads to now; start sortFwdTab.
Fill(p) ==
    /\ pc[p] = "fill"
    /\ fwdTab' = [fwdTab EXCEPT ![fwdTabPTR[at[p].index]] = arg[p]]
    /\ accepted' = Append(accepted, arg[p])
    /\ at' = [at EXCEPT ![p].i = 0, ![p].j = 0]
    /\ pc' = [pc EXCEPT ![p] = "sort"]
    /\ UNCHANGED <<fwdTabPTR, arg, calls>>

\* sortFwdTab swaps two neighbours when this holds.
OutOfOrder(j) == Row(j).prefixLen < Row(j + 1).prefixLen

\* The loops of sortFwdTab: the end of the sort, the next pass, a comparison.
Sort(p) ==
    /\ pc[p] = "sort"
    /\ LET i == at[p].i
           j == at[p].j
       IN  \/ /\ i >= MAXFWDTABENTRIES - 1
              /\ pc' = [pc EXCEPT ![p] = "idle"]
              /\ UNCHANGED at
           \/ /\ i < MAXFWDTABENTRIES - 1 /\ j >= MAXFWDTABENTRIES - i - 1
              /\ at' = [at EXCEPT ![p].i = i + 1, ![p].j = 0]
              /\ UNCHANGED pc
           \/ /\ i < MAXFWDTABENTRIES - 1 /\ j < MAXFWDTABENTRIES - i - 1
              /\ IF OutOfOrder(j)
                 THEN /\ at' = [at EXCEPT ![p].temp = fwdTabPTR[j]]
                      /\ pc' = [pc EXCEPT ![p] = "swap1"]
                 ELSE /\ at' = [at EXCEPT ![p].j = j + 1]
                      /\ UNCHANGED pc
    /\ UNCHANGED <<fwdTab, fwdTabPTR, arg, accepted, calls>>

\* fwdTabPTR[j] = fwdTabPTR[j + 1]
Swap1(p) ==
    /\ pc[p] = "swap1"
    /\ fwdTabPTR' = [fwdTabPTR EXCEPT ![at[p].j] = fwdTabPTR[at[p].j + 1]]
    /\ pc' = [pc EXCEPT ![p] = "swap2"]
    /\ UNCHANGED <<fwdTab, arg, at, accepted, calls>>

\* fwdTabPTR[j + 1] = temp
Swap2(p) ==
    /\ pc[p] = "swap2"
    /\ fwdTabPTR' = [fwdTabPTR EXCEPT ![at[p].j + 1] = at[p].temp]
    /\ at' = [at EXCEPT ![p].j = @ + 1]
    /\ pc' = [pc EXCEPT ![p] = "sort"]
    /\ UNCHANGED <<fwdTab, arg, accepted, calls>>

FwdNext ==
    \E p \in Procs :
        \/ \E ip \in Addrs, len \in PrefixLens, iface \in Ifaces : Call(p, ip, len, iface)
        \/ Find(p) \/ Fill(p) \/ Sort(p) \/ Swap1(p) \/ Swap2(p)

-----------------------------------------------------------------------------
(* Properties *)

FwdTypeOK ==
    /\ fwdTab \in [Idx -> Rows]
    /\ fwdTabPTR \in [Idx -> Idx]
    /\ pc \in [Procs -> {"idle", "find", "fill", "sort", "swap1", "swap2"}]
    /\ arg \in [Procs -> Rows]
    /\ at \in [Procs -> [index : Idx, i : Nat, j : Nat, temp : Idx]]

\* Between insertions every entry is reachable through exactly one pointer.
PointersArePermutation == AtRest => \A j, k \in Idx : fwdTabPTR[j] = fwdTabPTR[k] => j = k

\* Between insertions the rows are sorted from longest to shortest prefix,
\* the free ones last, as getNextHop assumes when it stops at prefixLen 0.
SortedAtRest == AtRest => \A j \in Idx : j + 1 \in Idx => Row(j).prefixLen >= Row(j + 1).prefixLen

\* What insertNewFwdTabEntry and sortFwdTab leave behind: a sorted permutation
\* of the rows, whatever was swapped in between.
SortedPermutation == FwdTypeOK /\ PointersArePermutation /\ SortedAtRest

\* What a route must be, stated over the bits of the address: the accepted
\* entry of longest prefix that covers ip, the oldest of several.
Bit(ip, n) == (ip[((n - 1) \div BYTE) + 1] \div 2^(BYTE - 1 - ((n - 1) % BYTE))) % 2
Covers(e, ip) == \A n \in 1..e.prefixLen : Bit(e.ipAddr, n) = Bit(ip, n)
Better(k, l) ==
    \/ accepted[k].prefixLen > accepted[l].prefixLen
    \/ accepted[k].prefixLen = accepted[l].prefixLen /\ k <= l
BestRoute(ip) ==
    LET covering == {k \in DOMAIN accepted : Covers(accepted[k], ip)}
    IN  IF covering = {} THEN NoRow
        ELSE accepted[CHOOSE k \in covering : \A l \in covering : Better(k, l)]

\* Between insertions getNextHop returns the longest matching prefix, and the
\* default router exactly when no entry covers the address.
LongestPrefixMatch ==
    AtRest => \A ip \in Addrs :
        BestRoute(ip) = IF GetNextHop(ip) = -1 THEN NoRow ELSE Row(GetNextHop(ip))

=============================================================================
