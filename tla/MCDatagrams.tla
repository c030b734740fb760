----------------------------- MODULE MCDatagrams -----------------------------
(* Datagrams, the ICMPv6 exchanges, the checksum and the forwarding table: a behaviour is
   about one of them. *)
EXTENDS Datagrams, Icmpv6, Checksum, FwdTable
VARIABLE focus
vars == <<focus, dvars, ivars, cvars, fwdVars>>

MCLength == [a |-> 11, b |-> 3, c |-> 5]
Init ==
  /\ focus \in {"datagrams", "icmp", "sum", "fwd"}
  /\ DatagramsInit /\ (focus # "datagrams" => "a" \in {f.id : f \in net})
  /\ IcmpInit /\ FwdInit
  /\ \E l \in Lengths : ChecksumInit(l) /\ (focus # "sum" => l = Max(Lengths))

InDatagrams(A) == focus = "datagrams" /\ A /\ UNCHANGED <<focus, ivars, cvars, fwdVars>>
InIcmp(A) == focus = "icmp" /\ A /\ UNCHANGED <<focus, dvars, cvars, fwdVars>>
InSum(A) == focus = "sum" /\ A /\ UNCHANGED <<focus, dvars, ivars, fwdVars>>
InFwd(A) == focus = "fwd" /\ A /\ UNCHANGED <<focus, dvars, ivars, cvars>>
Next == InDatagrams(DatagramsNext) \/ InIcmp(IcmpNext) \/ InSum(SumWord) \/ InFwd(FwdNext)

\* Processes that can go on do; the network may keep what it has.
Fairness ==
  /\ WF_vars(InDatagrams(NetinSends)) /\ WF_vars(InDatagrams(Timer)) /\ WF_vars(InDatagrams(Second))
  /\ \A s \in Stations : WF_vars(InIcmp(Netin6(s))) /\ WF_vars(InIcmp(SendSecond(s)))
  /\ WF_vars(InSum(SumWord))
Spec == Init /\ [][Next]_vars /\ Fairness
=============================================================================
