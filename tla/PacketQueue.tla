---------------------------- MODULE PacketQueue ----------------------------
(***************************************************************************)
(* What the input path of net/net.c promises to the protocol code: per     *)
(* interface a first-in first-out queue of frames and the frame that is    *)
(* being handled.  A frame that is not accepted never shows up here.       *)
(***************************************************************************)
EXTENDS Naturals, Sequences

CONSTANTS Ifaces, Data, None

VARIABLES q,    \* the frames accepted and not yet taken
          cur   \* the frame being handled, or None

Init ==
    /\ q = [i \in Ifaces |-> <<>>]
    /\ cur = [i \in Ifaces |-> None]

Accept(i, d) ==
    /\ q' = [q EXCEPT ![i] = Append(@, d)]
    /\ UNCHANGED cur

Take(i) ==
    /\ q[i] # <<>>
    /\ cur[i] = None
    /\ cur' = [cur EXCEPT ![i] = Head(q[i])]
    /\ q' = [q EXCEPT ![i] = Tail(@)]

Finish(i) ==
    /\ cur[i] # None
    /\ cur' = [cur EXCEPT ![i] = None]
    /\ UNCHANGED q

Next == \E i \in Ifaces : Take(i) \/ Finish(i) \/ \E d \in Data : Accept(i, d)

Spec == Init /\ [][Next]_<<q, cur>>

=============================================================================
