------------------------------- MODULE EthSetup -------------------------------
(***************************************************************************)
(* Setting the Ethernet device up: ethinit resets the PHY and the MAC with *)
(* a bounded number of retries, allocates the rings and starts the DMA;    *)
(* ethcontrol then keeps the list of multicast addresses.  The hardware    *)
(* finishes a reset, negotiates and finds a link when it will, and a read  *)
(* of a PHY register that is not answered in time returns zero.            *)
(***************************************************************************)
EXTENDS Integers, Sequences

CONSTANTS MAX_RETRIES, ETH_NUM_MCAST, Macs, MaxControls

ASSUME EthSetupAssump == MAX_RETRIES \in Nat /\ ETH_NUM_MCAST \in Nat /\ MaxControls \in Nat

VARIABLES hw,      \* reset (bit 15), negotiated, link, macbusy (the reset bit of bmr), running (DMA and MAC)
          init,    \* at: the step of ethinit; retries; mem: what it allocated; sawlink
          mcast,   \* ed_mca, one cell longer than it is, and ed_mcc
          members, \* the addresses added and not removed, in their order
          controls
evars == <<hw, init, mcast, members, controls>>

Empty == "zeros"
\* s without its n-th element.
Without(s, n) == [i \in 1..(Len(s) - 1) |-> IF i < n THEN s[i] ELSE s[i + 1]]
Steps == <<"reset", "waitreset", "autoneg", "link", "mac", "waitmac", "tx", "rx", "start", "done">>
NextStep(at) == Steps[(CHOOSE i \in DOMAIN Steps : Steps[i] = at) + 1]
EthInit0 ==
  /\ hw = [reset |-> FALSE, negotiated |-> FALSE, link |-> FALSE, macbusy |-> FALSE, running |-> FALSE]
  /\ init = [at |-> "reset", retries |-> 0, mem |-> {}, sawlink |-> FALSE]
  /\ mcast = [mca |-> [i \in 0..ETH_NUM_MCAST |-> Empty], mcc |-> 0] /\ members = <<>> /\ controls = 0
Setting == UNCHANGED <<mcast, members, controls>>

\* The hardware, at any time: the PHY leaves its reset, negotiates, finds and loses the link.
PhyResets == hw.reset /\ hw' = [hw EXCEPT !.reset = FALSE] /\ UNCHANGED init /\ Setting
PhyNegotiates == ~hw.reset /\ ~hw.negotiated /\ hw' = [hw EXCEPT !.negotiated = TRUE] /\ UNCHANGED init /\ Setting
LinkChanges == init.at # "done" /\ ~hw.reset /\ hw' = [hw EXCEPT !.link = ~@] /\ UNCHANGED init /\ Setting
MacResets == hw.macbusy /\ hw' = [hw EXCEPT !.macbusy = FALSE] /\ UNCHANGED init /\ Setting

-----------------------------------------------------------------------------
(* ethinit *)

\* eth_phy_read of a bit: its value, or zero when the transaction takes too long.
PhyReads(bit) == {bit, FALSE}
Advance == init' = [init EXCEPT !.at = NextStep(@), !.retries = 0]
\* One more turn of a loop, the last of which makes ethinit fail.
TryAgain ==
  init' = IF init.retries + 1 > MAX_RETRIES THEN [init EXCEPT !.at = "failed"] ELSE [init EXCEPT !.retries = @ + 1]

\* The write that resets the PHY may be given up before it is done.
ResetPhy ==
  /\ init.at = "reset" /\ Advance /\ Setting
  /\ hw' \in {hw, [hw EXCEPT !.reset = TRUE, !.negotiated = FALSE, !.link = FALSE]}
WaitReset ==
  /\ init.at = "waitreset" /\ UNCHANGED hw /\ Setting
  /\ \E busy \in PhyReads(hw.reset) : (busy /\ TryAgain) \/ (~busy /\ Advance)
\* A PHY that does not say it can negotiate is not waited for.
AutonegNotCapable ==
  init.at = "autoneg" /\ init.retries = 0 /\ Advance /\ UNCHANGED hw /\ Setting
Autoneg ==
  /\ init.at = "autoneg" /\ UNCHANGED hw /\ Setting
  /\ \E done \in PhyReads(hw.negotiated) : (~done /\ TryAgain) \/ (done /\ Advance)
WaitLink ==
  /\ init.at = "link" /\ UNCHANGED hw /\ Setting
  /\ \E up \in PhyReads(hw.link) :
       (~up /\ TryAgain) \/ (up /\ init' = [init EXCEPT !.at = NextStep(@), !.retries = 0, !.sawlink = TRUE])
ResetMac == init.at = "mac" /\ Advance /\ hw' = [hw EXCEPT !.macbusy = TRUE] /\ Setting
WaitMac ==
  /\ init.at = "waitmac" /\ UNCHANGED hw /\ Setting
  /\ (hw.macbusy /\ TryAgain) \/ (~hw.macbusy /\ Advance)
\* The ring, its buffers and its semaphore; any of the three may not be had.
Allocate(ring) ==
  /\ init.at = ring /\ UNCHANGED hw /\ Setting
  /\ \/ init' = [init EXCEPT !.at = NextStep(@), !.mem = @ \cup {<<ring, "ring">>, <<ring, "bufs">>, <<ring, "sem">>}]
     \/ \E part \in {{}, {<<ring, "ring">>}, {<<ring, "ring">>, <<ring, "bufs">>}} :
          init' = [init EXCEPT !.at = "failed", !.mem = @ \cup part]
StartDma == init.at = "start" /\ Advance /\ hw' = [hw EXCEPT !.running = TRUE] /\ Setting

-----------------------------------------------------------------------------
(* ethcontrol: ethmcast_add and ethmcast_remove *)

Control == init.at = "done" /\ controls < MaxControls /\ controls' = controls + 1 /\ UNCHANGED <<hw, init>>
McastAdd(a) ==
  /\ Control
  /\ IF mcast.mcc < ETH_NUM_MCAST
     THEN /\ mcast' = [mca |-> [mcast.mca EXCEPT ![mcast.mcc] = a], mcc |-> mcast.mcc + 1]
          /\ members' = Append(members, a)
     ELSE UNCHANGED <<mcast, members>>
Listed(a) == {i \in 0..(mcast.mcc - 1) : mcast.mca[i] = a}
McastRemoveNoShift(a) ==
  /\ Control
  /\ \/ Listed(a) = {} /\ UNCHANGED <<mcast, members>>
     \/ \E i \in Listed(a) :
          /\ \A k \in Listed(a) : i <= k
          /\ mcast' = [mca |-> [mcast.mca EXCEPT ![i] = Empty], mcc |-> mcast.mcc - 1]
          /\ members' = Without(members, i + 1)
\* The cells after the address move down, the last of them from beyond those in use.
McastRemove(a) ==
  /\ Control
  /\ \/ Listed(a) = {} /\ UNCHANGED <<mcast, members>>
     \/ \E i \in Listed(a) :
          /\ \A k \in Listed(a) : i <= k
          /\ mcast' = [mca |-> [j \in DOMAIN mcast.mca |->
                                  IF j < i \/ j > mcast.mcc THEN mcast.mca[j]
                                  ELSE IF j = mcast.mcc THEN Empty ELSE mcast.mca[j + 1]],
                       mcc |-> mcast.mcc - 1]
          /\ members' = Without(members, i + 1)

EthSetupStep ==
  \/ ResetPhy \/ WaitReset \/ AutonegNotCapable \/ Autoneg \/ WaitLink \/ ResetMac \/ WaitMac
  \/ (\E ring \in {"tx", "rx"} : Allocate(ring)) \/ StartDma
EthSetupNext ==
  \/ EthSetupStep \/ PhyResets \/ PhyNegotiates \/ LinkChanges \/ MacResets
  \/ \E a \in Macs : McastAdd(a) \/ McastRemove(a)

-----------------------------------------------------------------------------
(* Properties *)

EthSetupTypeOK ==
  /\ init.at \in {Steps[i] : i \in DOMAIN Steps} \cup {"failed"} /\ init.retries \in 0..(MAX_RETRIES + 1)
  /\ mcast.mcc \in 0..ETH_NUM_MCAST

\* The device is started only after a link was seen, with both rings, their buffers and their
\* semaphores there, whatever the PHY answers and whenever it does (ethinit, eth_phy_reset).
StartedReady ==
  hw.running => init.sawlink /\ ~hw.macbusy
                /\ \A r \in {"tx", "rx"}, part \in {"ring", "bufs", "sem"} : <<r, part>> \in init.mem

\* ethinit ends, also with hardware that never becomes ready (the retry loops).
InitEnds == <>(init.at \in {"done", "failed"})

\* The list holds the addresses added and not removed since, in their order, after any
\* sequence of calls that includes a full list and an address listed twice.
MembersListed ==
  /\ mcast.mcc = Len(members)
  /\ \A i \in DOMAIN members : mcast.mca[i - 1] = members[i]

\* The device as ethinit leaves it, and the multicast list ethcontrol keeps for it.
EtherRight == EthSetupTypeOK /\ StartedReady /\ MembersListed
=============================================================================
