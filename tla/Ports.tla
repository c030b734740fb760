--------------------------------- MODULE Ports ---------------------------------
(***************************************************************************)
(* Ports: queues of messages with a semaphore for room and one for         *)
(* messages.  ptdelete and ptreset give every message to the caller's      *)
(* function, which may let other processes run while the port is in limbo, *)
(* and then make everybody ready who waits; the port's sequence number     *)
(* tells those processes that it is not the port they asked for.           *)
(***************************************************************************)
EXTENDS Integers, Sequences, FiniteSets

CONSTANTS Procs, NPORTS, PT_MSGS, Counts, MaxSends, MaxSeq

ASSUME PortsAssump == NPORTS \in Nat \ {0} /\ PT_MSGS \in Nat /\ Counts \subseteq Nat

VARIABLES porttab,    \* state, ssem and rsem [sem, q], queue (the list at pthead), maxcnt, seq
          ptfree,     \* the number of free nodes
          ptnextid,
          call,       \* what each process waits for, on which port, and the number it recorded
          ready,      \* processes that have been made ready and have not run yet
          clear,      \* _ptclear: port, newstate, how far it is, messages disposed of
          msgs, disposed, received     \* messages sent, and what became of them
pvars == <<porttab, ptfree, ptnextid, call, ready, clear, msgs, disposed, received>>

Ports == 0..(NPORTS - 1)
Sem(n) == [sem |-> n, q |-> <<>>]
NoCall == [op |-> "none", port |-> 0, seq |-> 0]
NoClear == [port |-> NPORTS, to |-> "free", step |-> "none", walk |-> 0]

Waits(s, p) == [sem |-> s.sem - 1, q |-> Append(s.q, p)]
Signals(s) == [sem |-> s.sem + 1, q |-> IF s.q = <<>> THEN s.q ELSE Tail(s.q)]
First(s) == IF s.q = <<>> THEN {} ELSE {Head(s.q)}
All(s) == {s.q[i] : i \in DOMAIN s.q}

PortsInit ==
  /\ porttab = [n \in Ports |-> [state |-> "free", ssem |-> Sem(0), rsem |-> Sem(0), queue |-> <<>>,
                                  maxcnt |-> 0, seq |-> 0]]
  /\ ptfree = PT_MSGS /\ ptnextid = 0 /\ call = [p \in Procs |-> NoCall] /\ ready = {}
  /\ clear = NoClear /\ msgs = <<>> /\ disposed = <<>> /\ received = <<>>

\* The first free entry at or after ptnextid.
Tries == {i \in 0..(NPORTS - 1) : porttab[(ptnextid + i) % NPORTS].state = "free"}
FirstTry == CHOOSE i \in Tries : \A j \in Tries : i <= j
Ptcreate(count) ==
  /\ Tries # {} /\ ptnextid' = (ptnextid + FirstTry + 1) % NPORTS
  /\ LET n == (ptnextid + FirstTry) % NPORTS IN
       /\ porttab[n].seq < MaxSeq
       /\ porttab' = [porttab EXCEPT ![n] =
            [state |-> "alloc", ssem |-> Sem(count), rsem |-> Sem(0), queue |-> <<>>,
             maxcnt |-> count, seq |-> @.seq + 1]]
  /\ UNCHANGED <<ptfree, call, ready, clear, msgs, disposed, received>>

\* The port is not what it was when the process began to wait.
ChangedNoSeq(p, t) == t.state # "alloc"
Changed(p, t) == t.state # "alloc" \/ t.seq # call[p].seq

\* The end of ptsend, with a node of the free list (that there is one is assumed: else panic),
\* and of ptrecv (message 0: there is none).
Put(n, t) ==
  /\ ptfree > 0 /\ ptfree' = ptfree - 1
  /\ msgs' = Append(msgs, [port |-> n, seq |-> t.seq])
  /\ porttab' = [porttab EXCEPT ![n] =
       [t EXCEPT !.queue = Append(@, Len(msgs) + 1), !.rsem = Signals(@)]]
  /\ UNCHANGED received
Get(n, t, seq) ==
  /\ ptfree' = ptfree + 1 /\ UNCHANGED msgs
  /\ received' = Append(received, [msg |-> IF t.queue = <<>> THEN 0 ELSE Head(t.queue), seq |-> seq])
  /\ porttab' = [porttab EXCEPT ![n] =
       [t EXCEPT !.queue = IF @ = <<>> THEN @ ELSE Tail(@), !.ssem = Signals(@)]]

Ptsend(p, n) ==
  LET t == porttab[n] IN
  /\ call[p].op = "none" /\ t.state = "alloc" /\ Len(msgs) < MaxSends
  /\ IF t.ssem.sem > 0
     THEN Put(n, [t EXCEPT !.ssem.sem = @ - 1]) /\ ready' = ready \cup First(t.rsem) /\ UNCHANGED call
     ELSE /\ porttab' = [porttab EXCEPT ![n].ssem = Waits(@, p)]
          /\ call' = [call EXCEPT ![p] = [op |-> "send", port |-> n, seq |-> t.seq]]
          /\ UNCHANGED <<ptfree, ready, msgs, received>>
  /\ UNCHANGED <<ptnextid, clear, disposed>>
Ptrecv(p, n) ==
  LET t == porttab[n] IN
  /\ call[p].op = "none" /\ t.state = "alloc"
  /\ IF t.rsem.sem > 0
     THEN Get(n, [t EXCEPT !.rsem.sem = @ - 1], t.seq) /\ ready' = ready \cup First(t.ssem) /\ UNCHANGED call
     ELSE /\ porttab' = [porttab EXCEPT ![n].rsem = Waits(@, p)]
          /\ call' = [call EXCEPT ![p] = [op |-> "recv", port |-> n, seq |-> t.seq]]
          /\ UNCHANGED <<ptfree, ready, msgs, received>>
  /\ UNCHANGED <<ptnextid, clear, disposed>>
\* After wait has returned.
GoesOn(p) ==
  LET n == call[p].port t == porttab[n] IN
  /\ p \in ready /\ call' = [call EXCEPT ![p] = NoCall]
  /\ \/ /\ Changed(p, t) /\ ready' = ready \ {p} /\ UNCHANGED <<porttab, ptfree, msgs, received>>
     \/ /\ ~Changed(p, t) /\ call[p].op = "send"
        /\ Put(n, t) /\ ready' = (ready \ {p}) \cup First(t.rsem)
     \/ /\ ~Changed(p, t) /\ call[p].op = "recv"
        /\ Get(n, t, call[p].seq) /\ ready' = (ready \ {p}) \cup First(t.ssem)
  /\ UNCHANGED <<ptnextid, clear, disposed>>

\* ptdelete (to = "free") and ptreset (to = "alloc"): _ptclear step by step.
ClearBegin(n, to) ==
  /\ clear = NoClear /\ porttab[n].state = "alloc" /\ porttab[n].seq < MaxSeq
  /\ porttab' = [porttab EXCEPT ![n].state = "limbo", ![n].seq = @ + 1]
  /\ clear' = [port |-> n, to |-> to, step |-> "dispose", walk |-> 0]
  /\ UNCHANGED <<ptfree, ptnextid, call, ready, msgs, disposed, received>>
Dispose ==
  /\ clear.step = "dispose" /\ clear.walk < Len(porttab[clear.port].queue)
  /\ disposed' = Append(disposed, porttab[clear.port].queue[clear.walk + 1])
  /\ clear' = [clear EXCEPT !.walk = @ + 1]
  /\ UNCHANGED <<porttab, ptfree, ptnextid, call, ready, msgs, received>>
ClearSenders ==
  LET n == clear.port t == porttab[n] IN
  /\ clear.step = "dispose" /\ clear.walk = Len(t.queue) /\ clear' = [clear EXCEPT !.step = "receivers"]
  /\ ptfree' = ptfree + Len(t.queue) /\ ready' = ready \cup All(t.ssem)
  /\ porttab' = [porttab EXCEPT ![n].queue = IF clear.to = "alloc" THEN <<>> ELSE @,
                                ![n].ssem = Sem(IF clear.to = "alloc" THEN t.maxcnt ELSE 0)]
  /\ UNCHANGED <<ptnextid, call, msgs, disposed, received>>
ClearReceivers ==
  LET n == clear.port t == porttab[n] IN
  /\ clear.step = "receivers" /\ clear' = NoClear
  /\ porttab' = [porttab EXCEPT ![n].rsem = Sem(0), ![n].state = clear.to]
  /\ ready' = ready \cup All(t.rsem) /\ ptnextid' = IF clear.to = "free" THEN n ELSE ptnextid
  /\ UNCHANGED <<ptfree, call, msgs, disposed, received>>
Clears == Dispose \/ ClearSenders \/ ClearReceivers

PortsNext ==
  \/ \E count \in Counts : Ptcreate(count)
  \/ \E p \in Procs, n \in Ports : Ptsend(p, n) \/ Ptrecv(p, n)
  \/ \E p \in Procs : GoesOn(p)
  \/ \E n \in Ports, to \in {"free", "alloc"} : ClearBegin(n, to)
  \/ Clears

PortsSpec == PortsInit /\ [][PortsNext]_pvars
-----------------------------------------------------------------------------
(* Properties *)

PortsTypeOK ==
  /\ ptfree \in 0..PT_MSGS /\ ptnextid \in Ports /\ ready \subseteq Procs
  /\ \A n \in Ports : porttab[n].state \in {"free", "limbo", "alloc"} /\ porttab[n].queue \in Seq(1..Len(msgs))
  /\ \A p \in Procs : call[p].op \in {"none", "send", "recv"}

\* The ports whose messages are theirs: the others' have been given back.
Queued == {n \in Ports : \/ porttab[n].state = "alloc"
                         \/ porttab[n].state = "limbo" /\ clear.step = "dispose"}
\* The nodes in use, and the messages of a port that have been disposed of.
Nodes == UNION {{n} \X DOMAIN porttab[n].queue : n \in Queued}
Gone(n) == IF porttab[n].state = "limbo" THEN clear.walk ELSE 0
\* No message is lost or handled twice, and no node: every message sent is in its port, or was
\* received, or was disposed of (ptrecv, _ptclear).
MessageOnce ==
  /\ ptfree + Cardinality(Nodes) = PT_MSGS
  /\ \A m \in 1..Len(msgs) :
       Cardinality({i \in DOMAIN received : received[i].msg = m})
       + Cardinality({i \in DOMAIN disposed : disposed[i] = m})
       + Cardinality({x \in Nodes : porttab[x[1]].queue[x[2]] = m /\ x[2] > Gone(x[1])}) = 1

\* A process receives a message that was sent to the port it asked for, and not to one that has
\* had the same number before or since; the messages of a port in the order they were sent.
SameIncarnation ==
  /\ \A i \in DOMAIN received : received[i].msg # 0 /\ msgs[received[i].msg].seq = received[i].seq
  /\ \A i, j \in DOMAIN received :
       i < j /\ msgs[received[i].msg] = msgs[received[j].msg] => received[i].msg < received[j].msg

\* The processes that a semaphore of the port, as it is now, has let through.
Through(op, n) == {p \in ready : call[p].op = op /\ call[p].port = n /\ call[p].seq = porttab[n].seq}
\* The semaphores of a port count its messages and its room, and whom they have let through.
SemaphoresCount ==
  \A n \in Ports : porttab[n].state = "alloc" =>
    LET t == porttab[n] IN
    /\ Len(t.queue) = t.rsem.sem + Len(t.rsem.q) + Cardinality(Through("recv", n))
    /\ t.maxcnt = t.ssem.sem + Len(t.ssem.q) + Cardinality(Through("send", n)) + Len(t.queue)

\* Whoever waits at a port that is deleted or reset returns.
ClearedReturn ==
  \A p \in Procs : call[p].op # "none" /\ clear.port = call[p].port ~> call[p].op = "none"

\* Ports keep their messages and confuse no process, whatever is deleted, reset and created
\* again meanwhile (ptsend, ptrecv, _ptclear).
PortsSound == PortsTypeOK /\ MessageOnce /\ SameIncarnation /\ SemaphoresCount
=============================================================================
