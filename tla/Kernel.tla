------------------------------- MODULE Kernel -------------------------------
(***************************************************************************)
(* Processes, semaphores, messages and time in Xinu (system/).             *)
(*                                                                         *)
(* A system call runs with interrupts disabled, so it is one step up to    *)
(* the resched() that switches to another process.  What it has left to do *)
(* when it gets the processor back is its continuation (cont), which runs  *)
(* before anything else of that process; kill, receive, recvtime and the   *)
(* clock handler have one.  Calls that only return SYSERR change nothing   *)
(* and are left out.  After two kills that get into each other's way the   *)
(* process table is damaged and the model stops.                           *)
(***************************************************************************)
EXTENDS Integers, SequencesExt

CONSTANTS
    NPROC, NSEM, QUANTUM, INITPRIO,
    Prios,      \* priorities that processes are created with or changed to
    Delays,     \* arguments of sleepms
    Waits,      \* arguments of recvtime, 0 allowed
    Counts,     \* arguments of semcreate and semreset
    Signals,    \* arguments of signaln; 1 is signal
    MaxCount,   \* bound: scount up to which a semaphore is signalled
    MaxChprio   \* bound: calls of chprio

Pids == 0..NPROC-1
Sems == 0..NSEM-1
NULLPROC == 0
STARTUP == 1     \* the process nulluser creates

ASSUME KernelAssump ==
    /\ NPROC \in Nat /\ NPROC > 1 /\ NSEM \in Nat /\ QUANTUM \in Nat \ {0}
    /\ Prios \subseteq Nat \ {0} /\ INITPRIO \in Prios
    /\ Delays \subseteq Nat \ {0} /\ Waits \subseteq Nat /\ Counts \subseteq Nat /\ Signals \subseteq Nat
    /\ MaxCount \in Nat /\ MaxChprio \in Nat

VARIABLES
    prstate,    \* "FREE", "CURR", "READY", "RECV", "SLEEP", "SUSP", "WAIT", "RECTIM"
    prprio, prparent, prhasmsg,
    prsem,      \* the semaphore a process waits for, NSEM if it never has
    cont,       \* what a process does when it is next given the processor
    currpid,
    readylist,  \* sequence of [pid, key], highest key first
    sleepq,     \* sequence of [pid, key], a delta list
    semtab,     \* [sstate, scount, squeue] per semaphore
    preempt,
    prcount,
    halted,     \* xdone has been called
    clashed,    \* history: a kill has met another one in progress
    left,       \* history: ticks until the wakeup each sleeper asked for
    late,       \* history: a tick went to a process that waited 0 ticks, and someone sleeps since
    chprios     \* history, bounded: calls of chprio

sched == <<prstate, readylist, currpid, preempt>>
time == <<sleepq, left, late>>
fixed == <<prprio, prparent, chprios>>
ends == <<prcount, halted, clashed>>
vars == <<sched, time, fixed, ends, prhasmsg, prsem, cont, semtab>>

Entry(p, k) == [pid |-> p, key |-> k]
User == [op |-> "user"]
Killing(p) == [op |-> "kill", pid |-> p]
InKill(p) == \E q \in Pids : prstate[q] # "FREE" /\ cont[q] = Killing(p)

-----------------------------------------------------------------------------
(* Plausible bugs, used to show that the properties can fail. *)

InsertLast(q, p, k) == Append(q, Entry(p, k))
UnsleepKeepsNext(q, p) == RemoveAt(q, CHOOSE i \in DOMAIN q : q[i].pid = p)
StillWaiting(s, p) == [s EXCEPT !.squeue = RemoveAt(@, CHOOSE i \in DOMAIN @ : @[i] = p)]
CountKept(n) == n
-----------------------------------------------------------------------------
(* Queues *)

InSeq(q, p) == \E i \in DOMAIN q : q[i].pid = p

\* The first of the places in S, which is not empty.
First(S) == CHOOSE i \in S : \A j \in S : i <= j

\* insert(): in descending order of keys, behind equal ones.
Insert(q, p, k) == InsertAt(q, First({i \in DOMAIN q : q[i].key < k} \cup {Len(q) + 1}), Entry(p, k))

\* getitem(): the one entry of p goes.
PlaceOf(q, p) == CHOOSE i \in DOMAIN q : q[i].pid = p
Without(q, p) == RemoveAt(q, PlaceOf(q, p))

\* The sum of the first n keys of a delta list.
Elapsed(q, n) ==
    LET sum[i \in 0..Len(q)] == IF i = 0 THEN 0 ELSE sum[i - 1] + q[i].key
    IN  sum[n]

\* insertd(): the key becomes the rest of the delay, and the next key is
\* reduced by it.
InsertD(q, p, d) ==
    LET i == First({n \in DOMAIN q : Elapsed(q, n) > d} \cup {Len(q) + 1})
        k == d - Elapsed(q, i - 1)
        rest == IF i > Len(q) THEN q ELSE [q EXCEPT ![i].key = @ - k]
    IN  InsertAt(rest, i, Entry(p, k))

\* unsleep(): the next key is increased by the key that goes.
Unsleep(q, p) ==
    LET i == PlaceOf(q, p)
    IN  RemoveAt(IF i < Len(q) THEN [q EXCEPT ![i + 1].key = @ + q[i].key] ELSE q, i)

-----------------------------------------------------------------------------
(* The scheduler *)

\* resched() with the states st and the ready list rl.
Resched(st, rl) ==
    LET c == currpid
        stays == st[c] = "CURR"
        rl2 == IF stays THEN Insert(rl, c, prprio[c]) ELSE rl
        next == Head(rl2).pid
    IN  IF stays /\ (rl = <<>> \/ prprio[c] > Head(rl).key)
        THEN [prstate |-> st, readylist |-> rl, currpid |-> c, preempt |-> preempt]
        ELSE [prstate |-> [p \in Pids |-> IF p = next THEN "CURR"
                                          ELSE IF p = c /\ stays THEN "READY" ELSE st[p]],
              readylist |-> Tail(rl2), currpid |-> next, preempt |-> QUANTUM]

SetSched(s) ==
    /\ prstate' = s.prstate
    /\ readylist' = s.readylist
    /\ currpid' = s.currpid
    /\ preempt' = s.preempt

\* The ready list after ready() for each of the processes ps in turn.
Readied(ps) ==
    LET rl[i \in 0..Len(ps)] == IF i = 0 THEN readylist ELSE Insert(rl[i - 1], ps[i], prprio[ps[i]])
    IN  rl[Len(ps)]

\* ready() for each of the processes ps with rescheduling deferred, and the
\* resched() at the end if there was one.
ReadyAll(st, ps) ==
    IF ps = <<>> THEN prstate' = st /\ UNCHANGED <<readylist, currpid, preempt>>
    ELSE SetSched(Resched([p \in Pids |-> IF \E i \in DOMAIN ps : ps[i] = p THEN "READY" ELSE st[p]],
                          Readied(ps)))

\* The current process blocks.
Block(state) == SetSched(Resched([prstate EXCEPT ![currpid] = state], readylist))

\* The processor executes code of a process with interrupts enabled, and an
\* interrupt handler may run.
Running == ~halted /\ ~clashed /\ cont[currpid] = User

\* The current process may make a call: any but the null process.
Calls == Running /\ currpid # NULLPROC

-----------------------------------------------------------------------------
\* sysinit and nulluser: the startup process is running.
Init ==
    /\ prstate = [p \in Pids |-> IF p = NULLPROC THEN "READY" ELSE IF p = STARTUP THEN "CURR" ELSE "FREE"]
    /\ prprio = [p \in Pids |-> IF p = STARTUP THEN INITPRIO ELSE 0]
    /\ prparent = [p \in Pids |-> NULLPROC]
    /\ prhasmsg = [p \in Pids |-> FALSE]
    /\ prsem = [p \in Pids |-> NSEM]
    /\ cont = [p \in Pids |-> User]
    /\ currpid = STARTUP
    /\ readylist = <<Entry(NULLPROC, 0)>>
    /\ sleepq = <<>>
    /\ semtab = [s \in Sems |-> [sstate |-> "FREE", scount |-> 0, squeue |-> <<>>]]
    /\ preempt = QUANTUM
    /\ prcount = 2
    /\ halted = FALSE /\ clashed = FALSE
    /\ left = [p \in Pids |-> 0] /\ late = FALSE
    /\ chprios = 0

\* create(): newpid may return any free entry.
Create(p, prio) ==
    /\ Calls
    /\ prstate[p] = "FREE"
    /\ prstate' = [prstate EXCEPT ![p] = "SUSP"]
    /\ prprio' = [prprio EXCEPT ![p] = prio]
    /\ prparent' = [prparent EXCEPT ![p] = currpid]
    /\ prhasmsg' = [prhasmsg EXCEPT ![p] = FALSE]
    /\ prsem' = [prsem EXCEPT ![p] = NSEM]
    /\ cont' = [cont EXCEPT ![p] = User]
    /\ prcount' = prcount + 1
    /\ UNCHANGED <<readylist, currpid, preempt, time, halted, clashed, semtab, chprios>>

\* resume() refuses every other state.
Resumable(p) == prstate[p] = "SUSP"

Resume(p) ==
    /\ Calls
    /\ Resumable(p)
    /\ ReadyAll(prstate, <<p>>)
    /\ UNCHANGED <<time, fixed, ends, prhasmsg, prsem, cont, semtab>>

Suspend(p) ==
    /\ Calls
    /\ p # NULLPROC
    /\ \/ /\ prstate[p] = "READY"
          /\ prstate' = [prstate EXCEPT ![p] = "SUSP"]
          /\ readylist' = Without(readylist, p)
          /\ UNCHANGED <<currpid, preempt>>
       \/ prstate[p] = "CURR" /\ Block("SUSP")
    /\ UNCHANGED <<time, fixed, ends, prhasmsg, prsem, cont, semtab>>

\* The key in the ready list stays as it is.
Chprio(p, prio) ==
    /\ Calls
    /\ prstate[p] # "FREE"
    /\ chprios < MaxChprio
    /\ chprios' = chprios + 1
    /\ prprio' = [prprio EXCEPT ![p] = prio]
    /\ UNCHANGED <<sched, time, prparent, ends, prhasmsg, prsem, cont, semtab>>

Yield ==
    /\ Calls
    /\ SetSched(Resched(prstate, readylist))
    /\ UNCHANGED <<time, fixed, ends, prhasmsg, prsem, cont, semtab>>

-----------------------------------------------------------------------------
(* Messages *)

\* What send(p, ..) does to the process table, the message being put there.
Deliver(p) ==
    /\ prhasmsg' = [prhasmsg EXCEPT ![p] = TRUE]
    /\ ReadyAll(prstate, IF prstate[p] \in {"RECV", "RECTIM"} THEN <<p>> ELSE <<>>)
    /\ sleepq' = IF prstate[p] = "RECTIM" THEN Unsleep(sleepq, p) ELSE sleepq
    /\ left' = IF prstate[p] = "RECTIM" THEN [left EXCEPT ![p] = 0] ELSE left
    /\ late' = (late /\ sleepq' # <<>>)

\* send(), also by an interrupt handler
Send(p) ==
    /\ Running
    /\ prstate[p] # "FREE" /\ ~prhasmsg[p]
    /\ Deliver(p)
    /\ UNCHANGED <<fixed, ends, prsem, cont, semtab>>

Receive ==
    /\ Calls
    /\ IF prhasmsg[currpid]
       THEN prhasmsg' = [prhasmsg EXCEPT ![currpid] = FALSE] /\ UNCHANGED <<sched, cont>>
       ELSE /\ Block("RECV")
            /\ cont' = [cont EXCEPT ![currpid] = [op |-> "receive"]]
            /\ UNCHANGED prhasmsg
    /\ UNCHANGED <<time, fixed, ends, prsem, semtab>>

RecvClr ==
    /\ Calls
    /\ prhasmsg[currpid]
    /\ prhasmsg' = [prhasmsg EXCEPT ![currpid] = FALSE]
    /\ UNCHANGED <<sched, time, fixed, ends, prsem, cont, semtab>>

\* recvtime() with no message there: with one it does what RecvClr does.
RecvTime(d) ==
    /\ Calls
    /\ ~prhasmsg[currpid]
    /\ sleepq' = InsertD(sleepq, currpid, d)
    /\ left' = [left EXCEPT ![currpid] = d]
    /\ Block("RECTIM")
    /\ cont' = [cont EXCEPT ![currpid] = [op |-> "recvtime"]]
    /\ UNCHANGED <<late, fixed, ends, prhasmsg, prsem, semtab>>

\* The rest of receive() and recvtime().
Received ==
    /\ ~halted /\ ~clashed
    /\ cont[currpid].op \in {"receive", "recvtime"}
    /\ prhasmsg' = [prhasmsg EXCEPT ![currpid] = FALSE]
    /\ cont' = [cont EXCEPT ![currpid] = User]
    /\ UNCHANGED <<sched, time, fixed, ends, prsem, semtab>>

-----------------------------------------------------------------------------
(* Semaphores *)

SemCreate(s, n) ==
    /\ Calls
    /\ semtab[s].sstate = "FREE"
    /\ semtab' = [semtab EXCEPT ![s].sstate = "USED", ![s].scount = n]
    /\ UNCHANGED <<sched, time, fixed, ends, prhasmsg, prsem, cont>>

Wait(s) ==
    /\ Calls
    /\ semtab[s].sstate = "USED"
    /\ IF semtab[s].scount > 0
       THEN /\ semtab' = [semtab EXCEPT ![s].scount = @ - 1]
            /\ UNCHANGED <<sched, prsem>>
       ELSE /\ semtab' = [semtab EXCEPT ![s].scount = @ - 1, ![s].squeue = Append(@, currpid)]
            /\ prsem' = [prsem EXCEPT ![currpid] = s]
            /\ Block("WAIT")
    /\ UNCHANGED <<time, fixed, ends, prhasmsg, cont>>

\* signaln(s, n), and signal(s) for n = 1; also by an interrupt handler.  As
\* many processes are released as scount says are waiting.
SignalN(s, n) ==
    /\ Running
    /\ semtab[s].sstate = "USED"
    /\ semtab[s].scount + n <= MaxCount
    /\ LET w == IF semtab[s].scount >= 0 THEN 0
                ELSE IF n < -semtab[s].scount THEN n ELSE -semtab[s].scount
       IN  /\ semtab' = [semtab EXCEPT ![s].scount = @ + n, ![s].squeue = SubSeq(@, w + 1, Len(@))]
           /\ ReadyAll(prstate, SubSeq(semtab[s].squeue, 1, w))
    /\ UNCHANGED <<time, fixed, ends, prhasmsg, prsem, cont>>

SemReset(s, n) ==
    /\ Calls
    /\ semtab[s].sstate = "USED"
    /\ semtab' = [semtab EXCEPT ![s].scount = n, ![s].squeue = <<>>]
    /\ ReadyAll(prstate, semtab[s].squeue)
    /\ UNCHANGED <<time, fixed, ends, prhasmsg, prsem, cont>>

\* semdelete() releases as many processes as scount says.
SemDelete(s) ==
    /\ Calls
    /\ semtab[s].sstate = "USED"
    /\ LET w == IF semtab[s].scount < 0 THEN -semtab[s].scount ELSE 0
       IN  /\ semtab' = [semtab EXCEPT ![s] = [sstate |-> "FREE", scount |-> @.scount + w + 1,
                                               squeue |-> SubSeq(@.squeue, w + 1, Len(@.squeue))]]
           /\ ReadyAll(prstate, SubSeq(semtab[s].squeue, 1, w))
    /\ UNCHANGED <<time, fixed, ends, prhasmsg, prsem, cont>>

-----------------------------------------------------------------------------
(* Time *)

\* sleep() and sleepms(); a delay of 0 is Yield.
SleepMs(d) ==
    /\ Calls
    /\ sleepq' = InsertD(sleepq, currpid, d)
    /\ left' = [left EXCEPT ![currpid] = d]
    /\ Block("SLEEP")
    /\ UNCHANGED <<late, fixed, ends, prhasmsg, prsem, cont, semtab>>

\* clkhandler: the first sleeper's key is decremented, and wakeup() makes
\* everyone ready whose time has come.
ClockTick ==
    /\ Running
    /\ cont' = [cont EXCEPT ![currpid] = [op |-> "tick"]]
    /\ IF sleepq = <<>> THEN UNCHANGED <<sched, time>>
       ELSE LET q == [sleepq EXCEPT ![1].key = @ - 1]
                n == First({i \in DOMAIN q : q[i].key > 0} \cup {Len(q) + 1}) - 1
            IN  /\ ReadyAll(prstate, [i \in 1..n |-> q[i].pid])
                /\ sleepq' = SubSeq(q, n + 1, Len(q))
                /\ left' = [p \in Pids |-> IF InSeq(sleepq', p) /\ left[p] > 0 THEN left[p] - 1 ELSE 0]
                /\ late' = ((late \/ q[1].key < 0) /\ sleepq' # <<>>)
    /\ UNCHANGED <<fixed, ends, prhasmsg, prsem, semtab>>

\* The rest of clkhandler, which a process that wakeup() switched away from
\* executes when it is back: the time slice.
ClockEnd ==
    /\ ~halted /\ ~clashed
    /\ cont[currpid].op = "tick"
    /\ cont' = [cont EXCEPT ![currpid] = User]
    /\ IF preempt - 1 > 0
       THEN preempt' = preempt - 1 /\ UNCHANGED <<prstate, readylist, currpid>>
       ELSE SetSched([Resched(prstate, readylist) EXCEPT !.preempt = QUANTUM])
    /\ UNCHANGED <<time, fixed, ends, prhasmsg, prsem, semtab>>

-----------------------------------------------------------------------------
(* kill *)

\* kill() of process p, which waits for the semaphore s.
StopWaiting(s, p) == [s EXCEPT !.scount = @ + 1, !.squeue = RemoveAt(@, CHOOSE i \in DOMAIN @ : @[i] = p)]

\* kill() takes a process out of the count before it removes it.
OneLess(n) == n - 1

\* kill(p) up to and including send(prparent, p), which may switch to the
\* parent.
Kill(p) ==
    /\ Calls
    /\ p # NULLPROC /\ prstate[p] # "FREE"
    /\ prcount' = OneLess(prcount)
    /\ halted' = (prcount' <= 1)
    /\ clashed' = InKill(p)
    /\ cont' = [cont EXCEPT ![currpid] = Killing(p)]
    /\ LET parent == prparent[p]
       IN  IF halted' \/ prstate[parent] = "FREE" \/ prhasmsg[parent]
           THEN UNCHANGED <<sched, time, prhasmsg>>
           ELSE Deliver(parent)
    /\ UNCHANGED <<fixed, prsem, semtab>>

\* The rest of kill(p): the stack is freed and the process leaves its queue
\* and the process table.
KillEnd ==
    /\ ~halted /\ ~clashed
    /\ cont[currpid].op = "kill"
    /\ LET p == cont[currpid].pid
           st == [prstate EXCEPT ![p] = "FREE"]
       IN  /\ cont' = [cont EXCEPT ![currpid] = User]
           /\ IF prstate[p] = "CURR" THEN SetSched(Resched(st, readylist))
              ELSE /\ prstate' = st
                   /\ readylist' = IF prstate[p] = "READY" THEN Without(readylist, p) ELSE readylist
                   /\ UNCHANGED <<currpid, preempt>>
           /\ IF prstate[p] \in {"SLEEP", "RECTIM"}
              THEN sleepq' = Unsleep(sleepq, p) /\ left' = [left EXCEPT ![p] = 0]
              ELSE UNCHANGED <<sleepq, left>>
           /\ semtab' = IF prstate[p] = "WAIT"
                        THEN [semtab EXCEPT ![prsem[p]] = StopWaiting(@, p)]
                        ELSE semtab
           /\ clashed' = (p # currpid /\ cont[p].op = "kill")
    /\ late' = (late /\ sleepq' # <<>>)
    /\ UNCHANGED <<fixed, prcount, halted, prhasmsg, prsem>>

-----------------------------------------------------------------------------
Next ==
    \/ \E p \in Pids : Resume(p) \/ Suspend(p) \/ Send(p) \/ Kill(p)
    \/ \E p \in Pids, prio \in Prios : Create(p, prio) \/ Chprio(p, prio)
    \/ Yield \/ Receive \/ RecvClr \/ Received
    \/ \E d \in Waits : RecvTime(d)
    \/ \E d \in Delays : SleepMs(d)
    \/ \E s \in Sems, n \in Counts : SemCreate(s, n) \/ SemReset(s, n)
    \/ \E s \in Sems, n \in Signals : SignalN(s, n)
    \/ \E s \in Sems : Wait(s) \/ SemDelete(s)
    \/ ClockTick \/ ClockEnd
    \/ KillEnd

Spec == Init /\ [][Next]_vars

-----------------------------------------------------------------------------
(* Properties *)

TypeOK ==
    /\ prstate \in [Pids -> {"FREE", "CURR", "READY", "RECV", "SLEEP", "SUSP", "WAIT", "RECTIM"}]
    /\ prprio \in [Pids -> Prios \cup {0}]
    /\ prparent \in [Pids -> Pids]
    /\ prhasmsg \in [Pids -> BOOLEAN]
    /\ prsem \in [Pids -> 0..NSEM]
    /\ currpid \in Pids
    /\ preempt \in 1..QUANTUM
    /\ prcount \in Nat

\* A process is in the queue its state names, once, and in no other one; the
\* current process is in none.  Whatever is readied, timed out, signalled,
\* suspended or killed in whatever order, no link is left behind.
InOneQueue ==
    LET Once(q, p) == \E i \in DOMAIN q : q[i] = p /\ \A j \in DOMAIN q \ {i} : q[j] # p
        Pid(q) == [i \in DOMAIN q |-> q[i].pid]
        Holds(q, p) == \E i \in DOMAIN q : q[i] = p
    IN  \A p \in Pids :
          /\ prstate[p] = "CURR" <=> p = currpid
          /\ IF prstate[p] = "READY" THEN Once(Pid(readylist), p) ELSE ~Holds(Pid(readylist), p)
          /\ IF prstate[p] \in {"SLEEP", "RECTIM"} THEN Once(Pid(sleepq), p) ELSE ~Holds(Pid(sleepq), p)
          /\ \A s \in Sems : IF prstate[p] = "WAIT" /\ prsem[p] = s THEN Once(semtab[s].squeue, p)
                             ELSE ~Holds(semtab[s].squeue, p)

\* A negative scount is the number of processes that wait, and a semaphore that
\* is deleted or has a count left has none.
CountMatchesQueue ==
    \A s \in Sems : Len(semtab[s].squeue) = IF semtab[s].scount < 0 THEN -semtab[s].scount ELSE 0

\* No ready process has a higher priority than the one that runs, as long as
\* no priority has been changed.
HighestRuns == chprios = 0 => \A p \in Pids : prstate[p] = "READY" => prprio[p] <= prprio[currpid]

\* The delta list wakes every sleeper after the time it asked for, neither
\* earlier nor later, whoever joins or leaves the list meanwhile; only a wait
\* of 0 ticks, which costs the others a tick, makes those late that sleep with it.
WakeOnTime ==
    \A i \in DOMAIN sleepq :
        IF late THEN Elapsed(sleepq, i) >= left[sleepq[i].pid]
        ELSE Elapsed(sleepq, i) = left[sleepq[i].pid]

\* A process that comes back from receive() has a message.
ReceiveHasMessage ==
    \A p \in Pids :
        cont[p].op = "receive" /\ prstate[p] \in {"CURR", "READY"} => prhasmsg[p]

\* prcount is the number of processes that are not being killed, so that the
\* system halts with the last of them; and a process whose kill is in progress
\* is still there when the kill goes on.
KillsAgree ==
    ~clashed =>
        /\ prcount = Cardinality({p \in Pids : prstate[p] # "FREE" /\ ~InKill(p)})
        /\ \A p \in Pids : InKill(p) => prstate[p] # "FREE"

\* The process table, the ready list, the delta list, the semaphores and their
\* queues tell the same story (ready, getitem, wait, kill, ...).
QueuesAgree == TypeOK /\ InOneQueue /\ CountMatchesQueue

\* A call that was switched away from in its middle finds what it relies on
\* when it goes on: receive() its message, kill() the process it is killing.
CallsResume == ReceiveHasMessage /\ KillsAgree

=============================================================================
