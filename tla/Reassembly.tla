----------------------------- MODULE Reassembly -----------------------------
(***************************************************************************)
(* The reassembly table and its timer.  netin adds fragments and completes *)
(* datagrams; a process of lower priority removes entries that have waited *)
(* too long, and netin may run between its test of an entry and the        *)
(* removal.  Ages, up to twice the time limit, stand for the time stamps.  *)
(***************************************************************************)
EXTENDS Integers, Sequences, FiniteSets, FiniteSetsExt, SequencesExt

CONSTANTS REASSEMBLY_TABLE_MAX_SIZE, REASSEMBLY_MAX_TIME

\* The size of the table is an uint8.
ASSUME ReassemblyAssump == REASSEMBLY_TABLE_MAX_SIZE \in 1..255 /\ REASSEMBLY_MAX_TIME \in Nat \ {0}

VARIABLES table,     \* the entries: datagram, fragments, age; over and last are history
          tabSize,   \* reassembly_tab_size
          timer,     \* the timer process: entry it looks at, what it has decided, time slept
          done,      \* history: datagrams handed to processDatagram, as they were put together
          raced      \* history: netin changed an entry the timer had decided to remove
rvars == <<table, tabSize, timer, done, raced>>

Slots == 1..REASSEMBLY_TABLE_MAX_SIZE
NoEntry == [id |-> "none", list |-> <<>>, age |-> 0, over |-> 0, last |-> FALSE]
Used == {i \in Slots : table[i] # NoEntry}

ReassemblyInit ==
  /\ table = [i \in Slots |-> NoEntry] /\ tabSize = 0
  /\ timer = [pc |-> "sleep", at |-> 1, slept |-> 0]
  /\ done = <<>> /\ raced = FALSE

MinOr(S, default) == IF S = {} THEN default ELSE Min(S)
\* checkReassemblyTable looks at the first tabSize entries only; when the size has wrapped
\* to 255, at all of them, and at what lies behind, which never matches.
CheckReassemblyTable(id) == MinOr({i \in Used : i <= tabSize /\ table[i].id = id}, 0)
FindHole == MinOr(Slots \ Used, 0)

\* insert_node: from the end, past at most three fragments that lie behind the new one.
\* A fragment that overlaps another is inserted after it.
Insert(list, f) ==
  LET n == Len(list)
      k == Min({3, n} \cup {j \in 0..(n-1) : f.off >= list[n - j].off})
  IN  InsertAt(list, n - k + 1, f)

\* copy_to_datagram: every fragment begins where the one before ends.
CopiesAny(list) == list # <<>>
Copies(list) == \A k \in DOMAIN list : list[k].off = IF k = 1 THEN 0 ELSE list[k-1].off + list[k-1].len

\* removeReaEntry; the timer has its own test of frag_list before, netin none.
RemoveReaEntry(i) == table' = [table EXCEPT ![i] = NoEntry] /\ tabSize' = (tabSize - 1) % 256
\* How many fragments behind f were there before it: the most of them is kept in over.
Overtakers(i, f) == Cardinality({k \in DOMAIN table[i].list : table[i].list[k].off > f.off})
Touch(i) == raced' = (raced \/ (timer.pc = "remove" /\ timer.at = i))

\* appendReaTable for the first fragment of a datagram.  The M flag is not looked at: a
\* datagram of a single fragment is never complete.
Append1(f) ==
  /\ CheckReassemblyTable(f.id) = 0 /\ f.off = 0 /\ FindHole # 0
  /\ table' = [table EXCEPT ![FindHole] = [id |-> f.id, list |-> <<f>>, age |-> 0, over |-> 0, last |-> ~f.more]]
  /\ tabSize' = (tabSize + 1) % 256
  /\ Touch(FindHole) /\ UNCHANGED <<timer, done>>
\* A fragment that is not the first of its datagram, or that finds the table full.
Dropped(f) ==
  /\ CheckReassemblyTable(f.id) = 0 /\ (f.off # 0 \/ FindHole = 0)
  /\ UNCHANGED rvars
\* Another fragment.  Only one without the M flag has the list copied to a datagram.
Added(f) ==
  LET i == CheckReassemblyTable(f.id)
      list == Insert(table[i].list, f)
      complete == ~f.more /\ Copies(list)
  IN  /\ i # 0 /\ Touch(i)
      /\ IF complete THEN RemoveReaEntry(i) /\ done' = Append(done, list)
         ELSE /\ table' = [table EXCEPT ![i].list = list, ![i].over = IF Overtakers(i, f) > @ THEN Overtakers(i, f) ELSE @, ![i].last = ~f.more]
              /\ UNCHANGED <<tabSize, done>>
      /\ UNCHANGED timer
\* What processDatagram is given in this step, or nothing.
Completed == IF Len(done') > Len(done) THEN done'[Len(done')] ELSE <<>>
Receive(f) == Append1(f) \/ Dropped(f) \/ Added(f)

\* The timer wakes, tests the entries in turn and removes the old ones.
Old(i) == table[i] # NoEntry /\ table[i].age >= REASSEMBLY_MAX_TIME
TimerWake ==
  /\ timer.pc = "sleep" /\ timer.slept = REASSEMBLY_MAX_TIME
  /\ timer' = [timer EXCEPT !.pc = "test"] /\ UNCHANGED <<table, tabSize, done, raced>>
TimerGoOnOneLess == timer' = IF timer.at < REASSEMBLY_TABLE_MAX_SIZE - 1
                      THEN [timer EXCEPT !.pc = "test", !.at = @ + 1]
                      ELSE [pc |-> "sleep", at |-> 1, slept |-> 0]
TimerGoOn == timer' = IF timer.at < REASSEMBLY_TABLE_MAX_SIZE
                      THEN [timer EXCEPT !.pc = "test", !.at = @ + 1]
                      ELSE [pc |-> "sleep", at |-> 1, slept |-> 0]
TimerTestLate ==
  /\ timer.pc = "test"
  /\ IF table[timer.at] # NoEntry /\ table[timer.at].age > REASSEMBLY_MAX_TIME THEN timer' = [timer EXCEPT !.pc = "remove"] ELSE TimerGoOn
  /\ UNCHANGED <<table, tabSize, done, raced>>
TimerTest ==
  /\ timer.pc = "test"
  /\ IF Old(timer.at) THEN timer' = [timer EXCEPT !.pc = "remove"] ELSE TimerGoOn
  /\ UNCHANGED <<table, tabSize, done, raced>>
TimerRemove == timer.pc = "remove" /\ RemoveReaEntry(timer.at) /\ TimerGoOn /\ UNCHANGED <<done, raced>>
\* A second passes; the timer gets the processor within the second in which it is due.
Tick ==
  /\ timer.pc = "sleep" /\ timer.slept < REASSEMBLY_MAX_TIME
  /\ timer' = [timer EXCEPT !.slept = @ + 1]
  /\ table' = [i \in Slots |-> IF i \in Used THEN [table[i] EXCEPT !.age = Min({@ + 1, 2 * REASSEMBLY_MAX_TIME})] ELSE NoEntry]
  /\ UNCHANGED <<tabSize, done, raced>>
TimerNext == TimerWake \/ TimerTest \/ TimerRemove

-----------------------------------------------------------------------------
\* reassembly_tab_size counts the entries in use (reassembly.c:242, ipv6.c:376): the lookup
\* relies on it.  The timer that removes an entry netin has completed meanwhile counts it
\* down twice.
SizeCountsEntries == ~raced => tabSize = Cardinality(Used)

\* No entry stays in the table for twice the time limit (ipv6.c:350), wherever between two
\* looks of the timer its first fragment came.
EntriesExpire == \A i \in Used : table[i].age < 2 * REASSEMBLY_MAX_TIME

\* An entry leaves the table only when it is complete or too old (ipv6.c:350); an entry
\* made after the timer's test can be lost.
OnlyOldRemoved ==
  [][\A i \in Used : table'[i] = NoEntry /\ Completed = <<>> /\ ~raced => table[i].age >= REASSEMBLY_MAX_TIME]_rvars
=============================================================================
