------------------------------ MODULE MCServices ------------------------------
(* The console, memory and ports: a behaviour is about one of them, the console's about one direction. *)
EXTENDS Tty, Memory, Ports
VARIABLE focus
vars == <<focus, tvars, mvars, pvars>>

MCRegions == <<[base |-> 0, len |-> 8], [base |-> 10, len |-> 6]>>

Init ==
  /\ focus \in {"input", "output", "memory", "ports"}
  /\ TtyInit /\ MemoryInit /\ PortsInit

InInput(A) == focus = "input" /\ A /\ UNCHANGED <<focus, mvars, pvars>>
InOutput(A) == focus = "output" /\ A /\ UNCHANGED <<focus, mvars, pvars>>
InMemory(A) == focus = "memory" /\ A /\ UNCHANGED <<focus, tvars, pvars>>
InPorts(A) == focus = "ports" /\ A /\ UNCHANGED <<focus, tvars, mvars>>
Next == InInput(TtyInput) \/ InOutput(TtyOutput) \/ InMemory(MemoryNext) \/ InPorts(PortsNext)

\* Interrupts come and processes that are ready run; nobody has to type, call or free.
Fairness ==
  /\ WF_vars(InOutput(TtyhandleOut)) /\ WF_vars(InOutput(UartEmpties))
  /\ \A w \in Writers : WF_vars(InOutput(TtywriteGoesOn(w)))
  /\ WF_vars(InPorts(Clears)) /\ \A p \in Procs : WF_vars(InPorts(GoesOn(p)))
Spec == Init /\ [][Next]_vars /\ Fairness

\* A process in ttywrite returns unless output stays stopped, and so do those that wait at a
\* port when it is deleted or reset (ttyputc, _ptclear).
CallsReturn == WriteReturns /\ ClearedReturn
=============================================================================
