------------------------------- MODULE LineEdit -------------------------------
(***************************************************************************)
(* What the terminal promises about input: characters go into a line that  *)
(* can be edited until it is entered, and what has been entered is read in *)
(* order, once.  Nothing is promised any more once the buffer is overrun.  *)
(***************************************************************************)
EXTENDS Sequences, Integers

CONSTANTS Letters, Controls     \* what can be part of a line, and what ends one
VARIABLES line,     \* the line being edited
          done,     \* entered and not yet read
          read,     \* everything read so far
          overrun   \* the buffer has been overrun
vars == <<line, done, read, overrun>>

Init == line = <<>> /\ done = <<>> /\ read = <<>> /\ ~overrun

Type(c) == line' = Append(line, c) /\ UNCHANGED done
Erase == line # <<>> /\ line' = SubSeq(line, 1, Len(line) - 1) /\ UNCHANGED done
Kill == line' = <<>> /\ UNCHANGED done
Enter(c) == done' = done \o Append(line, c) /\ line' = <<>>
\* Without editing a character is entered as it comes; it pushes a line begun before on.
Unedited(c) == LET all == Append(done \o line, c) IN
  done' = SubSeq(all, 1, Len(done) + 1) /\ line' = SubSeq(all, Len(done) + 2, Len(all))
Overrun == ~overrun /\ overrun' /\ line' = <<>> /\ done' = <<>> /\ read' = <<>>
Read(k) ==
  /\ done' = SubSeq(done, k + 1, Len(done)) /\ read' = read \o SubSeq(done, 1, k)
  /\ UNCHANGED <<line, overrun>>

Typing ==
  \/ Kill \/ Erase \/ \E c \in Letters : Type(c)
  \/ \E c \in Controls : Enter(c)
  \/ \E c \in Letters \cup Controls : Unedited(c)
Next ==
  \/ Overrun
  \/ ~overrun /\ Typing /\ UNCHANGED <<read, overrun>>
  \/ ~overrun /\ \E k \in 1..Len(done) : Read(k)
Spec == Init /\ [][Next]_vars
=============================================================================
