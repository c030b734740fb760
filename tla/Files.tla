--------------------------------- MODULE Files ---------------------------------
(***************************************************************************)
(* What a file system promises: a file is a sequence of bytes under a      *)
(* name; whoever has it open reads and writes it at a position.            *)
(***************************************************************************)
EXTENDS Integers, Sequences

CONSTANTS FileNames, Handles, Loads, Counts
VARIABLES file,    \* the contents of each file, or Absent
          open,    \* the name and position each handle has, or Closed
          last     \* the bytes read last
vars == <<file, open, last>>

Absent == <<-1>>   \* no byte is negative
Closed == [name |-> "none", pos |-> 0]

Init == file = [n \in FileNames |-> Absent] /\ open = [h \in Handles |-> Closed] /\ last = <<>>

Open(h, n) ==
  /\ open[h] = Closed /\ \A g \in Handles : open[g].name # n
  /\ open' = [open EXCEPT ![h] = [name |-> n, pos |-> 0]] /\ UNCHANGED last
  /\ file' = [file EXCEPT ![n] = IF @ = Absent THEN <<>> ELSE @]
Close(h) == open' = [open EXCEPT ![h] = Closed] /\ UNCHANGED <<last, file>>

Moved(h, p) == open' = [open EXCEPT ![h] = [@ EXCEPT !.pos = p]]
\* Bytes written replace those at the position, and make the file longer at its end.
Overwrite(old, pos, new) ==
  SubSeq(old, 1, pos) \o new \o SubSeq(old, pos + Len(new) + 1, Len(old))
Write(h, b) ==
  /\ Moved(h, open[h].pos + Len(b)) /\ UNCHANGED last
  /\ file' = [file EXCEPT ![open[h].name] = Overwrite(@, open[h].pos, b)]
Read(h, k) ==
  LET f == file[open[h].name] p == open[h].pos + k IN
  /\ Moved(h, IF p > Len(f) THEN Len(f) ELSE p) /\ UNCHANGED file
  /\ last' = SubSeq(f, open[h].pos + 1, open'[h].pos)
Seek(h, p) == Moved(h, p) /\ UNCHANGED <<last, file>> /\ p <= Len(file[open[h].name])
Truncate(h) == Moved(h, 0) /\ UNCHANGED last /\ file' = [file EXCEPT ![open[h].name] = <<>>]

Opened == {h \in Handles : open[h] # Closed}
Next ==
  \/ \E h \in Handles, n \in FileNames : Open(h, n)
  \/ \E h \in Opened : Close(h) \/ Truncate(h)
  \/ \E h \in Opened, b \in Loads : Write(h, b)
  \/ \E h \in Opened, k \in Counts : Read(h, k) \/ Seek(h, k)
Spec == Init /\ [][Next]_vars
=============================================================================
