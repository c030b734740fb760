---------------------------------- MODULE Tty ----------------------------------
(***************************************************************************)
(* The console: arriving characters are edited into the input ring by the  *)
(* interrupt handler, readers take them under tyisem; writers put          *)
(* characters into the output ring under tyosem, and the handler hands     *)
(* them, after pending echoes, to the UART.  A call runs with interrupts   *)
(* disabled until it has to wait.  Carriage returns count as newlines.     *)
(***************************************************************************)
EXTENDS Integers, Sequences, FiniteSets

CONSTANTS TY_IBUFLEN, TY_OBUFLEN, TY_EBUFLEN, UART_FIFO_SIZE,
          Readers, Writers,
          Keys, Modes,          \* what is typed, and the modes ttycontrol sets
          MaxTyped, MaxCalls, MaxCount

NoChar == "none"
ASSUME TtyAssump ==
  /\ TY_IBUFLEN \in Nat \ {0, 1} /\ TY_OBUFLEN \in Nat \ {0} /\ TY_EBUFLEN \in Nat \ {0}
  /\ UART_FIFO_SIZE \in 1..TY_OBUFLEN
  /\ Modes \subseteq {"cooked", "cbreak", "raw"} /\ NoChar \notin Keys

\* in, out: the rings with their semaphore; q: processes that wait on it, in order; go:
\* processes that signal has made ready and that have not run yet.
VARIABLES in,       \* ... and cursor, the characters of the line being edited
          imode, iecho,
          out,      \* ... its characters are numbered as they are written
          echo,     \* the echo ring: indices only
          oheld,    \* output stopped by ^S
          uart,     \* busy: its FIFO holds characters; irq: interrupt pending; etbei: enabled
          left,     \* characters each process of ttyread or ttywrite still wants
          typed, calls, readSoFar, shown, wrote,
          overrun,  \* the input ring has taken more characters than it holds
          stale,    \* a character has been sent that was not written, or out of order
          silent    \* output was released without starting the device
tvars == <<in, imode, iecho, out, echo, oheld, uart, left, typed, calls, readSoFar, shown, wrote,
           overrun, stale, silent>>

Positive(n) == IF n > 0 THEN n ELSE 0
Lesser(a, b) == IF a < b THEN a ELSE b
Least(S) == CHOOSE x \in S : \A y \in S : x <= y

\* signaln: the first n processes of the queue become ready.
Signaln(s, n) ==
  LET k == Lesser(n, Len(s.q)) IN
  [s EXCEPT !.sem = @ + n, !.q = SubSeq(@, k + 1, Len(@)), !.go = @ \cup {s.q[i] : i \in 1..k}]

TtyInit ==
  /\ in = [buf |-> [i \in 0..TY_IBUFLEN |-> NoChar], head |-> 0, tail |-> 0, sem |-> 0,
           cursor |-> 0, q |-> <<>>, go |-> {}]
  /\ imode = "cooked" /\ iecho = TRUE
  /\ out = [buf |-> [i \in 0..(TY_OBUFLEN - 1) |-> 0], head |-> 0, tail |-> 0,
            sem |-> TY_OBUFLEN, q |-> <<>>, go |-> {}]
  /\ echo = [head |-> 0, tail |-> 0] /\ oheld = FALSE
  /\ uart = [busy |-> FALSE, irq |-> TRUE, etbei |-> TRUE]
  /\ left = [p \in Readers \cup Writers |-> 0]
  /\ typed = 0 /\ calls = 0 /\ readSoFar = <<>> /\ shown = 0 /\ wrote = 0
  /\ overrun = FALSE /\ stale = FALSE /\ silent = FALSE

-----------------------------------------------------------------------------
(* Input, in the interrupt handler *)

Ctl == {"ctl", "nl", "eof", "erase", "kill", "stop", "start"}
Entered == Positive(in.sem) + Cardinality(in.go)
Avail == Positive(in.sem)
\* Behind the ring lies tyisem: once it is overwritten the terminal's input is undefined.
Intact == in.buf[TY_IBUFLEN] = NoChar

Store(s, ch) ==
  [s EXCEPT !.buf[s.tail] = ch, !.tail = IF s.tail + 1 >= TY_IBUFLEN THEN 0 ELSE s.tail + 1]
\* The end-of-file character is stored without the wrap.
StoreEof(s) == [s EXCEPT !.buf[s.tail] = "eof", !.tail = s.tail + 1]
Back(n) == IF in.tail < n THEN in.tail - n + TY_IBUFLEN ELSE in.tail - n

\* ttykickout: an interrupt comes at once, or when the FIFO has been sent.
KickedWhenBusy == [uart EXCEPT !.etbei = TRUE]
Kicked == [uart EXCEPT !.etbei = TRUE, !.irq = @ \/ ~uart.busy]
\* eputc for each of n characters; the echo ring has no test for room.
Echoes(n) == /\ echo' = [echo EXCEPT !.tail = (@ + n) % TY_EBUFLEN]
             /\ uart' = IF n > 0 THEN Kicked ELSE uart
             /\ silent' = ((silent \/ oheld) /\ n = 0)
EchoLen(ch) == IF ch \in Ctl THEN 2 ELSE 1
Echoch(ch) == Echoes(IF iecho THEN EchoLen(ch) ELSE 0)

Raw(ch) ==
  /\ in' = IF Avail >= TY_IBUFLEN THEN in ELSE Signaln(Store(in, ch), 1)
  /\ UNCHANGED <<echo, uart, oheld, silent>>

FlowControl(ch) ==
  /\ oheld' = (ch = "stop") /\ UNCHANGED <<in, echo>>
  /\ uart' = IF ch = "start" THEN Kicked ELSE uart
  /\ silent' = FALSE

Cbreak(ch) ==
  IF Avail >= TY_IBUFLEN THEN in' = in /\ Echoes(1)
  ELSE in' = Signaln(Store(in, ch), 1) /\ Echoch(ch)

LineKill == in' = [in EXCEPT !.tail = Back(in.cursor), !.cursor = 0] /\ Echoes(2)
EraseOneKeepsCursor ==
  /\ in' = IF in.cursor = 0 THEN in ELSE [in EXCEPT !.tail = Back(1)]
  /\ Echoes(IF in.cursor = 0 \/ ~iecho THEN 0 ELSE 3)
EraseOne ==
  IF in.cursor = 0 THEN in' = in /\ Echoes(0)
  ELSE LET tail == Back(1) IN
    /\ in' = [in EXCEPT !.tail = tail, !.cursor = @ - 1]
    /\ Echoes(CASE ~iecho -> 0 [] iecho /\ in.buf[tail] \in Ctl -> 6 [] OTHER -> 3)
EndOfLine ==
  /\ in' = Signaln([Store(in, "nl") EXCEPT !.cursor = 0], in.cursor + 1)
  /\ Echoch("nl")
Full == Avail + in.cursor >= TY_IBUFLEN - 1
Bell == in' = in /\ Echoes(1)
EndOfFile ==
  /\ in' = IF in.cursor = 0 THEN Signaln(StoreEof(in), 1) ELSE in
  /\ Echoch("eof")
Letter(ch) == in' = [Store(in, ch) EXCEPT !.cursor = @ + 1] /\ Echoch(ch)

Cooked(ch) ==
  CASE ch = "kill" -> LineKill
    [] ch = "erase" -> EraseOne
    [] ch = "nl" -> EndOfLine
    [] ch \notin {"kill", "erase", "nl"} /\ Full -> Bell
    [] ch = "eof" /\ ~Full -> EndOfFile
    [] OTHER -> Letter(ch)

\* One character that arrives.
TtyhandleIn(ch) ==
  /\ typed < MaxTyped /\ Intact /\ typed' = typed + 1
  /\ CASE imode = "raw" -> Raw(ch)
       [] imode # "raw" /\ ch \in {"start", "stop"} -> FlowControl(ch)
       [] imode = "cbreak" /\ ch \notin {"start", "stop"} -> oheld' = FALSE /\ Cbreak(ch)
       [] OTHER -> oheld' = FALSE /\ Cooked(ch)
  /\ overrun' = (overrun \/ in'.buf[TY_IBUFLEN] # NoChar
                  \/ Positive(in'.sem) + Cardinality(in'.go) + in'.cursor > TY_IBUFLEN)
  /\ UNCHANGED <<imode, iecho, out, left, calls, readSoFar, shown, wrote, stale>>

-----------------------------------------------------------------------------
(* Input, in the processes *)

Entries(n) == [i \in 1..n |-> in.buf[(in.head + i - 1) % TY_IBUFLEN]]
\* ttyread of r, which has `own' characters granted: it takes what it can, and waits for more.
Reads(r, own, wants) ==
  LET n == own + Positive(in.sem)
      ends == {i \in 1..n : \/ i = wants
                            \/ imode = "cooked" /\ Entries(n)[i] = "nl"
                            \/ imode = "cooked" /\ i = 1 /\ Entries(n)[1] = "eof"}
      m == IF ends = {} THEN n ELSE Least(ends)
  IN /\ readSoFar' = readSoFar \o SubSeq(Entries(n), 1, m)
     /\ in' = [in EXCEPT !.head = (@ + m) % TY_IBUFLEN, !.go = @ \ {r},
                         !.sem = @ - (m - own) - (IF ends = {} THEN 1 ELSE 0),
                         !.q = IF ends = {} THEN Append(@, r) ELSE @]
     /\ left' = [left EXCEPT ![r] = IF ends = {} THEN wants - m ELSE 0]
     /\ UNCHANGED <<imode, iecho, out, echo, oheld, uart, typed, shown, wrote, overrun, stale, silent>>

\* In raw and cbreak mode a count of zero asks for what is there, nothing perhaps.
Count(n) == IF imode # "cooked" /\ n = 0 THEN Positive(in.sem) ELSE IF n = 0 THEN 1 ELSE n
Ttyread(r, n) ==
  /\ Intact /\ left[r] = 0 /\ calls < MaxCalls /\ calls' = calls + 1
  /\ Count(n) > 0 /\ Reads(r, 0, Count(n))
TtyreadGoesOn(r) == Intact /\ r \in in.go /\ Reads(r, 1, left[r]) /\ UNCHANGED calls

Ttycontrol ==
  /\ calls < MaxCalls /\ calls' = calls + 1
  /\ \/ imode' \in Modes \ {imode} /\ UNCHANGED iecho
     \/ iecho' = ~iecho /\ UNCHANGED imode
  /\ UNCHANGED <<in, out, echo, oheld, uart, left, typed, readSoFar, shown, wrote, overrun, stale, silent>>

-----------------------------------------------------------------------------
(* Output *)

\* ttywrite of w, which has `own' free slots granted and wants to store n characters.
Stores(w, own, n) ==
  LET m == Lesser(n, own + Positive(out.sem))
      more == n > m
  IN /\ out' = [out EXCEPT !.buf = [i \in DOMAIN @ |->
                      LET k == (i - out.tail) % TY_OBUFLEN IN IF k < m THEN wrote + 1 + k ELSE @[i]],
                    !.tail = (@ + m) % TY_OBUFLEN, !.go = @ \ {w},
                    !.sem = @ - (m - own) - (IF more THEN 1 ELSE 0),
                    !.q = IF more THEN Append(@, w) ELSE @]
     /\ wrote' = wrote + m /\ left' = [left EXCEPT ![w] = n - m]
     /\ uart' = IF m > 0 THEN Kicked ELSE uart
     /\ silent' = (silent /\ m = 0)
     /\ UNCHANGED <<in, imode, iecho, echo, oheld, typed, readSoFar, shown, overrun, stale>>

Ttywrite(w, n) == left[w] = 0 /\ calls < MaxCalls /\ calls' = calls + 1 /\ Stores(w, 0, n)
TtywriteGoesOn(w) == w \in out.go /\ Stores(w, 1, left[w]) /\ UNCHANGED calls

\* The interrupt for an empty FIFO: echoes first, then as many characters as tyosem says
\* there are, which counts those that writers still have to store.
Owed == (echo.tail - echo.head) % TY_EBUFLEN
ChargedOneMore == Positive(TY_OBUFLEN - out.sem + 1)
Charged == Positive(TY_OBUFLEN - out.sem)
TtyhandleOut ==
  LET e == Lesser(UART_FIFO_SIZE, Owed)
      o == Lesser(UART_FIFO_SIZE - e, Charged)
      sent == [i \in 1..o |-> out.buf[(out.head + i - 1) % TY_OBUFLEN]]
  IN /\ uart.irq
     /\ \/ /\ oheld /\ uart' = [uart EXCEPT !.irq = FALSE] /\ UNCHANGED <<echo, out, shown, stale>>
        \/ /\ ~oheld /\ Owed = 0 /\ out.sem >= TY_OBUFLEN
           /\ uart' = [uart EXCEPT !.irq = FALSE, !.etbei = FALSE] /\ UNCHANGED <<echo, out, shown, stale>>
        \/ /\ ~oheld /\ e + o > 0
           /\ uart' = [uart EXCEPT !.irq = FALSE, !.busy = TRUE]
           /\ echo' = [echo EXCEPT !.head = (@ + e) % TY_EBUFLEN]
           /\ out' = Signaln([out EXCEPT !.head = (@ + o) % TY_OBUFLEN], o)
           /\ shown' = shown + o
           /\ stale' = (stale \/ \E i \in 1..o : sent[i] # shown + i)
     /\ UNCHANGED <<in, imode, iecho, oheld, left, typed, calls, readSoFar, wrote, overrun, silent>>

\* The UART has sent what its FIFO held.
UartEmpties ==
  /\ uart.busy /\ uart' = [uart EXCEPT !.busy = FALSE, !.irq = uart.etbei]
  /\ UNCHANGED <<in, imode, iecho, out, echo, oheld, left, typed, calls, readSoFar, shown, wrote,
                 overrun, stale, silent>>

TtyInput ==
  \/ \E ch \in Keys : TtyhandleIn(ch)
  \/ \E r \in Readers : TtyreadGoesOn(r) \/ \E n \in 0..MaxCount : Ttyread(r, n)
  \/ Ttycontrol
TtyOutput ==
  \/ \E ch \in {"a", "erase", "stop", "start"} : TtyhandleIn(ch)
  \/ \E w \in Writers : TtywriteGoesOn(w) \/ \E n \in 1..(2 * MaxCount) : Ttywrite(w, n)
  \/ TtyhandleOut \/ UartEmpties

TtyInputSpec == TtyInit /\ [][TtyInput]_tvars
TtyOutputSpec == TtyInit /\ [][TtyOutput]_tvars
-----------------------------------------------------------------------------
(* Properties *)

\* The terminal's variables have their types.
TtyTypeOK ==
  /\ in.head \in 0..(TY_IBUFLEN - 1) /\ in.tail \in 0..(TY_IBUFLEN + 1)
  /\ in.cursor \in 0..TY_IBUFLEN /\ out.head \in 0..(TY_OBUFLEN - 1) /\ out.tail \in 0..(TY_OBUFLEN - 1)
  /\ imode \in {"cooked", "cbreak", "raw"} /\ left \in [Readers \cup Writers -> Nat]

\* Line editing is what it promises: the characters that tyisem counts are those entered and not
\* read, the tyicursor characters behind them are the line (ttyhandle_in, erase1, ttygetc, ttyread).
Editing == INSTANCE LineEdit WITH
  Letters <- Keys \ {"nl"}, Controls <- {"nl", "eof"} \cap Keys,
  read <- IF overrun THEN <<>> ELSE readSoFar,
  done <- IF overrun THEN <<>> ELSE Entries(Entered),
  line <- IF overrun THEN <<>> ELSE SubSeq(Entries(Entered + in.cursor), Entered + 1, Entered + in.cursor)
LineDiscipline == Editing!Spec

\* The input ring is overrun only by a newline, which is stored without a test for room, by the
\* character after an end-of-file in the last place, while a reader that was given a character
\* has not run yet, or in a mode without editing while a line is begun.
OverrunCauses == [][~overrun /\ overrun' =>
  \/ imode = "cooked" /\ in'.buf[in.tail] = "nl"
  \/ in.tail = TY_IBUFLEN \/ in.go # {} \/ (imode # "cooked" /\ in.cursor > 0)]_tvars

\* What ttywrite stores is sent once and in order; the interrupt sends something else only when a
\* writer that was given a free place has not stored its character yet (ttyhandle_out, ttyputc).
StaleOnlyFromCharged == [][~stale /\ stale' => out.go # {}]_tvars
OutputInOrder ==
  ~stale => shown <= wrote /\ wrote - shown + Cardinality(out.go) + Len(out.q) = TY_OBUFLEN - out.sem

\* No output is forgotten: while something is to be sent the device is busy or will interrupt,
\* unless output was just released without ttykickout.
OutputGoesOn == (Owed > 0 \/ Charged > 0) /\ ~oheld /\ ~silent => uart.busy \/ uart.irq

\* A process in ttywrite returns, unless output stays stopped.
WriteReturns == \A w \in Writers : left[w] > 0 ~> left[w] = 0 \/ oheld \/ silent

\* The console's input (ttyhandle_in, ttyread, ttygetc) and its output (ttywrite, ttyputc,
\* ttyhandle_out).
InputRight == []TtyTypeOK /\ LineDiscipline /\ OverrunCauses
OutputRight == [](OutputInOrder /\ OutputGoesOn) /\ StaleOnlyFromCharged
=============================================================================
