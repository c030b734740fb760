------------------------------ MODULE CommandLine ------------------------------
(***************************************************************************)
(* A command line of the shell: lexan divides it into tokens, stored with  *)
(* a null after each in tokbuf, and the shell takes the background sign    *)
(* and the redirections off their end.  A line is a sequence of characters *)
(* up to its newline; Words are the characters of ordinary tokens.         *)
(***************************************************************************)
EXTENDS Integers, Sequences
LOCAL INSTANCE SequencesExt

CONSTANTS Words, Quotes,   \* characters of ordinary tokens, single and double quote
          Keys, MaxLine,   \* the characters that are typed, and how many at most
          FirstWord,       \* how a line of MaxLine characters begins; others are one shorter
          SHELL_BUFLEN, SHELL_MAXTOK

ASSUME LineAssump == SHELL_BUFLEN \in Nat /\ SHELL_MAXTOK \in Nat /\ MaxLine <= SHELL_BUFLEN

VARIABLE cmdline   \* the line read from the console

Blanks == {" "}
Signs == {"&", "<", ">"}
Chars == Words \cup Blanks \cup Quotes \cup Signs
Token(type, text) == [type |-> type, text |-> text]   \* type is a sign or "other"
Tokens(toks) == [ok |-> TRUE, toks |-> toks]
SyntaxError == [ok |-> FALSE, toks |-> <<>>]

\* The position of the first character of s in set from n on, or the end of the line.
First(s, n, set) == IF \E i \in n..Len(s) : s[i] \in set
                    THEN CHOOSE i \in n..Len(s) : s[i] \in set /\ \A j \in n..(i - 1) : s[j] \notin set
                    ELSE Len(s) + 1
From(s, n) == SubSeq(s, n, Len(s))
SkipBlanks(s) == From(s, First(s, 1, Chars \ Blanks))

RECURSIVE Lexan(_, _)
Lexan(s, toks) ==
  LET r == SkipBlanks(s) quoted == First(r, 2, {Head(r)}) word == First(r, 2, Chars \ Words) IN
  CASE s = <<>> -> Tokens(toks)
    [] s # <<>> /\ Len(toks) >= SHELL_MAXTOK -> SyntaxError
    [] s # <<>> /\ Len(toks) < SHELL_MAXTOK /\ r = <<>> -> Tokens(toks)
    [] r # <<>> /\ Len(toks) < SHELL_MAXTOK /\ Head(r) \in Signs ->
         Lexan(Tail(r), Append(toks, Token(Head(r), <<Head(r)>>)))
    [] r # <<>> /\ Len(toks) < SHELL_MAXTOK /\ Head(r) \in Quotes ->
         IF quoted > Len(r) THEN SyntaxError
         ELSE Lexan(From(r, quoted + 1), Append(toks, Token("other", SubSeq(r, 2, quoted - 1))))
    [] r # <<>> /\ Len(toks) < SHELL_MAXTOK /\ Head(r) \in Words ->
         IF word <= Len(r) /\ r[word] \in Quotes \cup {"<", ">"} THEN SyntaxError
         ELSE Lexan(From(r, word), Append(toks, Token("other", SubSeq(r, 1, word - 1))))

\* The bytes that tokens take in tokbuf; tok[n] is Stored of the tokens before.
Stored(toks) == FoldLeft(LAMBDA n, t : n + Len(t.text) + 1, 0, toks)

\* The shell's parse of the tokens; in and out are file names, or None.
None == <<"no file">>
Command(toks, tlen, backgnd, in, out) ==
  [ok |-> TRUE, toks |-> toks, tlen |-> tlen, backgnd |-> backgnd, in |-> in, out |-> out]
BadCommand == [ok |-> FALSE, toks |-> <<>>, tlen |-> 0, backgnd |-> FALSE, in |-> None, out |-> None]
BackgroundKeepsLength(c) ==
  LET n == Len(c.toks) IN
  IF c.toks[n].type = "&" THEN [c EXCEPT !.toks = SubSeq(@, 1, n - 1), !.backgnd = TRUE] ELSE c
Background(c) ==
  LET n == Len(c.toks) IN
  IF c.toks[n].type = "&" THEN [c EXCEPT !.toks = SubSeq(@, 1, n - 1), !.tlen = @ - 2, !.backgnd = TRUE] ELSE c
\* One redirection taken off the end.
Redirect(c) ==
  LET n == Len(c.toks) sign == c.toks[n - 1].type file == c.toks[n]
      rest == [c EXCEPT !.toks = SubSeq(@, 1, n - 2), !.tlen = Stored(SubSeq(c.toks, 1, n - 2))]
  IN IF ~c.ok \/ n < 3 THEN c
     ELSE IF sign \notin {"<", ">"} THEN c
     ELSE IF file.type # "other" \/ (sign = "<" /\ c.in # None) \/ (sign = ">" /\ c.out # None) THEN BadCommand
     ELSE IF sign = "<" THEN [rest EXCEPT !.in = file.text] ELSE [rest EXCEPT !.out = file.text]
Others(c) ==
  IF c.ok /\ c.toks # <<>> /\ (\A i \in DOMAIN c.toks : c.toks[i].type = "other") THEN c ELSE BadCommand
Parse(line) ==
  LET lexed == Lexan(line, <<>>) IN
  IF ~lexed.ok \/ lexed.toks = <<>> THEN BadCommand
  ELSE Others(Redirect(Redirect(Background(Command(lexed.toks, Stored(lexed.toks), FALSE, None, None)))))

-----------------------------------------------------------------------------
LineInit == cmdline = <<>>
Typed(c) ==
  /\ Len(cmdline) < IF IsPrefix(FirstWord, cmdline) THEN MaxLine ELSE MaxLine - 1
  /\ cmdline' = Append(cmdline, c)
LineNext == \E c \in Keys : Typed(c)

-----------------------------------------------------------------------------
(* Properties *)

Texts(toks) == FoldLeft(LAMBDA s, t : s \o t.text, <<>>, toks)
Plain(s) == SelectSeq(s, LAMBDA c : c \notin Blanks \cup Quotes)

\* Nothing of an accepted line is dropped, repeated or moved between its tokens, and they fit
\* tokbuf, and their table (lexan's copying, its tests of the next character and of ntok).
NothingDropped ==
  LET lexed == Lexan(cmdline, <<>>) IN
  lexed.ok => /\ Plain(Texts(lexed.toks)) = Plain(cmdline)
              /\ Len(lexed.toks) <= SHELL_MAXTOK /\ Stored(lexed.toks) <= SHELL_BUFLEN + SHELL_MAXTOK

\* The syntax that shell.c's heading gives: a name and arguments, then at most one input and
\* one output file in either order, then at most one ampersand.
Redirections == {<<>>, <<"<", "other">>, <<">", "other">>,
                 <<"<", "other", ">", "other">>, <<">", "other", "<", "other">>}
IsCommand(types) ==
  \E n \in 1..Len(types), r \in Redirections, b \in {<<>>, <<"&">>} :
    types = [i \in 1..n |-> "other"] \o r \o b
SyntaxAsDescribed ==
  LET toks == Lexan(cmdline, <<>>).toks IN
  Parse(cmdline).ok = IsCommand([i \in DOMAIN toks |-> toks[i].type])

\* The length copied to the child's stack is that of its arguments, whatever was taken off the
\* end of the line (tlen, read by addargs).
ArgsWhole == LET c == Parse(cmdline) IN c.ok => c.tlen = Stored(c.toks)
=============================================================================
