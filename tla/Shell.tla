--------------------------------- MODULE Shell ---------------------------------
(***************************************************************************)
(* The shell and the processes it starts.  A command ends in kill, which   *)
(* sends its id to the shell and then closes its descriptors; send makes   *)
(* the waiting shell ready, and the shell has the higher priority, so it   *)
(* goes on before the descriptors are closed.  Commands run while the      *)
(* shell is blocked: in read, or in receive with no message.               *)
(***************************************************************************)
EXTENDS CommandLine, FiniteSets

CONSTANTS Pids, Lines,         \* process ids for commands, the lines typed
          Programs, Builtins,  \* names in cmdtab, as token texts; Exit is a builtin
          Exit, MaxLines

ASSUME ShellAssump == Exit \in Builtins /\ Programs \cap Builtins = {} /\ 0 \notin Pids

VARIABLES shell,    \* at: where it is; cmd: the command being started; child: the one waited for
          procs,    \* each process of a command: state, files (its descriptors), front
          inbox,    \* the message kept for the shell, or 0
          openFiles,\* files that are open
          leaked,   \* files opened for a command that was then not started
          typed     \* lines read so far
svars == <<shell, procs, inbox, openFiles, leaked, typed>>

NoProc == [state |-> "free", files |-> {}, front |-> FALSE]
AtRead == [at |-> "read", cmd |-> BadCommand, child |-> 0, got |-> {}]
ShellInit ==
  /\ shell = AtRead /\ procs = [p \in Pids |-> NoProc] /\ inbox = 0 /\ openFiles = {} /\ leaked = {} /\ typed = 0

\* One line: refused, done by the shell itself, or a command whose files are opened.
ReadLine(line) ==
  LET c == Parse(line) name == c.toks[1].text plain == c.in = None /\ c.out = None /\ ~c.backgnd IN
  /\ shell.at = "read" /\ typed < MaxLines /\ typed' = typed + 1
  /\ shell' = CASE ~c.ok -> AtRead
                [] c.ok /\ name = Exit /\ plain -> [AtRead EXCEPT !.at = "exit"]
                [] c.ok /\ name \in Programs -> [AtRead EXCEPT !.at = "openin", !.cmd = c]
                [] OTHER -> AtRead
  /\ UNCHANGED <<procs, inbox, openFiles, leaked>>
EndOfFile == shell.at = "read" /\ shell' = [AtRead EXCEPT !.at = "exit"]
             /\ UNCHANGED <<procs, inbox, openFiles, leaked, typed>>

\* open of a file, which fails when it is open already and may fail otherwise; what was opened
\* before stays open.
Open(file, at, next) ==
  /\ shell.at = at
  /\ \/ file = None /\ shell' = [shell EXCEPT !.at = next] /\ UNCHANGED <<openFiles, leaked>>
     \/ /\ file # None /\ file \notin openFiles
        /\ openFiles' = openFiles \cup {file} /\ shell' = [shell EXCEPT !.at = next, !.got = @ \cup {file}]
        /\ UNCHANGED leaked
     \/ /\ file # None /\ shell' = AtRead /\ leaked' = leaked \cup shell.got /\ UNCHANGED openFiles
  /\ UNCHANGED <<procs, inbox, typed>>
OpenIn == Open(shell.cmd.in, "openin", "openout")
OpenOut == Open(shell.cmd.out, "openout", "create")

\* create and addargs, the descriptors, recvclr, resume; then receive, unless in the background.
Start(p) ==
  /\ shell.at = "create" /\ procs[p].state = "free"
  /\ procs' = [procs EXCEPT ![p] = [state |-> "run", files |-> shell.got, front |-> ~shell.cmd.backgnd]]
  /\ inbox' = 0
  /\ shell' = IF shell.cmd.backgnd THEN AtRead ELSE [AtRead EXCEPT !.at = "wait", !.child = p]
  /\ UNCHANGED <<openFiles, leaked, typed>>
\* create has no process or no memory, or addargs fails and leaves its process suspended for good.
StartFails ==
  /\ shell.at = "create" /\ shell' = AtRead /\ leaked' = leaked \cup shell.got
  /\ procs' \in {procs} \cup {[procs EXCEPT ![p].state = "suspended"] : p \in {q \in Pids : procs[q].state = "free"}}
  /\ UNCHANGED <<inbox, openFiles, typed>>
\* receive, until the message is the child.
ReceiveKeeping ==
  /\ shell.at = "wait" /\ inbox # 0
  /\ shell' = IF inbox = shell.child THEN AtRead ELSE shell
  /\ UNCHANGED <<procs, inbox, openFiles, leaked, typed>>
Receive ==
  /\ shell.at = "wait" /\ inbox # 0 /\ inbox' = 0
  /\ shell' = IF inbox = shell.child THEN AtRead ELSE shell
  /\ UNCHANGED <<procs, openFiles, leaked, typed>>

Blocked == shell.at \in {"read", "exit"} \/ (shell.at = "wait" /\ inbox = 0)
\* kill, of a command that returns or that another command kills: the message, which is lost when one is there.
KillSends(p) ==
  /\ Blocked /\ procs[p].state \in {"run", "suspended"}
  /\ procs' = [procs EXCEPT ![p].state = "dying"] /\ inbox' = IF inbox = 0 THEN p ELSE inbox
  /\ UNCHANGED <<shell, openFiles, leaked, typed>>
\* Then the descriptors, and the entry in proctab.
KillCloses(p) ==
  /\ Blocked /\ procs[p].state = "dying"
  /\ openFiles' = openFiles \ procs[p].files /\ procs' = [procs EXCEPT ![p] = NoProc]
  /\ UNCHANGED <<shell, inbox, leaked, typed>>

ShellNext ==
  \/ \E line \in Lines : ReadLine(line)
  \/ EndOfFile \/ OpenIn \/ OpenOut \/ StartFails \/ Receive
  \/ \E p \in Pids : Start(p) \/ KillSends(p) \/ KillCloses(p)

-----------------------------------------------------------------------------
(* Properties *)

ShellTypeOK ==
  /\ shell.at \in {"read", "openin", "openout", "create", "wait", "exit"} /\ inbox \in Pids \cup {0}
  /\ \A p \in Pids : procs[p].state \in {"free", "run", "dying", "suspended"} /\ procs[p].files \subseteq openFiles
  /\ (shell.at = "wait") = (shell.child # 0)

\* The shell prompts again only when the command in the foreground has ended, whatever messages
\* of commands in the background came before, also of an earlier process with the same id.
PromptAfterChild ==
  \A p \in Pids : procs[p].front /\ procs[p].state = "run" => shell.at = "wait" /\ shell.child = p

\* Every open file belongs to one command that is not yet gone, to the one being started, or to
\* one whose start failed (the descriptors closed by kill).
FilesAccounted ==
  /\ openFiles = leaked \cup shell.got \cup UNION {procs[p].files : p \in Pids}
  /\ \A p, q \in Pids : p # q => procs[p].files \cap procs[q].files = {}

\* A foreground command that ends gives the prompt back (send and receive, while other
\* commands end too).
PromptReturns == (shell.at = "wait") ~> (shell.at # "wait")

\* A line of input becomes the command it says, and the shell waits for that command and gives
\* it its files (lexan, shell, kill).
CommandsRight ==
  /\ NothingDropped /\ SyntaxAsDescribed /\ ArgsWhole
  /\ ShellTypeOK /\ PromptAfterChild /\ FilesAccounted
=============================================================================
