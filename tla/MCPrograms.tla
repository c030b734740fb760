------------------------------ MODULE MCPrograms ------------------------------
(***************************************************************************)
(* One run over the parts a program at the console uses: focus names the   *)
(* part that runs in a behaviour, the others stay as they began.           *)
(***************************************************************************)
EXTENDS Lfs, Namespace, Shell, Calendar, EthSetup

VARIABLE focus
vars == <<fvars, nvars, cmdline, svars, today, evars, focus>>

\* Characters of names: 0 is "/", 9 stands for "dev", 7 for "null", 6 for "remote", 8 fills "root:".
MCDevNames == <<<<1>>, <<1, 2>>, <<3>>, <<7>>, <<4>>, <<5>>>>   \* 3 the namespace, 5 the local files, 6 the remote
MCDevPrefix == <<0, 9, 0>>
MCGeneral == <<Entry(<<0, 9, 0, 7>>, <<>>, 4), Entry(<<0, 6, 0>>, <<6, 8>>, 6), Entry(MCDevPrefix, <<>>, 0),
               Entry(<<0>>, <<8, 8, 8, 8, 8, 8, 8>>, 6), Entry(<<>>, <<>>, 5)>>
MCMounts == {Entry(<<0, 9>>, <<>>, 1), Entry(<<1>>, <<0, 6, 0>>, 3), Entry(<<>>, <<1>>, 3)}
MCNames == {<<>>, <<1, 1>>, <<0, 6, 0, 1>>, <<0, 9, 0, 1, 2>>, <<0, 9, 0, 3, 0, 6, 0, 1>>, <<0, 9, 0, 3, 1>>,
            <<0, 1, 1, 1, 1, 1>>, <<0, 9, 0, 5, 1, 1, 1, 1, 1, 1, 1, 1>>}
MCLeftovers == {<<>>, <<1>>}
MCLoads == {<<1>>, <<2, 1, 2>>}

MCLines == {<<"a">>, <<"a", "&">>, <<"a", " ", ">", "f", "&">>, <<"a", " ", "<", "f", " ", ">", "g">>, <<"x">>,
            <<"x", "&">>, <<"z">>, <<"a", "<">>}
MCFirst == <<"a", " ">>
MCPrograms == {<<"a">>}
MCBuiltins == {<<"x">>}
MCExit == <<"x">>

Init ==
  /\ LfsInit /\ NameInit /\ LineInit /\ ShellInit /\ DateInit /\ EthInit0
  /\ focus \in {"lfs", "names", "line", "shell", "date", "ether"}
  /\ lf.disk.dir.id \/ focus = "lfs"

InLfs(A) == focus = "lfs" /\ A /\ UNCHANGED <<nvars, cmdline, svars, today, evars, focus>>
InNames(A) == focus = "names" /\ A /\ UNCHANGED <<fvars, cmdline, svars, today, evars, focus>>
InLine(A) == focus = "line" /\ A /\ UNCHANGED <<fvars, nvars, svars, today, evars, focus>>
InShell(A) == focus = "shell" /\ A /\ UNCHANGED <<fvars, nvars, cmdline, today, evars, focus>>
InDate(A) == focus = "date" /\ A /\ UNCHANGED <<fvars, nvars, cmdline, svars, evars, focus>>
InEther(A) == focus = "ether" /\ A /\ UNCHANGED <<fvars, nvars, cmdline, svars, today, focus>>
Next ==
  \/ InLfs(LfsNext) \/ InNames(NameNext) \/ InLine(LineNext) \/ InShell(ShellNext)
  \/ InDate(NextDay) \/ InEther(EthSetupNext)

\* Commands end, kill and the shell go on, ethinit is not stopped.
Fairness ==
  /\ WF_vars(InShell(Receive)) /\ WF_vars(InEther(EthSetupStep))
  /\ \A p \in Pids : WF_vars(InShell(procs[p].state = "run" /\ KillSends(p))) /\ WF_vars(InShell(KillCloses(p)))
Spec == Init /\ [][Next]_vars /\ Fairness

\* The two waits of these programs end: a foreground command gives the prompt back (shell),
\* and ethinit returns, also with hardware that is never ready.
EtherInitEnds == (focus = "ether") => InitEnds
ProgramsEnd == PromptReturns /\ EtherInitEnds
=============================================================================
