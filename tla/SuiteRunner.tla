---------------------------- MODULE SuiteRunner ----------------------------
(***************************************************************************)
(* The script that builds and runs one tree of harnesses and reports how    *)
(* many failed (run_all.ps1, five of them, and dotNetExamples/build.ps1).   *)
(* The five differ in four places, and `tree` says which one is running:    *)
(* what is built, whether two COM servers are staged and registered first   *)
(* ("com", "net"), how a harness is waited for, and how results are scored. *)
(*                                                                          *)
(* The harnesses are processes of their own: one exits with any code at any *)
(* moment, or never.  Nothing here counts milliseconds: a timed wait may    *)
(* time out whenever the process it waits for is still alive.               *)
(***************************************************************************)
EXTENDS Integers, FiniteSets

CONSTANTS N,            \* how many harnesses the tree lists
          MaxFailed     \* bound on the checks the client script counts as failed

ASSUME SuiteAssumption == /\ N \in Nat \ {0}
                          /\ MaxFailed \in Nat

VARIABLES tree, noBuild, scripts,       \* which runner, and its switches
          phase, at,                    \* where it is, and at which harness
          exes,                         \* the executables in the out directory
          failed,                       \* harnesses csc refused (dotNet only)
          present, staged,              \* core DLLs where they were built / in bin
          server, refused,              \* registered servers; an ignored refusal
          child, code, orphans,         \* the harness started last, and those left
          results, script,              \* exit codes collected
          threw, exit                   \* how the run ended
vars == <<tree, noBuild, scripts, phase, at, exes, failed, present, staged,
          server, refused, child, code, orphans, results, script, threw, exit>>

switches == <<tree, noBuild, scripts>>
files    == <<exes, failed, present, staged>>
registry == <<server, refused>>
process  == <<child, code, orphans>>
tallies  == <<results, script>>
ending   == <<threw, exit>>

ComTrees  == {"com", "net"}
Trees     == ComTrees \union {"direct", "field", "facade"}
Harnesses == 1..N

Servers == {"MsgcoreCom", "TargetCom"}
Dlls    == Servers \union {"MsgFacade", "TargetFacade", "Msgcore", "Targetcore"}

\* The order of $stage, and the DLLs regsvr32 must be able to load with each server.
StageOrder == <<"MsgcoreCom", "MsgFacade", "TargetCom", "TargetFacade", "Msgcore",
                "Targetcore">>
Chain == [s \in Servers |-> IF s = "MsgcoreCom"
                            THEN {"MsgcoreCom", "MsgFacade", "Msgcore"}
                            ELSE {"TargetCom", "TargetFacade", "Targetcore", "Msgcore"}]

\* 0 to 3 are the codes of the harnesses' own, Killed any other; NoCode is a
\* $p.ExitCode that reads $null, Unrun a harness with no result.
Killed  == 4
NoCode  == 5
Unrun   == 6
Codes   == 0..4
NoScript == -1

Phases == {"build", "stage", "check", "registerMsgcore", "registerTarget", "loop",
           "read", "wait", "kill", "killed", "unread", "script", "unregisterTarget",
           "unregisterMsgcore", "summary", "over"}

FlagsOK == {noBuild, scripts, refused, threw} \subseteq BOOLEAN

ValuesOK ==
  /\ tree \in Trees /\ phase \in Phases
  /\ at \in Nat \ {0} /\ failed \in Nat /\ exit \in Nat
  /\ exes \in [Harnesses -> {"missing", "stale", "fresh"}]
  /\ present \subseteq Dlls /\ staged \subseteq Dlls /\ server \subseteq Servers
  /\ child \in {"none", "running", "closing", "dying", "exited"} /\ code \in Codes
  /\ orphans \subseteq Harnesses
  /\ results \in [Harnesses -> Codes \union {NoCode, Unrun}]
  /\ script \in NoScript..MaxFailed

TypeOK == FlagsOK /\ ValuesOK

Init ==
  /\ tree \in Trees /\ noBuild \in BOOLEAN /\ scripts \in BOOLEAN
  /\ scripts => tree = "com"
  /\ phase = "build" /\ at = 1
  /\ exes \in [Harnesses -> {"missing", "stale"}] /\ failed = 0
  /\ present \in SUBSET Dlls /\ staged \in SUBSET Dlls
  /\ server = {} /\ refused = FALSE
  /\ child = "none" /\ code = 0 /\ orphans = {}
  /\ results = [i \in Harnesses |-> Unrun] /\ script = NoScript
  /\ threw = FALSE /\ exit = 0

At(p) == phase = p
Go(p) == phase' = p

\* An uncaught throw: a COM runner inside its try runs the finally, any other stops.
Throw == /\ threw' = TRUE /\ exit' = 1
         /\ Go(IF tree \in ComTrees /\ phase \in {"loop", "kill", "script"}
               THEN "unregisterTarget" ELSE "over")
----------------------------------------------------------------------------
(* Building. *)

AfterBuild == CASE tree = "com" -> "stage"
                [] tree = "net" -> IF noBuild THEN "check" ELSE "stage"
                [] OTHER        -> "loop"

SkipBuild == /\ At("build") /\ noBuild /\ Go(AfterBuild)
             /\ UNCHANGED <<switches, at, files, registry, process, tallies, ending>>

\* No MSBuild, no vswhere, no C# compiler, no reference assemblies.
NoTools == /\ At("build") /\ ~noBuild /\ at = 1 /\ Throw
           /\ UNCHANGED <<switches, at, files, registry, process, tallies>>

\* ComExamples: the three DLLs the harnesses need, in order.
ServerProjects == <<"MsgFacade", "MsgcoreCom", "TargetCom">>

BuildServer ==
  /\ At("build") /\ ~noBuild /\ tree = "com" /\ at <= 3
  /\ UNCHANGED <<switches, exes, failed, staged, registry, process, tallies>>
  /\ \/ /\ ServerProjects[at] = "MsgcoreCom" => "MsgFacade" \in present
        /\ present' = present \union {ServerProjects[at]}
        /\ at' = at + 1
        /\ UNCHANGED phase /\ UNCHANGED ending
     \/ Throw /\ UNCHANGED <<present, at>>

\* Every C++ tree: its solution, all harnesses at once; a failure throws.
BuildSolution ==
  /\ At("build") /\ ~noBuild /\ tree # "net" /\ (tree = "com" => at = 4)
  /\ UNCHANGED <<switches, failed, present, staged, registry, process, tallies>>
  /\ \/ /\ exes' = [i \in Harnesses |-> "fresh"]
        /\ at' = 1 /\ Go(AfterBuild) /\ UNCHANGED ending
     \/ Throw /\ UNCHANGED <<exes, at>>

\* build.ps1: csc on each harness in turn, counting the ones it refuses.
Compile ==
  /\ At("build") /\ ~noBuild /\ tree = "net" /\ at <= N
  /\ \/ exes' = [exes EXCEPT ![at] = "fresh"] /\ UNCHANGED failed
     \/ failed' = failed + 1 /\ UNCHANGED exes
  /\ at' = at + 1
  /\ UNCHANGED <<switches, phase, present, staged, registry, process, tallies, ending>>

\* Mutant: a csc that failed does not stop the build.
CompiledSome ==
  /\ At("build") /\ ~noBuild /\ tree = "net" /\ at = N + 1
  /\ at' = 1 /\ Go(AfterBuild)
  /\ UNCHANGED <<switches, files, registry, process, tallies, ending>>

CompiledAll ==
  /\ At("build") /\ ~noBuild /\ tree = "net" /\ at = N + 1
  /\ at' = 1
  /\ IF failed > 0 THEN Throw ELSE Go(AfterBuild) /\ UNCHANGED ending
  /\ UNCHANGED <<switches, files, registry, process, tallies>>
----------------------------------------------------------------------------
(* Staging and registration, of a COM tree. *)

\* The DLLs are copied in order up to the first one missing, which throws; a
\* copy over a DLL some process still holds throws too.
Copied == {StageOrder[k] : k \in {j \in 1..6 : \A i \in 1..j : StageOrder[i] \in present}}

Stage ==
  /\ At("stage")
  /\ \/ /\ staged' = staged \union Copied
        /\ IF Dlls \subseteq present
           THEN Go(IF tree = "net" THEN "check" ELSE "registerMsgcore") /\ UNCHANGED ending
           ELSE Throw
     \/ Throw /\ UNCHANGED staged
  /\ UNCHANGED <<switches, at, exes, failed, present, registry, process, tallies>>

\* The dotNet runner looks for the two servers and for none of the other four DLLs.
CheckStaged ==
  /\ At("check")
  /\ IF Servers \subseteq staged THEN Go("registerMsgcore") /\ UNCHANGED ending ELSE Throw
  /\ UNCHANGED <<switches, at, files, registry, process, tallies>>

\* regsvr32 loads the server with all it imports; it may refuse for its own reasons.
CanRegister(s) == Chain[s] \subseteq staged

\* regsvr32 /u: the runners never look at what it returns.
Unregister(s) == \/ server' = server \ {s} /\ UNCHANGED refused
                 \/ refused' = TRUE /\ UNCHANGED server

RegisterMsgcore ==
  /\ At("registerMsgcore")
  /\ \/ /\ CanRegister("MsgcoreCom")
        /\ server' = server \union {"MsgcoreCom"}
        /\ Go("registerTarget") /\ UNCHANGED refused /\ UNCHANGED ending
     \/ Throw /\ UNCHANGED registry
  /\ UNCHANGED <<switches, at, files, process, tallies>>

\* Mutant: the second server's exit code is not looked at.
RegisterTargetUnchecked ==
  /\ At("registerTarget")
  /\ server' \in {server, server \union {"TargetCom"}}
  /\ Go("loop")
  /\ UNCHANGED <<switches, at, files, refused, process, tallies, ending>>

\* Mutant: the throw leaves the first server registered.
RegisterTargetOnly ==
  /\ At("registerTarget")
  /\ \/ /\ CanRegister("TargetCom")
        /\ server' = server \union {"TargetCom"}
        /\ Go("loop") /\ UNCHANGED refused /\ UNCHANGED ending
     \/ Throw /\ UNCHANGED registry
  /\ UNCHANGED <<switches, at, files, process, tallies>>

\* When the second is refused the first is taken back before the throw.
RegisterTarget ==
  /\ At("registerTarget")
  /\ \/ /\ CanRegister("TargetCom")
        /\ server' = server \union {"TargetCom"}
        /\ Go("loop") /\ UNCHANGED refused /\ UNCHANGED ending
     \/ Throw /\ Unregister("MsgcoreCom")
  /\ UNCHANGED <<switches, at, files, process, tallies>>
----------------------------------------------------------------------------
(* The harnesses, one after the other. *)

StartHarness ==
  /\ At("loop") /\ at <= N /\ exes[at] # "missing"
  /\ child' = "running"
  /\ Go(IF tree \in ComTrees THEN "read" ELSE "wait")
  /\ UNCHANGED <<switches, at, files, registry, code, orphans, tallies, ending>>

MissingExe ==
  /\ At("loop") /\ at <= N /\ exes[at] = "missing"
  /\ Throw
  /\ UNCHANGED <<switches, at, files, registry, process, tallies>>

\* results.Add; a harness still alive is left to itself.
Score(c) ==
  /\ results' = [results EXCEPT ![at] = c]
  /\ orphans' = IF child = "exited" THEN orphans ELSE orphans \union {at}
  /\ child' = "none" /\ at' = at + 1 /\ Go("loop")
  /\ UNCHANGED <<switches, files, registry, code, script, ending>>

\* StandardOutput.ReadToEnd: until the harness closes its end, however long that is.
ReadToEnd ==
  /\ At("read") /\ child # "running"
  /\ Go("wait")
  /\ UNCHANGED <<switches, at, files, registry, process, tallies, ending>>

\* WaitForExit(ms) returns true.  Start-Process -PassThru without -Wait may hand
\* back a process object whose ExitCode reads $null.
WaitReturns ==
  /\ At("wait") /\ child = "exited"
  /\ \E c \in IF tree \in ComTrees THEN {code} ELSE {code, NoCode} : Score(c)

\* Mutant: only the COM runners' waits have a limit.
WaitForEver ==
  /\ At("wait") /\ child # "exited" /\ tree \in ComTrees
  /\ Go("kill")
  /\ UNCHANGED <<switches, at, files, registry, process, tallies, ending>>

WaitTimesOut ==
  /\ At("wait") /\ child # "exited"
  /\ Go(IF tree = "facade" THEN "unread" ELSE "kill")
  /\ UNCHANGED <<switches, at, files, registry, process, tallies, ending>>

\* The system has been told to end the harness, unless it ended first.
KillLands == /\ child' = IF child = "exited" THEN "exited" ELSE "dying"
             /\ UNCHANGED <<code, orphans>>

\* direct, field: try { $p.Kill($true) } catch { } -- nothing at all where the
\* runtime has no such overload, or refuses.
KillQuietly ==
  /\ At("kill") /\ tree \notin ComTrees
  /\ KillLands \/ UNCHANGED process
  /\ Go("killed")
  /\ UNCHANGED <<switches, at, files, registry, tallies, ending>>

\* com, net: a bare $p.Kill(), which throws for a process that has just exited
\* or may not be touched; the harness is then left as it is.
KillOrThrow ==
  /\ At("kill") /\ tree \in ComTrees
  /\ \/ KillLands /\ Go("killed") /\ UNCHANGED ending
     \/ /\ Throw
        /\ orphans' = IF child = "exited" THEN orphans ELSE orphans \union {at}
        /\ child' = "none" /\ UNCHANGED code
  /\ UNCHANGED <<switches, at, files, registry, tallies>>

\* Mutant: the com runner does not wait for the process it killed to end.
ScoreUnfinished == /\ At("killed")
                   /\ Score(IF tree = "com" THEN code ELSE 3)

\* direct, field wait 5 s more and report 3 whatever happens; com, net wait for
\* the end, and com reports the code the process ended with.
ScoreKilled ==
  /\ At("killed") /\ (tree \in ComTrees => child = "exited")
  /\ Score(IF tree = "com" THEN code ELSE 3)

\* facade: the wait's answer is dropped, and ExitCode of a live process throws or
\* reads $null.
ScoreUnread ==
  /\ At("unread")
  /\ \/ \E c \in IF child = "exited" THEN {code, NoCode} ELSE {NoCode} : Score(c)
     \/ /\ child # "exited" /\ Throw
        /\ orphans' = orphans \union {at} /\ child' = "none"
        /\ UNCHANGED <<switches, at, files, registry, code, tallies>>

LoopEnds ==
  /\ At("loop") /\ at = N + 1
  /\ Go(IF scripts THEN "script"
        ELSE IF tree \in ComTrees THEN "unregisterTarget" ELSE "summary")
  /\ UNCHANGED <<switches, at, files, registry, process, tallies, ending>>

\* -IncludeScripts: the client's exit code is its number of failed checks (1 also
\* when it stops on an exception); what it writes to stderr may throw here.
RunScript ==
  /\ At("script")
  /\ \/ script' \in 0..MaxFailed /\ Go("unregisterTarget") /\ UNCHANGED ending
     \/ Throw /\ UNCHANGED script
  /\ UNCHANGED <<switches, at, files, registry, process, results>>
----------------------------------------------------------------------------
(* The end. *)

UnregisterTarget ==
  /\ At("unregisterTarget") /\ Unregister("TargetCom")
  /\ Go("unregisterMsgcore")
  /\ UNCHANGED <<switches, at, files, process, tallies, ending>>

UnregisterMsgcore ==
  /\ At("unregisterMsgcore") /\ Unregister("MsgcoreCom")
  /\ Go(IF threw THEN "over" ELSE "summary")
  /\ UNCHANGED <<switches, at, files, process, tallies, ending>>

\* 0 is PASS, 1 SETUP, everything else counts as failed; facade adds the SETUPs.
Good == IF tree = "facade" THEN {0} ELSE {0, 1}

Bad == {i \in Harnesses : results[i] \notin Good}

\* Mutant: a code the switch does not name is counted by nobody.
SummaryWithoutDefault ==
  /\ At("summary")
  /\ exit' = Cardinality({i \in Harnesses : results[i] \in {2, 3}})
               + (IF script \in {NoScript, 0, 1} THEN 0 ELSE 1)
  /\ Go("over")
  /\ UNCHANGED <<switches, at, files, registry, process, tallies, threw>>

Summary ==
  /\ At("summary")
  /\ exit' = Cardinality(Bad) + (IF script \in {NoScript, 0, 1} THEN 0 ELSE 1)
  /\ Go("over")
  /\ UNCHANGED <<switches, at, files, registry, process, tallies, threw>>

RunnerNext ==
  \/ SkipBuild \/ NoTools \/ BuildServer \/ BuildSolution \/ Compile \/ CompiledAll
  \/ Stage \/ CheckStaged \/ RegisterMsgcore \/ RegisterTarget
  \/ StartHarness \/ MissingExe \/ ReadToEnd \/ WaitReturns \/ WaitTimesOut
  \/ KillQuietly \/ KillOrThrow \/ ScoreKilled \/ ScoreUnread \/ LoopEnds
  \/ UnregisterTarget \/ UnregisterMsgcore \/ Summary
----------------------------------------------------------------------------
(* The processes the runner started. *)

ChildExits ==
  /\ child \in {"running", "closing"}
  /\ child' = "exited" /\ code' \in Codes
  /\ UNCHANGED <<switches, phase, at, files, registry, orphans, tallies, ending>>

ChildDies ==
  /\ child = "dying"
  /\ child' = "exited" /\ code' = Killed
  /\ UNCHANGED <<switches, phase, at, files, registry, orphans, tallies, ending>>

\* On its way out: its handles are closed and the process object is not signalled.
ChildCloses ==
  /\ child = "running"
  /\ child' = "closing"
  /\ UNCHANGED <<switches, phase, at, files, registry, code, orphans, tallies, ending>>

OrphanExits ==
  /\ \E i \in orphans : orphans' = orphans \ {i}
  /\ UNCHANGED <<switches, phase, at, files, registry, child, code, tallies, ending>>

Next == RunnerNext \/ RunScript \/ ChildExits \/ ChildDies \/ ChildCloses \/ OrphanExits

\* The runner is a process the system schedules, its timed waits do end and a
\* killed process goes; a harness, an orphan and the client script may run for ever.
Fairness == WF_vars(RunnerNext) /\ WF_vars(ChildDies)

Spec == Init /\ [][Next]_vars /\ Fairness
----------------------------------------------------------------------------
(* Properties. *)

\* A harness of a COM tree only ever runs with both servers registered and with
\* all six DLLs in its directory -- also under -NoBuild, where the dotNet runner
\* looks for two of the six and registration has to notice the rest.  Only a Kill
\* that threw leaves one running that the servers are taken from.  Without -NoBuild
\* no executable of an earlier run is ever started: a project or a csc that failed
\* stops the run before the first harness.
RunsPrepared ==
  /\ tree \in ComTrees /\ (child # "none" \/ (orphans # {} /\ ~threw)) =>
       server = Servers /\ Dlls \subseteq staged
  /\ child # "none" /\ ~noBuild => exes[at] = "fresh"

\* However a run ends -- a missing executable, a Kill that throws, a script that
\* throws -- it leaves a server registered only if regsvr32 /u refused.
RemovedUnlessRefused == phase = "over" => server = {} \/ refused

\* Exit code 0 of a run that got to its summary: every harness ran, none reported
\* a failure, none that the runner gave up on is still running, and the script failed
\* at most one check.
ZeroIsEarned ==
  phase = "over" /\ exit = 0 =>
     /\ ~threw
     /\ \A i \in Harnesses : results[i] \in Good
     /\ orphans = {}
     /\ script <= 1

\* Every run ends, but for a COM harness that never closes its output and for a
\* client script that never ends: neither wait has a limit, so that the servers then
\* stay registered, which ComExamples/run_all.ps1:21 says they never do.
RunnerEnds ==
  \/ <>(phase = "over")
  \/ <>[](phase = "read" /\ child = "running")
  \/ <>[](phase = "script")
----------------------------------------------------------------------------
(* What makes the safety properties inductive. *)

\* Where the runner is while a harness it has started is not scored.
UnderHarness == {"read", "wait", "kill", "killed", "unread"}

\* Which runner gets where, and what a throw leaves of its way.
PlaceInv ==
  /\ scripts => tree = "com"
  /\ phase \in {"stage", "check", "registerMsgcore", "registerTarget", "read", "script",
                "unregisterTarget", "unregisterMsgcore"} => tree \in ComTrees
  /\ phase = "unread" => tree = "facade"
  /\ phase \in UnderHarness => at \in Harnesses
  /\ child # "none" <=> phase \in UnderHarness
  /\ threw => exit = 1 /\ phase \in {"unregisterTarget", "unregisterMsgcore", "over"}

\* What is registered at each station, or a refusal to take it back.
RegistryInv ==
  /\ tree \notin ComTrees => server = {}
  /\ phase \in {"build", "stage", "check", "registerMsgcore"} => server = {}
  /\ phase = "registerTarget" => server = {"MsgcoreCom"} /\ Chain["MsgcoreCom"] \subseteq staged
  /\ tree \in ComTrees /\ phase \in UnderHarness \union {"loop", "script"} =>
       server = Servers /\ Dlls \subseteq staged
  /\ phase = "unregisterMsgcore" => server \subseteq {"MsgcoreCom"} \/ refused
  /\ phase \in {"summary", "over"} => server = {} \/ refused

\* The build leaves nothing of an earlier run, or stops.
FreshInv ==
  /\ phase \notin {"build", "over"} /\ ~noBuild => \A i \in Harnesses : exes[i] = "fresh"
  /\ phase = "build" /\ tree = "net" /\ failed = 0 =>
       \A i \in Harnesses : i < at => exes[i] = "fresh"

\* A harness the runner has left running is one of those it is done with, and counts
\* as failed whatever becomes of it.
OrphanInv ==
  /\ phase \in {"build", "stage", "check", "registerMsgcore", "registerTarget"} => orphans = {}
  /\ ~threw => \A i \in orphans : i < at /\ i \in Bad
  /\ tree \in ComTrees /\ ~threw => orphans = {}

IInv == TypeOK /\ PlaceInv /\ RegistryInv /\ FreshInv /\ OrphanInv /\ ZeroIsEarned
=============================================================================
