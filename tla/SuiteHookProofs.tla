---------------------------- MODULE SuiteHookProofs ----------------------------
(***************************************************************************)
(* What the two kinds of script that guard the harnesses keep: the five    *)
(* suite runners, proved for any number of harnesses and any bound on the  *)
(* client script's failed checks, and the pre-push hook, proved for any    *)
(* number of developers, commits and pushes, whatever the ancestry of the  *)
(* commits.                                                                *)
(***************************************************************************)
EXTENDS SuiteRunner, PrePush, FiniteSetTheorems, TLAPS

-------------------------------------------------------------------------------
(* The suite runners. *)

LEMMA InitHolds == Init => IInv
<1> SUFFICES ASSUME Init PROVE IInv OBVIOUS
<1> USE SuiteAssumption DEF Init
<1>1. FlagsOK
  <2>1. {refused, threw} \subseteq BOOLEAN OBVIOUS
  <2>2. QED BY <2>1 DEF FlagsOK
<1>2. results \in [Harnesses -> Codes \union {NoCode, Unrun}]
  BY DEF Unrun
<1>3. exes \in [Harnesses -> {"missing", "stale", "fresh"}]
  OBVIOUS
<1>4. tree \in Trees /\ phase \in Phases /\ at \in Nat \ {0} /\ failed \in Nat /\ exit \in Nat
  BY DEF Phases
<1>5. present \subseteq Dlls /\ staged \subseteq Dlls /\ server \subseteq Servers /\ orphans \subseteq Harnesses
  OBVIOUS
<1>6. child \in {"none", "running", "closing", "dying", "exited"} /\ code \in Codes /\ script \in NoScript..MaxFailed
  BY DEF Codes, NoScript
<1>7. ValuesOK
  BY <1>2, <1>3, <1>4, <1>5, <1>6 DEF ValuesOK
<1>8. PlaceInv /\ RegistryInv
  BY DEF PlaceInv, RegistryInv, UnderHarness, Harnesses
<1>9. FreshInv /\ OrphanInv /\ ZeroIsEarned
  BY DEF FreshInv, OrphanInv, ZeroIsEarned, Harnesses
<1>10. QED BY <1>1, <1>7, <1>8, <1>9 DEF IInv, TypeOK

\* What scoring the harness does, whatever its code.
LEMMA Scored ==
  ASSUME NEW c, Score(c)
  PROVE  /\ results' = [results EXCEPT ![at] = c]
         /\ orphans' = IF child = "exited" THEN orphans ELSE orphans \union {at}
         /\ child' = "none" /\ at' = at + 1 /\ phase' = "loop"
         /\ UNCHANGED <<tree, noBuild, scripts, exes, failed, present, staged, server, refused>>
         /\ UNCHANGED <<code, script, threw, exit>>
BY DEF Score, Go, switches, files, registry, ending

LEMMA ScoreValues ==
  ASSUME ValuesOK, at \in Harnesses, NEW c \in Codes \union {NoCode}, Score(c) PROVE ValuesOK'
<1>1. (results \in [Harnesses -> Codes \union {NoCode, Unrun}])'
  BY Scored DEF ValuesOK
<1>2. (orphans \subseteq Harnesses)'
  BY Scored DEF ValuesOK
<1>3. (at \in Nat \ {0})'
  BY Scored DEF ValuesOK
<1>4. (phase \in Phases /\ child \in {"none", "running", "closing", "dying", "exited"})'
  BY Scored DEF Phases
<1>5. UNCHANGED <<tree, exes, failed, present, staged, server, code, script, exit>>
  BY Scored
<1>6. QED BY <1>1, <1>2, <1>3, <1>4, <1>5 DEF ValuesOK

\* Every variable keeps to its values.
LEMMA ValuesHold == ASSUME ValuesOK, PlaceInv, [Next]_vars PROVE ValuesOK'
<1> USE DEF ValuesOK, Phases, Codes, At, Go, switches, files, registry, process, tallies,
       ending
<1>1. CASE SkipBuild
  BY <1>1, SuiteAssumption DEF SkipBuild, AfterBuild
<1>2. CASE NoTools
  BY <1>2, SuiteAssumption DEF NoTools, Throw
<1>3. CASE BuildServer
  <2>1. (present \subseteq Dlls)'
    <3>1. at \in 1..3 => ServerProjects[at] \in Dlls
      BY DEF ServerProjects, Dlls, Servers
    <3>2. at \in 1..3
      BY <1>3 DEF BuildServer
    <3>3. QED BY <1>3, <3>1, <3>2 DEF BuildServer, Throw
  <2>2. (phase \in Phases /\ at \in Nat \ {0} /\ exit \in Nat)'
    BY <1>3 DEF BuildServer, Throw
  <2>3. UNCHANGED <<tree, exes, failed, staged, server, child, code, orphans, results, script>>
    BY <1>3 DEF BuildServer
  <2>4. QED BY <2>1, <2>2, <2>3
<1>4. CASE BuildSolution
  BY <1>4, SuiteAssumption DEF BuildSolution, Throw, AfterBuild
<1>5. CASE Compile
  BY <1>5, SuiteAssumption DEF Compile
<1>6. CASE CompiledAll
  BY <1>6, SuiteAssumption DEF CompiledAll, Throw, AfterBuild
<1>7. CASE Stage
  BY <1>7, SuiteAssumption DEF Stage, Copied, Throw
<1>8. CASE CheckStaged
  BY <1>8, SuiteAssumption DEF CheckStaged, Throw
<1>9. CASE RegisterMsgcore
  <2>1. (server \subseteq Servers)'
    BY <1>9 DEF RegisterMsgcore, Throw, Servers
  <2>2. (phase \in Phases /\ exit \in Nat)'
    BY <1>9 DEF RegisterMsgcore, Throw
  <2>3. UNCHANGED <<tree, at, exes, failed, present, staged, child, code, orphans, results, script>>
    BY <1>9 DEF RegisterMsgcore
  <2>4. QED BY <2>1, <2>2, <2>3
<1>10. CASE RegisterTarget
  <2>1. (server \subseteq Servers)'
    BY <1>10 DEF RegisterTarget, Unregister, Throw, Servers
  <2>2. (phase \in Phases /\ exit \in Nat)'
    BY <1>10 DEF RegisterTarget, Throw
  <2>3. UNCHANGED <<tree, at, exes, failed, present, staged, child, code, orphans, results, script>>
    BY <1>10 DEF RegisterTarget
  <2>4. QED BY <2>1, <2>2, <2>3
<1>11. CASE StartHarness
  BY <1>11, SuiteAssumption DEF StartHarness
<1>12. CASE MissingExe
  BY <1>12, SuiteAssumption DEF MissingExe, Throw
<1>13. CASE ReadToEnd
  BY <1>13, SuiteAssumption DEF ReadToEnd
<1>14. CASE WaitReturns
  BY <1>14, ScoreValues DEF WaitReturns, PlaceInv, UnderHarness, NoCode
<1>15. CASE WaitTimesOut
  BY <1>15, SuiteAssumption DEF WaitTimesOut
<1>16. CASE KillQuietly
  BY <1>16, SuiteAssumption DEF KillQuietly, KillLands
<1>17. CASE KillOrThrow
  <2>1. at \in Harnesses
    BY <1>17 DEF KillOrThrow, PlaceInv, UnderHarness
  <2>2. (orphans \subseteq Harnesses /\ child \in {"none", "running", "closing", "dying", "exited"})'
    BY <1>17, <2>1 DEF KillOrThrow, KillLands
  <2>3. (phase \in Phases /\ exit \in Nat)' /\ UNCHANGED code
    BY <1>17 DEF KillOrThrow, KillLands, Throw
  <2>4. UNCHANGED <<tree, at, exes, failed, present, staged, server, results, script>>
    BY <1>17 DEF KillOrThrow
  <2>5. QED BY <2>2, <2>3, <2>4
<1>18. CASE ScoreKilled
  BY <1>18, ScoreValues DEF ScoreKilled, PlaceInv, UnderHarness
<1>19. CASE ScoreUnread
  <2>1. at \in Harnesses
    BY <1>19 DEF ScoreUnread, PlaceInv, UnderHarness
  <2>2. CASE \E c \in IF child = "exited" THEN {code, NoCode} ELSE {NoCode} : Score(c)
    BY <2>1, <2>2, ScoreValues
  <2>3. CASE child # "exited" /\ Throw /\ orphans' = orphans \union {at} /\ child' = "none"
             /\ UNCHANGED <<switches, at, files, registry, code, tallies>>
    BY <2>1, <2>3 DEF Throw
  <2>4. QED BY <1>19, <2>2, <2>3 DEF ScoreUnread
<1>20. CASE LoopEnds
  BY <1>20, SuiteAssumption DEF LoopEnds
<1>21. CASE RunScript
  <2>1. (script \in NoScript..MaxFailed)'
    BY <1>21, SuiteAssumption DEF RunScript, NoScript
  <2>2. (phase \in Phases /\ exit \in Nat)'
    BY <1>21 DEF RunScript, Throw
  <2>3. UNCHANGED <<tree, at, exes, failed, present, staged, server, child, code, orphans, results>>
    BY <1>21 DEF RunScript
  <2>4. QED BY <2>1, <2>2, <2>3
<1>22. CASE UnregisterTarget
  BY <1>22, SuiteAssumption DEF UnregisterTarget, Unregister
<1>23. CASE UnregisterMsgcore
  BY <1>23, SuiteAssumption DEF UnregisterMsgcore, Unregister
<1>24. CASE Summary
  <2>1. Bad \in SUBSET Harnesses /\ IsFiniteSet(Harnesses)
    BY FS_Interval, SuiteAssumption DEF Bad, Harnesses
  <2>2. Cardinality(Bad) \in Nat
    BY <2>1, FS_Subset, FS_CardinalityType
  <2>3. (phase \in Phases /\ exit \in Nat)'
    BY <1>24, <2>2 DEF Summary
  <2>4. UNCHANGED <<tree, at, exes, failed, present, staged, server, child, code, orphans, results, script>>
    BY <1>24 DEF Summary
  <2>5. QED BY <2>3, <2>4
<1>25. CASE ChildExits
  BY <1>25, SuiteAssumption DEF ChildExits
<1>26. CASE ChildDies
  <2>1. (code \in Codes /\ child \in {"none", "running", "closing", "dying", "exited"})'
    BY <1>26 DEF ChildDies, Killed
  <2>2. UNCHANGED <<tree, phase, at, exes, failed, present, staged, server, orphans, results, script, exit>>
    BY <1>26 DEF ChildDies
  <2>3. QED BY <2>1, <2>2
<1>27. CASE ChildCloses
  BY <1>27, SuiteAssumption DEF ChildCloses
<1>28. CASE OrphanExits
  BY <1>28, SuiteAssumption DEF OrphanExits
<1>29. CASE UNCHANGED vars
  BY <1>29 DEF vars
<1>30. QED BY <1>1, <1>2, <1>3, <1>4, <1>5, <1>6, <1>7, <1>8, <1>9, <1>10, <1>11, <1>12,
       <1>13, <1>14, <1>15, <1>16, <1>17, <1>18, <1>19, <1>20, <1>21, <1>22, <1>23, <1>24,
       <1>25, <1>26, <1>27, <1>28, <1>29 DEF Next, RunnerNext

\* The runner is where its tree and its harness allow.
LEMMA PlaceHolds == ASSUME ValuesOK, PlaceInv, [Next]_vars PROVE PlaceInv'
<1> USE DEF PlaceInv, UnderHarness, ComTrees, Harnesses, At, Go, switches, files, registry,
       process, tallies, ending
<1>1. CASE SkipBuild
  BY <1>1, SuiteAssumption DEF SkipBuild, AfterBuild
<1>2. CASE NoTools
  BY <1>2, SuiteAssumption DEF NoTools, Throw
<1>3. CASE BuildServer
  BY <1>3, SuiteAssumption DEF BuildServer, Throw
<1>4. CASE BuildSolution
  BY <1>4, SuiteAssumption DEF BuildSolution, Throw, AfterBuild
<1>5. CASE Compile
  BY <1>5, SuiteAssumption DEF Compile
<1>6. CASE CompiledAll
  BY <1>6, SuiteAssumption DEF CompiledAll, Throw, AfterBuild
<1>7. CASE Stage
  BY <1>7, SuiteAssumption DEF Stage, Copied, Throw
<1>8. CASE CheckStaged
  BY <1>8, SuiteAssumption DEF CheckStaged, Throw
<1>9. CASE RegisterMsgcore
  BY <1>9, SuiteAssumption DEF RegisterMsgcore, CanRegister, Throw
<1>10. CASE RegisterTarget
  BY <1>10, SuiteAssumption DEF RegisterTarget, CanRegister, Unregister, Throw
<1>11. CASE StartHarness
  <2>1. at \in Harnesses
    BY <1>11, SuiteAssumption DEF StartHarness, ValuesOK
  <2>2. QED BY <1>11, <2>1 DEF StartHarness
<1>12. CASE MissingExe
  BY <1>12, SuiteAssumption DEF MissingExe, Throw
<1>13. CASE ReadToEnd
  BY <1>13, SuiteAssumption DEF ReadToEnd
<1>14. CASE WaitReturns
  BY <1>14, SuiteAssumption DEF WaitReturns, Score
<1>15. CASE WaitTimesOut
  BY <1>15, SuiteAssumption DEF WaitTimesOut
<1>16. CASE KillQuietly
  BY <1>16, SuiteAssumption DEF KillQuietly, KillLands
<1>17. CASE KillOrThrow
  BY <1>17, SuiteAssumption DEF KillOrThrow, KillLands, Throw
<1>18. CASE ScoreKilled
  BY <1>18, SuiteAssumption DEF ScoreKilled, Score
<1>19. CASE ScoreUnread
  BY <1>19, SuiteAssumption DEF ScoreUnread, Score, Throw
<1>20. CASE LoopEnds
  BY <1>20, SuiteAssumption DEF LoopEnds
<1>21. CASE RunScript
  BY <1>21, SuiteAssumption DEF RunScript, Throw
<1>22. CASE UnregisterTarget
  BY <1>22, SuiteAssumption DEF UnregisterTarget, Unregister
<1>23. CASE UnregisterMsgcore
  BY <1>23, SuiteAssumption DEF UnregisterMsgcore, Unregister
<1>24. CASE Summary
  BY <1>24, SuiteAssumption DEF Summary
<1>25. CASE ChildExits
  BY <1>25, SuiteAssumption DEF ChildExits
<1>26. CASE ChildDies
  BY <1>26, SuiteAssumption DEF ChildDies
<1>27. CASE ChildCloses
  BY <1>27, SuiteAssumption DEF ChildCloses
<1>28. CASE OrphanExits
  BY <1>28, SuiteAssumption DEF OrphanExits
<1>29. CASE UNCHANGED vars
  BY <1>29 DEF vars
<1>30. QED BY <1>1, <1>2, <1>3, <1>4, <1>5, <1>6, <1>7, <1>8, <1>9, <1>10, <1>11, <1>12,
       <1>13, <1>14, <1>15, <1>16, <1>17, <1>18, <1>19, <1>20, <1>21, <1>22, <1>23, <1>24,
       <1>25, <1>26, <1>27, <1>28, <1>29 DEF Next, RunnerNext

LEMMA OneTree == ASSUME ValuesOK PROVE tree \in {"com", "net", "direct", "field", "facade"}
BY DEF ValuesOK, Trees, ComTrees

\* What is registered follows from where the runner is.
LEMMA RegistryHolds == ASSUME ValuesOK, PlaceInv, RegistryInv, [Next]_vars PROVE RegistryInv'
<1> USE DEF RegistryInv, UnderHarness, Servers, Dlls, At, Go, switches, files, registry,
       process, tallies, ending
<1>1. CASE SkipBuild
  BY <1>1, OneTree DEF SkipBuild, AfterBuild, ComTrees
<1>2. CASE NoTools
  BY <1>2 DEF NoTools, Throw
<1>3. CASE BuildServer
  BY <1>3 DEF BuildServer, Throw
<1>4. CASE BuildSolution
  BY <1>4, OneTree DEF BuildSolution, Throw, AfterBuild, ComTrees
<1>5. CASE Compile
  BY <1>5 DEF Compile
<1>6. CASE CompiledAll
  BY <1>6, OneTree DEF CompiledAll, Throw, AfterBuild, ComTrees
<1>7. CASE Stage
  BY <1>7 DEF Stage, Copied, Throw
<1>8. CASE CheckStaged
  BY <1>8 DEF CheckStaged, Throw
<1>9. CASE RegisterMsgcore
  BY <1>9 DEF RegisterMsgcore, CanRegister, Throw, PlaceInv
<1>10. CASE RegisterTarget
  <2>1. Dlls \subseteq Chain["MsgcoreCom"] \union Chain["TargetCom"]
    BY DEF Chain
  <2>2. tree \in ComTrees /\ server = {"MsgcoreCom"} /\ Chain["MsgcoreCom"] \subseteq staged
    BY <1>10 DEF RegisterTarget, PlaceInv
  <2>3. CASE phase' = "loop"
    BY <1>10, <2>1, <2>2, <2>3 DEF RegisterTarget, CanRegister, Throw
  <2>4. CASE phase' # "loop"
    BY <1>10, <2>2, <2>4 DEF RegisterTarget, Throw, Unregister
  <2>5. QED BY <2>3, <2>4
<1>11. CASE StartHarness
  BY <1>11 DEF StartHarness
<1>12. CASE MissingExe
  BY <1>12 DEF MissingExe, Throw
<1>13. CASE ReadToEnd
  BY <1>13 DEF ReadToEnd
<1>14. CASE WaitReturns
  BY <1>14, Scored DEF WaitReturns
<1>15. CASE WaitTimesOut
  BY <1>15 DEF WaitTimesOut
<1>16. CASE KillQuietly
  BY <1>16 DEF KillQuietly, KillLands
<1>17. CASE KillOrThrow
  BY <1>17 DEF KillOrThrow, KillLands, Throw
<1>18. CASE ScoreKilled
  BY <1>18, Scored DEF ScoreKilled
<1>19. CASE ScoreUnread
  <2>1. tree \notin ComTrees /\ UNCHANGED <<tree, server, refused, staged>>
    BY <1>19, Scored DEF ScoreUnread, PlaceInv, ComTrees
  <2>2. phase' \in {"loop", "over"}
    BY <1>19, Scored DEF ScoreUnread, Throw
  <2>3. QED BY <2>1, <2>2
<1>20. CASE LoopEnds
  BY <1>20 DEF LoopEnds
<1>21. CASE RunScript
  BY <1>21 DEF RunScript, Throw
<1>22. CASE UnregisterTarget
  <2>1. server \subseteq Servers
    BY DEF ValuesOK
  <2>2. QED BY <1>22, <2>1 DEF UnregisterTarget, Unregister, PlaceInv
<1>23. CASE UnregisterMsgcore
  BY <1>23 DEF UnregisterMsgcore, Unregister
<1>24. CASE Summary
  BY <1>24 DEF Summary
<1>25. CASE ChildExits
  BY <1>25 DEF ChildExits
<1>26. CASE ChildDies
  BY <1>26 DEF ChildDies
<1>27. CASE ChildCloses
  BY <1>27 DEF ChildCloses
<1>28. CASE OrphanExits
  BY <1>28 DEF OrphanExits
<1>29. CASE UNCHANGED vars
  BY <1>29 DEF vars
<1>30. QED BY <1>1, <1>2, <1>3, <1>4, <1>5, <1>6, <1>7, <1>8, <1>9, <1>10, <1>11, <1>12,
       <1>13, <1>14, <1>15, <1>16, <1>17, <1>18, <1>19, <1>20, <1>21, <1>22, <1>23, <1>24,
       <1>25, <1>26, <1>27, <1>28, <1>29 DEF Next, RunnerNext

\* No executable of an earlier run outlives the build.
LEMMA FreshHolds == ASSUME ValuesOK, PlaceInv, FreshInv, [Next]_vars PROVE FreshInv'
<1> USE DEF FreshInv, Harnesses, At, Go, switches, files, registry, process, tallies, ending
<1>1. CASE SkipBuild
  BY <1>1 DEF SkipBuild, AfterBuild
<1>2. CASE NoTools
  BY <1>2 DEF NoTools, Throw
<1>3. CASE BuildServer
  BY <1>3 DEF BuildServer, Throw
<1>4. CASE BuildSolution
  BY <1>4 DEF BuildSolution, Throw, AfterBuild
<1>5. CASE Compile
  <2>1. at \in Nat \ {0} /\ failed \in Nat /\ exes \in [Harnesses -> {"missing", "stale", "fresh"}]
    BY DEF ValuesOK
  <2>2. QED BY <1>5, <2>1, SuiteAssumption DEF Compile
<1>6. CASE CompiledAll
  <2>1. failed \in Nat
    BY DEF ValuesOK
  <2>2. CASE failed > 0
    BY <1>6, <2>2 DEF CompiledAll, Throw, ComTrees
  <2>3. CASE failed = 0
    <3>1. \A i \in Harnesses : i < at
      BY <1>6, SuiteAssumption DEF CompiledAll
    <3>2. phase' = "stage" \/ phase' = "check"
      BY <1>6, <2>3 DEF CompiledAll, AfterBuild
    <3>3. QED BY <1>6, <2>3, <3>1, <3>2 DEF CompiledAll
  <2>4. QED BY <2>1, <2>2, <2>3
<1>7. CASE Stage
  BY <1>7 DEF Stage, Copied, Throw
<1>8. CASE CheckStaged
  BY <1>8 DEF CheckStaged, Throw
<1>9. CASE RegisterMsgcore
  BY <1>9 DEF RegisterMsgcore, CanRegister, Throw
<1>10. CASE RegisterTarget
  BY <1>10 DEF RegisterTarget, CanRegister, Unregister, Throw
<1>11. CASE StartHarness
  BY <1>11 DEF StartHarness
<1>12. CASE MissingExe
  BY <1>12 DEF MissingExe, Throw
<1>13. CASE ReadToEnd
  BY <1>13 DEF ReadToEnd
<1>14. CASE WaitReturns
  BY <1>14 DEF WaitReturns, Score
<1>15. CASE WaitTimesOut
  BY <1>15 DEF WaitTimesOut
<1>16. CASE KillQuietly
  BY <1>16 DEF KillQuietly, KillLands
<1>17. CASE KillOrThrow
  BY <1>17 DEF KillOrThrow, KillLands, Throw
<1>18. CASE ScoreKilled
  BY <1>18 DEF ScoreKilled, Score
<1>19. CASE ScoreUnread
  BY <1>19 DEF ScoreUnread, Score, Throw
<1>20. CASE LoopEnds
  BY <1>20 DEF LoopEnds
<1>21. CASE RunScript
  BY <1>21 DEF RunScript, Throw
<1>22. CASE UnregisterTarget
  BY <1>22 DEF UnregisterTarget, Unregister
<1>23. CASE UnregisterMsgcore
  BY <1>23 DEF UnregisterMsgcore, Unregister
<1>24. CASE Summary
  BY <1>24 DEF Summary
<1>25. CASE ChildExits
  BY <1>25 DEF ChildExits
<1>26. CASE ChildDies
  BY <1>26 DEF ChildDies
<1>27. CASE ChildCloses
  BY <1>27 DEF ChildCloses
<1>28. CASE OrphanExits
  BY <1>28 DEF OrphanExits
<1>29. CASE UNCHANGED vars
  BY <1>29 DEF vars
<1>30. QED BY <1>1, <1>2, <1>3, <1>4, <1>5, <1>6, <1>7, <1>8, <1>9, <1>10, <1>11, <1>12,
       <1>13, <1>14, <1>15, <1>16, <1>17, <1>18, <1>19, <1>20, <1>21, <1>22, <1>23, <1>24,
       <1>25, <1>26, <1>27, <1>28, <1>29 DEF Next, RunnerNext

\* A harness scored while it runs is a failure, whatever it turns out to say.
LEMMA OrphanScored ==
  ASSUME ValuesOK, PlaceInv, OrphanInv, phase \in UnderHarness, NEW c, Score(c),
         child = "exited" \/ (c \notin Good /\ tree \notin ComTrees)
  PROVE  OrphanInv'
<1>1. at \in Harnesses /\ ~threw /\ at \in Nat
  BY DEF PlaceInv, UnderHarness, ValuesOK
<1>2. \A i \in orphans : i \in Nat /\ i \in Harnesses /\ i < at /\ results[i] \notin Good
  BY <1>1, SuiteAssumption DEF OrphanInv, Bad, ValuesOK, Harnesses
<1>3. results' = [results EXCEPT ![at] = c] /\ DOMAIN results = Harnesses
  BY Scored DEF ValuesOK
<1>4. Good' = Good
  BY Scored DEF Good
<1>5. \A i \in orphans' : i < at' /\ i \in Bad'
  <2>1. at' = at + 1 /\ orphans' \subseteq orphans \union {at}
    BY Scored
  <2>2. \A i \in orphans : i # at /\ i < at + 1
    BY <1>1, <1>2
  <2>3. \A i \in orphans : results'[i] = results[i]
    BY <1>2, <1>3, <2>2
  <2>4. at \in orphans' => results'[at] = c /\ c \notin Good
    <3>1. at \notin orphans
      BY <2>2
    <3>2. QED BY <1>1, <1>3, <3>1, Scored
  <2>5. \A i \in orphans' : i \in Harnesses /\ i < at' /\ results'[i] \notin Good
    BY <1>1, <1>2, <2>1, <2>2, <2>3, <2>4
  <2>6. QED BY <1>4, <2>5 DEF Bad
<1>6. tree' \in ComTrees => orphans' = {}
  BY <1>1, Scored DEF OrphanInv
<1>7. QED BY <1>5, <1>6, Scored DEF OrphanInv

\* What is left running counts as failed.
LEMMA OrphanHolds == ASSUME ValuesOK, PlaceInv, OrphanInv, [Next]_vars PROVE OrphanInv'
<1> USE DEF OrphanInv, Bad, Good, At, Go, switches, files, registry, process, tallies,
       ending
<1>1. CASE SkipBuild
  BY <1>1 DEF SkipBuild, AfterBuild
<1>2. CASE NoTools
  BY <1>2 DEF NoTools, Throw
<1>3. CASE BuildServer
  BY <1>3 DEF BuildServer, Throw
<1>4. CASE BuildSolution
  BY <1>4 DEF BuildSolution, Throw, AfterBuild
<1>5. CASE Compile
  BY <1>5 DEF Compile
<1>6. CASE CompiledAll
  BY <1>6 DEF CompiledAll, Throw, AfterBuild
<1>7. CASE Stage
  BY <1>7 DEF Stage, Copied, Throw
<1>8. CASE CheckStaged
  BY <1>8 DEF CheckStaged, Throw
<1>9. CASE RegisterMsgcore
  BY <1>9 DEF RegisterMsgcore, CanRegister, Throw
<1>10. CASE RegisterTarget
  BY <1>10 DEF RegisterTarget, CanRegister, Unregister, Throw
<1>11. CASE StartHarness
  BY <1>11 DEF StartHarness
<1>12. CASE MissingExe
  BY <1>12 DEF MissingExe, Throw
<1>13. CASE ReadToEnd
  BY <1>13 DEF ReadToEnd
<1>14. CASE WaitReturns
  BY <1>14, OrphanScored DEF WaitReturns, UnderHarness
<1>15. CASE WaitTimesOut
  BY <1>15 DEF WaitTimesOut
<1>16. CASE KillQuietly
  BY <1>16 DEF KillQuietly, KillLands
<1>17. CASE KillOrThrow
  BY <1>17 DEF KillOrThrow, KillLands, Throw
<1>18. CASE ScoreKilled
  <2>1. CASE child = "exited"
    BY <1>18, <2>1, OrphanScored DEF ScoreKilled, UnderHarness
  <2>2. CASE child # "exited"
    <3>1. tree \notin ComTrees /\ Score(3)
      BY <1>18, <2>2 DEF ScoreKilled, ComTrees
    <3>2. QED BY <1>18, <3>1, OrphanScored DEF ScoreKilled, UnderHarness
  <2>3. QED BY <2>1, <2>2
<1>19. CASE ScoreUnread
  <2>1. tree \notin ComTrees
    BY <1>19 DEF ScoreUnread, PlaceInv, ComTrees
  <2>2. CASE \E c \in IF child = "exited" THEN {code, NoCode} ELSE {NoCode} : Score(c)
    BY <1>19, <2>1, <2>2, OrphanScored DEF ScoreUnread, UnderHarness, NoCode
  <2>3. CASE threw' = TRUE /\ phase' = "over"
    BY <2>3
  <2>4. QED BY <1>19, <2>1, <2>2, <2>3 DEF ScoreUnread, Throw
<1>20. CASE LoopEnds
  BY <1>20 DEF LoopEnds
<1>21. CASE RunScript
  BY <1>21 DEF RunScript, Throw
<1>22. CASE UnregisterTarget
  BY <1>22 DEF UnregisterTarget, Unregister
<1>23. CASE UnregisterMsgcore
  BY <1>23 DEF UnregisterMsgcore, Unregister
<1>24. CASE Summary
  BY <1>24 DEF Summary
<1>25. CASE ChildExits
  BY <1>25 DEF ChildExits
<1>26. CASE ChildDies
  BY <1>26 DEF ChildDies
<1>27. CASE ChildCloses
  BY <1>27 DEF ChildCloses
<1>28. CASE OrphanExits
  BY <1>28 DEF OrphanExits
<1>29. CASE UNCHANGED vars
  BY <1>29 DEF vars
<1>30. QED BY <1>1, <1>2, <1>3, <1>4, <1>5, <1>6, <1>7, <1>8, <1>9, <1>10, <1>11, <1>12,
       <1>13, <1>14, <1>15, <1>16, <1>17, <1>18, <1>19, <1>20, <1>21, <1>22, <1>23, <1>24,
       <1>25, <1>26, <1>27, <1>28, <1>29 DEF Next, RunnerNext

\* The runner only reports success in its summary.
LEMMA ZeroHolds == ASSUME ValuesOK, PlaceInv, OrphanInv, ZeroIsEarned, [Next]_vars PROVE ZeroIsEarned'
<1> USE DEF ZeroIsEarned, At, Go, switches, files, registry, process, tallies, ending
<1>1. CASE SkipBuild
  BY <1>1 DEF SkipBuild, AfterBuild
<1>2. CASE NoTools
  BY <1>2 DEF NoTools, Throw
<1>3. CASE BuildServer
  BY <1>3 DEF BuildServer, Throw
<1>4. CASE BuildSolution
  BY <1>4 DEF BuildSolution, Throw, AfterBuild
<1>5. CASE Compile
  BY <1>5 DEF Compile
<1>6. CASE CompiledAll
  BY <1>6 DEF CompiledAll, Throw, AfterBuild
<1>7. CASE Stage
  BY <1>7 DEF Stage, Copied, Throw
<1>8. CASE CheckStaged
  BY <1>8 DEF CheckStaged, Throw
<1>9. CASE RegisterMsgcore
  BY <1>9 DEF RegisterMsgcore, CanRegister, Throw
<1>10. CASE RegisterTarget
  BY <1>10 DEF RegisterTarget, CanRegister, Unregister, Throw
<1>11. CASE StartHarness
  BY <1>11 DEF StartHarness
<1>12. CASE MissingExe
  BY <1>12 DEF MissingExe, Throw
<1>13. CASE ReadToEnd
  BY <1>13 DEF ReadToEnd
<1>14. CASE WaitReturns
  BY <1>14 DEF WaitReturns, Score
<1>15. CASE WaitTimesOut
  BY <1>15 DEF WaitTimesOut
<1>16. CASE KillQuietly
  BY <1>16 DEF KillQuietly, KillLands
<1>17. CASE KillOrThrow
  BY <1>17 DEF KillOrThrow, KillLands, Throw
<1>18. CASE ScoreKilled
  BY <1>18 DEF ScoreKilled, Score
<1>19. CASE ScoreUnread
  BY <1>19 DEF ScoreUnread, Score, Throw
<1>20. CASE LoopEnds
  BY <1>20 DEF LoopEnds
<1>21. CASE RunScript
  BY <1>21 DEF RunScript, Throw
<1>22. CASE UnregisterTarget
  BY <1>22 DEF UnregisterTarget, Unregister
<1>23. CASE UnregisterMsgcore
  BY <1>23 DEF UnregisterMsgcore, PlaceInv
<1>24. CASE Summary
  <2>1. Bad \in SUBSET Harnesses /\ IsFiniteSet(Bad) /\ Cardinality(Bad) \in Nat
    <3>1. IsFiniteSet(1..N)
      BY FS_Interval, SuiteAssumption
    <3>2. Bad \in SUBSET (1..N)
      BY DEF Bad, Harnesses
    <3>3. IsFiniteSet(Bad)
      BY <3>1, <3>2, FS_Subset
    <3>4. QED BY <3>2, <3>3, FS_CardinalityType DEF Harnesses
  <2>2. ~threw /\ child = "none"
    BY <1>24 DEF Summary, PlaceInv, UnderHarness
  <2>3. UNCHANGED <<tree, threw, orphans, results, script>>
    BY <1>24 DEF Summary
  <2>4. ASSUME exit' = 0 PROVE Bad = {} /\ script <= 1
    <3>1. Cardinality(Bad) = 0 /\ script \in {NoScript, 0, 1}
      BY <1>24, <2>1, <2>4 DEF Summary
    <3>2. QED BY <2>1, <3>1, FS_EmptySet DEF NoScript
  <2>5. Good' = Good
    BY <2>3 DEF Good
  <2>6. exit' = 0 => orphans = {} /\ \A i \in Harnesses : results[i] \in Good
    BY <2>2, <2>4 DEF OrphanInv, Bad
  <2>7. QED BY <2>2, <2>3, <2>4, <2>5, <2>6
<1>25. CASE ChildExits
  BY <1>25 DEF ChildExits, PlaceInv, UnderHarness
<1>26. CASE ChildDies
  BY <1>26 DEF ChildDies, PlaceInv, UnderHarness
<1>27. CASE ChildCloses
  BY <1>27 DEF ChildCloses, PlaceInv, UnderHarness
<1>28. CASE OrphanExits
  <2>1. UNCHANGED <<tree, phase, exit, threw, results, script>> /\ orphans' \subseteq orphans
    BY <1>28 DEF OrphanExits
  <2>2. Good' = Good
    BY <2>1 DEF Good
  <2>3. QED BY <2>1, <2>2
<1>29. CASE UNCHANGED vars
  BY <1>29 DEF vars, Good
<1>30. QED BY <1>1, <1>2, <1>3, <1>4, <1>5, <1>6, <1>7, <1>8, <1>9, <1>10, <1>11, <1>12,
       <1>13, <1>14, <1>15, <1>16, <1>17, <1>18, <1>19, <1>20, <1>21, <1>22, <1>23, <1>24,
       <1>25, <1>26, <1>27, <1>28, <1>29 DEF Next, RunnerNext

\* The switches are what they were given as; the other flags are only ever raised.
LEMMA FlagsHold == ASSUME FlagsOK, [Next]_vars PROVE FlagsOK'
<1>1. /\ UNCHANGED <<noBuild, scripts>>
      /\ refused' = refused \/ refused' = TRUE
      /\ threw' = threw \/ threw' = TRUE
  <2> USE DEF At, Go, switches, files, registry, process, tallies, ending
  <2>1. CASE SkipBuild
    BY <2>1 DEF SkipBuild
  <2>2. CASE NoTools
    BY <2>2 DEF NoTools, Throw
  <2>3. CASE BuildServer
    BY <2>3 DEF BuildServer, Throw
  <2>4. CASE BuildSolution
    BY <2>4 DEF BuildSolution, Throw
  <2>5. CASE Compile
    BY <2>5 DEF Compile
  <2>6. CASE CompiledAll
    BY <2>6 DEF CompiledAll, Throw
  <2>7. CASE Stage
    BY <2>7 DEF Stage, Throw
  <2>8. CASE CheckStaged
    BY <2>8 DEF CheckStaged, Throw
  <2>9. CASE RegisterMsgcore
    BY <2>9 DEF RegisterMsgcore, Throw
  <2>10. CASE RegisterTarget
    BY <2>10 DEF RegisterTarget, Unregister, Throw
  <2>11. CASE StartHarness
    BY <2>11 DEF StartHarness
  <2>12. CASE MissingExe
    BY <2>12 DEF MissingExe, Throw
  <2>13. CASE ReadToEnd
    BY <2>13 DEF ReadToEnd
  <2>14. CASE WaitReturns
    BY <2>14, Scored DEF WaitReturns
  <2>15. CASE WaitTimesOut
    BY <2>15 DEF WaitTimesOut
  <2>16. CASE KillQuietly
    BY <2>16 DEF KillQuietly
  <2>17. CASE KillOrThrow
    BY <2>17 DEF KillOrThrow, Throw
  <2>18. CASE ScoreKilled
    BY <2>18, Scored DEF ScoreKilled
  <2>19. CASE ScoreUnread
    BY <2>19, Scored DEF ScoreUnread, Throw
  <2>20. CASE LoopEnds
    BY <2>20 DEF LoopEnds
  <2>21. CASE RunScript
    BY <2>21 DEF RunScript, Throw
  <2>22. CASE UnregisterTarget
    BY <2>22 DEF UnregisterTarget, Unregister
  <2>23. CASE UnregisterMsgcore
    BY <2>23 DEF UnregisterMsgcore, Unregister
  <2>24. CASE Summary
    BY <2>24 DEF Summary
  <2>25. CASE ChildExits
    BY <2>25 DEF ChildExits
  <2>26. CASE ChildDies
    BY <2>26 DEF ChildDies
  <2>27. CASE ChildCloses
    BY <2>27 DEF ChildCloses
  <2>28. CASE OrphanExits
    BY <2>28 DEF OrphanExits
  <2>29. CASE UNCHANGED vars
    BY <2>29 DEF vars
  <2>30. QED BY <2>1, <2>2, <2>3, <2>4, <2>5, <2>6, <2>7, <2>8, <2>9, <2>10, <2>11, <2>12,
       <2>13, <2>14, <2>15, <2>16, <2>17, <2>18, <2>19, <2>20, <2>21, <2>22, <2>23, <2>24,
       <2>25, <2>26, <2>27, <2>28, <2>29 DEF Next, RunnerNext
<1>2. QED BY <1>1, Zenon DEF FlagsOK

LEMMA InvHolds == ASSUME IInv, [Next]_vars PROVE IInv'
BY FlagsHold, ValuesHold, PlaceHolds, RegistryHolds, FreshHolds, OrphanHolds, ZeroHolds
   DEF IInv, TypeOK

\* Whatever the harnesses and regsvr32 do, the run is where it should be, with what it
\* needs registered and with every harness it left running counted as failed.
THEOREM Invariant == Spec => []IInv
<1>1. Init => IInv
  BY InitHolds
<1>2. IInv /\ [Next]_vars => IInv'
  BY InvHolds
<1>3. QED BY <1>1, <1>2, PTL DEF Spec

\* Every variable of the runner keeps to its values.
THEOREM TypeCorrect == Spec => []TypeOK
<1>1. IInv => TypeOK
  BY DEF IInv
<1>2. QED BY <1>1, Invariant, PTL

\* No harness runs without the servers and the DLLs it needs, or from an executable of
\* an earlier build.
THEOREM PreparedCorrect == Spec => []RunsPrepared
<1>1. IInv => RunsPrepared
  BY DEF IInv, TypeOK, PlaceInv, RegistryInv, FreshInv, OrphanInv, RunsPrepared, UnderHarness
<1>2. QED BY <1>1, Invariant, PTL

\* However the run ends, a server stays registered only if regsvr32 /u refused.
THEOREM RemovedCorrect == Spec => []RemovedUnlessRefused
<1>1. IInv => RemovedUnlessRefused
  BY DEF IInv, RegistryInv, RemovedUnlessRefused
<1>2. QED BY <1>1, Invariant, PTL

\* Exit code 0 means that every harness ran and none of them failed.
THEOREM ZeroCorrect == Spec => []ZeroIsEarned
<1>1. IInv => ZeroIsEarned
  BY DEF IInv
<1>2. QED BY <1>1, Invariant, PTL

-------------------------------------------------------------------------------
(* The hook.  The invariant says of every push that is being decided or    *)
(* sent that the lines of master the hook has passed are allowed: their    *)
(* commit has gone green and descends from the position they were          *)
(* advertised.  That stays true while CI runs end and other pushes land,   *)
(* and the remote's own test of the advertised position carries it over to *)
(* the ref.                                                                *)


\* A push starts with one line for each ref, none of them passed yet.
LEMMA StartType ==
  ASSUME PushTypeOK, NEW p \in Pusher, StartPush(p)
  PROVE  lines' \in [Pusher -> Seq(RefLine)]
<1>1. PICK push \in Pushes :
        lines' = [lines EXCEPT ![p] =
                    [i \in DOMAIN push |-> [ref |-> push[i].ref, local |-> push[i].local,
                                            remote |-> remote[push[i].ref]]]]
  BY DEF StartPush
<1>2. push \in Seq(PushLine)
  BY PushesAssumption
<1>3. DOMAIN push = 1..Len(push) /\ Len(push) \in Nat
  BY <1>2
<1>4. \A i \in 1..Len(push) : push[i] \in PushLine
  BY <1>2
<1>5. \A i \in 1..Len(push) : remote[push[i].ref] \in Commit \cup {ZERO}
  BY <1>4 DEF PushTypeOK, PushLine
<1>6. [i \in 1..Len(push) |-> [ref |-> push[i].ref, local |-> push[i].local,
                                remote |-> remote[push[i].ref]]] \in Seq(RefLine)
  BY <1>3, <1>4, <1>5 DEF RefLine, PushLine
<1>7. QED BY <1>1, <1>3, <1>6 DEF PushTypeOK

LEMMA TypeInit == PushInit => PushTypeOK
BY CommitAssumption, MaxRunsAssumption DEF PushInit, PushTypeOK, Ref, CIState, HookState, PROTECTED

LEMMA TypeInductive == ASSUME PushTypeOK, [PushNext]_pushVars PROVE PushTypeOK'
<1> USE DEF PushTypeOK
<1>1. ASSUME NEW p \in Pusher, StartPush(p) PROVE PushTypeOK'
  <2>1. lines' \in [Pusher -> Seq(RefLine)]
    BY <1>1, StartType
  <2>2. hook' \in [Pusher -> HookState] /\ nLine' \in [Pusher -> Nat \ {0}]
    BY <1>1 DEF StartPush, HookState
  <2>3. UNCHANGED <<remote, ci, nRuns, green>>
    BY <1>1 DEF StartPush
  <2>4. QED BY <2>1, <2>2, <2>3
<1>2. ASSUME NEW p \in Pusher, HookStep(p) PROVE PushTypeOK'
  <2>1. hook' \in [Pusher -> HookState]
    BY <1>2 DEF HookStep, SkipLine, RefuseDeletion, RefuseRewrite, PassAncestry, RefuseUnknown,
                RefuseUnverified, AllowGreen, Exit0, Step, HookState
  <2>2. nLine' \in [Pusher -> Nat \ {0}]
    BY <1>2 DEF HookStep, SkipLine, RefuseDeletion, RefuseRewrite, PassAncestry, RefuseUnknown,
                RefuseUnverified, AllowGreen, Exit0, NextLine
  <2>3. UNCHANGED <<remote, ci, nRuns, green, lines>>
    BY <1>2 DEF HookStep, SkipLine, RefuseDeletion, RefuseRewrite, PassAncestry, RefuseUnknown,
                RefuseUnverified, AllowGreen, Exit0, Step
  <2>4. QED BY <2>1, <2>2, <2>3
<1>3. ASSUME NEW p \in Pusher, Push(p) PROVE PushTypeOK'
  <2>1. Len(lines[p]) \in Nat /\ \A i \in 1..Len(lines[p]) : lines[p][i] \in RefLine
    OBVIOUS
  <2>2. \A i \in Taken(p) : lines[p][i].local \in Commit \cup {ZERO}
    BY <2>1 DEF Taken, RefLine
  <2>3. remote' \in [Ref -> Commit \cup {ZERO}]
    BY <1>3, <2>2 DEF Push
  <2>4. ci' \in [Commit -> CIState]
    BY <1>3 DEF Push, CIState
  <2>5. nRuns' \in [Commit -> 0..MaxRuns]
    BY <1>3, MaxRunsAssumption DEF Push
  <2>6. lines' \in [Pusher -> Seq(RefLine)] /\ nLine' \in [Pusher -> Nat \ {0}]
    BY <1>3 DEF Push
  <2>7. QED BY <1>3, <2>3, <2>4, <2>5, <2>6 DEF Push, HookState
<1>4. ASSUME NEW c \in Commit, RunEnds(c) \/ Dispatch(c) PROVE PushTypeOK'
  <2>1. CASE RunEnds(c)
    BY <2>1 DEF RunEnds, CIState
  <2>2. CASE Dispatch(c)
    <3>1. nRuns' \in [Commit -> 0..MaxRuns] /\ ci' \in [Commit -> CIState]
      BY <2>2, MaxRunsAssumption DEF Dispatch, CIState
    <3>2. QED BY <2>2, <3>1 DEF Dispatch
  <2>3. QED BY <1>4, <2>1, <2>2
<1>5. CASE UNCHANGED pushVars
  BY <1>5 DEF pushVars
<1>6. QED BY <1>1, <1>2, <1>3, <1>4, <1>5 DEF PushNext

\* The lines that a push applies to master are allowed, and start where master is.
LEMMA TakenIsAllowed ==
  ASSUME PushTypeOK, HookInv, NEW p \in Pusher, hook[p] = "send", NEW i \in Taken(p),
         lines[p][i].ref = PROTECTED
  PROVE  Allowed(lines[p][i]) /\ lines[p][i].remote = remote[PROTECTED]
<1>1. i \in 1..Len(lines[p]) /\ lines[p][i].remote = remote[PROTECTED]
  BY DEF Taken
<1>2. nLine[p] \in Nat /\ Len(lines[p]) \in Nat /\ nLine[p] > Len(lines[p])
  BY DEF PushTypeOK, HookInv
<1>3. i \in Passed(p) /\ i \in DOMAIN lines[p]
  BY <1>1, <1>2 DEF Passed, PushTypeOK
<1>4. QED BY <1>1, <1>3 DEF HookInv

\* A push leaves master alone or moves it to the commit of an allowed line.
LEMMA PushMoves ==
  ASSUME PushTypeOK, HookInv, NEW p \in Pusher, Push(p)
  PROVE  \/ remote'[PROTECTED] = remote[PROTECTED]
         \/ \E l \in RefLine : /\ Allowed(l) /\ l.remote = remote[PROTECTED]
                              /\ remote'[PROTECTED] = l.local
<1>1. hook[p] = "send" /\ PROTECTED \in Ref
  BY DEF Push, PROTECTED, Ref
<1>2. CASE \E i \in Taken(p) : lines[p][i].ref = PROTECTED
  <2>1. PICK i \in Taken(p) : /\ lines[p][i].ref = PROTECTED
                              /\ remote'[PROTECTED] = lines[p][i].local
    BY <1>1, <1>2 DEF Push
  <2>2. lines[p][i] \in RefLine
    BY DEF Taken, PushTypeOK
  <2>3. QED BY <1>1, <2>1, <2>2, TakenIsAllowed
<1>3. CASE ~\E i \in Taken(p) : lines[p][i].ref = PROTECTED
  BY <1>1, <1>3 DEF Push
<1>4. QED BY <1>2, <1>3

LEMMA MasterInductive ==
  ASSUME PushIInv, [PushNext]_pushVars PROVE MasterIsVerified' /\ MovesForward(remote[PROTECTED], remote'[PROTECTED])
<1> USE DEF PushIInv, MasterIsVerified, MovesForward
<1>1. remote[PROTECTED] \in Commit /\ <<remote[PROTECTED], remote[PROTECTED]>> \in Ancestor
  BY CommitAssumption, AncestorAssumption DEF PushTypeOK
<1>2. ASSUME NEW p \in Pusher, Push(p)
      PROVE  MasterIsVerified' /\ MovesForward(remote[PROTECTED], remote'[PROTECTED])
  <2>1. green' = green
    BY <1>2 DEF Push
  <2>2. CASE remote'[PROTECTED] = remote[PROTECTED]
    BY <1>1, <2>1, <2>2
  <2>3. CASE \E l \in RefLine : /\ Allowed(l) /\ l.remote = remote[PROTECTED]
                               /\ remote'[PROTECTED] = l.local
    BY <1>1, <2>1, <2>3, CommitAssumption DEF Allowed
  <2>4. QED BY <1>2, <2>2, <2>3, PushMoves
<1>3. ASSUME ~\E p \in Pusher : Push(p)
      PROVE  MasterIsVerified' /\ MovesForward(remote[PROTECTED], remote'[PROTECTED])
  <2>1. remote' = remote /\ green \subseteq green'
    BY <1>3 DEF PushNext, pushVars, StartPush, HookStep, SkipLine, RefuseDeletion, RefuseRewrite,
                PassAncestry, RefuseUnknown, RefuseUnverified, AllowGreen, Exit0, Step,
                RunEnds, Dispatch
  <2>2. QED BY <1>1, <2>1
<1>4. QED BY <1>2, <1>3

\* What has gone green is not taken back.
LEMMA GreenInductive ==
  ASSUME PushIInv, [PushNext]_pushVars PROVE SuccessesAreGreen' /\ green \subseteq green'
<1> USE DEF PushIInv, SuccessesAreGreen
<1>1. ASSUME NEW p \in Pusher, StartPush(p) \/ HookStep(p) PROVE UNCHANGED <<ci, green>>
  BY <1>1 DEF StartPush, HookStep, SkipLine, RefuseDeletion, RefuseRewrite, PassAncestry,
              RefuseUnknown, RefuseUnverified, AllowGreen, Exit0, Step
<1>2. ASSUME NEW p \in Pusher, Push(p) PROVE SuccessesAreGreen' /\ green \subseteq green'
  BY <1>2 DEF Push
<1>3. ASSUME NEW c \in Commit, RunEnds(c) \/ Dispatch(c)
      PROVE  SuccessesAreGreen' /\ green \subseteq green'
  BY <1>3 DEF RunEnds, Dispatch, PushTypeOK
<1>4. QED BY <1>1, <1>2, <1>3 DEF PushNext, pushVars

\* A line that was allowed stays allowed.
LEMMA HookInductive == ASSUME PushIInv, [PushNext]_pushVars PROVE HookInv'
<1> USE DEF PushIInv
<1>1. green \subseteq green'
  BY GreenInductive
<1>2. \A l \in RefLine : Allowed(l) => Allowed(l)'
  BY <1>1 DEF Allowed
<1> DEFINE
  Of(q) ==
    /\ \A i \in Passed(q) \cap DOMAIN lines[q] :
         lines[q][i].ref = PROTECTED => Allowed(lines[q][i])
    /\ hook[q] = "verify" =>
         nLine[q] <= Len(lines[q]) /\ Line(q).ref = PROTECTED /\ ~Deletes(Line(q)) /\ ~Rewrites(Line(q))
    /\ hook[q] = "send" => nLine[q] > Len(lines[q])
<1>3. \A q \in Pusher : Of(q)
  BY DEF HookInv
<1>4. \A q \in Pusher : \A i \in DOMAIN lines[q] : lines[q][i] \in RefLine
  BY DEF PushTypeOK
<1>5. ASSUME NEW q \in Pusher, UNCHANGED <<hook[q], lines[q], nLine[q]>> PROVE Of(q)'
  <2>1. Passed(q)' = Passed(q) /\ Line(q)' = Line(q)
    BY <1>5 DEF Passed, Line
  <2>2. QED BY <1>2, <1>3, <1>4, <1>5, <2>1 DEF Deletes, Rewrites
<1>6. ASSUME NEW p \in Pusher, StartPush(p) PROVE \A q \in Pusher : Of(q)'
  <2>1. hook'[p] = "read" /\ nLine'[p] = 1
    BY <1>6 DEF StartPush, PushTypeOK
  <2>2. Of(p)'
    BY <2>1 DEF Passed
  <2>3. \A q \in Pusher \ {p} : UNCHANGED <<hook[q], lines[q], nLine[q]>>
    BY <1>6 DEF StartPush, PushTypeOK
  <2>4. QED BY <1>5, <2>2, <2>3
<1>7. ASSUME NEW p \in Pusher, HookStep(p) PROVE \A q \in Pusher : Of(q)'
  <2>1. lines' = lines /\ \A q \in Pusher \ {p} : UNCHANGED <<hook[q], nLine[q]>>
    BY <1>7 DEF HookStep, SkipLine, RefuseDeletion, RefuseRewrite, PassAncestry, RefuseUnknown,
                RefuseUnverified, AllowGreen, Exit0, Step, NextLine, PushTypeOK
  <2>2. nLine[p] \in Nat \ {0} /\ DOMAIN lines[p] = 1..Len(lines[p]) /\ Len(lines[p]) \in Nat
    BY DEF PushTypeOK
  <2>3. CASE RefuseDeletion(p) \/ RefuseRewrite(p) \/ RefuseUnknown(p) \/ RefuseUnverified(p)
    <3>1. hook'[p] = "refused"
      BY <2>3 DEF RefuseDeletion, RefuseRewrite, RefuseUnknown, RefuseUnverified, Step, PushTypeOK
    <3>2. Of(p)'
      BY <3>1 DEF Passed
    <3>3. QED BY <1>5, <2>1, <3>2
  <2>4. CASE SkipLine(p)
    <3>1. /\ hook[p] = "read" /\ hook'[p] = "read" /\ nLine'[p] = nLine[p] + 1
          /\ lines[p][nLine[p]].ref # PROTECTED
      BY <2>4 DEF SkipLine, Step, NextLine, Line, PushTypeOK
    <3>2. Passed(p)' \subseteq Passed(p) \cup {nLine[p]}
      BY <2>2, <3>1 DEF Passed
    <3>3. Of(p)'
      BY <1>2, <1>3, <1>4, <2>1, <3>1, <3>2
    <3>4. QED BY <1>5, <2>1, <3>3
  <2>5. CASE AllowGreen(p)
    <3>1. hook[p] = "verify" /\ hook'[p] = "read" /\ nLine'[p] = nLine[p] + 1
      BY <2>5 DEF AllowGreen, Step, NextLine, PushTypeOK
    <3>2. nLine[p] \in DOMAIN lines[p] /\ Line(p) = lines[p][nLine[p]] /\ Line(p) \in RefLine
      BY <1>3, <1>4, <2>2, <3>1 DEF Line
    <3>3. Line(p).local \in Commit
      BY <1>3, <3>1, <3>2 DEF Deletes, RefLine
    <3>4. Allowed(Line(p))
      BY <1>3, <2>5, <3>1, <3>3 DEF AllowGreen, SuccessesAreGreen, Rewrites, Allowed
    <3>5. Passed(p)' \subseteq Passed(p) \cup {nLine[p]}
      BY <2>2, <3>1 DEF Passed
    <3>6. Of(p)'
      BY <1>2, <1>3, <1>4, <2>1, <3>1, <3>2, <3>4, <3>5
    <3>7. QED BY <1>5, <2>1, <3>6
  <2>6. CASE PassAncestry(p)
    <3>1. /\ hook[p] = "read" /\ hook'[p] = "verify" /\ nLine'[p] = nLine[p]
          /\ nLine[p] <= Len(lines[p]) /\ Line(p).ref = PROTECTED
          /\ ~Deletes(Line(p)) /\ ~Rewrites(Line(p))
      BY <2>6 DEF PassAncestry, AtMaster, Step, PushTypeOK
    <3>2. Passed(p)' = Passed(p) /\ Line(p)' = Line(p)
      BY <2>1, <3>1 DEF Passed, Line
    <3>3. Of(p)'
      BY <1>2, <1>3, <1>4, <2>1, <3>1, <3>2 DEF Deletes, Rewrites
    <3>4. QED BY <1>5, <2>1, <3>3
  <2>7. CASE Exit0(p)
    <3>1. hook[p] = "read" /\ hook'[p] = "send" /\ nLine'[p] = nLine[p] /\ nLine[p] > Len(lines[p])
      BY <2>7 DEF Exit0, Step, PushTypeOK
    <3>2. Passed(p)' = Passed(p)
      BY <3>1 DEF Passed
    <3>3. Of(p)'
      BY <1>2, <1>3, <1>4, <2>1, <3>1, <3>2
    <3>4. QED BY <1>5, <2>1, <3>3
  <2>8. QED BY <1>7, <2>3, <2>4, <2>5, <2>6, <2>7 DEF HookStep
<1>8. ASSUME NEW p \in Pusher, Push(p) PROVE \A q \in Pusher : Of(q)'
  <2>1. hook'[p] = "idle"
    BY <1>8 DEF Push, PushTypeOK
  <2>2. Of(p)'
    BY <2>1 DEF Passed
  <2>3. \A q \in Pusher \ {p} : UNCHANGED <<hook[q], lines[q], nLine[q]>>
    BY <1>8 DEF Push, PushTypeOK
  <2>4. QED BY <1>5, <2>2, <2>3
<1>9. ASSUME NEW c \in Commit, RunEnds(c) \/ Dispatch(c) PROVE \A q \in Pusher : Of(q)'
  BY <1>5, <1>9 DEF RunEnds, Dispatch
<1>10. ASSUME UNCHANGED pushVars PROVE \A q \in Pusher : Of(q)'
  BY <1>5, <1>10 DEF pushVars
<1>11. \A q \in Pusher : Of(q)'
  BY <1>6, <1>7, <1>8, <1>9, <1>10 DEF PushNext
<1>12. QED BY <1>11 DEF HookInv

LEMMA IInvInit == PushInit => PushIInv
<1>1. PushInit => PushTypeOK
  BY TypeInit
<1>2. ASSUME PushInit PROVE MasterIsVerified
  <2>1. PROTECTED \in Ref
    BY DEF PROTECTED, Ref
  <2>2. remote[PROTECTED] = Root
    BY <1>2, <2>1 DEF PushInit
  <2>3. QED BY <2>2 DEF MasterIsVerified
<1>3. ASSUME PushInit PROVE HookInv
  <2>1. \A p \in Pusher : hook[p] = "idle"
    BY <1>3 DEF PushInit
  <2>2. \A p \in Pusher : Passed(p) = {}
    BY <2>1 DEF Passed
  <2>3. QED BY <2>1, <2>2 DEF HookInv
<1>4. PushInit => SuccessesAreGreen
  BY DEF PushInit, SuccessesAreGreen
<1>5. QED BY <1>1, <1>2, <1>3, <1>4 DEF PushIInv

LEMMA IInvInductive == PushIInv /\ [PushNext]_pushVars => PushIInv'
BY TypeInductive, MasterInductive, GreenInductive, HookInductive DEF PushIInv

\* The inductive invariant of the hook.
THEOREM PushInvariant == PushSpec => []PushIInv
BY IInvInit, IInvInductive, PTL DEF PushSpec

\* Master is only ever at a commit that has gone green, or where it was at first.
THEOREM MasterVerified == PushSpec => []MasterIsVerified
<1>1. PushIInv => MasterIsVerified
  BY DEF PushIInv
<1>2. QED BY <1>1, PushInvariant, PTL

\* Master only ever moves forward in its history.
THEOREM HistoryKept == PushSpec => HistoryIsKept
<1>1. PushIInv /\ [PushNext]_pushVars => [MovesForward(remote[PROTECTED], remote'[PROTECTED])]_pushVars
  BY MasterInductive
<1>2. QED BY <1>1, PushInvariant, PTL DEF PushSpec, HistoryIsKept

\* The hook only refuses where it has read a line of master.
LEMMA RefusalInductive ==
  ASSUME PushIInv, TopicPushesFreely, [PushNext]_pushVars PROVE TopicPushesFreely'
<1> USE DEF PushIInv
<1> DEFINE Masters(q) == \E i \in 1..Len(lines[q]) : lines[q][i].ref = PROTECTED
<1>1. \A q \in Pusher : hook[q] = "refused" => Masters(q)
  BY DEF TopicPushesFreely
<1>2. ASSUME NEW q \in Pusher, UNCHANGED <<hook[q], lines[q]>>
      PROVE  hook'[q] = "refused" => Masters(q)'
  BY <1>1, <1>2
<1>3. ASSUME NEW p \in Pusher, StartPush(p) \/ Push(p)
      PROVE  \A q \in Pusher : hook'[q] = "refused" => Masters(q)'
  <2>1. hook'[p] # "refused" /\ \A q \in Pusher \ {p} : UNCHANGED <<hook[q], lines[q]>>
    BY <1>3 DEF StartPush, Push, PushTypeOK
  <2>2. QED BY <1>2, <2>1
<1>4. ASSUME NEW p \in Pusher, HookStep(p)
      PROVE  \A q \in Pusher : hook'[q] = "refused" => Masters(q)'
  <2>1. lines' = lines /\ \A q \in Pusher \ {p} : UNCHANGED hook[q]
    BY <1>4 DEF HookStep, SkipLine, RefuseDeletion, RefuseRewrite, PassAncestry, RefuseUnknown,
                RefuseUnverified, AllowGreen, Exit0, Step, PushTypeOK
  <2>2. CASE AtMaster(p) \/ hook[p] = "verify"
    <3>1. nLine[p] <= Len(lines[p]) /\ lines[p][nLine[p]].ref = PROTECTED
      BY <2>2 DEF AtMaster, HookInv, Line
    <3>2. nLine[p] \in 1..Len(lines[p])
      BY <3>1 DEF PushTypeOK
    <3>3. Masters(p)'
      BY <2>1, <3>1, <3>2
    <3>4. QED BY <1>2, <2>1, <3>3
  <2>3. CASE SkipLine(p) \/ Exit0(p)
    <3>1. hook'[p] # "refused"
      BY <2>3 DEF SkipLine, Exit0, Step, PushTypeOK
    <3>2. QED BY <1>2, <2>1, <3>1
  <2>4. QED
    BY <1>4, <2>2, <2>3 DEF HookStep, RefuseDeletion, RefuseRewrite, PassAncestry, RefuseUnknown,
       RefuseUnverified, AllowGreen
<1>5. ASSUME ~\E p \in Pusher : StartPush(p) \/ Push(p) \/ HookStep(p)
      PROVE  \A q \in Pusher : hook'[q] = "refused" => Masters(q)'
  BY <1>2, <1>5 DEF PushNext, RunEnds, Dispatch, pushVars
<1>6. \A q \in Pusher : hook'[q] = "refused" => Masters(q)'
  BY <1>3, <1>4, <1>5
<1>7. QED BY <1>6 DEF TopicPushesFreely

\* A push that has no line for master is never refused.
THEOREM TopicsPushFreely == PushSpec => []TopicPushesFreely
<1>1. PushInit => TopicPushesFreely
  BY DEF PushInit, TopicPushesFreely
<1>2. PushIInv /\ TopicPushesFreely /\ [PushNext]_pushVars => TopicPushesFreely'
  BY RefusalInductive
<1>3. QED BY <1>1, <1>2, PushInvariant, PTL DEF PushSpec
===============================================================================
