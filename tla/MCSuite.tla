------------------------------ MODULE MCSuite ------------------------------
(***************************************************************************)
(* Model-checking instance of SuiteRunner: all five runners, with and       *)
(* without their switches, over three harnesses.                              *)
(***************************************************************************)
EXTENDS SuiteRunner

\* The DLL sets a machine starts from: everything built, one core DLL never
\* built, and nothing built; all six, the two servers alone, or nothing staged.
Origins == {Dlls, Dlls \ {"Targetcore"}, {"Msgcore", "Targetcore", "TargetFacade"}}
Stages  == {Dlls, Servers, {}}

MCInit == Init /\ present \in Origins /\ staged \in Stages

MCSpec == MCInit /\ [][Next]_vars /\ Fairness
=============================================================================
