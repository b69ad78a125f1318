----------------------------- MODULE QueryService -----------------------------
(***************************************************************************)
(* What a query example promises, whatever tree it is written in: a fixed  *)
(* set of queries is answered one by one, and the process ends with one    *)
(* verdict.  It may report success only when every query has been          *)
(* answered with the answer expected for it; it may give up at any time;   *)
(* and it always reports.                                                  *)
(***************************************************************************)
CONSTANT Query

VARIABLES
  answered,   \* the queries whose expected answer has come back
  verdict     \* what the process has reported

vars == <<answered, verdict>>

Init ==
  /\ answered = {}
  /\ verdict = "none"

Answer(q) ==
  /\ verdict = "none"
  /\ answered' = answered \cup {q}
  /\ UNCHANGED verdict

Succeed ==
  /\ verdict = "none"
  /\ answered = Query
  /\ verdict' = "success"
  /\ UNCHANGED answered

GiveUp ==
  /\ verdict = "none"
  /\ verdict' = "failure"
  /\ UNCHANGED answered

Report == Succeed \/ GiveUp

Next == (\E q \in Query : Answer(q)) \/ Report

Spec == Init /\ [][Next]_vars

\* The promise to report, for an implementation to keep under its own fairness.
Reports == <>(verdict # "none")
===============================================================================
