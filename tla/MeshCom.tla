------------------------------- MODULE MeshCom -------------------------------
(* The two COM mesh harnesses, one per behaviour: `subject` says which.       *)
EXTENDS ComHarness

CONSTANTS Asks, Built, Rewritten, NoField, Nobody

VARIABLES subject, store, nAnswered, replies, image, received, rebuilt

Q == INSTANCE WsaQueryCom
S == INSTANCE WsaStoreCom

ASSUME MeshComAssumption == Q!QuestionsAreOfTheStore /\ Q!TableIsRight

vars == <<subject, meshVars, harnessVars, store, nAnswered, replies, image, received, rebuilt>>

Querying == subject = "query" /\ UNCHANGED <<subject, image, received, rebuilt>>
Shipping == subject = "store" /\ UNCHANGED <<subject, store, nAnswered, replies>>

Init == subject \in {"query", "store"} /\ Q!Init /\ S!Init

Next == (Querying /\ Q!Next) \/ (Shipping /\ S!Next)
MainRuns == Running /\ ((Querying /\ Q!Main) \/ (Shipping /\ S!Main))

Spec == Init /\ [][Next]_vars /\ WF_vars(MainRuns)
-------------------------------------------------------------------------------
(* Properties. *)

\* Neither harness fails for anything but the timeout on a link that stays up, whatever
\* is asked twice, loaded late or delivered before the other side is ready.
OnlyTimeoutFails == IF subject = "query" THEN Q!OnlyTimeoutFails ELSE S!OnlyTimeoutFails

\* WsaStoreTestCom reports success for a whole store only.
StoreSuccessIsIntact == subject = "store" => S!SuccessIsIntact

\* WsaQueryTestCom is a query service, also when it asks twice.
QS == INSTANCE QueryService WITH
  Query <- Q!Tags,
  answered <- Q!AnsweredRight,
  verdict <- IF subject = "query" THEN Q!Reported ELSE "none"
QueryImplementsService == QS!Spec

\* Whatever becomes of the link, the thread leaves the wait by itself and the
\* process ends with a code.
AlwaysReports == <>(exitCode # Undecided)
-------------------------------------------------------------------------------
(* What makes the safety properties inductive. *)

IInv ==
  /\ subject \in {"query", "store"}
  /\ HarnessInv
  /\ subject = "query" => Q!IInv
  /\ subject = "store" => S!IInv /\ replies = <<>>
-------------------------------------------------------------------------------
\* The instance TLC checks: two of the five questions of WsaQueryTestCom, a value and
\* the path that is not there.
MCAsks == <<
  [path |-> ".config.width", ok |-> TRUE,  value |-> "1024"],
  [path |-> ".config.depth", ok |-> FALSE, value |-> ""] >>

MCBuilt == [p \in {".config.width", ".config.height"} |-> IF p = ".config.width" THEN "1024" ELSE "768"]
===============================================================================
