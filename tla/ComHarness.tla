------------------------------ MODULE ComHarness ------------------------------
(***************************************************************************)
(* ComExamples/common: what the two COM mesh harnesses share.  The one     *)
(* thread of a single-threaded apartment runs main and, while main pumps   *)
(* inside Gate::wait, the handlers of both hubs, one at a time and each to *)
(* its end.  The wait compares tick counts that wrap around.               *)
(*                                                                         *)
(* The two addresses are siblings, so that each login makes the facade     *)
(* warn both hubs; the warnings, and real errors, arrive as OnError.       *)
(***************************************************************************)
EXTENDS P2PeerMesh, FiniteSets

CONSTANTS
  Wrap,     \* GetTickCount counts modulo Wrap
  Timeout,  \* how long the gate waits
  MaxNap,   \* how far the clock moves at most in one round of the wait
  Boot      \* what the clock may show when the process starts

ASSUME ClockAssumption ==
  /\ Wrap \in Nat /\ Timeout \in Nat /\ MaxNap \in Nat \ {0}
  /\ Timeout + MaxNap < Wrap
  /\ Boot \subseteq 0..(Wrap - 1)

VARIABLES
  pc,        \* where main is; handlers run at "pump" only
  tick,      \* GetTickCount()
  start,     \* Gate::wait's start
  waited,    \* how long the wait has really lasted
  nBumped,   \* Gate::m_count
  owed,      \* owed[s]: errors the facade has yet to raise on hub s
  errors,    \* how many errors of each kind the harness has listed
  failed,    \* the checks that failed
  exitCode

clockVars == <<tick, start, waited>>
sinkVars == <<nBumped, owed, errors>>
verdictVars == <<failed, exitCode>>
harnessVars == <<pc, clockVars, sinkVars, verdictVars>>

Undecided == 4
Running == exitCode = Undecided
ErrorKind == {"unrelated", "real"}

HarnessInit ==
  /\ MeshInit
  /\ pc = "apartment" /\ tick \in Boot /\ start = 0 /\ waited = 0
  /\ nBumped = 0 /\ owed = [s \in Side |-> <<>>] /\ errors = [k \in ErrorKind |-> 0]
  /\ failed = {} /\ exitCode = Undecided

Goto(p) == pc' = p
Fails(check, cond) == IF cond THEN {check} ELSE {}
Verdicts(fails) == failed' = failed \cup fails
-------------------------------------------------------------------------------
(* The sinks: Invoke hands an event to its handler, on main's thread. *)

\* A login's warning is raised before anything comes over that login.
Delivers(s) == pc = "pump" /\ (logins > 1 \/ owed[s] = <<>>)

OnError(s) ==
  /\ pc = "pump" /\ owed[s] # <<>>
  /\ errors' = [errors EXCEPT ![Head(owed[s])] = @ + 1]
  /\ owed' = [owed EXCEPT ![s] = Tail(@)]
  /\ UNCHANGED <<meshVars, pc, clockVars, nBumped, verdictVars>>

Bump == nBumped' = nBumped + 1

LinkUp ==
  /\ Login
  /\ owed' = [s \in Side |-> Append(owed[s], "unrelated")]
  /\ UNCHANGED <<pc, clockVars, nBumped, errors, verdictVars>>

LinkDown ==
  /\ LinkLost
  /\ \E told \in SUBSET Side :
       owed' = [s \in Side |-> IF s \in told THEN Append(owed[s], "real") ELSE owed[s]]
  /\ UNCHANGED <<pc, clockVars, nBumped, errors, verdictVars>>
-------------------------------------------------------------------------------
(* Setting up: a failure ends the process, whatever has been created. *)

Enter(at, next) ==
  /\ pc = at /\ Goto(next)
  /\ UNCHANGED <<meshVars, clockVars, sinkVars, verdictVars>>

\* createHub attaches a sink to the hub before anything can be raised on it.
CreateHub(s, at, next) ==
  /\ pc = at /\ Goto(next)
  /\ SpawnHub(s)
  /\ UNCHANGED <<clockVars, sinkVars, verdictVars>>

\* listen or connect; its result is checked and then tested again.
Arm(s, at, next) ==
  /\ pc = at /\ Goto(next)
  /\ PostP2PeerCon(s)
  /\ UNCHANGED <<clockVars, sinkVars, verdictVars>>

SetupFailure(at) ==
  /\ pc \in at /\ Goto("exited")
  /\ exitCode' = 1
  /\ Verdicts({pc} \cap {"listen", "connect"})
  /\ UNCHANGED <<meshVars, clockVars, sinkVars>>
-------------------------------------------------------------------------------
(* Gate::wait. *)

Elapsed == (tick + Wrap - start) % Wrap

StartWait ==
  /\ pc = "wait" /\ Goto("pump")
  /\ start' = tick /\ waited' = 0
  /\ UNCHANGED <<meshVars, tick, sinkVars, verdictVars>>

GateOpens(want) ==
  /\ pc = "pump" /\ nBumped >= want
  /\ Goto("opened")
  /\ UNCHANGED <<meshVars, clockVars, sinkVars, verdictVars>>

\* Mutant: the deadline is computed once and compared with the clock.
Overdue(want) ==
  /\ pc = "pump" /\ nBumped < want /\ tick > (start + Timeout) % Wrap
  /\ Goto("exited") /\ exitCode' = 3
  /\ Verdicts({"timeout"})
  /\ UNCHANGED <<meshVars, clockVars, sinkVars>>

\* Mutant: the wait has no deadline.
WaitsForEver(want) == pc = "nowhere" /\ UNCHANGED <<meshVars, harnessVars>>

\* A timeout ends the process with EXIT_FAIL, past Verdict().
GateTimesOut(want) ==
  /\ pc = "pump" /\ nBumped < want /\ Elapsed > Timeout
  /\ Goto("exited") /\ exitCode' = 3
  /\ Verdicts({"timeout"})
  /\ UNCHANGED <<meshVars, clockVars, sinkVars>>

\* Sleep(5), which may oversleep.
Sleep(want) ==
  /\ pc = "pump" /\ nBumped < want /\ Elapsed <= Timeout
  /\ \E d \in 1..MaxNap : tick' = (tick + d) % Wrap /\ waited' = waited + d
  /\ UNCHANGED <<meshVars, pc, start, sinkVars, verdictVars>>

Wait(want) == StartWait \/ GateOpens(want) \/ GateTimesOut(want) \/ Sleep(want)
-------------------------------------------------------------------------------
\* One group of checks of main, in a single step: no handler runs meanwhile.
Judge(at, next, fails) ==
  /\ pc = at /\ Goto(next)
  /\ Verdicts(fails)
  /\ UNCHANGED <<meshVars, clockVars, sinkVars, exitCode>>

Verdict ==
  /\ pc = "verdict" /\ Goto("exited")
  /\ exitCode' = IF failed = {} THEN 0 ELSE 3
  /\ UNCHANGED <<meshVars, clockVars, sinkVars, failed>>
-------------------------------------------------------------------------------
\* The wait keeps its time across a wrap of the clock: it gives up only when the
\* timeout has really passed, and within one round of that.
WaitIsTimed ==
  /\ "timeout" \in failed => waited > Timeout
  /\ waited <= Timeout + MaxNap
-------------------------------------------------------------------------------
(* What makes the safety properties inductive. *)

\* Main's places before the link can come up, and past the gate.
Early == {"apartment", "store", "source", "save", "network", "hubServer", "listen", "hubClient",
          "connect"}
Late == {"opened", "peerClient", "peerServer", "store4", "rebuild", "errors", "verdict"}

HarnessTypeOK ==
  /\ MeshTypeOK /\ pc \in Early \cup {"wait", "pump", "exited"} \cup Late
  /\ tick \in 0..(Wrap - 1) /\ start \in 0..(Wrap - 1) /\ waited \in Nat
  /\ nBumped \in Nat /\ owed \in [Side -> Seq(ErrorKind)] /\ errors \in [ErrorKind -> Nat]
  /\ exitCode \in {0, 1, 3, Undecided}

\* The clock shows what the wait has lasted, wrapped around once at most.
ClockInv ==
  /\ pc = "pump" => tick = start + waited \/ tick + Wrap = start + waited
  /\ waited <= Timeout + MaxNap
  /\ "timeout" \in failed => waited > Timeout /\ ~Running

\* The link comes up once main has set up, so that a failure to set up finds none.
SetupInv ==
  /\ logins > 0 => con["client"]
  /\ con["client"] => pc \notin Early
  /\ {"listen", "connect"} \cap failed # {} => logins = 0 /\ ~Running

\* One login owes each hub one warning and nothing worse.
NeverLost == logins = 1 /\ link
nOwed(s) == IF owed[s] = <<>> THEN 0 ELSE 1
WarnInv ==
  /\ logins = 0 => /\ ~link /\ ~ack
                   /\ \A s \in Side : owed[s] = <<>>
                   /\ \A k \in ErrorKind : errors[k] = 0
  /\ NeverLost => /\ \A s \in Side : owed[s] \in {<<>>, <<"unrelated">>}
                  /\ errors["real"] = 0
                  /\ errors["unrelated"] + nOwed("server") + nOwed("client") = 2
                  /\ ~ack => owed["client"] = <<>>

HarnessInv == HarnessTypeOK /\ ClockInv /\ SetupInv /\ WarnInv
===============================================================================
