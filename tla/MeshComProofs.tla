----------------------------- MODULE MeshComProofs -----------------------------
(***************************************************************************)
(* What holds of the two COM mesh harnesses for every table of questions,  *)
(* every store, every clock and every number of logins.                    *)
(***************************************************************************)
EXTENDS MeshCom, SequenceTheorems, TLAPS

-------------------------------------------------------------------------------
(* What both harnesses share.  A definition of ComHarness is reached by three   *)
(* names here: its own, and that of either harness.                             *)

LEMMA QueryIsHarness ==
  /\ \A at, next : Q!Enter(at, next) <=> Enter(at, next)
  /\ \A s, at, next : Q!CreateHub(s, at, next) <=> CreateHub(s, at, next)
  /\ \A s, at, next : Q!Arm(s, at, next) <=> Arm(s, at, next)
  /\ \A at : Q!SetupFailure(at) <=> SetupFailure(at)
  /\ \A want : Q!Wait(want) <=> Wait(want)
  /\ \A at, next, fails : Q!Judge(at, next, fails) <=> Judge(at, next, fails)
  /\ Q!Verdict <=> Verdict
  /\ \A s : Q!OnError(s) <=> OnError(s)
  /\ Q!LinkUp <=> LinkUp
  /\ Q!LinkDown <=> LinkDown
  /\ Q!Running <=> Running
<1>1. /\ Q!meshVars = meshVars /\ Q!clockVars = clockVars /\ Q!sinkVars = sinkVars
      /\ Q!verdictVars = verdictVars
      /\ Q!meshVars' = meshVars' /\ Q!clockVars' = clockVars' /\ Q!sinkVars' = sinkVars'
      /\ Q!verdictVars' = verdictVars'
  BY DEF Q!meshVars, meshVars, Q!clockVars, clockVars, Q!sinkVars, sinkVars, Q!verdictVars, verdictVars
<1>2. \A at, next : Q!Enter(at, next) <=> Enter(at, next)
  BY <1>1 DEF Q!Enter, Enter, Q!Goto, Goto
<1>3. \A s, at, next : Q!CreateHub(s, at, next) <=> CreateHub(s, at, next)
  BY <1>1 DEF Q!CreateHub, CreateHub, Q!Goto, Goto, Q!SpawnHub, SpawnHub
<1>4. \A s, at, next : Q!Arm(s, at, next) <=> Arm(s, at, next)
  BY <1>1 DEF Q!Arm, Arm, Q!Goto, Goto, Q!PostP2PeerCon, PostP2PeerCon
<1>5. \A at : Q!SetupFailure(at) <=> SetupFailure(at)
  BY <1>1 DEF Q!SetupFailure, SetupFailure, Q!Goto, Goto, Q!Verdicts, Verdicts
<1>6. \A want : Q!Wait(want) <=> Wait(want)
  BY <1>1 DEF Q!Wait, Wait, Q!StartWait, StartWait, Q!GateOpens, GateOpens, Q!GateTimesOut, GateTimesOut,
     Q!Sleep, Sleep, Q!Goto, Goto, Q!Verdicts, Verdicts, Q!Elapsed, Elapsed
<1>7. \A at, next, fails : Q!Judge(at, next, fails) <=> Judge(at, next, fails)
  BY <1>1 DEF Q!Judge, Judge, Q!Goto, Goto, Q!Verdicts, Verdicts
<1>8. Q!Verdict <=> Verdict
  BY <1>1 DEF Q!Verdict, Verdict, Q!Goto, Goto
<1>9. \A s : Q!OnError(s) <=> OnError(s)
  BY <1>1 DEF Q!OnError, OnError
<1>10. (Q!LinkUp <=> LinkUp) /\ (Q!LinkDown <=> LinkDown)
  BY <1>1 DEF Q!LinkUp, LinkUp, Q!LinkDown, LinkDown, Q!Login, Login, Q!LinkLost, LinkLost, Q!CutTo, CutTo,
     Q!Side, Side
<1>11. Q!Running <=> Running
  BY DEF Q!Running, Running, Q!Undecided, Undecided
<1>12. QED BY <1>2, <1>3, <1>4, <1>5, <1>6, <1>7, <1>8, <1>9, <1>10, <1>11

LEMMA StoreIsHarness ==
  /\ \A at, next : S!Enter(at, next) <=> Enter(at, next)
  /\ \A s, at, next : S!CreateHub(s, at, next) <=> CreateHub(s, at, next)
  /\ \A s, at, next : S!Arm(s, at, next) <=> Arm(s, at, next)
  /\ \A at : S!SetupFailure(at) <=> SetupFailure(at)
  /\ \A want : S!Wait(want) <=> Wait(want)
  /\ \A at, next, fails : S!Judge(at, next, fails) <=> Judge(at, next, fails)
  /\ S!Verdict <=> Verdict
  /\ \A s : S!OnError(s) <=> OnError(s)
  /\ S!LinkUp <=> LinkUp
  /\ S!LinkDown <=> LinkDown
  /\ S!Running <=> Running
<1>1. /\ S!meshVars = meshVars /\ S!clockVars = clockVars /\ S!sinkVars = sinkVars
      /\ S!verdictVars = verdictVars
      /\ S!meshVars' = meshVars' /\ S!clockVars' = clockVars' /\ S!sinkVars' = sinkVars'
      /\ S!verdictVars' = verdictVars'
  BY DEF S!meshVars, meshVars, S!clockVars, clockVars, S!sinkVars, sinkVars, S!verdictVars, verdictVars
<1>2. \A at, next : S!Enter(at, next) <=> Enter(at, next)
  BY <1>1 DEF S!Enter, Enter, S!Goto, Goto
<1>3. \A s, at, next : S!CreateHub(s, at, next) <=> CreateHub(s, at, next)
  BY <1>1 DEF S!CreateHub, CreateHub, S!Goto, Goto, S!SpawnHub, SpawnHub
<1>4. \A s, at, next : S!Arm(s, at, next) <=> Arm(s, at, next)
  BY <1>1 DEF S!Arm, Arm, S!Goto, Goto, S!PostP2PeerCon, PostP2PeerCon
<1>5. \A at : S!SetupFailure(at) <=> SetupFailure(at)
  BY <1>1 DEF S!SetupFailure, SetupFailure, S!Goto, Goto, S!Verdicts, Verdicts
<1>6. \A want : S!Wait(want) <=> Wait(want)
  BY <1>1 DEF S!Wait, Wait, S!StartWait, StartWait, S!GateOpens, GateOpens, S!GateTimesOut, GateTimesOut,
     S!Sleep, Sleep, S!Goto, Goto, S!Verdicts, Verdicts, S!Elapsed, Elapsed
<1>7. \A at, next, fails : S!Judge(at, next, fails) <=> Judge(at, next, fails)
  BY <1>1 DEF S!Judge, Judge, S!Goto, Goto, S!Verdicts, Verdicts
<1>8. S!Verdict <=> Verdict
  BY <1>1 DEF S!Verdict, Verdict, S!Goto, Goto
<1>9. \A s : S!OnError(s) <=> OnError(s)
  BY <1>1 DEF S!OnError, OnError
<1>10. (S!LinkUp <=> LinkUp) /\ (S!LinkDown <=> LinkDown)
  BY <1>1 DEF S!LinkUp, LinkUp, S!LinkDown, LinkDown, S!Login, Login, S!LinkLost, LinkLost, S!CutTo, CutTo,
     S!Side, Side
<1>11. S!Running <=> Running
  BY DEF S!Running, Running, S!Undecided, Undecided
<1>12. QED BY <1>2, <1>3, <1>4, <1>5, <1>6, <1>7, <1>8, <1>9, <1>10, <1>11

\* A handler that answers or lists: it leaves the harness's own state alone, and the
\* client's takes the login ack only once the login has been warned of.
Handled ==
  /\ pc = "pump"
  /\ UNCHANGED <<hub, con, link, logins, pc, clockVars, owed, errors, verdictVars>>
  /\ nBumped' \in Nat
  /\ ack' = ack \/ (ack' = FALSE /\ ack = TRUE /\ (logins > 1 \/ owed["client"] = <<>>))

\* The steps of the harness, whichever of the two it is.
HarnessStep ==
  \/ \E at, next \in Early : Enter(at, next)
  \/ \E s \in Side, at, next \in Early : CreateHub(s, at, next)
  \/ Arm("server", "listen", "hubClient")
  \/ Arm("client", "connect", "wait")
  \/ \E at \in SUBSET Early : SetupFailure(at)
  \/ \E want \in Nat : Wait(want)
  \/ \E fails : fails \cap {"listen", "connect", "timeout"} = {} /\ Judge("save", "network", fails)
  \/ \E at, next \in Late : \E fails :
       fails \cap {"listen", "connect", "timeout"} = {} /\ Judge(at, next, fails)
  \/ Verdict
  \/ \E s \in Side : OnError(s)
  \/ LinkUp \/ LinkDown
  \/ Handled

LEMMA KindsOfStep ==
  /\ \A at, next \in Early : Enter(at, next) => HarnessStep
  /\ \A s \in Side : \A at, next \in Early : CreateHub(s, at, next) => HarnessStep
  /\ Arm("server", "listen", "hubClient") => HarnessStep
  /\ Arm("client", "connect", "wait") => HarnessStep
  /\ \A at \in SUBSET Early : SetupFailure(at) => HarnessStep
  /\ \A want \in Nat : Wait(want) => HarnessStep
  /\ \A fails : fails \cap {"listen", "connect", "timeout"} = {} =>
       /\ Judge("save", "network", fails) => HarnessStep
       /\ \A at, next \in Late : Judge(at, next, fails) => HarnessStep
  /\ Verdict => HarnessStep
  /\ \A s \in Side : OnError(s) => HarnessStep
  /\ LinkUp => HarnessStep
  /\ LinkDown => HarnessStep
  /\ Handled => HarnessStep
BY DEF HarnessStep

LEMMA QuerySteps == ASSUME nBumped \in Nat, Q!Next PROVE Running /\ HarnessStep
<1>1. Running
  BY QueryIsHarness DEF Q!Next
<1>2. ASSUME Q!Setup PROVE HarnessStep
  BY <1>2, QueryIsHarness, KindsOfStep DEF Q!Setup, Q!Declare, Early, Side
<1>3. ASSUME Q!Wait(Q!kAsks) PROVE HarnessStep
  <2>1. Q!kAsks \in Nat
    BY MeshComAssumption DEF Q!QuestionsAreOfTheStore, Q!kAsks
  <2>2. QED BY <1>3, <2>1, QueryIsHarness, KindsOfStep
<1>4. ASSUME Q!Compare \/ Q!CheckPeers \/ Q!CheckStore \/ Q!CheckErrors PROVE HarnessStep
  <2>1. PICK at, next, fails :
          Judge(at, next, fails) /\ at \in Late /\ next \in Late
            /\ fails \cap {"listen", "connect", "timeout"} = {}
    BY <1>4, QueryIsHarness DEF Q!Compare, Q!CheckPeers, Q!CheckStore, Q!CheckErrors, Q!Fails, Late
  <2>2. QED BY <2>1, KindsOfStep
<1>5. ASSUME Q!Verdict \/ Q!LinkUp \/ Q!LinkDown \/ Q!OnError("server") \/ Q!OnError("client")
      PROVE  HarnessStep
  BY <1>5, QueryIsHarness, KindsOfStep DEF Side
<1>6. ASSUME Q!ServerOnAsk \/ Q!ClientOnPeerUp \/ Q!ClientOnAnswer PROVE HarnessStep
  <2>1. Handled
    BY <1>6 DEF Q!ServerOnAsk, Q!ClientOnPeerUp, Q!ClientOnAnswer, Q!Delivers, Q!Bump, Handled,
       Q!harnessVars, Q!clockVars, Q!sinkVars, Q!verdictVars, clockVars, verdictVars
  <2>2. QED BY <2>1, KindsOfStep
<1>7. QED
  BY <1>1, <1>2, <1>3, <1>4, <1>5, <1>6 DEF Q!Next, Q!Main, Q!Handlers, Q!Mesh

LEMMA StoreSteps == ASSUME nBumped \in Nat, S!Next PROVE Running /\ HarnessStep
<1>1. Running
  BY StoreIsHarness DEF S!Next
<1>2. ASSUME S!Setup PROVE HarnessStep
  BY <1>2, StoreIsHarness, KindsOfStep DEF S!Setup, S!BuildStore, Early, Side
<1>3. ASSUME S!Wait(1) PROVE HarnessStep
  BY <1>3, StoreIsHarness, KindsOfStep
<1>4. ASSUME S!CheckReceived \/ S!Rebuild \/ S!CheckErrors PROVE HarnessStep
  <2>1. ASSUME NEW fails, fails \subseteq {"bytes", "write", "open", "verify", "real", "unrelated"},
               \/ Judge("opened", "rebuild", fails) \/ Judge("rebuild", "errors", fails)
               \/ Judge("errors", "verdict", fails)
        PROVE  HarnessStep
    <3>1. fails \cap {"listen", "connect", "timeout"} = {}
      BY <2>1
    <3>2. QED BY <2>1, <3>1, KindsOfStep DEF Late
  <2>2. CASE S!CheckReceived
    BY <2>1, <2>2, StoreIsHarness DEF S!CheckReceived, S!Fails
  <2>3. CASE S!Rebuild
    BY <2>1, <2>3, StoreIsHarness DEF S!Rebuild, S!Fails
  <2>4. CASE S!CheckErrors
    BY <2>1, <2>4, StoreIsHarness DEF S!CheckErrors, S!Fails
  <2>5. QED BY <1>4, <2>2, <2>3, <2>4
<1>5. ASSUME S!Serialise PROVE HarnessStep
  <2>1. PICK fails :
          Judge("save", "network", fails) /\ fails \cap {"listen", "connect", "timeout"} = {}
    BY <1>5, StoreIsHarness DEF S!Serialise, S!Fails
  <2>2. QED BY <2>1, KindsOfStep
<1>6. ASSUME S!Verdict \/ S!LinkUp \/ S!LinkDown \/ S!OnError("server") \/ S!OnError("client")
      PROVE  HarnessStep
  BY <1>6, StoreIsHarness, KindsOfStep DEF Side
<1>7. ASSUME S!ClientOnPeerUp \/ S!ServerOnStore PROVE HarnessStep
  <2>1. Handled
    BY <1>7 DEF S!ClientOnPeerUp, S!ServerOnStore, S!Delivers, S!Bump, Handled,
       S!harnessVars, S!clockVars, S!sinkVars, S!verdictVars, clockVars, verdictVars
  <2>2. QED BY <2>1, KindsOfStep
<1>8. QED
  BY <1>1, <1>2, <1>3, <1>4, <1>5, <1>6, <1>7 DEF S!Next, S!Main, S!Handlers, S!Mesh

-------------------------------------------------------------------------------
(* The harness's own invariant. *)

LEMMA ClockFacts ==
  ASSUME NEW x \in 0..(Wrap - 1)
  PROVE  Wrap \in Nat \ {0} /\ x % Wrap = x /\ (x + Wrap) % Wrap = x
BY ClockAssumption

\* While the wait is no longer than the clock can tell, the clock tells it.
LEMMA ElapsedIsWaited ==
  ASSUME HarnessTypeOK, ClockInv, pc = "pump" PROVE Elapsed = waited /\ waited \in 0..(Wrap - 1)
<1>1. waited \in 0..(Wrap - 1) /\ tick \in Nat /\ start \in Nat /\ Wrap \in Nat
  BY ClockAssumption DEF HarnessTypeOK, ClockInv
<1>2. tick + Wrap - start = waited \/ tick + Wrap - start = waited + Wrap
  BY <1>1 DEF ClockInv
<1>3. QED BY <1>1, <1>2, ClockFacts DEF Elapsed

LEMMA TypeInductive == ASSUME HarnessInv, Running, HarnessStep PROVE HarnessTypeOK'
<1> USE DEF HarnessInv, HarnessTypeOK
<1>1. ASSUME NEW at \in Early, NEW next \in Early, Enter(at, next) PROVE HarnessTypeOK'
  BY <1>1 DEF Enter, Goto, meshVars, clockVars, sinkVars, verdictVars, MeshTypeOK
<1>2. ASSUME NEW s \in Side, NEW at \in Early, NEW next \in Early, CreateHub(s, at, next)
      PROVE  HarnessTypeOK'
  BY <1>2 DEF CreateHub, SpawnHub, Goto, clockVars, sinkVars, verdictVars, MeshTypeOK, HubState
<1>3. CASE Arm("server", "listen", "hubClient") \/ Arm("client", "connect", "wait")
  BY <1>3 DEF Arm, PostP2PeerCon, Goto, clockVars, sinkVars, verdictVars, MeshTypeOK, Early
<1>4. ASSUME NEW at \in SUBSET Early, SetupFailure(at) PROVE HarnessTypeOK'
  BY <1>4 DEF SetupFailure, Goto, meshVars, clockVars, sinkVars, MeshTypeOK
<1>5. ASSUME NEW want \in Nat, Wait(want) PROVE HarnessTypeOK'
  <2>1. UNCHANGED <<meshVars, sinkVars>> /\ pc' \in {"pump", "opened", "exited"} /\ exitCode' \in {3, exitCode}
    BY <1>5 DEF Wait, StartWait, GateOpens, GateTimesOut, Sleep, Goto, verdictVars, clockVars
  <2>2. tick' \in 0..(Wrap - 1) /\ start' \in 0..(Wrap - 1) /\ waited' \in Nat
    <3>1. CASE Sleep(want)
      <4>1. PICK d \in 1..MaxNap : tick' = (tick + d) % Wrap /\ waited' = waited + d
        BY <3>1 DEF Sleep
      <4>2. tick + d \in Nat /\ Wrap \in Nat \ {0} /\ waited + d \in Nat
        BY ClockAssumption
      <4>3. (tick + d) % Wrap \in 0..(Wrap - 1)
        BY <4>2
      <4>4. QED BY <3>1, <4>1, <4>2, <4>3 DEF Sleep
    <3>2. CASE StartWait \/ GateOpens(want) \/ GateTimesOut(want)
      BY <3>2 DEF StartWait, GateOpens, GateTimesOut, clockVars
    <3>3. QED BY <1>5, <3>1, <3>2 DEF Wait
  <2>3. QED BY <2>1, <2>2 DEF meshVars, sinkVars, MeshTypeOK, Late
<1>6. ASSUME NEW at, NEW next \in Early \cup Late, NEW fails, Judge(at, next, fails) PROVE HarnessTypeOK'
  BY <1>6 DEF Judge, Goto, meshVars, clockVars, sinkVars, MeshTypeOK
<1>7. CASE Verdict
  <2>1. exitCode' \in {0, 3} /\ pc' = "exited"
    BY <1>7 DEF Verdict, Goto
  <2>2. QED BY <1>7, <2>1 DEF Verdict, meshVars, clockVars, sinkVars, MeshTypeOK
<1>8. ASSUME NEW s \in Side, OnError(s) PROVE HarnessTypeOK'
  <2>1. Head(owed[s]) \in ErrorKind /\ Tail(owed[s]) \in Seq(ErrorKind)
    BY <1>8, HeadTailProperties DEF OnError
  <2>2. owed' \in [Side -> Seq(ErrorKind)] /\ errors' \in [ErrorKind -> Nat]
    BY <1>8, <2>1 DEF OnError
  <2>3. QED BY <1>8, <2>2 DEF OnError, meshVars, clockVars, verdictVars, MeshTypeOK
<1>9. CASE LinkUp
  <2>1. owed' \in [Side -> Seq(ErrorKind)]
    BY <1>9, AppendProperties DEF LinkUp, ErrorKind
  <2>2. MeshTypeOK'
    BY <1>9, MaxLoginsAssumption DEF LinkUp, Login, MeshTypeOK
  <2>3. QED BY <1>9, <2>1, <2>2 DEF LinkUp, clockVars, verdictVars
<1>10. CASE LinkDown
  <2>1. owed' \in [Side -> Seq(ErrorKind)]
    BY <1>10, AppendProperties DEF LinkDown, ErrorKind
  <2>2. MeshTypeOK'
    BY <1>10 DEF LinkDown, LinkLost, MeshTypeOK
  <2>3. QED BY <1>10, <2>1, <2>2 DEF LinkDown, clockVars, verdictVars
<1>11. CASE Handled
  <2>1. MeshTypeOK'
    BY <1>11 DEF Handled, MeshTypeOK
  <2>2. QED BY <1>11, <2>1 DEF Handled, clockVars, verdictVars
<1>12. QED
  BY <1>1, <1>2, <1>3, <1>4, <1>5, <1>6, <1>7, <1>8, <1>9, <1>10, <1>11 DEF HarnessStep, Early

\* The wait's round moves clock and wait alike; nothing else moves them.
LEMMA ClockInductive == ASSUME HarnessInv, Running, HarnessStep PROVE ClockInv'
<1> USE DEF HarnessInv
<1>1. "timeout" \notin failed
  BY DEF ClockInv
<1>2. ASSUME NEW want \in Nat, Wait(want) PROVE ClockInv'
  <2>1. CASE StartWait
    BY <2>1, <1>1, ClockAssumption DEF StartWait, Goto, verdictVars, ClockInv, HarnessTypeOK
  <2>2. CASE GateOpens(want)
    BY <2>2, <1>1 DEF GateOpens, Goto, clockVars, verdictVars, ClockInv
  <2>3. CASE GateTimesOut(want)
    <3>1. waited > Timeout
      BY <2>3, ElapsedIsWaited DEF GateTimesOut
    <3>2. pc' = "exited" /\ exitCode' = 3 /\ waited' = waited
      BY <2>3 DEF GateTimesOut, Goto, clockVars
    <3>3. QED BY <3>1, <3>2 DEF ClockInv, Running, Undecided
  <2>4. CASE Sleep(want)
    <3>1. waited <= Timeout /\ waited \in Nat
      BY <2>4, ElapsedIsWaited DEF Sleep, HarnessTypeOK
    <3>2. PICK d \in 1..MaxNap : tick' = (tick + d) % Wrap /\ waited' = waited + d
      BY <2>4 DEF Sleep
    <3>3. /\ tick \in 0..(Wrap - 1) /\ start \in 0..(Wrap - 1) /\ Wrap \in Nat /\ d \in Nat
          /\ d <= MaxNap /\ Timeout \in Nat /\ MaxNap \in Nat /\ Timeout + MaxNap < Wrap
      BY ClockAssumption DEF HarnessTypeOK
    <3>4. \/ tick + d \in 0..(Wrap - 1) /\ tick' = tick + d
          \/ tick + d - Wrap \in 0..(Wrap - 1) /\ tick' = tick + d - Wrap
      <4>1. CASE tick + d < Wrap
        BY <3>2, <3>3, <4>1, ClockFacts
      <4>2. CASE tick + d >= Wrap
        <5>1. tick + d - Wrap \in 0..(Wrap - 1) /\ tick + d = (tick + d - Wrap) + Wrap
          BY <3>1, <3>3, <4>2
        <5>2. QED BY <3>2, <5>1, ClockFacts
      <4>3. QED BY <3>3, <4>1, <4>2
    <3>5. pc = "pump" /\ start' = start /\ failed' = failed
      BY <2>4 DEF Sleep, verdictVars
    <3>6. tick = start + waited \/ tick + Wrap = start + waited
      BY <3>5 DEF ClockInv
    <3>7. tick' = start + waited' \/ tick' + Wrap = start + waited'
      BY <3>1, <3>2, <3>3, <3>4, <3>6
    <3>8. waited' <= Timeout + MaxNap
      BY <3>1, <3>2, <3>3
    <3>9. QED BY <1>1, <3>5, <3>7, <3>8 DEF ClockInv
  <2>5. QED BY <1>2, <2>1, <2>2, <2>3, <2>4 DEF Wait
<1>3. ASSUME \A want \in Nat : ~Wait(want) PROVE ClockInv'
  <2>1. UNCHANGED clockVars /\ "timeout" \notin failed' /\ (pc' = "pump" => pc = "pump")
    BY <1>1, <1>3 DEF HarnessStep, Enter, CreateHub, Arm, SetupFailure, Judge, Verdict, OnError, LinkUp,
       LinkDown, Handled, Goto, Verdicts, verdictVars, Early, Late
  <2>2. QED BY <2>1 DEF ClockInv, clockVars
<1>4. QED BY <1>2, <1>3

\* Nothing of the mesh moves before the client is connected, and nothing that fails then
\* lets the process live on.
LEMMA SetupInductive == ASSUME HarnessInv, Running, HarnessStep PROVE SetupInv'
<1> USE DEF HarnessInv, HarnessTypeOK, MeshTypeOK, SetupInv, Side
<1>1. {"listen", "connect"} \cap failed = {}
  OBVIOUS
<1>2. CASE \E at \in SUBSET Early : SetupFailure(at)
  <2>1. logins' = 0 /\ con' = con /\ con["client"] = FALSE /\ exitCode' = 1 /\ logins = 0
    BY <1>2, MaxLoginsAssumption DEF SetupFailure, meshVars
  <2>2. QED BY <2>1 DEF Running, Undecided
<1>3. CASE Arm("server", "listen", "hubClient") \/ Arm("client", "connect", "wait")
  BY <1>1, <1>3 DEF Arm, PostP2PeerCon, Goto, verdictVars, Early
<1>4. CASE LinkUp
  BY <1>1, <1>4 DEF LinkUp, Login, verdictVars
<1>5. ASSUME ~(\E at \in SUBSET Early : SetupFailure(at)), ~LinkUp,
             ~(Arm("server", "listen", "hubClient") \/ Arm("client", "connect", "wait"))
      PROVE  SetupInv'
  <2>1. UNCHANGED <<con, logins>> /\ (pc' \in Early => pc \in Early)
    BY <1>5 DEF HarnessStep, Enter, CreateHub, SpawnHub, Wait, StartWait, GateOpens, GateTimesOut, Sleep,
       Judge, Verdict, OnError, LinkDown, LinkLost, Handled, Goto, meshVars, Early, Late
  <2>2. {"listen", "connect"} \cap failed' = {}
    BY <1>1, <1>5 DEF HarnessStep, Enter, CreateHub, Wait, StartWait, GateOpens, GateTimesOut, Sleep,
       Judge, Verdict, OnError, LinkDown, Handled, Verdicts, verdictVars
  <2>3. QED BY <2>1, <2>2
<1>6. QED BY <1>2, <1>3, <1>4, <1>5

\* A login owes a warning to each hub; raising one lists it; the client's handler waits
\* for its own.
LEMMA WarnInductive == ASSUME HarnessInv, Running, HarnessStep PROVE WarnInv'
<1> USE DEF HarnessInv, HarnessTypeOK, MeshTypeOK
<1>1. CASE LinkUp
  <2>1. /\ logins' = logins + 1 /\ logins \in Nat /\ errors' = errors /\ ack' = TRUE
        /\ owed' = [s \in Side |-> Append(owed[s], "unrelated")]
    BY <1>1, MaxLoginsAssumption DEF LinkUp, Login
  <2>2. ASSUME logins = 0
        PROVE  /\ \A s \in Side : owed'[s] = <<"unrelated">> /\ owed'[s] # <<>>
               /\ errors'["real"] = 0 /\ errors'["unrelated"] = 0
    <3>1. \A s \in Side : owed[s] = <<>>
      BY <2>2 DEF WarnInv
    <3>2. Append(<<>>, "unrelated") = <<"unrelated">> /\ <<"unrelated">> # <<>>
      OBVIOUS
    <3>3. ASSUME NEW s \in Side PROVE owed'[s] = <<"unrelated">> /\ owed'[s] # <<>>
      <4>1. owed'[s] = <<"unrelated">>
        BY <2>1, <3>1, <3>2
      <4>2. QED BY <3>2, <4>1, Zenon
    <3>4. QED BY <2>1, <2>2, <3>3 DEF WarnInv, ErrorKind
  <2>3. logins = 0 => nOwed("server")' = 1 /\ nOwed("client")' = 1
    BY <2>2 DEF nOwed, Side
  <2>4. QED BY <2>1, <2>2, <2>3 DEF WarnInv, NeverLost
<1>2. CASE LinkDown
  <2>1. link' = FALSE /\ logins' = logins /\ link = TRUE
    BY <1>2 DEF LinkDown, LinkLost
  <2>2. QED BY <2>1 DEF WarnInv, NeverLost
<1>3. ASSUME NEW s \in Side, OnError(s) PROVE WarnInv'
  <2>1. /\ owed[s] # <<>> /\ owed' = [owed EXCEPT ![s] = Tail(owed[s])]
        /\ errors' = [errors EXCEPT ![Head(owed[s])] = errors[Head(owed[s])] + 1]
        /\ UNCHANGED <<link, ack, logins>>
    BY <1>3 DEF OnError, meshVars
  <2>2. logins # 0
    BY <2>1 DEF WarnInv
  <2>3. ASSUME NeverLost
        PROVE  /\ \A t \in Side : owed'[t] \in {<<>>, <<"unrelated">>}
               /\ errors'["real"] = 0
               /\ errors'["unrelated"] + nOwed("server")' + nOwed("client")' = 2
               /\ ~ack => owed'["client"] = <<>>
    <3>1. owed[s] = <<"unrelated">> /\ Head(owed[s]) = "unrelated" /\ Tail(owed[s]) = <<>>
      <4>1. owed[s] = <<"unrelated">>
        BY <2>1, <2>3, Zenon DEF WarnInv
      <4>2. Head(<<"unrelated">>) = "unrelated" /\ Tail(<<"unrelated">>) = <<>>
        OBVIOUS
      <4>3. QED BY <4>1, <4>2, Zenon
    <3>2. owed'[s] = <<>> /\ \A t \in Side : t # s => owed'[t] = owed[t]
      BY <2>1, <3>1
    <3>3. errors'["real"] = 0 /\ errors'["unrelated"] = errors["unrelated"] + 1
      BY <2>1, <2>3, <3>1 DEF WarnInv, ErrorKind
    <3>4. nOwed(s) = 1 /\ nOwed(s)' = 0 /\ \A t \in Side : t # s => nOwed(t)' = nOwed(t)
      BY <2>1, <3>2 DEF nOwed
    <3>5. nOwed("server") \in Nat /\ nOwed("client") \in Nat /\ errors["unrelated"] \in Nat
      BY DEF nOwed, ErrorKind
    <3>6. errors'["unrelated"] + nOwed("server")' + nOwed("client")' = 2
      <4>1. errors["unrelated"] + nOwed("server") + nOwed("client") = 2
        BY <2>3 DEF WarnInv
      <4>2. QED BY <3>3, <3>4, <3>5, <4>1 DEF Side
    <3>7. QED BY <2>3, <3>2, <3>3, <3>6 DEF WarnInv, Side
  <2>4. QED BY <2>1, <2>2, <2>3 DEF WarnInv, NeverLost
<1>4. CASE Handled
  <2>1. UNCHANGED <<link, logins, owed, errors>> /\ (ack' => ack)
    BY <1>4 DEF Handled
  <2>2. NeverLost /\ ~ack' => owed["client"] = <<>>
    BY <1>4 DEF Handled, WarnInv, NeverLost
  <2>3. QED BY <2>1, <2>2 DEF WarnInv, NeverLost, nOwed
<1>5. ASSUME ~LinkUp, ~LinkDown, ~Handled, \A s \in Side : ~OnError(s) PROVE WarnInv'
  <2>1. UNCHANGED <<link, ack, logins, owed, errors>>
    BY <1>5 DEF HarnessStep, Enter, CreateHub, SpawnHub, Arm, PostP2PeerCon, SetupFailure, Wait, StartWait,
       GateOpens, GateTimesOut, Sleep, Judge, Verdict, meshVars, sinkVars
  <2>2. QED BY <2>1 DEF WarnInv, NeverLost, nOwed
<1>6. QED BY <1>1, <1>2, <1>3, <1>4, <1>5

LEMMA HarnessInductive == ASSUME HarnessInv, Running, HarnessStep PROVE HarnessInv'
BY TypeInductive, ClockInductive, SetupInductive, WarnInductive DEF HarnessInv

-------------------------------------------------------------------------------
(* The queues: what TwoHubProofs says of the queues of any mesh. *)

Queues == INSTANCE TwoHubProofs WITH
  doneEvent <- "none", gDone <- FALSE, nFailed <- 0, nExit <- exitCode, gaveUp <- {}

LEMMA SameQueues == \A q : Queues!TagsIn(q) = TagsIn(q)
BY DEF Queues!TagsIn, TagsIn

LEMMA QueueOperations ==
  ASSUME NEW T, NEW q \in Seq(T)
  PROVE  /\ q # <<>> => Head(q) \in T /\ Tail(q) \in Seq(T)
         /\ \A msgs \in Seq(T) : q \o msgs \in Seq(T)
         /\ \A e \in T : <<e>> \in Seq(T) /\ Append(q, e) \in Seq(T)
         /\ \A n \in 0..Len(q) : SubSeq(q, 1, n) \in Seq(T)
BY MaxLoginsAssumption, Queues!QueueOperations

LEMMA TailTags ==
  ASSUME NEW T, NEW q \in Seq(T), q # <<>>
  PROVE  /\ Len(q) \in Nat /\ Len(Tail(q)) = Len(q) - 1 /\ Len(q) > 0
         /\ TagsIn(q) = {Head(q).tag} \cup TagsIn(Tail(q))
BY MaxLoginsAssumption, SameQueues, Queues!TailTags

LEMMA PostedTags ==
  ASSUME NEW T, NEW q \in Seq(T), NEW msgs \in Seq(T)
  PROVE  /\ Len(q \o msgs) = Len(q) + Len(msgs) /\ Len(q) \in Nat /\ Len(msgs) \in Nat
         /\ TagsIn(q \o msgs) = TagsIn(q) \cup TagsIn(msgs)
BY MaxLoginsAssumption, SameQueues, Queues!PostedTags

LEMMA AppendedTags ==
  ASSUME NEW T, NEW q \in Seq(T), NEW e \in T
  PROVE  /\ Append(q, e) \in Seq(T) /\ Len(Append(q, e)) = Len(q) + 1
         /\ TagsIn(Append(q, e)) = TagsIn(q) \cup {e.tag}
<1>1. /\ Append(q, e) = q \o <<e>> /\ Len(q \o <<e>>) = Len(q) + 1
      /\ TagsIn(q \o <<e>>) = TagsIn(q) \cup {e.tag}
  BY MaxLoginsAssumption, SameQueues, Queues!AppendedTags
<1>2. Append(q, e) \in Seq(T)
  BY AppendProperties
<1>3. Len(Append(q, e)) = Len(q) + 1 /\ TagsIn(Append(q, e)) = TagsIn(q) \cup {e.tag}
  BY <1>1, Zenon
<1>4. QED BY <1>2, <1>3

LEMMA FirstTagged ==
  ASSUME NEW T, NEW q \in Seq(T), NEW t \in TagsIn(q)
  PROVE  \E k \in 1..Len(q) : q[k].tag = t /\ \A j \in 1..(k - 1) : q[j].tag # t
BY MaxLoginsAssumption, SameQueues, Queues!FirstTagged

-------------------------------------------------------------------------------
(* The store that is shipped. *)

LEMMA StoreNames ==
  /\ S!Side = Side /\ S!Late = Late
  /\ (S!NeverLost <=> NeverLost) /\ (S!NeverLost' <=> NeverLost')
BY DEF S!Side, Side, S!Late, Late, S!NeverLost, NeverLost

\* Main's steps of the harness alone leave the mesh and the sinks to the handlers; the
\* gate opens on a count.
LEMMA MainFrame ==
  /\ \A at, next : Enter(at, next) => UNCHANGED <<meshVars, sinkVars>>
  /\ \A s, at, next : CreateHub(s, at, next) \/ Arm(s, at, next) =>
       UNCHANGED <<link, ack, logins, inbox, sinkVars>>
  /\ \A at : SetupFailure(at) => UNCHANGED <<meshVars, sinkVars>>
  /\ \A want : Wait(want) => UNCHANGED <<meshVars, sinkVars>>
  /\ \A at, next, fails : Judge(at, next, fails) => UNCHANGED <<meshVars, sinkVars, exitCode>>
  /\ Verdict => UNCHANGED <<meshVars, sinkVars, failed>>
BY DEF Enter, CreateHub, SpawnHub, Arm, PostP2PeerCon, SetupFailure, Wait, StartWait, GateOpens,
   GateTimesOut, Sleep, Judge, Verdict, meshVars, sinkVars

LEMMA StoreMain ==
  ASSUME S!Main PROVE UNCHANGED <<link, ack, logins, inbox, nBumped, owed, errors, received>>
<1> USE DEF meshVars, sinkVars
<1>1. CASE S!Serialise \/ S!Rebuild
  BY <1>1, StoreIsHarness, MainFrame DEF S!Serialise, S!Rebuild
<1>2. CASE S!CheckReceived \/ S!CheckErrors \/ S!Verdict \/ S!Wait(1)
  BY <1>2, StoreIsHarness, MainFrame DEF S!CheckReceived, S!CheckErrors, S!Main, S!storeVars,
     S!Serialise, S!Rebuild
<1>3. CASE S!Setup /\ UNCHANGED S!storeVars
  BY <1>3, StoreIsHarness, MainFrame DEF S!Setup, S!BuildStore, S!storeVars
<1>4. QED BY <1>1, <1>2, <1>3 DEF S!Main

\* What else main does, apart from saving the store.
LEMMA StoreMoves ==
  ASSUME S!Main, ~S!Serialise
  PROVE  /\ image' = image /\ failed \subseteq failed'
         /\ pc' \notin {"apartment", "source", "save", "exited"} =>
              pc \notin {"apartment", "source", "save", "exited"}
         /\ pc' \in Late => pc \in Late \/ (pc = "pump" /\ nBumped >= 1)
         /\ pc' \in {"errors", "verdict"} => S!Rebuild \/ (pc = "errors" /\ rebuilt' = rebuilt)
         /\ exitCode' = 0 => exitCode = 0 \/ (pc = "verdict" /\ failed = {} /\ rebuilt' = rebuilt)
<1> USE DEF Goto, Late
<1>1. CASE S!Rebuild
  BY <1>1, StoreIsHarness DEF S!Rebuild, Judge, Verdicts
<1>2. CASE S!CheckReceived /\ UNCHANGED S!storeVars
  BY <1>2, StoreIsHarness DEF S!CheckReceived, S!storeVars, Judge, Verdicts
<1>3. CASE S!CheckErrors /\ UNCHANGED S!storeVars
  BY <1>3, StoreIsHarness DEF S!CheckErrors, S!storeVars, Judge, Verdicts
<1>4. CASE S!Verdict /\ UNCHANGED S!storeVars
  BY <1>4, StoreIsHarness DEF S!storeVars, Verdict
<1>5. CASE S!Wait(1) /\ UNCHANGED S!storeVars
  BY <1>5, StoreIsHarness DEF S!storeVars, Wait, StartWait, GateOpens, GateTimesOut, Sleep, Verdicts,
     verdictVars
<1>6. CASE S!Setup /\ UNCHANGED S!storeVars
  BY <1>6, StoreIsHarness DEF S!storeVars, S!Setup, S!BuildStore, Enter, CreateHub, Arm, SetupFailure,
     Verdicts, verdictVars
<1>7. QED BY <1>1, <1>2, <1>3, <1>4, <1>5, <1>6 DEF S!Main

\* The handlers run while main pumps; neither they nor the mesh judge anything.
LEMMA StoreOthers ==
  ASSUME S!Handlers \/ S!Mesh
  PROVE  /\ UNCHANGED <<pc, failed, exitCode, image, rebuilt>>
         /\ S!Handlers => pc = "pump"
BY StoreIsHarness DEF S!Handlers, S!Mesh, S!ClientOnPeerUp, S!ServerOnStore, S!Delivers, S!Bump, OnError,
   LinkUp, LinkDown, S!harnessVars, S!verdictVars, verdictVars, S!storeVars

\* Only the image main saved is ever sent, and nothing is before a login.
LEMMA ImageInductive == ASSUME HarnessInv, S!ImageInv, S!Next PROVE S!ImageInv'
<1> USE DEF S!ImageInv
<1>1. nBumped \in Nat /\ logins \in Nat
  BY DEF HarnessInv, HarnessTypeOK, MeshTypeOK
<1>2. ASSUME S!Serialise PROVE S!ImageInv'
  <2>1. PICK saved, read \in BOOLEAN :
          /\ image' \in S!ReadWholeFile(saved, read)
          /\ Judge("save", "network", S!Fails("save", ~saved) \cup S!Fails("read", ~read)
                                        \cup S!Fails("image", image' = "empty"))
          /\ UNCHANGED <<received, rebuilt>>
    BY <1>2, StoreIsHarness DEF S!Serialise
  <2>2. image' \in S!Bytes /\ (~read <=> image' # "intact")
    BY <2>1 DEF S!ReadWholeFile, S!Bytes
  <2>3. (image' = "empty" => "image" \in failed') /\ (failed' = {} => image' = "intact")
    BY <2>1, <2>2 DEF Judge, Verdicts, S!Fails
  <2>4. logins = 0 /\ inbox["server"] = <<>> /\ nBumped = 0
    BY <2>1 DEF Judge, HarnessInv, SetupInv, Early, HarnessTypeOK, MeshTypeOK
  <2>5. inbox' = inbox /\ nBumped' = nBumped
    BY <2>1, MainFrame DEF meshVars, sinkVars
  <2>6. inbox'["server"] \in Seq({image'})
    <3>1. <<>> \in Seq({image'})
      BY EmptySeq
    <3>2. QED BY <2>4, <2>5, <3>1
  <2>7. inbox'["server"] = <<>> /\ nBumped' = 0 /\ ~(nBumped' > 0)
    BY <2>4, <2>5
  <2>8. QED BY <2>2, <2>3, <2>5, <2>6, <2>7
<1>3. CASE S!Main /\ ~S!Serialise
  BY <1>3, StoreMain, StoreMoves
<1>4. CASE S!ClientOnPeerUp
  <2>1. <<image>> \in Seq({image})
    OBVIOUS
  <2>2. inbox["server"] \o <<image>> \in Seq({image})
    BY <2>1, QueueOperations
  <2>3. inbox' = inbox \/ inbox' = [inbox EXCEPT !["server"] = inbox["server"] \o <<image>>]
    BY <1>4 DEF S!ClientOnPeerUp, S!Posted
  <2>4. DOMAIN inbox' = Side /\ inbox'["server"] \in Seq({image})
    BY <2>2, <2>3, StoreNames DEF Side
  <2>5. logins # 0 /\ UNCHANGED <<image, pc, failed, nBumped, received, logins>>
    BY <1>4 DEF S!ClientOnPeerUp, S!harnessVars, S!sinkVars, S!verdictVars, S!storeVars, HarnessInv,
       WarnInv
  <2>6. QED BY <2>4, <2>5, StoreNames
<1>5. CASE S!ServerOnStore
  <2>1. Head(inbox["server"]) \in {image} /\ Tail(inbox["server"]) \in Seq({image})
    BY <1>5, QueueOperations DEF S!ServerOnStore
  <2>2. inbox' = [inbox EXCEPT !["server"] = Tail(inbox["server"])] /\ received' = Head(inbox["server"])
    BY <1>5 DEF S!ServerOnStore, S!Taken
  <2>3. logins # 0 /\ UNCHANGED <<image, pc, failed, logins>>
    BY <1>5 DEF S!ServerOnStore, S!verdictVars
  <2>4. QED BY <2>1, <2>2, <2>3, StoreNames DEF Side
<1>6. CASE LinkDown /\ S!Mesh
  <2>1. PICK n \in [Side -> 0..(Len(inbox["server"]) + Len(inbox["client"]))] :
          (\A s \in Side : n[s] <= Len(inbox[s])) /\ inbox' = CutTo(n)
    BY <1>6 DEF LinkDown, LinkLost
  <2>2. n["server"] \in 0..Len(inbox["server"])
    BY <2>1, LenProperties DEF Side
  <2>3. SubSeq(inbox["server"], 1, n["server"]) \in Seq({image})
    BY <2>2, QueueOperations
  <2>4. inbox["server"] = <<>> => SubSeq(inbox["server"], 1, n["server"]) = <<>>
    <3>1. Len(<<>>) = 0 /\ SubSeq(<<>>, 1, 0) = <<>>
      OBVIOUS
    <3>2. QED BY <2>2, <3>1
  <2>5. DOMAIN inbox' = Side /\ inbox'["server"] = SubSeq(inbox["server"], 1, n["server"])
    BY <2>1 DEF CutTo, Side
  <2>6. UNCHANGED <<logins, nBumped, received, image, pc, failed>>
    BY <1>6, StoreOthers DEF LinkDown, LinkLost, S!Mesh, S!storeVars
  <2>7. QED BY <2>3, <2>4, <2>5, <2>6, StoreNames
<1>7. CASE LinkUp /\ S!Mesh
  <2>1. UNCHANGED <<inbox, nBumped, received, image, pc, failed>>
    BY <1>7, StoreOthers DEF LinkUp, Login, S!Mesh, S!storeVars
  <2>2. logins' # 0
    BY <1>1, <1>7 DEF LinkUp, Login
  <2>3. QED BY <2>1, <2>2
<1>8. CASE (S!OnError("server") \/ S!OnError("client")) /\ UNCHANGED S!storeVars
  BY <1>8, StoreIsHarness DEF OnError, meshVars, verdictVars, S!storeVars
<1>9. QED
  BY <1>2, <1>3, <1>4, <1>5, <1>6, <1>7, <1>8, StoreIsHarness DEF S!Next, S!Main, S!Handlers, S!Mesh

\* What reaches a hub does so after that hub has been warned.
LEMMA WarnedInductive == ASSUME HarnessInv, S!ImageInv, S!WarnedInv, S!Next PROVE S!WarnedInv'
<1> USE StoreNames DEF S!WarnedInv
<1>1. logins \in Nat /\ nBumped \in Nat
  BY DEF HarnessInv, HarnessTypeOK, MeshTypeOK
<1>2. CASE S!Main
  <2>1. UNCHANGED <<link, ack, logins, inbox, nBumped, owed>>
    BY <1>2, StoreMain
  <2>2. QED BY <2>1 DEF NeverLost
<1>3. CASE LinkUp
  <2>1. logins' = logins + 1 /\ UNCHANGED <<inbox, nBumped>>
    BY <1>3 DEF LinkUp, Login
  <2>2. NeverLost' => logins = 0
    BY <1>1, <2>1 DEF NeverLost
  <2>3. NeverLost' => inbox'["server"] = <<>> /\ nBumped' = 0
    BY <2>1, <2>2 DEF S!ImageInv
  <2>4. QED BY <2>3
<1>4. CASE LinkDown
  BY <1>4 DEF LinkDown, LinkLost, NeverLost
<1>5. CASE S!ClientOnPeerUp
  BY <1>5 DEF S!ClientOnPeerUp, S!harnessVars, S!sinkVars, NeverLost
<1>6. CASE S!ServerOnStore
  <2>1. UNCHANGED <<link, logins, ack, owed>> /\ inbox["server"] # <<>>
    BY <1>6 DEF S!ServerOnStore
  <2>2. NeverLost => owed["server"] = <<>> /\ ~ack
    BY <1>6, <2>1 DEF S!ServerOnStore, S!Delivers, NeverLost
  <2>3. QED BY <2>1, <2>2 DEF NeverLost
<1>7. ASSUME NEW s \in Side, OnError(s) PROVE S!WarnedInv'
  <2>1. /\ owed[s] # <<>> /\ owed' = [owed EXCEPT ![s] = Tail(owed[s])]
        /\ UNCHANGED <<link, logins, ack, inbox, nBumped>>
    BY <1>7 DEF OnError, meshVars
  <2>2. NeverLost /\ nBumped > 0 => owed'["server"] = <<>>
    BY <2>1 DEF HarnessInv, HarnessTypeOK, Side
  <2>3. QED BY <2>1, <2>2 DEF NeverLost
<1>8. QED
  BY <1>2, <1>3, <1>4, <1>5, <1>6, <1>7, StoreIsHarness DEF S!Next, S!Handlers, S!Mesh, Side

\* Main passes the gate on a count, finds the whole store or a failure, and forgets none.
LEMMA StoreJudged ==
  ASSUME HarnessInv, S!ImageInv, S!JudgedInv, S!Next PROVE S!JudgedInv'
<1> USE StoreNames DEF S!JudgedInv
<1>1. nBumped \in Nat /\ (pc = "pump" => pc \notin Late) /\ exitCode # 0
  BY DEF HarnessInv, HarnessTypeOK, Late, S!Next, S!Running, S!Undecided
<1>2. CASE S!Serialise
  <2>1. pc' = "network" /\ exitCode' = exitCode
    BY <1>2, StoreIsHarness DEF S!Serialise, Judge, Goto
  <2>2. QED BY <1>1, <2>1 DEF S!SuccessIsIntact, Late
<1>3. CASE S!Main /\ ~S!Serialise
  <2>1. pc' \in Late => nBumped' > 0
    BY <1>1, <1>3, StoreMain, StoreMoves
  <2>2. ASSUME pc' \in {"errors", "verdict"}, failed' = {}
        PROVE  received' = "intact" /\ rebuilt' = "same"
    <3>1. CASE S!Rebuild
      <4>1. PICK written \in BOOLEAN, made \in {"none", "same", "other"} :
              /\ made = "same" => written /\ received = "intact"
              /\ Judge("rebuild", "errors", S!Fails("write", ~written) \cup S!Fails("open", made = "none")
                                              \cup S!Fails("verify", ~S!VerifyStore(made)))
              /\ rebuilt' = made /\ received' = received
        BY <3>1, StoreIsHarness DEF S!Rebuild
      <4>2. made = "same"
        BY <2>2, <4>1 DEF Judge, Verdicts, S!Fails, S!VerifyStore
      <4>3. QED BY <4>1, <4>2
    <3>2. CASE ~S!Rebuild
      <4>1. pc = "errors" /\ failed = {} /\ UNCHANGED <<received, rebuilt>>
        BY <1>3, <2>2, <3>2, StoreMain, StoreMoves
      <4>2. QED BY <4>1
    <3>3. QED BY <3>1, <3>2
  <2>3. S!SuccessIsIntact'
    <3>1. exitCode' = 0 =>
            pc = "verdict" /\ failed = {} /\ UNCHANGED <<image, received, rebuilt>>
      BY <1>1, <1>3, StoreMain, StoreMoves
    <3>2. QED BY <3>1 DEF S!ImageInv, S!SuccessIsIntact
  <2>4. QED BY <2>1, <2>2, <2>3
<1>4. CASE S!Mesh \/ S!Handlers
  <2>1. UNCHANGED <<pc, failed, exitCode, image, rebuilt>> /\ (S!Handlers => pc = "pump")
    BY <1>4, StoreOthers
  <2>2. S!Mesh => UNCHANGED <<nBumped, received>>
    BY StoreIsHarness DEF S!Mesh, LinkUp, LinkDown, S!storeVars
  <2>3. QED BY <1>1, <1>4, <2>1, <2>2 DEF S!SuccessIsIntact, Late
<1>5. QED BY <1>2, <1>3, <1>4 DEF S!Next

\* On a link that stays up the store arrives as it was sent, after both warnings.
LEMMA StoreFailed ==
  ASSUME HarnessInv, S!ImageInv, S!WarnedInv, S!JudgedInv, S!FailedInv, S!Next PROVE S!FailedInv'
<1> USE StoreNames DEF S!FailedInv, S!OnlyTimeoutFails, S!NoFileFault
<1>1. logins \in Nat /\ nBumped \in Nat /\ Running /\ failed \cap {"listen", "connect"} = {}
  BY StoreIsHarness DEF HarnessInv, HarnessTypeOK, MeshTypeOK, SetupInv, S!Next
<1>2. pc \in Late => logins # 0 /\ nBumped > 0 /\ received = image
  BY <1>1 DEF S!ImageInv, S!JudgedInv
<1>3. CASE S!Main
  <2>1. link' = link /\ logins' = logins
    BY <1>3, StoreMain
  <2>2. CASE S!Serialise
    <3>1. logins = 0
      BY <2>2, StoreIsHarness, <1>1 DEF S!Serialise, Judge, HarnessInv, SetupInv, Early, HarnessTypeOK,
         MeshTypeOK
    <3>2. failed' \subseteq failed \cup {"save", "read", "image"}
      BY <2>2, StoreIsHarness DEF S!Serialise, Judge, Verdicts, S!Fails
    <3>3. QED BY <2>1, <3>1, <3>2
  <2>3. CASE S!Setup
    <3>1. failed' = failed \/ (failed' \subseteq failed \cup {"listen", "connect"} /\ pc \in Early)
      BY <2>3, StoreIsHarness DEF S!Setup, S!BuildStore, Enter, CreateHub, Arm, SetupFailure, Verdicts,
         verdictVars, Early
    <3>2. pc \in Early => logins = 0
      BY <1>1 DEF HarnessInv, SetupInv, HarnessTypeOK, MeshTypeOK
    <3>3. QED BY <2>1, <3>1, <3>2
  <2>4. CASE S!Wait(1)
    <3>1. failed' \subseteq failed \cup {"timeout"} /\ failed \subseteq failed'
      BY <2>4, StoreIsHarness DEF Wait, StartWait, GateOpens, GateTimesOut, Sleep, Verdicts, verdictVars
    <3>2. QED BY <2>1, <3>1
  <2>5. CASE S!CheckReceived
    <3>1. failed' = failed \cup S!Fails("bytes", received = "empty" \/ received # image) /\ pc = "opened"
      BY <2>5, StoreIsHarness DEF S!CheckReceived, Judge, Verdicts
    <3>2. image = "empty" => "image" \in failed
      BY <3>1 DEF S!ImageInv
    <3>3. "image" \notin failed => failed' = failed
      BY <1>2, <3>1, <3>2 DEF S!Fails, Late
    <3>4. QED BY <1>2, <2>1, <3>1, <3>3 DEF Late
  <2>6. CASE S!Rebuild
    <3>1. failed' \subseteq failed \cup {"write", "open", "verify"} /\ failed \subseteq failed'
          /\ pc = "rebuild"
      BY <2>6, StoreIsHarness DEF S!Rebuild, Judge, Verdicts, S!Fails
    <3>2. QED BY <1>2, <2>1, <3>1 DEF Late
  <2>7. CASE S!CheckErrors
    <3>1. pc = "errors" /\ failed' = failed \cup S!Fails("real", errors["real"] # 0)
                                       \cup S!Fails("unrelated", errors["unrelated"] # 2)
      BY <2>7, StoreIsHarness DEF S!CheckErrors, Judge, Verdicts
    <3>2. ASSUME NeverLost PROVE failed' = failed
      <4>1. owed["server"] = <<>> /\ ~ack
        BY <1>1, <1>2, <3>1, <3>2 DEF S!WarnedInv, Late
      <4>2. owed["client"] = <<>> /\ errors["real"] = 0
            /\ errors["unrelated"] + nOwed("server") + nOwed("client") = 2
        BY <3>2, <4>1 DEF HarnessInv, WarnInv
      <4>3. nOwed("server") = 0 /\ nOwed("client") = 0
        BY <4>1, <4>2 DEF nOwed
      <4>4. errors["unrelated"] \in Nat
        BY DEF HarnessInv, HarnessTypeOK, ErrorKind
      <4>5. errors["unrelated"] = 2
        BY <4>2, <4>3, <4>4
      <4>6. QED BY <3>1, <4>2, <4>5 DEF S!Fails
    <3>3. QED BY <1>2, <2>1, <3>1, <3>2 DEF NeverLost, Late
  <2>8. CASE S!Verdict
    <3>1. failed' = failed
      BY <2>8, StoreIsHarness, MainFrame
    <3>2. QED BY <2>1, <3>1
  <2>9. QED BY <1>3, <2>2, <2>3, <2>4, <2>5, <2>6, <2>7, <2>8 DEF S!Main
<1>4. CASE LinkUp /\ S!Mesh
  <2>1. failed' = failed /\ logins' = logins + 1
    BY <1>4, StoreOthers DEF LinkUp, Login
  <2>2. logins' # 0 /\ (logins' = 1 => logins = 0)
    BY <1>1, <2>1
  <2>3. QED BY <1>1, <2>1, <2>2
<1>5. CASE LinkDown /\ S!Mesh
  BY <1>5, StoreOthers DEF LinkDown, LinkLost
<1>6. CASE S!Handlers
  <2>1. failed' = failed /\ link' = link /\ logins' = logins
    BY <1>6, StoreOthers, StoreIsHarness DEF S!Handlers, S!ClientOnPeerUp, S!ServerOnStore, OnError,
       meshVars
  <2>2. QED BY <2>1
<1>7. QED BY <1>3, <1>4, <1>5, <1>6, StoreIsHarness DEF S!Next, S!Mesh

-------------------------------------------------------------------------------
(* The questions that are asked. *)

LEMMA QueryNames ==
  /\ Q!Side = Side /\ Q!Late = Late /\ \A q : Q!TagsIn(q) = TagsIn(q)
  /\ (Q!NeverLost <=> NeverLost) /\ (Q!NeverLost' <=> NeverLost')
BY DEF Q!Side, Side, Q!Late, Late, Q!TagsIn, TagsIn, Q!NeverLost, NeverLost

\* The table asks about the store main declares, and states what the store answers.
LEMMA AsksFacts ==
  /\ Q!kAsks \in Nat \ {0} /\ DOMAIN Asks = Q!Tags
  /\ Rewritten \in DOMAIN Built /\ NoField \in Q!Values
  /\ \A i \in Q!Tags : [path |-> Asks[i].path, tag |-> i] \in Q!Question
  /\ \A i \in Q!Tags : Q!RightBody(i) \in [ok : BOOLEAN, value : Q!Values]
<1>1. /\ Q!kAsks \in Nat \ {0} /\ DOMAIN Asks = Q!Tags /\ Rewritten \in DOMAIN Built
      /\ NoField \in Q!Values
      /\ \A i \in Q!Tags : [path |-> Asks[i].path, tag |-> i] \in Q!Question
  BY MeshComAssumption DEF Q!QuestionsAreOfTheStore, Q!kAsks, Q!Tags, Q!Question, Q!Values
<1>2. ASSUME NEW i \in Q!Tags PROVE Q!RightBody(i) \in [ok : BOOLEAN, value : Q!Values]
  <2>1. Asks[i].ok \in BOOLEAN
    <3>1. CASE Asks[i].path \in DOMAIN Built
      BY <1>1, <3>1, MeshComAssumption, Zenon DEF Q!TableIsRight
    <3>2. CASE Asks[i].path \notin DOMAIN Built
      BY <1>1, <3>2, MeshComAssumption DEF Q!TableIsRight
    <3>3. QED BY <3>1, <3>2
  <2>2. Asks[i].value \in Q!Values /\ NoField \in Q!Values
    BY DEF Q!Values
  <2>3. QED BY <2>1, <2>2 DEF Q!RightBody
<1>3. QED BY <1>1, <1>2

LEMMA LookupIsRight ==
  ASSUME store = Built, NEW q \in Q!Question
  PROVE  [tag |-> q.tag, body |-> Q!Lookup(q.path)] \in Q!Right
<1>1. PICK i \in Q!Tags : q = [path |-> Asks[i].path, tag |-> i]
  BY DEF Q!Question
<1>2. q.path = Asks[i].path /\ q.tag = i /\ i \in DOMAIN Asks
  BY <1>1, AsksFacts
<1>3. Q!Lookup(q.path) = Q!RightBody(i)
  BY <1>2, MeshComAssumption DEF Q!TableIsRight, Q!Lookup, Q!RightBody
<1>4. QED BY <1>2, <1>3, AsksFacts DEF Q!Right, Q!Reply

LEMMA QueryMain ==
  ASSUME Q!Main
  PROVE  UNCHANGED <<link, ack, logins, inbox, nBumped, owed, errors, nAnswered, replies>>
<1> USE DEF meshVars, sinkVars, Q!queryVars
<1>1. CASE Q!CheckStore
  BY <1>1, QueryIsHarness, MainFrame DEF Q!CheckStore
<1>2. CASE UNCHANGED Q!queryVars /\ (Q!Compare \/ Q!CheckPeers \/ Q!CheckErrors \/ Q!Verdict)
  BY <1>2, QueryIsHarness, MainFrame DEF Q!Compare, Q!CheckPeers, Q!CheckErrors
<1>3. CASE UNCHANGED Q!queryVars /\ (Q!Setup \/ Q!Wait(Q!kAsks))
  BY <1>3, QueryIsHarness, MainFrame DEF Q!Setup, Q!Declare
<1>4. QED BY <1>1, <1>2, <1>3 DEF Q!Main

\* Main writes to the store once it has compared.
LEMMA QueryMoves ==
  ASSUME Q!Main
  PROVE  /\ failed \subseteq failed'
         /\ pc' \notin {"errors", "verdict", "exited"} =>
              pc \notin {"errors", "verdict", "exited"} /\ store' = store
         /\ pc' \in Late => pc \in Late \/ (pc = "pump" /\ nBumped >= Q!kAsks)
         /\ pc' \in Late \ {"opened"} => pc \in Late \ {"opened"} \/ Q!Compare
         /\ exitCode' = 0 => exitCode = 0 \/ (pc = "verdict" /\ failed = {})
<1> USE DEF Goto, Late, Q!queryVars
<1>1. CASE Q!CheckStore
  BY <1>1, QueryIsHarness DEF Q!CheckStore, Judge, Verdicts
<1>2. CASE Q!Compare /\ UNCHANGED Q!queryVars
  <2>1. PICK fails : Judge("opened", "peerClient", fails)
    BY <1>2, QueryIsHarness, Zenon DEF Q!Compare
  <2>2. QED BY <1>2, <2>1 DEF Judge, Verdicts
<1>3. CASE (Q!CheckPeers \/ Q!CheckErrors) /\ UNCHANGED Q!queryVars
  BY <1>3, QueryIsHarness DEF Q!CheckPeers, Q!CheckErrors, Judge, Verdicts
<1>4. CASE Q!Verdict /\ UNCHANGED Q!queryVars
  BY <1>4, QueryIsHarness DEF Verdict
<1>5. CASE Q!Wait(Q!kAsks) /\ UNCHANGED Q!queryVars
  BY <1>5, QueryIsHarness DEF Wait, StartWait, GateOpens, GateTimesOut, Sleep, Verdicts, verdictVars
<1>6. CASE Q!Setup /\ UNCHANGED Q!queryVars
  BY <1>6, QueryIsHarness DEF Q!Setup, Q!Declare, Enter, CreateHub, Arm, SetupFailure, Verdicts, verdictVars
<1>7. QED BY <1>1, <1>2, <1>3, <1>4, <1>5, <1>6 DEF Q!Main

LEMMA QueryOthers ==
  ASSUME Q!Handlers \/ Q!Mesh
  PROVE  /\ UNCHANGED <<pc, failed, exitCode, store>>
         /\ Q!Handlers => pc = "pump"
         /\ Q!Mesh => UNCHANGED <<nBumped, nAnswered, replies>>
BY QueryIsHarness DEF Q!Handlers, Q!Mesh, Q!ServerOnAsk, Q!ClientOnPeerUp, Q!ClientOnAnswer, Q!Delivers,
   Q!Bump, OnError, LinkUp, LinkDown, Q!harnessVars, Q!verdictVars, verdictVars, Q!queryVars

\* What the queues and the list hold.
LEMMA Holding ==
  ASSUME HarnessInv, Q!AnswerInv
  PROVE  /\ inbox["server"] \in Seq(Q!Question) /\ inbox["client"] \in Seq(Q!Right)
         /\ replies \in Seq(Q!Right) /\ DOMAIN inbox = Side
         /\ Len(inbox["server"]) \in Nat /\ Len(inbox["client"]) \in Nat /\ Len(replies) \in Nat
         /\ nBumped = Len(replies) /\ nAnswered \in Nat /\ logins \in Nat
         /\ ack \in BOOLEAN /\ link \in BOOLEAN /\ Q!kAsks \in Nat \ {0}
<1>1. /\ inbox["server"] \in Seq(Q!Question) /\ inbox["client"] \in Seq(Q!Right)
      /\ replies \in Seq(Q!Right) /\ DOMAIN inbox = Side
      /\ nBumped = Len(replies) /\ nAnswered \in Nat
  BY QueryNames DEF Q!AnswerInv
<1>2. logins \in Nat /\ ack \in BOOLEAN /\ link \in BOOLEAN
  BY DEF HarnessInv, HarnessTypeOK, MeshTypeOK
<1>3. QED BY <1>1, <1>2, AsksFacts, LenProperties

\* One question leaves the server's queue and its right answer, counted, goes to the
\* client's unless the link is down.
LEMMA ServerAnswers ==
  ASSUME HarnessInv, Q!AnswerInv, Q!ServerOnAsk
  PROVE  /\ UNCHANGED <<pc, store, replies, nBumped, link, ack, logins>>
         /\ nAnswered' = nAnswered + 1 /\ DOMAIN inbox' = Side
         /\ inbox'["server"] \in Seq(Q!Question) /\ inbox'["client"] \in Seq(Q!Right)
         /\ Len(inbox["server"]) > 0 /\ Len(inbox'["server"]) = Len(inbox["server"]) - 1
         /\ ~link => inbox'["client"] = inbox["client"]
         /\ link => Len(inbox'["client"]) = Len(inbox["client"]) + 1
         /\ link => TagsIn(inbox["server"]) \cup TagsIn(inbox["client"]) \subseteq
                      TagsIn(inbox'["server"]) \cup TagsIn(inbox'["client"])
<1> DEFINE q == inbox["server"]
           c == inbox["client"]
           r == [tag |-> Head(q).tag, body |-> Q!Lookup(Head(q).path)]
<1>1. q \in Seq(Q!Question) /\ q # <<>> /\ c \in Seq(Q!Right)
  BY Holding DEF Q!ServerOnAsk
<1>2. Head(q) \in Q!Question /\ Tail(q) \in Seq(Q!Question)
  BY <1>1, QueueOperations
<1>3. r \in Q!Right
  <2>1. store = Built
    BY DEF Q!ServerOnAsk, Q!Delivers, Q!AnswerInv
  <2>2. QED BY <1>2, <2>1, LookupIsRight
<1>4. r.tag = Head(q).tag
  OBVIOUS
<1>5. /\ inbox' = [inbox EXCEPT !["server"] = Tail(q), !["client"] = IF link THEN Append(c, r) ELSE c]
      /\ nAnswered' = nAnswered + 1
      /\ UNCHANGED <<pc, store, replies, nBumped, link, ack, logins>>
  BY DEF Q!ServerOnAsk, Q!harnessVars, Q!sinkVars
<1>6. inbox'["server"] = Tail(q) /\ inbox'["client"] = (IF link THEN Append(c, r) ELSE c)
      /\ DOMAIN inbox' = Side
  <2> HIDE DEF q, c, r
  <2>1. QED BY <1>5, Holding DEF Side
<1> HIDE DEF q, c, r
<1>7. /\ Len(q) > 0 /\ Len(Tail(q)) = Len(q) - 1
      /\ TagsIn(q) = {r.tag} \cup TagsIn(Tail(q))
  BY <1>1, <1>4, TailTags
<1>8. /\ Append(c, r) \in Seq(Q!Right) /\ Len(Append(c, r)) = Len(c) + 1
      /\ TagsIn(Append(c, r)) = TagsIn(c) \cup {r.tag}
  BY <1>1, <1>3, AppendedTags
<1>9. /\ link => inbox'["client"] = Append(c, r)
      /\ ~link => inbox'["client"] = c
  BY <1>6
<1>10. inbox'["client"] \in Seq(Q!Right)
  BY <1>1, <1>8, <1>9
<1>11. QED BY <1>2, <1>5, <1>6, <1>7, <1>8, <1>9, <1>10 DEF q, c

\* Every question goes to the server's queue, in order, unless the link is down.
LEMMA ClientAsks ==
  ASSUME HarnessInv, Q!AnswerInv, Q!ClientOnPeerUp
  PROVE  /\ UNCHANGED <<pc, store, replies, nBumped, nAnswered, link, logins>>
         /\ ack /\ ~ack' /\ DOMAIN inbox' = Side
         /\ inbox'["server"] \in Seq(Q!Question) /\ inbox'["client"] = inbox["client"]
         /\ link => /\ Len(inbox'["server"]) = Len(inbox["server"]) + Q!kAsks
                    /\ Q!Tags \subseteq TagsIn(inbox'["server"])
<1> DEFINE msgs == [i \in 1..Q!kAsks |-> [path |-> Asks[i].path, tag |-> i]]
           q == inbox["server"]
<1>1. /\ ack /\ ack' = FALSE /\ inbox' = Q!Posted("server", msgs)
      /\ UNCHANGED <<pc, store, replies, nBumped, nAnswered, link, logins>>
  BY DEF Q!ClientOnPeerUp, Q!harnessVars, Q!sinkVars, Q!queryVars
<1>2. msgs \in Seq(Q!Question) /\ Len(msgs) = Q!kAsks /\ \A i \in 1..Q!kAsks : msgs[i].tag = i
  BY AsksFacts, IsASeq DEF Q!Tags
<1>3. TagsIn(msgs) = Q!Tags
  BY <1>2 DEF TagsIn, Q!Tags
<1>4. q \in Seq(Q!Question)
  BY Holding
<1> HIDE DEF msgs, q
<1>5. /\ Len(q \o msgs) = Len(q) + Q!kAsks /\ q \o msgs \in Seq(Q!Question)
      /\ TagsIn(q \o msgs) = TagsIn(q) \cup Q!Tags
  BY <1>2, <1>3, <1>4, PostedTags, QueueOperations
<1>6. /\ DOMAIN inbox' = Side /\ inbox'["client"] = inbox["client"]
      /\ link => inbox'["server"] = q \o msgs
      /\ ~link => inbox'["server"] = q
  BY <1>1, Holding DEF Q!Posted, q, Side
<1>7. inbox'["server"] \in Seq(Q!Question)
  BY <1>4, <1>5, <1>6
<1>8. QED BY <1>1, <1>5, <1>6, <1>7 DEF q

\* One answer goes from the client's queue to the list and is counted.
LEMMA ClientLists ==
  ASSUME HarnessInv, Q!AnswerInv, Q!ClientOnAnswer
  PROVE  /\ UNCHANGED <<pc, store, nAnswered, link, ack, logins>> /\ DOMAIN inbox' = Side
         /\ inbox'["server"] = inbox["server"] /\ inbox'["client"] \in Seq(Q!Right)
         /\ replies' \in Seq(Q!Right) /\ nBumped' = nBumped + 1
         /\ Len(replies') = Len(replies) + 1
         /\ Len(inbox["client"]) > 0 /\ Len(inbox'["client"]) = Len(inbox["client"]) - 1
         /\ TagsIn(inbox["client"]) \cup TagsIn(replies) \subseteq
              TagsIn(inbox'["client"]) \cup TagsIn(replies')
         /\ \E r \in Q!Right : replies' = Append(replies, r)
<1> DEFINE c == inbox["client"]
           r == Head(c)
<1>1. c \in Seq(Q!Right) /\ c # <<>> /\ replies \in Seq(Q!Right)
  BY Holding DEF Q!ClientOnAnswer
<1>2. r \in Q!Right /\ Tail(c) \in Seq(Q!Right)
  BY <1>1, QueueOperations
<1>3. /\ replies' = Append(replies, r) /\ inbox' = [inbox EXCEPT !["client"] = Tail(c)]
      /\ nBumped' = nBumped + 1
      /\ UNCHANGED <<pc, store, nAnswered, link, ack, logins>>
  BY DEF Q!ClientOnAnswer, Q!Taken, Q!Bump
<1>4. DOMAIN inbox' = Side /\ inbox'["client"] = Tail(c) /\ inbox'["server"] = inbox["server"]
  BY <1>3, Holding DEF Side
<1>5. Len(c) > 0 /\ Len(Tail(c)) = Len(c) - 1 /\ TagsIn(c) = {r.tag} \cup TagsIn(Tail(c))
  <2> HIDE DEF c
  <2>1. QED BY <1>1, TailTags
<1>6. /\ Append(replies, r) \in Seq(Q!Right) /\ Len(Append(replies, r)) = Len(replies) + 1
      /\ TagsIn(Append(replies, r)) = TagsIn(replies) \cup {r.tag}
  <2> HIDE DEF r, c
  <2>1. QED BY <1>1, <1>2, AppendedTags
<1> HIDE DEF r, c
<1>7. QED BY <1>2, <1>3, <1>4, <1>5, <1>6 DEF c

\* The prefixes that had arrived.
LEMMA LinkCuts ==
  ASSUME HarnessInv, Q!AnswerInv, LinkDown
  PROVE  /\ inbox'["server"] \in Seq(Q!Question) /\ inbox'["client"] \in Seq(Q!Right)
         /\ DOMAIN inbox' = Side /\ link' = FALSE /\ UNCHANGED <<logins, ack>>
         /\ inbox["server"] = <<>> => inbox'["server"] = <<>>
         /\ inbox["client"] = <<>> => inbox'["client"] = <<>>
<1>1. PICK n \in [Side -> 0..(Len(inbox["server"]) + Len(inbox["client"]))] :
        (\A s \in Side : n[s] <= Len(inbox[s])) /\ inbox' = CutTo(n)
  BY DEF LinkDown, LinkLost
<1>2. \A s \in Side : n[s] \in 0..Len(inbox[s])
  BY <1>1, Holding DEF Side
<1>3. /\ DOMAIN inbox' = Side
      /\ inbox'["server"] = SubSeq(inbox["server"], 1, n["server"])
      /\ inbox'["client"] = SubSeq(inbox["client"], 1, n["client"])
  BY <1>1 DEF CutTo, Side
<1>4. /\ SubSeq(inbox["server"], 1, n["server"]) \in Seq(Q!Question)
      /\ SubSeq(inbox["client"], 1, n["client"]) \in Seq(Q!Right)
  BY <1>2, Holding, QueueOperations DEF Side
<1>5. Len(<<>>) = 0 /\ SubSeq(<<>>, 1, 0) = <<>>
  OBVIOUS
<1>6. ASSUME NEW s \in Side, inbox[s] = <<>> PROVE SubSeq(inbox[s], 1, n[s]) = <<>>
  <2>1. n[s] = 0
    BY <1>2, <1>5, <1>6
  <2>2. QED BY <1>5, <1>6, <2>1
<1>7. QED BY <1>3, <1>4, <1>6 DEF LinkDown, LinkLost, Side

LEMMA AnswerInductive == ASSUME HarnessInv, Q!AnswerInv, Q!Next PROVE Q!AnswerInv'
<1>1. (pc \notin {"errors", "verdict", "exited"} => store = Built) /\ Q!Question' = Q!Question
      /\ Q!Right' = Q!Right
  BY DEF Q!AnswerInv, Q!Question, Q!Right, Q!Reply, Q!Values, Q!RightBody, Q!Tags, Q!kAsks
<1>2. SUFFICES /\ DOMAIN inbox' = Side
               /\ inbox'["server"] \in Seq(Q!Question) /\ inbox'["client"] \in Seq(Q!Right)
               /\ replies' \in Seq(Q!Right) /\ nBumped' = Len(replies') /\ nAnswered' \in Nat
               /\ pc' \notin {"errors", "verdict", "exited"} => store' = Built
  BY <1>1, QueryNames DEF Q!AnswerInv
<1>3. CASE Q!Main
  BY <1>1, <1>3, QueryMain, QueryMoves, Holding
<1>4. CASE Q!ServerOnAsk
  BY <1>1, <1>4, ServerAnswers, Holding
<1>5. CASE Q!ClientOnPeerUp
  BY <1>1, <1>5, ClientAsks, Holding
<1>6. CASE Q!ClientOnAnswer
  BY <1>1, <1>6, ClientLists, Holding
<1>7. CASE Q!Mesh
  <2>1. UNCHANGED <<pc, store, replies, nBumped, nAnswered>>
    BY <1>7, QueryOthers
  <2>2. LinkUp => inbox' = inbox
    BY DEF LinkUp, Login
  <2>3. QED BY <1>1, <1>7, <2>1, <2>2, LinkCuts, Holding, QueryIsHarness DEF Q!Mesh
<1>8. CASE (Q!OnError("server") \/ Q!OnError("client")) /\ UNCHANGED Q!queryVars
  <2>1. UNCHANGED <<pc, store, replies, nBumped, nAnswered, inbox>>
    BY <1>8, QueryIsHarness DEF OnError, Q!queryVars, meshVars
  <2>2. QED BY <1>1, <2>1, Holding
<1>9. QED BY <1>3, <1>4, <1>5, <1>6, <1>7, <1>8 DEF Q!Next, Q!Handlers

\* Each question of the one login is on its way to the server, or its answer is on its way
\* to the client or in the list; the server has counted the answers.
LEMMA DeliveryInductive ==
  ASSUME HarnessInv, Q!AnswerInv, Q!DeliveryInv, Q!Next PROVE Q!DeliveryInv'
<1> DEFINE a == Len(inbox["server"])
           b == Len(inbox["client"])
           d == Len(replies)
<1>1. /\ a \in Nat /\ b \in Nat /\ d \in Nat /\ Q!kAsks \in Nat \ {0} /\ nAnswered \in Nat
      /\ Q!nHeld = a + b + d /\ Q!kAsks' = Q!kAsks /\ Q!Tags' = Q!Tags
  BY Holding DEF Q!nHeld, Q!kAsks, Q!Tags
<1>2. /\ logins = 0 \/ (NeverLost /\ ack) => Q!nHeld = 0 /\ nAnswered = 0
      /\ NeverLost /\ ~ack =>
           /\ Q!nHeld = Q!kAsks /\ nAnswered = b + d
           /\ Q!Tags \subseteq TagsIn(inbox["server"]) \cup TagsIn(inbox["client"]) \cup TagsIn(replies)
  BY QueryNames, Zenon DEF Q!DeliveryInv
<1>3. logins = 0 => ~ack
  BY DEF HarnessInv, WarnInv
<1>4. SUFFICES
        /\ logins' = 0 \/ (NeverLost' /\ ack') => Q!nHeld' = 0 /\ nAnswered' = 0
        /\ NeverLost' /\ ~ack' =>
             /\ Q!nHeld' = Q!kAsks /\ nAnswered' = Len(inbox'["client"]) + Len(replies')
             /\ Q!Tags \subseteq TagsIn(inbox'["server"]) \cup TagsIn(inbox'["client"]) \cup TagsIn(replies')
  <2>1. \A q : Q!TagsIn(q) = TagsIn(q)
    BY QueryNames
  <2>2. TagsIn(inbox["server"])' = TagsIn(inbox'["server"]) /\ TagsIn(replies)' = TagsIn(replies')
        /\ TagsIn(inbox["client"])' = TagsIn(inbox'["client"])
    BY DEF TagsIn
  <2>3. QED BY <1>1, <1>4, <2>1, <2>2, QueryNames DEF Q!DeliveryInv, Q!TagsIn, TagsIn
<1>5. Q!nHeld' = Len(inbox'["server"]) + Len(inbox'["client"]) + Len(replies')
  BY DEF Q!nHeld
<1>6. CASE Q!Main \/ ((Q!OnError("server") \/ Q!OnError("client")) /\ UNCHANGED Q!queryVars)
  <2>1. UNCHANGED <<link, ack, logins, inbox, replies, nAnswered>>
    BY <1>6, QueryMain, QueryIsHarness DEF OnError, Q!queryVars, meshVars
  <2>2. QED BY <1>1, <1>2, <1>5, <2>1 DEF NeverLost
<1>7. CASE Q!ServerOnAsk
  <2> DEFINE e == Len(inbox'["server"])
             f == Len(inbox'["client"])
  <2>1. /\ UNCHANGED <<replies, link, ack, logins>> /\ nAnswered' = nAnswered + 1
        /\ a > 0 /\ e = a - 1
        /\ link => f = b + 1
        /\ link => TagsIn(inbox["server"]) \cup TagsIn(inbox["client"]) \subseteq
                     TagsIn(inbox'["server"]) \cup TagsIn(inbox'["client"])
    BY <1>7, ServerAnswers
  <2>2. Q!nHeld' = e + f + d
    BY <1>5, <2>1
  <2>3. Q!nHeld # 0
    <3> HIDE DEF a, b, d
    <3>1. QED BY <1>1, <2>1
  <2>4. NeverLost /\ ~ack => Q!nHeld' = Q!kAsks /\ nAnswered' = f + d
    <3>1. NeverLost => link
      BY DEF NeverLost
    <3> HIDE DEF a, b, d, e, f
    <3>2. QED BY <1>1, <1>2, <2>1, <2>2, <3>1
  <2>5. QED BY <1>2, <2>1, <2>3, <2>4 DEF NeverLost
<1>8. CASE Q!ClientOnPeerUp
  <2> DEFINE e == Len(inbox'["server"])
  <2>1. /\ UNCHANGED <<replies, nAnswered, link, logins>> /\ ack /\ ~ack'
        /\ inbox'["client"] = inbox["client"]
        /\ link => e = a + Q!kAsks /\ Q!Tags \subseteq TagsIn(inbox'["server"])
    BY <1>8, ClientAsks
  <2>2. Q!nHeld' = e + b + d
    BY <1>5, <2>1
  <2>3. NeverLost => Q!nHeld' = Q!kAsks /\ nAnswered' = b + d
    <3>1. NeverLost => link
      BY DEF NeverLost
    <3> HIDE DEF a, b, d, e
    <3>2. QED BY <1>1, <1>2, <2>1, <2>2, <3>1
  <2>4. QED BY <1>2, <1>3, <2>1, <2>3 DEF NeverLost
<1>9. CASE Q!ClientOnAnswer
  <2> DEFINE f == Len(inbox'["client"])
             g == Len(replies')
  <2>1. /\ UNCHANGED <<nAnswered, link, ack, logins>> /\ inbox'["server"] = inbox["server"]
        /\ g = d + 1 /\ b > 0 /\ f = b - 1
        /\ TagsIn(inbox["client"]) \cup TagsIn(replies) \subseteq
             TagsIn(inbox'["client"]) \cup TagsIn(replies')
    BY <1>9, ClientLists
  <2>2. Q!nHeld' = a + f + g
    BY <1>5, <2>1
  <2>3. Q!nHeld' = Q!nHeld /\ f + g = b + d
    <3> HIDE DEF a, b, d, f, g
    <3>1. QED BY <1>1, <2>1, <2>2
  <2>4. QED BY <1>2, <2>1, <2>3 DEF NeverLost
<1>10. CASE LinkUp /\ Q!Mesh
  <2>1. UNCHANGED <<replies, nAnswered, inbox>> /\ logins' = logins + 1 /\ ack' = TRUE
    BY <1>10, QueryOthers DEF LinkUp, Login
  <2>2. Q!nHeld' = Q!nHeld /\ logins' # 0 /\ (logins' = 1 => logins = 0)
    BY <1>1, <1>5, <2>1, Holding
  <2>3. QED BY <1>2, <2>1, <2>2 DEF NeverLost
<1>11. CASE LinkDown /\ Q!Mesh
  <2>1. link' = FALSE /\ logins' = logins /\ logins # 0
    BY <1>11 DEF LinkDown, LinkLost, HarnessInv, WarnInv
  <2>2. QED BY <2>1 DEF NeverLost
<1>12. QED
  BY <1>6, <1>7, <1>8, <1>9, <1>10, <1>11, QueryIsHarness DEF Q!Next, Q!Handlers, Q!Mesh

\* A question that compares right has its right answer in the list.
LEMMA RightIsAnswered == ASSUME NEW i \in Q!Tags, Q!IsRight(i) PROVE i \in Q!AnsweredRight
BY DEF Q!IsRight, Q!Tagged, Q!AnsweredRight

\* A list of right answers with every tag in it compares right.
LEMMA CompletesRight ==
  ASSUME replies \in Seq(Q!Right), Q!Tags \subseteq TagsIn(replies), NEW i \in Q!Tags
  PROVE  Q!IsRight(i)
<1>1. PICK k \in 1..Len(replies) : replies[k].tag = i /\ \A j \in 1..(k - 1) : replies[j].tag # i
  BY FirstTagged
<1>2. replies[k] \in Q!Right
  BY ElementOfSeq
<1>3. QED BY <1>1, <1>2 DEF Q!IsRight, Q!Tagged, Q!Right

\* The answers listed, one at a time.
LEMMA AnswersListed ==
  ASSUME HarnessInv, Q!AnswerInv, Q!Next
  PROVE  Q!AnsweredRight' = Q!AnsweredRight
           \/ \E i \in Q!Tags : Q!AnsweredRight' = Q!AnsweredRight \cup {i}
<1> USE DEF Q!AnsweredRight, Q!RightBody, Q!Tags, Q!kAsks
<1>1. CASE Q!ClientOnAnswer
  <2>1. PICK r \in Q!Right : replies' = Append(replies, r)
    BY <1>1, ClientLists
  <2>2. /\ Len(replies) \in Nat /\ Len(replies') = Len(replies) + 1 /\ replies'[Len(replies) + 1] = r
        /\ \A k \in 1..Len(replies) : replies'[k] = replies[k]
    BY <2>1, Holding, AppendProperties
  <2>3. r.tag \in Q!Tags /\ r.body = Q!RightBody(r.tag)
    BY DEF Q!Right, Q!Reply
  <2>4. ASSUME NEW i \in Q!AnsweredRight' PROVE i \in Q!AnsweredRight \cup {r.tag}
    <3>1. PICK k \in 1..Len(replies') : replies'[k].tag = i /\ replies'[k].body = Q!RightBody(i)
      BY <2>4
    <3>2. k \in 1..Len(replies) \/ k = Len(replies) + 1
      BY <2>2
    <3>3. QED BY <2>2, <2>4, <3>1, <3>2
  <2>5. ASSUME NEW i \in Q!AnsweredRight PROVE i \in Q!AnsweredRight'
    <3>1. PICK k \in 1..Len(replies) : replies[k].tag = i /\ replies[k].body = Q!RightBody(i)
      BY <2>5
    <3>2. k \in 1..Len(replies') /\ replies'[k] = replies[k]
      BY <2>2
    <3>3. QED BY <2>5, <3>1, <3>2
  <2>6. r.tag \in Q!AnsweredRight'
    <3>1. Len(replies) + 1 \in 1..Len(replies')
      BY <2>2
    <3>2. QED BY <2>2, <2>3, <3>1
  <2>7. Q!AnsweredRight' = Q!AnsweredRight \cup {r.tag}
    BY <2>4, <2>5, <2>6
  <2>8. QED BY <2>3, <2>7
<1>2. CASE ~Q!ClientOnAnswer
  <2>1. replies' = replies
    BY <1>2, QueryMain, QueryOthers DEF Q!Next, Q!Handlers, Q!ServerOnAsk, Q!ClientOnPeerUp, Q!queryVars
  <2>2. QED BY <2>1
<1>3. QED BY <1>1, <1>2

\* Main passes the gate on its count, misses no answer and forgets no failure.
LEMMA QueryJudged ==
  ASSUME HarnessInv, Q!AnswerInv, Q!JudgedInv, Q!Next PROVE Q!JudgedInv'
<1>1. /\ pc \in Late => nBumped >= Q!kAsks
      /\ pc \in Late \ {"opened"} /\ failed = {} => Q!AnsweredRight = Q!Tags
      /\ exitCode # 0 /\ (pc = "pump" => pc \notin Late)
  BY QueryNames DEF Q!JudgedInv, Q!Next, Q!Running, Q!Undecided, Late
<1>2. SUFFICES
        /\ pc' \in Late => nBumped' >= Q!kAsks
        /\ pc' \in Late \ {"opened"} /\ failed' = {} => Q!AnsweredRight' = Q!Tags
        /\ exitCode' = 0 => Q!AnsweredRight' = Q!Tags
  BY QueryNames DEF Q!JudgedInv, Q!Tags, Q!kAsks
<1>3. Q!AnsweredRight \subseteq Q!AnsweredRight' /\ Q!AnsweredRight' \subseteq Q!Tags
  BY AnswersListed DEF Q!AnsweredRight
<1>4. CASE Q!Main
  <2>1. pc' \in Late => nBumped' >= Q!kAsks
    BY <1>1, <1>4, QueryMain, QueryMoves
  <2>2. ASSUME Q!Compare, failed' = {} PROVE Q!AnsweredRight = Q!Tags
    <3> DEFINE wrong == \E i \in 1..Q!kAsks : ~Q!IsRight(i)
    <3>1. PICK others : Judge("opened", "peerClient", others \cup Q!Fails("answers", wrong))
      BY <2>2, QueryIsHarness, Zenon DEF Q!Compare
    <3>2. ~wrong
      <4> HIDE DEF wrong
      <4>1. QED BY <2>2, <3>1 DEF Judge, Verdicts, Q!Fails
    <3>3. \A i \in Q!Tags : Q!IsRight(i)
      BY <3>2 DEF Q!Tags
    <3>4. QED BY <3>3, RightIsAnswered DEF Q!AnsweredRight
  <2>3. pc' \in Late \ {"opened"} /\ failed' = {} => Q!AnsweredRight = Q!Tags
    <3>1. failed' = {} => failed = {}
      BY <1>4, QueryMoves
    <3>2. QED BY <1>1, <1>4, <2>2, <3>1, QueryMoves
  <2>4. exitCode' = 0 => Q!AnsweredRight = Q!Tags
    BY <1>1, <1>4, QueryMoves DEF Late
  <2>5. QED BY <1>3, <2>1, <2>3, <2>4
<1>5. CASE Q!Mesh \/ Q!Handlers
  <2>1. UNCHANGED <<pc, failed, exitCode>> /\ (Q!Handlers => pc = "pump") /\ (Q!Mesh => nBumped' = nBumped)
    BY <1>5, QueryOthers
  <2>2. QED BY <1>1, <1>3, <1>5, <2>1
<1>6. QED BY <1>4, <1>5 DEF Q!Next

\* On a link that stays up every answer is there, counted by both, once the gate opens.
LEMMA QueryComplete ==
  ASSUME HarnessInv, Q!AnswerInv, Q!DeliveryInv, Q!JudgedInv, pc \in Late
  PROVE  /\ logins # 0
         /\ NeverLost => /\ nAnswered = Q!kAsks /\ Len(replies) = Q!kAsks
                         /\ \A i \in 1..Q!kAsks : Q!IsRight(i)
<1> DEFINE a == Len(inbox["server"])
           b == Len(inbox["client"])
           d == Len(replies)
<1>1. /\ a \in Nat /\ b \in Nat /\ d \in Nat /\ Q!kAsks \in Nat \ {0}
      /\ Q!nHeld = a + b + d /\ d >= Q!kAsks
  BY Holding, QueryNames DEF Q!nHeld, Q!JudgedInv
<1>2. Q!nHeld # 0
  <2> HIDE DEF a, b, d
  <2>1. QED BY <1>1
<1>3. logins # 0
  BY <1>2 DEF Q!DeliveryInv
<1>4. ASSUME NeverLost
      PROVE  nAnswered = Q!kAsks /\ d = Q!kAsks /\ \A i \in 1..Q!kAsks : Q!IsRight(i)
  <2>1. /\ Q!nHeld = Q!kAsks /\ nAnswered = b + d
        /\ Q!Tags \subseteq TagsIn(inbox["server"]) \cup TagsIn(inbox["client"]) \cup TagsIn(replies)
    BY <1>2, <1>4, QueryNames, Zenon DEF Q!DeliveryInv
  <2>2. a = 0 /\ b = 0 /\ d = Q!kAsks /\ nAnswered = Q!kAsks
    <3> HIDE DEF a, b, d
    <3>1. QED BY <1>1, <2>1
  <2>3. TagsIn(inbox["server"]) = {} /\ TagsIn(inbox["client"]) = {}
    BY <2>2 DEF TagsIn
  <2>4. Q!Tags \subseteq TagsIn(replies)
    BY <2>1, <2>3
  <2>5. \A i \in 1..Q!kAsks : Q!IsRight(i)
    BY <2>4, Holding, CompletesRight DEF Q!Tags
  <2>6. QED BY <2>2, <2>5
<1>5. QED BY <1>3, <1>4

LEMMA QueryFailed ==
  ASSUME HarnessInv, Q!AnswerInv, Q!DeliveryInv, Q!JudgedInv, Q!FailedInv, Q!Next PROVE Q!FailedInv'
<1> USE QueryNames DEF Q!FailedInv, Q!OnlyTimeoutFails
<1>1. logins \in Nat /\ Running /\ failed \cap {"listen", "connect"} = {}
  BY QueryIsHarness DEF HarnessInv, HarnessTypeOK, MeshTypeOK, SetupInv, Q!Next
<1>2. NeverLost <=> logins = 1 /\ link
  BY DEF NeverLost
<1>3. CASE Q!Main
  <2>1. link' = link /\ logins' = logins
    BY <1>3, QueryMain
  <2>2. CASE Q!Setup
    <3>1. failed' = failed \/ (failed' \subseteq failed \cup {"listen", "connect"} /\ pc \in Early)
      BY <2>2, QueryIsHarness DEF Q!Setup, Q!Declare, Enter, CreateHub, Arm, SetupFailure, Verdicts,
         verdictVars, Early
    <3>2. pc \in Early => logins = 0
      BY <1>1 DEF HarnessInv, SetupInv, HarnessTypeOK, MeshTypeOK
    <3>3. QED BY <2>1, <3>1, <3>2
  <2>3. CASE Q!Wait(Q!kAsks)
    <3>1. failed' \subseteq failed \cup {"timeout"}
      BY <2>3, QueryIsHarness DEF Wait, StartWait, GateOpens, GateTimesOut, Sleep, Verdicts, verdictVars
    <3>2. QED BY <2>1, <3>1
  <2>4. ASSUME pc \in Late, NeverLost => failed' \subseteq failed PROVE Q!FailedInv'
    <3>1. logins # 0
      BY <2>4, <1>3, QueryComplete
    <3>2. QED BY <1>2, <2>1, <2>4, <3>1
  <2>5. CASE Q!Compare
    <3> DEFINE wrong == \E i \in 1..Q!kAsks : ~Q!IsRight(i)
    <3>1. /\ pc = "opened"
          /\ failed' = failed \cup (Q!Fails("count", nAnswered # Q!kAsks)
               \cup Q!Fails("replies", Len(replies) # Q!kAsks) \cup Q!Fails("answers", wrong))
      BY <2>5, QueryIsHarness, Zenon DEF Q!Compare, Judge, Verdicts
    <3>2. ASSUME NeverLost PROVE ~wrong /\ nAnswered = Q!kAsks /\ Len(replies) = Q!kAsks
      BY <3>1, <3>2, QueryComplete DEF Late
    <3> HIDE DEF wrong
    <3>3. NeverLost => failed' \subseteq failed
      BY <3>1, <3>2 DEF Q!Fails
    <3>4. QED BY <2>4, <3>1, <3>3 DEF Late
  <2>6. CASE Q!CheckPeers
    <3>1. pc \in Late /\ (link => failed' = failed)
      BY <2>6, QueryIsHarness DEF Q!CheckPeers, Judge, Verdicts, Q!Fails, Late
    <3>2. QED BY <1>2, <2>4, <3>1
  <2>7. CASE Q!CheckStore
    <3>1. pc = "store4" /\ failed' = failed \cup Q!Fails("store", store # Built)
      BY <2>7, QueryIsHarness DEF Q!CheckStore, Judge, Verdicts
    <3>2. store = Built
      BY <3>1 DEF Q!AnswerInv
    <3>3. QED BY <2>4, <3>1, <3>2 DEF Q!Fails, Late
  <2>8. CASE Q!CheckErrors
    <3>1. pc = "errors" /\ failed' = failed \cup Q!Fails("errors", errors["real"] # 0)
      BY <2>8, QueryIsHarness DEF Q!CheckErrors, Judge, Verdicts
    <3>2. NeverLost => errors["real"] = 0
      BY DEF HarnessInv, WarnInv
    <3>3. QED BY <2>4, <3>1, <3>2 DEF Q!Fails, Late
  <2>9. CASE Q!Verdict
    <3>1. failed' = failed
      BY <2>9, QueryIsHarness, MainFrame
    <3>2. QED BY <2>1, <3>1
  <2>10. QED BY <1>3, <2>2, <2>3, <2>5, <2>6, <2>7, <2>8, <2>9 DEF Q!Main
<1>4. CASE LinkUp /\ Q!Mesh
  <2>1. failed' = failed /\ logins' = logins + 1
    BY <1>4, QueryOthers DEF LinkUp, Login
  <2>2. logins' # 0 /\ (logins' = 1 => logins = 0)
    BY <1>1, <2>1
  <2>3. QED BY <1>1, <2>1, <2>2
<1>5. CASE LinkDown /\ Q!Mesh
  BY <1>5, QueryOthers DEF LinkDown, LinkLost
<1>6. CASE Q!Handlers
  <2>1. failed' = failed /\ link' = link /\ logins' = logins
    BY <1>6, QueryOthers, QueryIsHarness DEF Q!Handlers, Q!ServerOnAsk, Q!ClientOnPeerUp, Q!ClientOnAnswer,
       OnError, meshVars
  <2>2. QED BY <2>1
<1>7. QED BY <1>3, <1>4, <1>5, <1>6, QueryIsHarness DEF Q!Next, Q!Mesh

-------------------------------------------------------------------------------
(* The theorems. *)

LEMMA IInvInit == Init => IInv
<1> SUFFICES ASSUME Init PROVE IInv
  OBVIOUS
<1>1. /\ subject \in {"query", "store"} /\ MeshInit
      /\ pc = "apartment" /\ tick \in Boot /\ start = 0 /\ waited = 0
      /\ nBumped = 0 /\ owed = [s \in Side |-> <<>>] /\ errors = [k \in ErrorKind |-> 0]
      /\ failed = {} /\ exitCode = Undecided
      /\ store = Built /\ nAnswered = 0 /\ replies = <<>>
      /\ image = "empty" /\ received = Nobody /\ rebuilt = "none"
  BY DEF Init, Q!Init, S!Init, Q!HarnessInit, Q!MeshInit, MeshInit, Q!Side, Side, Q!ErrorKind, ErrorKind,
     Q!Undecided, Undecided
<1>2. /\ link = FALSE /\ ack = FALSE /\ logins = 0 /\ con = [s \in Side |-> FALSE]
      /\ inbox = [s \in Side |-> <<>>] /\ MeshTypeOK
  <2>1. link \in BOOLEAN /\ ack \in BOOLEAN /\ con \in [Side -> BOOLEAN]
    BY <1>1 DEF MeshInit
  <2>2. QED BY <1>1, <2>1, MaxLoginsAssumption DEF MeshInit, MeshTypeOK, HubState
<1>3. DOMAIN inbox = Side /\ inbox["server"] = <<>> /\ inbox["client"] = <<>>
  BY <1>2 DEF Side
<1>4. HarnessInv
  <2>1. HarnessTypeOK
    <3>1. owed \in [Side -> Seq(ErrorKind)] /\ errors \in [ErrorKind -> Nat]
      BY <1>1, EmptySeq
    <3>2. QED BY <1>1, <1>2, <3>1, ClockAssumption DEF HarnessTypeOK, Early
  <2>2. ClockInv
    BY <1>1, ClockAssumption DEF ClockInv
  <2>3. SetupInv
    BY <1>1, <1>2 DEF SetupInv, Side
  <2>4. WarnInv
    BY <1>1, <1>2 DEF WarnInv, NeverLost
  <2>5. QED BY <2>1, <2>2, <2>3, <2>4 DEF HarnessInv
<1>5. Q!IInv
  <2>1. Q!AnswerInv
    <3>1. <<>> \in Seq(Q!Question) /\ <<>> \in Seq(Q!Right) /\ Len(<<>>) = 0
      BY EmptySeq
    <3>2. QED BY <1>1, <1>3, <3>1, QueryNames DEF Q!AnswerInv
  <2>2. Q!DeliveryInv
    <3>1. Q!nHeld = 0
      BY <1>1, <1>3 DEF Q!nHeld
    <3>2. QED BY <1>1, <1>2, <3>1 DEF Q!DeliveryInv, Q!NeverLost
  <2>3. Q!JudgedInv
    BY <1>1 DEF Q!JudgedInv, Q!Late, Undecided
  <2>4. Q!FailedInv
    BY <1>1 DEF Q!FailedInv, Q!OnlyTimeoutFails
  <2>5. QED BY <2>1, <2>2, <2>3, <2>4 DEF Q!IInv
<1>6. S!IInv
  <2>1. S!ImageInv
    <3>1. <<>> \in Seq({image})
      BY EmptySeq
    <3>2. QED BY <1>1, <1>3, <3>1, StoreNames DEF S!ImageInv, S!Bytes
  <2>2. S!WarnedInv /\ S!JudgedInv /\ S!FailedInv
    BY <1>1, <1>2 DEF S!WarnedInv, S!NeverLost, S!JudgedInv, S!FailedInv, S!OnlyTimeoutFails,
       S!SuccessIsIntact, S!Late, Undecided
  <2>3. QED BY <2>1, <2>2 DEF S!IInv
<1>7. QED BY <1>1, <1>4, <1>5, <1>6 DEF IInv

LEMMA StutterKeeps == ASSUME IInv, UNCHANGED vars PROVE IInv'
<1> USE DEF vars, meshVars, harnessVars, clockVars, sinkVars, verdictVars
<1>1. HarnessInv'
  BY DEF IInv, HarnessInv, HarnessTypeOK, MeshTypeOK, ClockInv, SetupInv, WarnInv, NeverLost, nOwed, Running
<1>2. Q!IInv => Q!IInv'
  BY DEF Q!IInv, Q!AnswerInv, Q!DeliveryInv, Q!JudgedInv, Q!FailedInv, Q!OnlyTimeoutFails, Q!NeverLost,
     Q!nHeld, Q!TagsIn, Q!AnsweredRight, Q!RightBody, Q!Tags, Q!kAsks, Q!Question, Q!Right, Q!Reply, Q!Values
<1>3. S!IInv => S!IInv'
  BY DEF S!IInv, S!ImageInv, S!WarnedInv, S!JudgedInv, S!FailedInv, S!OnlyTimeoutFails, S!NeverLost,
     S!NoFileFault, S!SuccessIsIntact
<1>4. QED BY <1>1, <1>2, <1>3 DEF IInv

LEMMA IInvInductive == IInv /\ [Next]_vars => IInv'
<1> SUFFICES ASSUME IInv, [Next]_vars PROVE IInv'
  OBVIOUS
<1>1. HarnessInv /\ nBumped \in Nat
  BY DEF IInv, HarnessInv, HarnessTypeOK
<1>2. CASE Querying /\ Q!Next
  <2>1. HarnessInv'
    BY <1>1, <1>2, QuerySteps, HarnessInductive
  <2>2. Q!AnswerInv /\ Q!DeliveryInv /\ Q!JudgedInv /\ Q!FailedInv
    BY <1>2 DEF IInv, Querying, Q!IInv
  <2>3. Q!IInv'
    BY <1>1, <1>2, <2>2, AnswerInductive, DeliveryInductive, QueryJudged, QueryFailed DEF Q!IInv
  <2>4. subject = "query" /\ subject' = subject
    BY <1>2 DEF Querying
  <2>5. QED BY <2>1, <2>3, <2>4 DEF IInv
<1>3. CASE Shipping /\ S!Next
  <2>1. HarnessInv'
    BY <1>1, <1>3, StoreSteps, HarnessInductive
  <2>2. S!ImageInv /\ S!WarnedInv /\ S!JudgedInv /\ S!FailedInv /\ replies = <<>>
    BY <1>3 DEF IInv, Shipping, S!IInv
  <2>3. S!IInv'
    BY <1>1, <1>3, <2>2, ImageInductive, WarnedInductive, StoreJudged, StoreFailed DEF S!IInv
  <2>4. subject = "store" /\ subject' = subject /\ replies' = replies
    BY <1>3 DEF Shipping
  <2>5. QED BY <2>1, <2>2, <2>3, <2>4 DEF IInv
<1>4. QED BY <1>2, <1>3, StutterKeeps DEF Next

\* The invariant the theorems rest on: the clock tells how long main has waited, a login
\* owes each hub one warning, and every question, answer and byte is accounted for.
THEOREM Invariant == Spec => []IInv
BY IInvInit, IInvInductive, PTL DEF Spec

\* Whatever the clock shows when the process starts, Gate::wait keeps its time.
THEOREM WaitCorrect == Spec => []WaitIsTimed
<1>1. IInv => WaitIsTimed
  BY DEF IInv, HarnessInv, ClockInv, WaitIsTimed
<1>2. QED BY <1>1, Invariant, PTL

\* WsaStoreTestCom reports success for a whole store only.
THEOREM StoreSuccessCorrect == Spec => []StoreSuccessIsIntact
<1>1. IInv => StoreSuccessIsIntact
  BY DEF IInv, S!IInv, S!JudgedInv, StoreSuccessIsIntact
<1>2. QED BY <1>1, Invariant, PTL

\* On a link that stays up nothing but the timeout fails either harness.
THEOREM OnlyTimeoutCorrect == Spec => []OnlyTimeoutFails
<1>1. IInv => OnlyTimeoutFails
  BY DEF IInv, Q!IInv, Q!FailedInv, S!IInv, S!FailedInv, OnlyTimeoutFails
<1>2. QED BY <1>1, Invariant, PTL

\* However often it asks, WsaQueryTestCom reports success only with the right answer to
\* each question.
THEOREM ServiceCorrect == Spec => QueryImplementsService
<1>1. Init => QS!Init
  <2> SUFFICES ASSUME Init PROVE QS!Init
    OBVIOUS
  <2>1. exitCode = Undecided /\ Len(replies) = 0
    BY EmptySeq DEF Init, Q!Init, Q!HarnessInit, Q!Undecided, Undecided
  <2>2. Q!AnsweredRight = {} /\ Q!Reported = "none"
    BY <2>1 DEF Q!AnsweredRight, Q!Reported, Q!Undecided, Undecided
  <2>3. QED BY <2>2 DEF QS!Init
<1>2. IInv /\ [Next]_vars => [QS!Next]_QS!vars
  <2> SUFFICES ASSUME IInv, [Next]_vars PROVE [QS!Next]_QS!vars
    OBVIOUS
  <2>1. CASE UNCHANGED vars
    BY <2>1 DEF QS!vars, vars, harnessVars, verdictVars, Q!AnsweredRight, Q!RightBody, Q!Reported, Q!Tags,
       Q!kAsks
  <2>2. CASE Shipping /\ S!Next
    <3>1. subject = "store" /\ subject' = "store" /\ replies' = replies
      BY <2>2 DEF Shipping
    <3>2. Q!AnsweredRight' = Q!AnsweredRight
      BY <3>1 DEF Q!AnsweredRight, Q!RightBody, Q!Tags, Q!kAsks
    <3>3. QED BY <3>1, <3>2 DEF QS!vars
  <2>3. CASE Querying /\ Q!Next
    <3>1. subject = "query" /\ subject' = "query" /\ exitCode = Undecided
      BY <2>3 DEF Querying, Q!Next, Q!Running, Q!Undecided, Undecided
    <3>2. HarnessInv /\ Q!AnswerInv
      BY <3>1 DEF IInv, Q!IInv
    <3>3. Q!Reported = "none"
      BY <3>1 DEF Q!Reported, Q!Undecided, Undecided
    <3>4. CASE Q!AnsweredRight' = Q!AnsweredRight
      <4>1. CASE exitCode' = Undecided
        <5>1. Q!Reported' = "none"
          BY <4>1 DEF Q!Reported, Q!Undecided, Undecided
        <5>2. QED BY <3>1, <3>3, <3>4, <5>1 DEF QS!vars
      <4>2. CASE exitCode' = 0
        <5>1. Q!Reported' = "success"
          BY <4>2 DEF Q!Reported, Q!Undecided
        <5>2. Q!AnsweredRight = Q!Tags
          BY <3>1, <3>4, <4>2, IInvInductive DEF IInv, Q!IInv, Q!JudgedInv, Q!Tags, Q!kAsks
        <5>3. QED BY <3>1, <3>3, <3>4, <5>1, <5>2 DEF QS!Next, QS!Report, QS!Succeed
      <4>3. CASE exitCode' # 0 /\ exitCode' # Undecided
        <5>1. Q!Reported' = "failure"
          BY <4>3 DEF Q!Reported, Q!Undecided, Undecided
        <5>2. QED BY <3>1, <3>3, <3>4, <5>1 DEF QS!Next, QS!Report, QS!GiveUp
      <4>4. QED BY <4>1, <4>2, <4>3
    <3>5. CASE \E i \in Q!Tags : Q!AnsweredRight' = Q!AnsweredRight \cup {i}
      <4>1. PICK i \in Q!Tags : Q!AnsweredRight' = Q!AnsweredRight \cup {i}
        BY <3>5
      <4>2. CASE Q!ClientOnAnswer
        <5>1. exitCode' = exitCode
          BY <4>2 DEF Q!ClientOnAnswer, Q!verdictVars
        <5>2. Q!Reported' = "none"
          BY <3>1, <5>1 DEF Q!Reported, Q!Undecided, Undecided
        <5>3. QS!Answer(i)
          BY <3>1, <3>3, <4>1, <5>2 DEF QS!Answer
        <5>4. QED BY <5>3 DEF QS!Next
      <4>3. CASE ~Q!ClientOnAnswer
        <5>1. replies' = replies
          BY <2>3, <4>3, QueryMain, QueryOthers DEF Q!Next, Q!Handlers, Q!ServerOnAsk, Q!ClientOnPeerUp,
             Q!queryVars
        <5>2. Q!AnsweredRight' = Q!AnsweredRight
          BY <5>1 DEF Q!AnsweredRight, Q!RightBody, Q!Tags, Q!kAsks
        <5>3. QED BY <3>4, <5>2
      <4>4. QED BY <4>2, <4>3
    <3>6. QED BY <2>3, <3>2, <3>4, <3>5, AnswersListed
  <2>4. QED BY <2>1, <2>2, <2>3 DEF Next
<1>3. QED BY <1>1, <1>2, Invariant, PTL DEF Spec, QueryImplementsService, QS!Spec
===============================================================================
