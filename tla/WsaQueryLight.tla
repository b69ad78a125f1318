----------------------------- MODULE WsaQueryLight -----------------------------
(***************************************************************************)
(* FacadeExamples/WsaQueryTest: the query service over TargetFacade, with  *)
(* the Gate of LightMesh.h and the counters of LightHarness.h.  Each hub   *)
(* runs its handlers on a pump of its own; a hub is a local of main, and   *)
(* its destructor closes it and waits for its pump.  The verdict is taken  *)
(* after the hubs are gone.                                                *)
(*                                                                         *)
(* Failed() is a plain int that main and the client's pump both increment: *)
(* an increment is a read and a write.  The queries are sent whenever the  *)
(* peer comes up, and the gate opens after so many replies.                *)
(***************************************************************************)
EXTENDS P2PeerMesh, FiniteSets

CONSTANTS
  kQueries,    \* the queries in the order issued: [path, type, value]
  Catalogues,  \* what BuildCatalogue may declare: path -> [type, value]
  Idle         \* a pump between two handlers, a store that is gone

kQueryCount == Len(kQueries)
QueryPath == {kQueries[i].path : i \in 1..kQueryCount}

ASSUME QueriesAssumption ==
  /\ DOMAIN kQueries = 1..Len(kQueries) /\ Len(kQueries) \in Nat
  /\ \A i, j \in DOMAIN kQueries : kQueries[i].path = kQueries[j].path => i = j
ASSUME IdleAssumption == Idle \notin Catalogues /\ Idle \notin [path : QueryPath]

VARIABLES
  pc,         \* where main is
  gate,       \* gDone: "none" without an event, "shut" or "open"
  store,      \* the catalogue, or Idle once the store is destroyed
  serving,    \* the query the server's handler is answering, or Idle
  checking,   \* the client's handler: "idle", "write", "count" or "open"
  loaded,     \* what it read of Failed(), plus the failures of this reply
  nAnswered,  \* g_nAnswered
  seen,       \* the replies checked (history)
  nFailed,    \* Failed()
  mainLoaded, \* what main read of Failed() after a timeout, plus one
  timedOut,   \* the gate's wait failed (history)
  nExit,      \* 1 once main is returning EXIT_SETUP
  exitCode

serverVars == <<store, serving>>
clientVars == <<checking, loaded, nAnswered, seen>>
mainVars == <<pc, mainLoaded, timedOut, nExit, exitCode>>
vars == <<meshVars, gate, serverVars, clientVars, mainVars, nFailed>>

Undecided == 4
Running == exitCode = Undecided

Init ==
  /\ MeshInit
  /\ pc = "create" /\ gate \in {"none", "shut"} /\ store \in Catalogues
  /\ serving = Idle /\ checking = "idle" /\ loaded = 0 /\ nAnswered = 0 /\ seen = {}
  /\ nFailed = 0 /\ mainLoaded = 0 /\ timedOut = FALSE
  /\ nExit = Undecided /\ exitCode = Undecided
-------------------------------------------------------------------------------
(* The server's pump. *)

\* A path that is not in the store is an Error, caught and answered as a MISS.
AnswerQuery(path) ==
  [path |-> path,
   answer |-> IF path \in DOMAIN store
              THEN [type |-> store[path].type, value |-> store[path].value, pos |-> 1]
              ELSE [type |-> "MISS", value |-> "", pos |-> 0]]

ServerTakesQuery ==
  /\ Pumping("server") /\ serving = Idle /\ inbox["server"] # <<>>
  /\ serving' = Head(inbox["server"])
  /\ inbox' = Taken("server")
  /\ UNCHANGED <<hub, con, link, ack, logins, gate, store, clientVars, mainVars, nFailed>>

\* Mutant: the Error is caught and nothing is sent.
SilentError ==
  /\ serving # Idle /\ serving' = Idle
  /\ inbox' = IF serving.path \in DOMAIN store
              THEN Posted("client", <<AnswerQuery(serving.path)>>) ELSE inbox
  /\ UNCHANGED <<hub, con, link, ack, logins, gate, store, clientVars, mainVars, nFailed>>

ServerReplies ==
  /\ serving # Idle /\ serving' = Idle
  /\ inbox' = Posted("client", <<AnswerQuery(serving.path)>>)
  /\ UNCHANGED <<hub, con, link, ack, logins, gate, store, clientVars, mainVars, nFailed>>
-------------------------------------------------------------------------------
(* The client's pump. *)

OnPeerUp ==
  /\ Pumping("client") /\ checking = "idle" /\ ack
  /\ ack' = FALSE
  /\ inbox' = Posted("server", [i \in 1..kQueryCount |-> [path |-> kQueries[i].path]])
  /\ UNCHANGED <<hub, con, link, logins, gate, serverVars, clientVars, mainVars, nFailed>>

\* The CHECKs of a reply that fail.
FailedChecks(r) ==
  LET specs == {q \in {kQueries[i] : i \in 1..kQueryCount} : q.path = r.path} IN
    IF specs = {} THEN {"spec"}
    ELSE LET s == CHOOSE q \in specs : TRUE IN
         IF s.type = "" THEN {"MISS"} \ {r.answer.type}
         ELSE {c \in {"type", "value"} : r.answer[c] # s[c]}
                \cup {c \in {"pos"} : r.answer.pos = 0}

ClientTakesReply ==
  /\ Pumping("client") /\ checking = "idle" /\ inbox["client"] # <<>>
  /\ LET r == Head(inbox["client"])
         n == Cardinality(FailedChecks(r)) IN
       /\ seen' = seen \cup {r}
       /\ loaded' = nFailed + n
       /\ checking' = IF n = 0 THEN "count" ELSE "write"
  /\ inbox' = Taken("client")
  /\ UNCHANGED <<hub, con, link, ack, logins, gate, serverVars, nAnswered, mainVars, nFailed>>

\* Mutant: the failure is printed and not counted.
OnlyPrints ==
  /\ checking = "write" /\ checking' = "count"
  /\ UNCHANGED <<meshVars, gate, serverVars, loaded, nAnswered, seen, mainVars, nFailed>>

ClientWritesFailed ==
  /\ checking = "write" /\ checking' = "count"
  /\ nFailed' = loaded
  /\ UNCHANGED <<meshVars, gate, serverVars, loaded, nAnswered, seen, mainVars>>

\* Mutant: the last reply is not waited for.
CountsTooLow ==
  /\ checking = "count"
  /\ nAnswered' = nAnswered + 1
  /\ checking' = IF nAnswered + 2 >= kQueryCount THEN "open" ELSE "idle"
  /\ UNCHANGED <<meshVars, gate, serverVars, loaded, seen, mainVars, nFailed>>

ClientCountsReply ==
  /\ checking = "count"
  /\ nAnswered' = nAnswered + 1
  /\ checking' = IF nAnswered + 1 >= kQueryCount THEN "open" ELSE "idle"
  /\ UNCHANGED <<meshVars, gate, serverVars, loaded, seen, mainVars, nFailed>>

ClientOpensGate ==
  /\ checking = "open" /\ checking' = "idle"
  /\ gate' = IF gate = "none" THEN gate ELSE "open"
  /\ UNCHANGED <<meshVars, serverVars, loaded, nAnswered, seen, mainVars, nFailed>>
-------------------------------------------------------------------------------
(* Main. *)

Goto(p) == pc' = p
Unpumped == UNCHANGED <<serving, clientVars>>
Quietly == UNCHANGED <<mainLoaded, timedOut, nExit, exitCode, nFailed>>

\* Library, Network, the store and its catalogue.
Create ==
  /\ pc = "create" /\ Goto("hubServer")
  /\ UNCHANGED <<meshVars, gate, store>> /\ Quietly /\ Unpumped

CreateHub(s, at, next) ==
  /\ pc = at /\ Goto(next)
  /\ SpawnHub(s)
  /\ UNCHANGED <<gate, store>> /\ Quietly /\ Unpumped

CreateServer == CreateHub("server", "hubServer", "listen")
CreateClient == CreateHub("client", "hubClient", "connect")

Arm(s, at, next) ==
  /\ pc = at /\ Goto(next)
  /\ PostP2PeerCon(s)
  /\ UNCHANGED <<gate, store>> /\ Quietly /\ Unpumped

Listen == Arm("server", "listen", "hubClient")
Connect == Arm("client", "connect", "wait")

\* An Error is counted, another exception or a refused arming returns EXIT_SETUP;
\* what has been built is destroyed either way.
ErrorThrown ==
  /\ pc \in {"create", "hubServer", "hubClient"} /\ Goto("closeClient")
  /\ nFailed' = nFailed + 1
  /\ UNCHANGED <<meshVars, gate, store, mainLoaded, timedOut, nExit, exitCode>> /\ Unpumped

SetupFails ==
  /\ pc \in {"create", "hubServer", "listen", "hubClient", "connect"} /\ Goto("closeClient")
  /\ nExit' = 1
  /\ UNCHANGED <<meshVars, gate, store, mainLoaded, timedOut, exitCode, nFailed>> /\ Unpumped

WaitEnds ==
  /\ pc = "wait" /\ gate = "open" /\ Goto("closeClient")
  /\ UNCHANGED <<meshVars, gate, store>> /\ Quietly /\ Unpumped

\* Mutant: an INFINITE wait fails only without an event.
WaitsForEver ==
  /\ pc = "wait" /\ gate = "none" /\ Goto("writeFailed")
  /\ mainLoaded' = nFailed + 1 /\ timedOut' = TRUE
  /\ UNCHANGED <<meshVars, gate, store, nExit, exitCode, nFailed>> /\ Unpumped

\* 15 s, or no event to wait on; main reads Failed() to increment it.
WaitFails ==
  /\ pc = "wait" /\ gate # "open" /\ Goto("writeFailed")
  /\ mainLoaded' = nFailed + 1 /\ timedOut' = TRUE
  /\ UNCHANGED <<meshVars, gate, store, nExit, exitCode, nFailed>> /\ Unpumped

\* Mutant: a timeout is only logged.
TimeoutLogged ==
  /\ pc = "writeFailed" /\ Goto("closeClient")
  /\ UNCHANGED <<meshVars, gate, store>> /\ Quietly /\ Unpumped

MainWritesFailed ==
  /\ pc = "writeFailed" /\ Goto("closeClient")
  /\ nFailed' = mainLoaded
  /\ UNCHANGED <<meshVars, gate, store, mainLoaded, timedOut, nExit, exitCode>> /\ Unpumped

Close(s, at, next) ==
  /\ pc = at /\ Goto(next)
  /\ CloseHub(s)
  /\ UNCHANGED <<gate, store>> /\ Quietly /\ Unpumped

CloseClient == Close("client", "closeClient", "joinClient")
CloseServer == Close("server", "closeServer", "joinServer")

Gone(s) == hub[s] \in {"none", "stopped"}
Join(s, at, next) ==
  /\ pc = at /\ Goto(next)
  /\ Gone(s)
  /\ UNCHANGED <<meshVars, gate, store>> /\ Quietly /\ Unpumped

\* Mutants: a destructor that does not wait for its pump.
ClientLeftRunning ==
  /\ pc = "joinClient" /\ Goto("closeServer")
  /\ UNCHANGED <<meshVars, gate, store>> /\ Quietly /\ Unpumped
ServerLeftRunning ==
  /\ pc = "joinServer" /\ Goto("destroyStore")
  /\ UNCHANGED <<meshVars, gate, store>> /\ Quietly /\ Unpumped

JoinClient == Join("client", "joinClient", "closeServer")
JoinServer == Join("server", "joinServer", "destroyStore")

DestroyStore ==
  /\ pc = "destroyStore" /\ Goto("verdict")
  /\ store' = Idle
  /\ UNCHANGED <<meshVars, gate>> /\ Quietly /\ Unpumped

Verdict ==
  /\ pc = "verdict" /\ Goto("exited")
  /\ exitCode' = CASE nExit = 1 -> 1 [] nExit # 1 /\ nFailed = 0 -> 0 [] OTHER -> 3
  /\ UNCHANGED <<meshVars, gate, store, mainLoaded, timedOut, nExit, nFailed>> /\ Unpumped
-------------------------------------------------------------------------------
Setup == Create \/ CreateServer \/ Listen \/ CreateClient \/ Connect \/ ErrorThrown \/ SetupFails
Teardown == CloseClient \/ JoinClient \/ CloseServer \/ JoinServer \/ DestroyStore \/ Verdict
MainOn == Setup \/ WaitEnds \/ MainWritesFailed \/ Teardown
Main == MainOn \/ WaitFails

Unmeshed == UNCHANGED <<gate, serverVars, clientVars, mainVars, nFailed>>
ServerPump ==
  ServerTakesQuery \/ ServerReplies \/ (serving = Idle /\ PumpEnds("server") /\ Unmeshed)
ClientPump ==
  OnPeerUp \/ ClientTakesReply \/ ClientWritesFailed \/ ClientCountsReply \/ ClientOpensGate
    \/ (checking = "idle" /\ PumpEnds("client") /\ Unmeshed)

LinkUp == Login /\ Unmeshed
LinkDown == LinkLost /\ Unmeshed

Next == Running /\ (ServerPump \/ ClientPump \/ Main \/ LinkUp \/ LinkDown)

\* Three threads that run on.  That the 15 s elapse, or that a dial is answered,
\* is for a property to assume.
Spec ==
  /\ Init /\ [][Next]_vars
  /\ WF_vars(Running /\ ServerPump) /\ WF_vars(Running /\ ClientPump)
  /\ WF_vars(Running /\ MainOn)

TimeoutElapses == WF_vars(Running /\ Main)
DialIsAnswered == WF_vars(Running /\ LinkUp)
LinkStaysUp == [](pc = "wait" /\ logins > 0 => link)
-------------------------------------------------------------------------------
(* Properties. *)

Query == [path : QueryPath]
Answers == {[type |-> "MISS", value |-> "", pos |-> 0]}
             \cup UNION {{[type |-> c[p].type, value |-> c[p].value, pos |-> 1] : p \in DOMAIN c} :
                          c \in Catalogues}
Reply == [path : QueryPath, answer : Answers]

MainPC == {"create", "hubServer", "listen", "hubClient", "connect", "wait", "writeFailed",
           "closeClient", "joinClient", "closeServer", "joinServer", "destroyStore", "verdict",
           "exited"}

QueueTypeOK ==
  /\ inbox \in [Side -> Seq(Query) \cup Seq(Reply)]
  /\ inbox["server"] \in Seq(Query) /\ inbox["client"] \in Seq(Reply)

PumpTypeOK ==
  /\ store \in Catalogues \cup {Idle} /\ serving \in Query \cup {Idle}
  /\ checking \in {"idle", "write", "count", "open"}
  /\ loaded \in Nat /\ nAnswered \in Nat /\ seen \subseteq Reply

MainTypeOK ==
  /\ pc \in MainPC /\ gate \in {"none", "shut", "open"}
  /\ nFailed \in Nat /\ mainLoaded \in Nat /\ timedOut \in BOOLEAN
  /\ nExit \in {1, Undecided} /\ exitCode \in {0, 1, 3, Undecided}

\* Every variable keeps to its values, and the exit code to the contract.
TypeOK == MeshTypeOK /\ QueueTypeOK /\ PumpTypeOK /\ MainTypeOK

\* A reply that is what its query expects, stated on its own.
Expected(r) ==
  \E i \in 1..kQueryCount :
    /\ r.path = kQueries[i].path
    /\ IF kQueries[i].type = "" THEN r.answer.type = "MISS"
       ELSE r.answer = [type |-> kQueries[i].type, value |-> kQueries[i].value, pos |-> 1]

\* Exit code 0 says "every query answered, and every answer matched".
Confirmed == {r.path : r \in {x \in seen : Expected(x)}}
SuccessIsComplete == exitCode = 0 => Confirmed = QueryPath

\* What it does mean, although main and the client's pump race for the failure
\* counter: no wait has failed, no reply was wrong, the late and the doubled ones
\* included, and as long as the peer has come up only once none is missing.
SuccessIsRight ==
  exitCode = 0 =>
    /\ ~timedOut
    /\ \A r \in seen : Expected(r)
    /\ logins <= 1 => Confirmed = QueryPath

\* No handler reads the store once it is destroyed.
NoUseAfterDestruction == serving # Idle => store # Idle

\* The verdict is final: once the hubs are gone nothing counts any more.
VerdictIsFinal == [][(pc = "verdict") => UNCHANGED <<nFailed, nAnswered>>]_vars

\* On a link that stays up the replies, the miss among them, open the gate.
EveryQueryAnswered ==
  DialIsAnswered /\ LinkStaysUp =>
    (pc = "wait" /\ gate = "shut" ~> gate = "open" \/ pc # "wait")

\* The replies open the gate, and whatever becomes of the link, although the hubs'
\* destructors wait for their pumps, the process ends with a code.
AlwaysReports == TimeoutElapses => <>(exitCode # Undecided)
Progress == EveryQueryAnswered /\ AlwaysReports
-------------------------------------------------------------------------------
(* What makes the safety properties inductive. *)

OnWay == PathsIn(inbox["server"])
Served == {q.path : q \in {serving} \ {Idle}}
OnWayBack == PathsIn(inbox["client"])
Counted == {r.path : r \in seen}

\* As long as the peer has come up once at most, a query is in one place at a time, and
\* nowhere before the client has heard of the peer.
EachQueryInOnePlace ==
  /\ NoRepeat(inbox["server"]) /\ NoRepeat(inbox["client"])
  /\ OnWay \cap Served = {} /\ OnWay \cap OnWayBack = {} /\ OnWay \cap Counted = {}
  /\ Served \cap OnWayBack = {} /\ Served \cap Counted = {} /\ OnWayBack \cap Counted = {}
  /\ ack => logins # 0
  /\ ack \/ logins = 0 => OnWay = {} /\ Served = {} /\ OnWayBack = {} /\ Counted = {}

\* Then the counter counts queries.
CountedOnce ==
  /\ IsFiniteSet(Counted)
  /\ Cardinality(Counted) = nAnswered + (IF checking \in {"write", "count"} THEN 1 ELSE 0)

OnceInv == logins <= 1 => EachQueryInOnePlace /\ CountedOnce

\* Two threads write Failed() without a lock, and neither ever writes back a zero: what
\* one of them loses the other has counted.
FailuresInv ==
  /\ checking = "write" => loaded > 0
  /\ pc = "writeFailed" => mainLoaded > 0
  /\ timedOut => nFailed > 0 \/ pc = "writeFailed"
  /\ nFailed = 0 => checking = "write" \/ \A r \in seen : Expected(r)

\* The gate speaks for the whole table, and main gets past it or has failed.
GateInv ==
  /\ gate = "open" \/ checking = "open" => nAnswered >= kQueryCount
  /\ pc \in {"closeClient", "joinClient", "closeServer", "joinServer", "destroyStore", "verdict"} =>
       nExit = 1 \/ nFailed > 0 \/ gate = "open"

\* A hub's destructor has waited for its pump, and the store goes after the hubs.
StageInv ==
  /\ pc \in {"closeServer", "joinServer", "destroyStore", "verdict", "exited"} => Gone("client")
  /\ pc \in {"destroyStore", "verdict", "exited"} => Gone("server")
  /\ store = Idle => pc \in {"verdict", "exited"}

\* A pump that has ended has left its handler.
HubInv ==
  /\ Gone("client") => checking = "idle"
  /\ Gone("server") => serving = Idle
  /\ StageInv

IInv == TypeOK /\ OnceInv /\ FailuresInv /\ GateInv /\ HubInv /\ SuccessIsRight
===============================================================================
