------------------------------ MODULE WsaQueryNet ------------------------------
(***************************************************************************)
(* dotNetExamples/WsaQueryTest: the query service over the COM facade.     *)
(* Three threads: main, and one dispatch thread inside the facade for each *)
(* hub, on which the managed sink's handlers run.  The server looks a path *)
(* up, sends the answer under the tag of the question and then counts it;  *)
(* the client lists the answer and then bumps the gate; main waits at the  *)
(* gate, compares, writes to the store and disposes of everything.         *)
(*                                                                         *)
(* Unlike the C++ harness the client asks again each time the peer comes   *)
(* up: only the comparison keeps doubled answers out of a success.         *)
(***************************************************************************)
EXTENDS P2PeerMesh, FiniteSets

CONSTANTS
  Asks,      \* the questions in order: [path, ok, value]
  Built,     \* the store main declares: path -> value
  Rewritten, \* the path main writes to after it has compared
  NoField,   \* what a path that does not resolve answers
  Idle       \* a dispatch thread between two handlers

ASSUME AsksAssumption == DOMAIN Asks = 1..Len(Asks) /\ Len(Asks) \in Nat \ {0}
ASSUME BuiltAssumption == Built = [p \in DOMAIN Built |-> Built[p]] /\ Built # Idle
ASSUME QuestionsAreOfTheStore ==
  /\ Rewritten \in DOMAIN Built
  /\ \A i \in DOMAIN Asks : Asks[i].ok => Asks[i].path \in DOMAIN Built
\* The table of questions states what the store answers them.
ASSUME TableIsRight ==
  \A i \in DOMAIN Asks :
    IF Asks[i].path \in DOMAIN Built
    THEN Asks[i].ok /\ Asks[i].value = Built[Asks[i].path] ELSE Asks[i].ok = FALSE

VARIABLES
  pc,         \* where main is
  store,      \* the store, or Idle when it has been disposed of
  serving,    \* the answer the server's handler is about to send, or Idle
  counting,   \* the server's handler has sent it and is about to count it
  answered,   \* the server's count
  bumping,    \* the client's handler has listed an answer, not bumped yet
  replies,    \* the answers listed
  nBumped,    \* the gate's count
  snapshot,   \* main's copy of the list
  failed,     \* the checks that failed
  exitCode

serverVars == <<serving, counting, answered>>
clientVars == <<bumping, replies, nBumped>>
mainVars == <<pc, snapshot, failed, exitCode>>
vars == <<meshVars, store, serverVars, clientVars, mainVars>>

Undecided == 4
Running == exitCode = Undecided
nAsks == Len(Asks)

Init ==
  /\ MeshInit
  /\ pc = "create" /\ store = Built
  /\ serving = Idle /\ counting = FALSE /\ answered = 0
  /\ bumping = FALSE /\ replies = <<>> /\ nBumped = 0
  /\ snapshot = <<>> /\ failed = {} /\ exitCode = Undecided
-------------------------------------------------------------------------------
(* The server's dispatch thread. *)

Lookup(path) ==
  IF store # Idle /\ path \in DOMAIN store
  THEN [ok |-> TRUE, value |-> store[path]] ELSE [ok |-> FALSE, value |-> NoField]

\* A sink that was unadvised hears of nothing more.
Advised(s) == hub[s] = "running"

\* Mutant: a lookup that fails leaves the handler without an answer.
SilentMiss ==
  /\ Advised("server") /\ serving = Idle /\ inbox["server"] # <<>>
  /\ LET q == Head(inbox["server"]) IN
       serving' = IF Lookup(q.path).ok THEN [tag |-> q.tag, body |-> Lookup(q.path)] ELSE Idle
  /\ inbox' = Taken("server")
  /\ UNCHANGED <<hub, con, link, ack, logins, store, counting, answered, clientVars, mainVars>>

ServerLooksUp ==
  /\ Advised("server") /\ serving = Idle /\ inbox["server"] # <<>>
  /\ LET q == Head(inbox["server"]) IN serving' = [tag |-> q.tag, body |-> Lookup(q.path)]
  /\ inbox' = Taken("server")
  /\ UNCHANGED <<hub, con, link, ack, logins, store, counting, answered, clientVars, mainVars>>

\* SendEx through a hub that main has disposed of fails and sends nothing.
ServerSends ==
  /\ serving # Idle /\ ~counting
  /\ inbox' = IF Advised("server") THEN Posted("client", <<serving>>) ELSE inbox
  /\ counting' = TRUE
  /\ UNCHANGED <<hub, con, link, ack, logins, store, serving, answered, clientVars, mainVars>>

ServerCounts ==
  /\ counting
  /\ answered' = answered + 1
  /\ serving' = Idle /\ counting' = FALSE
  /\ UNCHANGED <<meshVars, store, clientVars, mainVars>>
-------------------------------------------------------------------------------
(* The client's dispatch thread. *)

OnPeerUp ==
  /\ Advised("client") /\ ~bumping /\ ack
  /\ ack' = FALSE
  /\ inbox' = Posted("server", [i \in 1..nAsks |-> [path |-> Asks[i].path, tag |-> i]])
  /\ UNCHANGED <<hub, con, link, logins, store, serverVars, clientVars, mainVars>>

\* Mutant: an answer that says no is counted at the gate and not listed.
ListsOnlyValues ==
  /\ Advised("client") /\ ~bumping /\ inbox["client"] # <<>>
  /\ LET r == Head(inbox["client"]) IN
       replies' = IF r.body.ok THEN Append(replies, r) ELSE replies
  /\ inbox' = Taken("client")
  /\ bumping' = TRUE
  /\ UNCHANGED <<hub, con, link, ack, logins, store, serverVars, nBumped, mainVars>>

ClientLists ==
  /\ Advised("client") /\ ~bumping /\ inbox["client"] # <<>>
  /\ replies' = Append(replies, Head(inbox["client"]))
  /\ inbox' = Taken("client")
  /\ bumping' = TRUE
  /\ UNCHANGED <<hub, con, link, ack, logins, store, serverVars, nBumped, mainVars>>

ClientBumps ==
  /\ bumping
  /\ nBumped' = nBumped + 1 /\ bumping' = FALSE
  /\ UNCHANGED <<meshVars, store, serverVars, replies, mainVars>>
-------------------------------------------------------------------------------
(* Main. *)

Unpumped == UNCHANGED <<serverVars, clientVars>>
Goto(p) == pc' = p

\* The store and the network object.
Create ==
  /\ pc = "create" /\ Goto("hubServer")
  /\ UNCHANGED <<meshVars, store, snapshot, failed, exitCode>> /\ Unpumped

CreateHub(s, at, next) ==
  /\ pc = at /\ Goto(next)
  /\ SpawnHub(s)
  /\ UNCHANGED <<store, snapshot, failed, exitCode>> /\ Unpumped

CreateServer == CreateHub("server", "hubServer", "listen")
CreateClient == CreateHub("client", "hubClient", "connect")

Arm(s, at, next) ==
  /\ pc = at /\ Goto(next)
  /\ PostP2PeerCon(s)
  /\ UNCHANGED <<store, snapshot, failed, exitCode>> /\ Unpumped

Listen == Arm("server", "listen", "hubClient")
Connect == Arm("client", "connect", "wait")

\* SetupFailure: the process ends with 1, whatever has been created.
SetupFailure ==
  /\ pc \in {"create", "hubServer", "listen", "hubClient", "connect"}
  /\ Goto("exited") /\ exitCode' = 1
  /\ failed' = failed \cup ({pc} \cap {"listen", "connect"})
  /\ UNCHANGED <<meshVars, store, snapshot>> /\ Unpumped

GateOpens ==
  /\ pc = "wait" /\ nBumped >= nAsks
  /\ Goto("count")
  /\ UNCHANGED <<meshVars, store, snapshot, failed, exitCode>> /\ Unpumped

\* Mutant: the wait has no deadline.
WaitsForEver == FALSE /\ UNCHANGED vars

\* Nothing is disposed of on this way out.
GateTimesOut ==
  /\ pc = "wait" /\ nBumped < nAsks
  /\ failed' = failed \cup {"timeout"}
  /\ Goto("verdict")
  /\ UNCHANGED <<meshVars, store, snapshot, exitCode>> /\ Unpumped

Fails(check, cond) == IF cond THEN {check} ELSE {}

\* Mutant: the owner writes before it has copied the answers.
WritesEarly ==
  /\ pc = "count" /\ Goto("snapshot")
  /\ failed' = failed \cup Fails("count", answered # nAsks)
  /\ store' = [store EXCEPT ![Rewritten] = "1920"]
  /\ UNCHANGED <<meshVars, snapshot, exitCode>> /\ Unpumped

CheckCount ==
  /\ pc = "count" /\ Goto("snapshot")
  /\ failed' = failed \cup Fails("count", answered # nAsks)
  /\ UNCHANGED <<meshVars, store, snapshot, exitCode>> /\ Unpumped

TakeSnapshot ==
  /\ pc = "snapshot" /\ Goto("compare")
  /\ snapshot' = replies
  /\ failed' = failed \cup Fails("snapshot", Len(replies) # nAsks)
  /\ UNCHANGED <<meshVars, store, exitCode>> /\ Unpumped

\* The place of the first answer with the tag of question i, as main's search finds
\* it.
Tagged(i) == {k \in 1..Len(snapshot) :
                snapshot[k].tag = i /\ \A j \in 1..(k - 1) : snapshot[j].tag # i}
RightBody(i) == [ok |-> Asks[i].ok, value |-> IF Asks[i].ok THEN Asks[i].value ELSE NoField]
IsRight(i) == \E k \in Tagged(i) : snapshot[k].body = RightBody(i)

\* Mutant: a question without an answer is passed over.
SkipsMissing ==
  /\ pc = "compare" /\ Goto("peerClient")
  /\ failed' = failed \cup Fails("answers", \E i \in 1..nAsks : Tagged(i) # {} /\ ~IsRight(i))
  /\ UNCHANGED <<meshVars, store, snapshot, exitCode>> /\ Unpumped

Compare ==
  /\ pc = "compare" /\ Goto("peerClient")
  /\ failed' = failed \cup Fails("answers", \E i \in 1..nAsks : ~IsRight(i))
  /\ UNCHANGED <<meshVars, store, snapshot, exitCode>> /\ Unpumped

CheckPeer(at, next) ==
  /\ pc = at /\ Goto(next)
  /\ failed' = failed \cup Fails(at, ~link)
  /\ UNCHANGED <<meshVars, store, snapshot, exitCode>> /\ Unpumped

CheckClientPeer == CheckPeer("peerClient", "peerServer")
CheckServerPeer == CheckPeer("peerServer", "tag")

\* "MsgTag outside a handler is not a stale tag": main reads it from the client's
\* hub, on which a doubled answer may be being delivered.
CheckTag ==
  /\ pc = "tag" /\ Goto("write")
  /\ \E stale \in BOOLEAN :
       /\ stale => bumping
       /\ failed' = failed \cup Fails("tag", stale)
  /\ UNCHANGED <<meshVars, store, snapshot, exitCode>> /\ Unpumped

\* The owner writes; the service may be answering doubled questions meanwhile.
Write ==
  /\ pc = "write" /\ Goto("disposeClient")
  /\ store' = [store EXCEPT ![Rewritten] = "1920"]
  /\ UNCHANGED <<meshVars, snapshot, failed, exitCode>> /\ Unpumped

\* Hub.Dispose unadvises the sink, closes the hub and lets go of it.
Dispose(s, at, next) ==
  /\ pc = at /\ Goto(next)
  /\ CloseHub(s)
  /\ UNCHANGED <<store, snapshot, failed, exitCode>> /\ Unpumped

DisposeClient == Dispose("client", "disposeClient", "disposeServer")
DisposeServer == Dispose("server", "disposeServer", "disposeStore")

DisposeStore ==
  /\ pc = "disposeStore" /\ Goto("verdict")
  /\ store' = Idle
  /\ UNCHANGED <<meshVars, snapshot, failed, exitCode>> /\ Unpumped

Verdict ==
  /\ pc = "verdict" /\ Goto("exited")
  /\ exitCode' = IF failed = {} THEN 0 ELSE 3
  /\ UNCHANGED <<meshVars, store, snapshot, failed>> /\ Unpumped
-------------------------------------------------------------------------------
Setup == Create \/ CreateServer \/ Listen \/ CreateClient \/ Connect \/ SetupFailure
Checks == CheckCount \/ TakeSnapshot \/ Compare \/ CheckClientPeer \/ CheckServerPeer
            \/ CheckTag
MainOn == Setup \/ GateOpens \/ Checks \/ Write \/ DisposeClient \/ DisposeServer
            \/ DisposeStore \/ Verdict
Main == MainOn \/ GateTimesOut

Unmeshed == UNCHANGED <<store, serverVars, clientVars, mainVars>>
ServerThread ==
  ServerLooksUp \/ ServerSends \/ ServerCounts
    \/ (serving = Idle /\ PumpEnds("server") /\ Unmeshed)
ClientThread ==
  OnPeerUp \/ ClientLists \/ ClientBumps \/ (~bumping /\ PumpEnds("client") /\ Unmeshed)

LinkUp == Login /\ Unmeshed
LinkDown == LinkLost /\ Unmeshed

Next == Running /\ (ServerThread \/ ClientThread \/ Main \/ LinkUp \/ LinkDown)

\* Three threads that run on.  That the 15 s elapse, or that a dial is answered,
\* is for a property to assume.
Spec ==
  /\ Init /\ [][Next]_vars
  /\ WF_vars(Running /\ ServerThread) /\ WF_vars(Running /\ ClientThread)
  /\ WF_vars(Running /\ MainOn)

TimeoutElapses == WF_vars(Running /\ Main)
DialIsAnswered == WF_vars(Running /\ LinkUp)
LinkStaysUp == [](pc = "wait" /\ logins > 0 => link)
-------------------------------------------------------------------------------
(* Properties. *)

Tags == 1..nAsks
Values == {Asks[i].value : i \in Tags} \cup {Built[p] : p \in DOMAIN Built} \cup {"1920", NoField}
Reply == [tag : Tags, body : [ok : BOOLEAN, value : Values]]
Question == {[path |-> Asks[i].path, tag |-> i] : i \in Tags}
ASSUME IdleAssumption == Idle \notin Reply

\* Questions wait for the server and answers of a kind for the client.
InboxOf(Answer) ==
  /\ inbox \in [Side -> Seq(Question) \cup Seq(Answer)]
  /\ inbox["server"] \in Seq(Question) /\ inbox["client"] \in Seq(Answer)

\* Main's places before it has written to the store, and from there on.
EarlyPC == {"create", "hubServer", "listen", "hubClient", "connect", "wait", "count", "snapshot",
            "compare", "peerClient", "peerServer", "tag", "write"}
LatePC  == {"disposeClient", "disposeServer", "disposeStore", "verdict", "exited"}

\* Every variable keeps to its values, and the exit code to the contract.
TypeOK ==
  /\ MeshTypeOK
  /\ pc \in EarlyPC \cup LatePC
  /\ InboxOf(Reply)
  /\ store \in [DOMAIN Built -> Values] \cup {Idle}
  /\ serving \in Reply \cup {Idle} /\ counting \in BOOLEAN /\ answered \in Nat
  /\ bumping \in BOOLEAN /\ replies \in Seq(Reply) /\ nBumped \in Nat
  /\ snapshot \in Seq(Reply)
  /\ failed \subseteq {"listen", "connect", "timeout", "count", "snapshot", "answers",
                        "peerClient", "peerServer", "tag"}
  /\ exitCode \in {0, 1, 3, Undecided}

\* The gate is the barrier between the client's thread and main: an answer that
\* was counted there is in the list main copies.
GateIsBarrier == pc \in {"count", "snapshot"} => Len(replies) >= nAsks

\* Main's own write never shows in what it compared, although the service goes on
\* answering doubled questions: the copy was taken before.
SnapshotPredatesWrite ==
  \A k \in 1..Len(snapshot) :
    LET path == Asks[snapshot[k].tag].path IN
      snapshot[k].body.ok => snapshot[k].body.value = Built[path]

\* On a link that stays up nothing but the timeout, the server's count and the tag
\* that main reads while a handler may still be running can fail a run: no answer is lost, doubled or mistaken for that of another question.
NeverLost == logins = 1 /\ link
OnlyTimingFails == NeverLost => failed \subseteq {"timeout", "count", "tag"}

\* "the server answered every question": main's check of the server's count.
ServerAnsweredEvery == NeverLost => "count" \notin failed

\* On a link that stays up every question is answered, the one for a path that is
\* not there among them, so that main leaves the gate.
EveryQuestionAnswered ==
  DialIsAnswered /\ LinkStaysUp => (pc = "wait" ~> nBumped >= nAsks \/ pc # "wait")

\* The example is a query service, also when questions are asked twice: it reports
\* success only when each question has had its right answer.
AnsweredRight == {i \in Tags : \E k \in 1..Len(replies) :
                     replies[k].tag = i /\ replies[k].body = RightBody(i)}
QS == INSTANCE QueryService WITH
  Query <- Tags,
  answered <- AnsweredRight,
  verdict <- CASE exitCode = Undecided -> "none"
               [] exitCode = 0 -> "success"
               [] OTHER -> "failure"
ImplementsService == QS!Spec

\* The answers open the gate, and whatever becomes of the link the process ends with
\* a code.
AlwaysReports == TimeoutElapses => QS!Reports
Progress == EveryQuestionAnswered /\ AlwaysReports
-------------------------------------------------------------------------------
(* What makes the safety properties inductive. *)

\* An answer that agrees with the store as it was built.
Honest == {r \in Reply : r.body.ok => r.body.value = Built[Asks[r.tag].path]}

\* Until main writes the store is as built, and so is every answer out of it.
BuiltInv ==
  pc \in EarlyPC =>
    /\ store = Built
    /\ InboxOf(Honest) /\ serving \in Honest \cup {Idle}
    /\ replies \in Seq(Honest)

\* The gate counts what the list holds, one answer behind while a handler runs.
GateInv == Len(replies) = nBumped + (IF bumping THEN 1 ELSE 0)

\* What main compares is in the list, and a run without a failed check has all of it.
JudgedInv ==
  /\ pc = "compare" => \A k \in 1..Len(snapshot) : k <= Len(replies) /\ replies[k] = snapshot[k]
  /\ pc \in {"peerClient", "peerServer", "tag", "write", "disposeClient", "disposeServer",
              "disposeStore", "verdict"} /\ failed = {} => AnsweredRight = Tags
  /\ exitCode = 0 => AnsweredRight = Tags

IInv ==
  /\ TypeOK
  /\ GateInv
  /\ GateIsBarrier
  /\ BuiltInv
  /\ snapshot \in Seq(Honest)
  /\ JudgedInv

\* Main creates the hubs, gives them their ends of the link and stops them at the end.
HubInv ==
  /\ pc \in EarlyPC \ {"create", "hubServer"} => hub["server"] = "running"
  /\ pc \in EarlyPC \ {"create", "hubServer", "listen", "hubClient"} => hub["client"] = "running"
  /\ con["server"] => pc \notin {"create", "hubServer", "listen"}
  /\ con["client"] => pc \notin {"create", "hubServer", "listen", "hubClient", "connect"}
  /\ logins > 0 => con["server"] /\ con["client"]

\* An answer that is right, and all answers that are given before main writes.
Right == {r \in Reply : r.body = RightBody(r.tag)}
RightInv ==
  pc \in EarlyPC =>
    /\ InboxOf(Right) /\ serving \in Right \cup {Idle}
    /\ replies \in Seq(Right) /\ snapshot \in Seq(Right)

\* The questions of one login, wherever they or their answers are.
InHand == IF serving = Idle \/ counting THEN {} ELSE {serving.tag}
nInHand == IF InHand = {} THEN 0 ELSE 1
nHeld == Len(inbox["server"]) + nInHand + Len(inbox["client"]) + Len(replies)

\* One login asks each question once; none is doubled, and while the link stays up
\* none is lost.
DeliveryInv ==
  /\ counting => serving # Idle
  /\ logins = 0 \/ (logins = 1 /\ ack) => nHeld = 0
  /\ logins = 0 => ~ack /\ ~link
  /\ logins = 1 => nHeld <= nAsks
  /\ NeverLost /\ ~ack /\ pc \in EarlyPC =>
       Tags \subseteq TagsIn(inbox["server"]) \cup InHand \cup TagsIn(inbox["client"]) \cup TagsIn(replies)
  /\ NeverLost /\ pc = "compare" => Tags \subseteq TagsIn(snapshot)

\* What a failed check says of the run so far.
FailedInv ==
  /\ {"listen", "connect"} \cap failed # {} => logins = 0 /\ ~Running
  /\ logins = 0 => /\ pc \notin {"count", "snapshot", "compare", "peerClient", "peerServer", "tag"}
                   /\ failed \subseteq {"listen", "connect", "timeout"}
  /\ OnlyTimingFails

DInv == IInv /\ HubInv /\ RightInv /\ DeliveryInv /\ FailedInv
===============================================================================
