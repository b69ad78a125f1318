------------------------------ MODULE WsaStoreNet ------------------------------
(***************************************************************************)
(* dotNetExamples/WsaStoreTest: a store shipped over the COM facade, saved *)
(* to a file first and opened from a second file on the far side.  Main    *)
(* and one dispatch thread for each hub, on which the sink's handlers run; *)
(* a call that fails throws, and nothing catches.                          *)
(*                                                                         *)
(* A store that was saved or opened may hold its file until it is disposed *)
(* of: other readers may open the file, nobody may delete it.              *)
(***************************************************************************)
EXTENDS P2PeerMesh, FiniteSets

CONSTANTS None, Idle

VARIABLES
  pc,        \* where main is
  sendFile, recvFile,   \* the scratch files: None or "image"
  held,      \* the files that a store holds
  image,     \* the bytes read back
  fromWho, received,    \* what the server's handler has noted
  serving,   \* what of a message it has yet to note: Idle, "payload" or "bump"
  nBumped,   \* the gate's count
  owed,      \* errors the facade has yet to raise on each hub
  errors,    \* how many of each kind the harness has listed
  failed,    \* the checks that failed
  exitCode

sinkVars == <<fromWho, received, serving, nBumped, owed, errors>>
fileVars == <<sendFile, recvFile, held, image>>
verdictVars == <<failed, exitCode>>
vars == <<meshVars, pc, fileVars, sinkVars, verdictVars>>

Undecided == 4
Unhandled == 5      \* the code of a process an exception has ended
Running == exitCode = Undecided
ErrorKind == {"unrelated", "real"}

Init ==
  /\ MeshInit
  /\ pc = "source" /\ sendFile \in {None, "old"} /\ recvFile \in {None, "old"}
  /\ held = {} /\ image = None
  /\ fromWho = None /\ received = None /\ serving = Idle /\ nBumped = 0
  /\ owed = [s \in Side |-> <<>>] /\ errors = [k \in ErrorKind |-> 0]
  /\ failed = {} /\ exitCode = Undecided
-------------------------------------------------------------------------------
(* The dispatch threads.  A login's warning is raised on each hub before anything
   comes over it. *)

Advised(s) == hub[s] = "running"
Delivers(s) == Advised(s) /\ (logins > 1 \/ owed[s] = <<>>)

\* errors is listed under errLock.
OnError(s) ==
  /\ Advised(s) /\ owed[s] # <<>> /\ (s = "server" => serving = Idle)
  /\ errors' = [errors EXCEPT ![Head(owed[s])] = @ + 1]
  /\ owed' = [owed EXCEPT ![s] = Tail(@)]
  /\ UNCHANGED <<meshVars, pc, fileVars, fromWho, received, serving, nBumped, verdictVars>>

\* The image is sent each time the peer comes up.
OnPeerUp ==
  /\ Delivers("client") /\ ack
  /\ ack' = FALSE
  /\ inbox' = Posted("server", <<image>>)
  /\ UNCHANGED <<hub, con, link, logins, pc, fileVars, sinkVars, verdictVars>>

\* Mutant: the gate is bumped before the payload is noted.
BumpsFirst ==
  /\ Delivers("server") /\ serving = Idle /\ inbox["server"] # <<>>
  /\ serving' = [body |-> Head(inbox["server"]), left |-> "payload"]
  /\ inbox' = Taken("server")
  /\ fromWho' = "client" /\ nBumped' = nBumped + 1
  /\ UNCHANGED <<hub, con, link, ack, logins, pc, fileVars, received, owed, errors, verdictVars>>

\* The handler's three steps take no lock.
NoteSource ==
  /\ Delivers("server") /\ serving = Idle /\ inbox["server"] # <<>>
  /\ serving' = [body |-> Head(inbox["server"]), left |-> "payload"]
  /\ inbox' = Taken("server")
  /\ fromWho' = "client"
  /\ UNCHANGED <<hub, con, link, ack, logins, pc, fileVars, received, nBumped, owed, errors,
                 verdictVars>>

NotePayload ==
  /\ serving # Idle /\ serving.left = "payload"
  /\ serving' = [serving EXCEPT !.left = "bump"]
  /\ received' = serving.body
  /\ UNCHANGED <<meshVars, pc, fileVars, fromWho, nBumped, owed, errors, verdictVars>>

Bump ==
  /\ serving # Idle /\ serving.left = "bump"
  /\ serving' = Idle
  /\ nBumped' = nBumped + 1
  /\ UNCHANGED <<meshVars, pc, fileVars, fromWho, received, owed, errors, verdictVars>>
-------------------------------------------------------------------------------
(* Main. *)

Undelivered == UNCHANGED sinkVars
Goto(p) == pc' = p
Fails(check, cond) == IF cond THEN {check} ELSE {}

Judge(at, next, fails) ==
  /\ pc = at /\ Goto(next)
  /\ failed' = failed \cup fails
  /\ UNCHANGED <<meshVars, fileVars, exitCode>> /\ Undelivered

\* BuildStore and VerifyStore, on a store nobody else knows.
BuildStore ==
  /\ pc = "source" /\ Goto("save")
  /\ UNCHANGED <<meshVars, fileVars, verdictVars>> /\ Undelivered

\* Scratch.Remove of what an earlier run left, Save and ReadAllBytes.
Serialise ==
  /\ pc = "save" /\ Goto("network")
  /\ sendFile' = "image" /\ recvFile' = None
  /\ held' \in {{}, {"send"}} /\ image' = "image"
  /\ UNCHANGED <<meshVars, verdictVars>> /\ Undelivered

CreateNetwork == Judge("network", "hubServer", {})

CreateHub(s, at, next) ==
  /\ pc = at /\ Goto(next)
  /\ SpawnHub(s)
  /\ UNCHANGED <<fileVars, verdictVars>> /\ Undelivered

Arm(s, at, next) ==
  /\ pc = at /\ Goto(next)
  /\ PostP2PeerCon(s)
  /\ UNCHANGED <<fileVars, verdictVars>> /\ Undelivered

\* The process ends with 1, whatever has been created and written.
SetupFailure ==
  /\ pc \in {"source", "network", "hubServer", "listen", "hubClient", "connect"}
  /\ Goto("exited") /\ exitCode' = 1
  /\ failed' = failed \cup ({pc} \cap {"listen", "connect"})
  /\ UNCHANGED <<meshVars, fileVars>> /\ Undelivered

\* Save, File.* and Open throw; so does the use of a store that is null.
Unwound ==
  /\ pc \in {"save", "rebuild"} /\ Goto("exited")
  /\ exitCode' = Unhandled
  /\ sendFile' \in IF pc = "save" THEN {None, sendFile, "image"} ELSE {sendFile}
  /\ recvFile' \in IF pc = "rebuild" THEN {recvFile, "image"} ELSE {recvFile}
  /\ UNCHANGED <<meshVars, held, image, failed>> /\ Undelivered

GateOpens ==
  /\ pc = "wait" /\ nBumped >= 1 /\ Goto("received")
  /\ UNCHANGED <<meshVars, fileVars, verdictVars>> /\ Undelivered

\* No file is removed and nothing is disposed of on this way out.
GateTimesOut == nBumped = 0 /\ Judge("wait", "verdict", {"timeout"})

CheckReceived ==
  Judge("received", "rebuild", Fails("source", fromWho # "client")
                                 \cup Fails("bytes", received = None \/ received # image))

\* WriteAllBytes, Open and VerifyStore on a store of the far side's own, which main
\* writes to at the end; the sender's store is another one.
Rebuild ==
  /\ pc = "rebuild" /\ Goto("late")
  /\ recvFile' = received /\ held' \in {held, held \cup {"recv"}}
  /\ failed' = failed \cup Fails("verify", received # "image")
  /\ UNCHANGED <<meshVars, sendFile, image, exitCode>> /\ Undelivered

\* Mutant: the warnings are counted for the client's hub only.
CountsOneHub ==
  Judge("late", "relation", Fails("real", errors["real"] # 0)
                              \cup Fails("unrelated", errors["unrelated"] # 1))

\* Pump.For(300), then the list of errors, under errLock.
CheckErrors ==
  Judge("late", "relation", Fails("real", errors["real"] # 0)
                              \cup Fails("unrelated", errors["unrelated"] # 2))

\* What RelationTo answers of a peer that is gone is not said.
CheckRelation ==
  \E lost \in BOOLEAN : (lost => ~link) /\ Judge("relation", "remove", Fails("relation", lost))

\* Both files may still be held, and a file that cannot be deleted is no failure.
RemoveScratch ==
  /\ pc = "remove" /\ Goto("disposeClient")
  /\ sendFile' = IF "send" \in held THEN sendFile ELSE None
  /\ recvFile' = IF "recv" \in held THEN recvFile ELSE None
  /\ UNCHANGED <<meshVars, held, image, verdictVars>> /\ Undelivered

Dispose(s, at, next) ==
  /\ pc = at /\ Goto(next)
  /\ CloseHub(s)
  /\ UNCHANGED <<fileVars, verdictVars>> /\ Undelivered

\* The network and the two stores, which let go of their files.
DisposeStores ==
  /\ pc = "disposeStores" /\ Goto("verdict")
  /\ held' = {}
  /\ UNCHANGED <<meshVars, sendFile, recvFile, image, verdictVars>> /\ Undelivered

Verdict ==
  /\ pc = "verdict" /\ Goto("exited")
  /\ exitCode' = IF failed = {} THEN 0 ELSE 3
  /\ UNCHANGED <<meshVars, fileVars, failed>> /\ Undelivered
-------------------------------------------------------------------------------
Setup ==
  \/ BuildStore \/ Serialise \/ CreateNetwork \/ SetupFailure \/ Unwound
  \/ CreateHub("server", "hubServer", "listen") \/ Arm("server", "listen", "hubClient")
  \/ CreateHub("client", "hubClient", "connect") \/ Arm("client", "connect", "wait")

Main ==
  \/ Setup \/ GateOpens \/ GateTimesOut \/ CheckReceived \/ Rebuild \/ CheckErrors
  \/ CheckRelation \/ RemoveScratch
  \/ Dispose("client", "disposeClient", "disposeServer")
  \/ Dispose("server", "disposeServer", "disposeStores")
  \/ DisposeStores \/ Verdict

HubsEnd(s) == PumpEnds(s) /\ UNCHANGED <<pc, fileVars, sinkVars, verdictVars>>
ServerThread == NoteSource \/ NotePayload \/ Bump \/ OnError("server")
                  \/ (serving = Idle /\ HubsEnd("server"))
ClientThread == OnPeerUp \/ OnError("client") \/ HubsEnd("client")

LinkUp ==
  /\ Login
  /\ owed' = [s \in Side |-> Append(owed[s], "unrelated")]
  /\ UNCHANGED <<pc, fileVars, fromWho, received, serving, nBumped, errors, verdictVars>>

LinkDown ==
  /\ LinkLost
  /\ \E told \in SUBSET Side :
       owed' = [s \in Side |-> IF s \in told THEN Append(owed[s], "real") ELSE owed[s]]
  /\ UNCHANGED <<pc, fileVars, fromWho, received, serving, nBumped, errors, verdictVars>>

Next == ServerThread \/ ClientThread \/ Main \/ LinkUp \/ LinkDown
-------------------------------------------------------------------------------
(* Properties. *)

\* The handler writes without a lock what main reads: the gate keeps them apart, so
\* that main compares and writes to the file what has arrived, and all of it.
GateIsBarrier == pc \in {"received", "rebuild"} => fromWho = "client" /\ received = image

\* On a link that stays up nothing fails but the timeout: when the store arrives both
\* hubs have been warned, although each hears of it on a thread of its own.
OnlyTimeoutFails == logins = 1 /\ link => failed \subseteq {"timeout"}

\* "Every harness that saves writes beside its own exe and cleans up": no scratch
\* file outlives a run that reports a verdict.
CleansUp == exitCode \in {0, 3} => sendFile = None /\ recvFile = None
-------------------------------------------------------------------------------
(* What makes the safety properties inductive. *)

TypeOK ==
  /\ MeshTypeOK /\ inbox \in [Side -> Seq({"image"})]
  /\ serving \in [body : {"image"}, left : {"payload", "bump"}] \cup {Idle}
  /\ nBumped \in Nat
  /\ owed \in [Side -> Seq(ErrorKind)] /\ errors \in [ErrorKind -> Nat]

Early == {"source", "save", "network", "hubServer", "listen", "hubClient", "connect"}

\* Nothing comes over the link before the client has dialled, and by then the store has
\* been saved and read back.
SetupInv ==
  /\ pc \in Early => ~con["client"]
  /\ ~con["client"] => logins = 0
  /\ logins = 0 =>
       /\ ~link /\ ~ack /\ inbox["server"] = <<>> /\ serving = Idle /\ nBumped = 0
       /\ \A s \in Side : owed[s] = <<>>
       /\ \A k \in ErrorKind : errors[k] = 0
  /\ pc \in {"source", "save", "exited"} \/ image = "image"
  /\ pc = "exited" => ~Running

\* The three steps of the server's handler, in their order.
ArrivedInv ==
  /\ serving # Idle => fromWho = "client"
  /\ serving # Idle /\ serving.left = "bump" => received = "image"
  /\ nBumped > 0 => fromWho = "client" /\ received = "image"
  /\ pc \in {"received", "rebuild", "late", "relation"} => nBumped > 0

\* On a link that has stayed up each hub owes the warning or has listed it, and nothing
\* has come over the link that overtook one.
NeverLost == logins = 1 /\ link
nOwed(s) == IF owed[s] = <<>> THEN 0 ELSE 1
WarnInv ==
  NeverLost =>
    /\ \A s \in Side : owed[s] \in {<<>>, <<"unrelated">>}
    /\ errors["real"] = 0
    /\ errors["unrelated"] + nOwed("server") + nOwed("client") = 2
    /\ ack => inbox["server"] = <<>> /\ serving = Idle /\ nBumped = 0
    /\ ~ack => owed["client"] = <<>>
    /\ serving # Idle \/ nBumped > 0 => owed["server"] = <<>>

FailedInv ==
  /\ Running => failed \cap {"listen", "connect"} = {}
  /\ logins = 0 => failed \subseteq {"listen", "connect", "timeout"}
  /\ OnlyTimeoutFails

IInv == TypeOK /\ SetupInv /\ ArrivedInv /\ WarnInv /\ FailedInv
===============================================================================
