---------------------------- MODULE WsaStoreDirect ----------------------------
(***************************************************************************)
(* DirectExamples/WsaStoreTest: a store shipped to another hub.  Main is   *)
(* that of TwoHubMain.  The client's pump, once the login is acknowledged, *)
(* saves a store to a scratch file, reads the file back and posts the      *)
(* bytes; the server's pump lays the bytes down in a scratch file of its   *)
(* own, loads it, checks what it finds and signals.                        *)
(*                                                                         *)
(* The process may end between any two steps of a handler, and then leaves *)
(* its scratch files to the next run.                                      *)
(***************************************************************************)
EXTENDS TwoHubMain, FiniteSets

CONSTANTS
  Built,        \* what BuildStore declares: field -> value
  Expect,       \* what RebuildStore expects: field -> value
  Leftover,     \* the image of another store, in a file an earlier run left
  None,         \* no file, no image
  Sizes,        \* the sizes an image may have
  MAX_P2Psize   \* the first size that does not fit a message

ASSUME ImagesAssumption == None # Built /\ None # Leftover
ASSUME ExpectAssumption == IsFiniteSet(DOMAIN Expect)
ASSUME SizesAssumption == Sizes \subseteq Nat /\ MAX_P2Psize \in Nat

VARIABLES
  sendFile,    \* the client's scratch file: None or the image in it
  recvFile,    \* the server's
  sending,     \* the client's handler: "idle", "save", "read" or "post"
  vImage,      \* the image it has read back, with its size
  bSent,       \* m_bSent of the client
  rebuilding,  \* the server's handler: "idle", "load", "check" or "signal"
  arrived,     \* the image it is rebuilding
  rebuilt      \* the image it checked last (history)

clientVars == <<sendFile, sending, vImage, bSent>>
serverVars == <<recvFile, rebuilding, arrived, rebuilt>>
vars == <<meshVars, harnessVars, clientVars, serverVars>>

Init ==
  /\ MainInit
  /\ sendFile \in {None, Leftover} /\ recvFile \in {None, Leftover}
  /\ sending = "idle" /\ vImage = [image |-> None, size |-> 0] /\ bSent = FALSE
  /\ rebuilding = "idle" /\ arrived = None /\ rebuilt = None
-------------------------------------------------------------------------------
(* The client's pump: On_ConLoginAck and PostStore. *)

\* Mutant: every acknowledgement sends the store.
SendsOnEveryLogin ==
  /\ Pumping("client") /\ sending = "idle" /\ ack
  /\ ack' = FALSE
  /\ sending' = "save" /\ sendFile' = None
  /\ UNCHANGED <<hub, con, link, logins, inbox, harnessVars, vImage, bSent, serverVars>>

On_ConLoginAck ==
  /\ Pumping("client") /\ sending = "idle" /\ ack
  /\ ack' = FALSE
  /\ IF bSent THEN UNCHANGED <<sending, sendFile>>
     ELSE sending' = "save" /\ sendFile' = None
  /\ UNCHANGED <<hub, con, link, logins, inbox, harnessVars, vImage, bSent, serverVars>>

\* PostStore returns early, whatever for: m_bSent is set all the same.
Return == sending' = "idle" /\ bSent' = TRUE

\* Save writes the file and keeps it open; or it fails, and may have begun one.
Save ==
  /\ sending = "save"
  /\ \/ sendFile' = Built /\ sending' = "read" /\ UNCHANGED bSent
     \/ sendFile' \in {None, Built} /\ Return
  /\ UNCHANGED <<meshVars, harnessVars, vImage, serverVars>>

\* A P2Pevent nobody catches leaves the handler: the pump drops the connection,
\* and m_bSent is not set.
SaveThrows ==
  /\ sending = "save"
  /\ sending' = "idle" /\ link' = FALSE
  /\ sendFile' \in {None, Built}
  /\ UNCHANGED <<hub, con, ack, logins, inbox, harnessVars, vImage, bSent, serverVars>>

\* StoreToBytes reads the file back, and refuses an empty one.
ReadBack ==
  /\ sending = "read"
  /\ \/ \E n \in Sizes \ {0} : vImage' = [image |-> sendFile, size |-> n]
        /\ sending' = "post" /\ UNCHANGED bSent
     \/ Return /\ UNCHANGED vImage
  /\ UNCHANGED <<meshVars, harnessVars, sendFile, serverVars>>

\* Mutant: the scratch file is removed while the manager still holds it open.
PostsHeld ==
  /\ sending = "post" /\ Return
  /\ inbox' = IF vImage.size >= MAX_P2Psize THEN inbox ELSE Posted("server", <<vImage>>)
  /\ UNCHANGED <<hub, con, link, ack, logins, harnessVars, sendFile, vImage, serverVars>>

\* The manager is gone and lets go of the file; an image too big is not posted.
Post ==
  /\ sending = "post" /\ Return
  /\ sendFile' = None
  /\ inbox' = IF vImage.size >= MAX_P2Psize THEN inbox ELSE Posted("server", <<vImage>>)
  /\ UNCHANGED <<hub, con, link, ack, logins, harnessVars, vImage, serverVars>>
-------------------------------------------------------------------------------
(* The server's pump: On_P2PeerBCast and RebuildStore. *)

\* The early return for an empty payload is not taken: see EveryImageFits.
On_P2PeerBCast ==
  /\ Pumping("server") /\ rebuilding = "idle" /\ inbox["server"] # <<>>
  /\ arrived' = Head(inbox["server"]).image
  /\ inbox' = Taken("server")
  /\ recvFile' = None
  /\ rebuilding' = "load"
  /\ UNCHANGED <<hub, con, link, ack, logins, harnessVars, clientVars, rebuilt>>

\* BytesToStore lays the file down and loads it.
BytesToStore ==
  /\ rebuilding = "load"
  /\ recvFile' = arrived
  /\ rebuilding' = "check"
  /\ UNCHANGED <<meshVars, harnessVars, clientVars, arrived, rebuilt>>

\* Mutant: what the catch block must count is not counted.
ForgivingLoadFails ==
  /\ rebuilding = "load"
  /\ recvFile' = None
  /\ rebuilding' = "signal"
  /\ UNCHANGED <<meshVars, harnessVars, clientVars, arrived, rebuilt>>

\* Mutant: no catch, so the pump drops the connection and nobody signals.
LoadFailsUncaught ==
  /\ rebuilding = "load"
  /\ recvFile' = None /\ link' = FALSE
  /\ rebuilding' = "idle"
  /\ UNCHANGED <<hub, con, ack, logins, inbox, harnessVars, clientVars, arrived, rebuilt>>

\* The file cannot be written or is refused: CHECKs of the empty manager fail, and
\* the first SelectItem throws.  Or Load throws itself.  The catch block counts
\* the throw, and the file is removed either way.
LoadFails ==
  /\ rebuilding = "load"
  /\ recvFile' = None
  /\ \E n \in 1..4 : nFailed' = nFailed + n
  /\ rebuilding' = "signal"
  /\ UNCHANGED <<meshVars, mainVars, doneEvent, gDone, clientVars, arrived, rebuilt>>

\* The CHECKs that fail on a loaded image.  A field that is not there throws, so
\* its failure is the last one counted; how many came before is left open.
Missing(image) == DOMAIN Expect \ DOMAIN image
Wrong(image) == {f \in DOMAIN Expect \cap DOMAIN image : image[f] # Expect[f]}

CheckStore ==
  /\ rebuilding = "check"
  /\ rebuilt' = recvFile
  /\ IF Missing(recvFile) = {} THEN nFailed' = nFailed + Cardinality(Wrong(recvFile))
     ELSE \E n \in 0..Cardinality(Wrong(recvFile)) : nFailed' = nFailed + n + 1
  /\ recvFile' = None
  /\ rebuilding' = "signal"
  /\ UNCHANGED <<meshVars, mainVars, doneEvent, gDone, clientVars, arrived>>

ServerSignals ==
  /\ rebuilding = "signal"
  /\ IF gDone THEN SetDone ELSE UNCHANGED doneEvent
  /\ rebuilding' = "idle"
  /\ UNCHANGED <<meshVars, mainVars, gDone, nFailed, clientVars, recvFile, arrived, rebuilt>>
-------------------------------------------------------------------------------
Unmeshed == UNCHANGED <<harnessVars, clientVars, serverVars>>
Unpumped == UNCHANGED <<clientVars, serverVars>>

ClientSends == On_ConLoginAck \/ Save \/ ReadBack \/ Post
ClientPump ==
  \/ ClientSends
  \/ SaveThrows
  \/ sending = "idle" /\ PumpEnds("client") /\ Unmeshed

ServerPump ==
  \/ On_P2PeerBCast \/ BytesToStore \/ LoadFails \/ CheckStore \/ ServerSignals
  \/ rebuilding = "idle" /\ PumpEnds("server") /\ Unmeshed

StoreMain == Main /\ Unpumped
LinkUp == Login /\ Unmeshed
LinkDown == LinkLost /\ Unmeshed
Asserts == AssertReportHook /\ Unpumped

Next ==
  Running /\ (ServerPump \/ ClientPump \/ StoreMain \/ LinkUp \/ LinkDown \/ Asserts)

\* Three threads that run on; that the 15 s elapse is for a property to assume.
Spec ==
  /\ Init /\ [][Next]_vars
  /\ WF_vars(Running /\ ServerPump) /\ WF_vars(Running /\ ClientPump)
  /\ WF_vars(Running /\ StoreMain /\ ~WaitFails)

TimeoutElapses == WF_vars(Running /\ StoreMain)
-------------------------------------------------------------------------------
(* Properties. *)

Image == {Built, Leftover}
Payload == [image : Image \cup {None}, size : Sizes \cup {0}]

\* Every variable keeps to its values.
TypeOK ==
  /\ MeshTypeOK
  /\ MainTypeOK
  /\ inbox \in [Side -> Seq(Payload)] /\ inbox["client"] = <<>>
  /\ sendFile \in Image \cup {None} /\ recvFile \in Image \cup {None}
  /\ sending \in {"idle", "save", "read", "post"}
  /\ vImage \in Payload
  /\ bSent \in BOOLEAN
  /\ rebuilding \in {"idle", "load", "check", "signal"}
  /\ arrived \in Image \cup {None} /\ rebuilt \in Image \cup {None}

Agrees(image) == image # None /\ Missing(image) = {} /\ Wrong(image) = {}

\* Exit code 0 means that the far hub rebuilt the store that was shipped, with all
\* that it expects in it: not a load that failed, not the image of an earlier run.
SuccessIsIntact == nExit = 0 => rebuilt = Built /\ Agrees(rebuilt)

\* A successful run leaves no scratch file behind, although it may have found some:
\* each side removes its file once its manager has let go of it.
NoScratchLeft == nExit = 0 => sendFile = None /\ recvFile = None

\* What is on the way is never empty and always fits a message, so the server's
\* early return for an empty payload is never taken.
EveryImageFits ==
  \A i \in 1..Len(inbox["server"]) :
    LET m == inbox["server"][i] IN m.image # None /\ m.size \in 1..(MAX_P2Psize - 1)

\* The event is the barrier between the server's pump, which counts failures, and
\* main, which reads the count: after it no CHECK runs any more, also when the
\* login is acknowledged again.
DoneIsBarrier ==
  [][doneEvent = "set" \/ pc = "verdict" => UNCHANGED nFailed]_vars

\* The server's pump sets a closed event only when main stopped waiting for it.
NoUseAfterTeardown ==
  rebuilding = "signal" /\ doneEvent = "closed" => "server" \in gaveUp

\* A store that the server has taken ends main's wait, be it intact, refused or
\* unreadable, and also when the link is lost meanwhile.
EveryArrivalIsReported ==
  rebuilding # "idle" /\ pc = "wait" /\ gDone ~> doneEvent = "set" \/ pc # "wait"

\* The example is a service with one thing to answer for: the store.
QS == INSTANCE QueryService WITH
  Query <- {"store"},
  answered <- IF Agrees(rebuilt) THEN {"store"} ELSE {},
  verdict <- CASE exitCode = Undecided -> "none"
               [] exitCode = 0 -> "success"
               [] OTHER -> "failure"
ImplementsService == QS!Spec

\* A store that came ends the wait, and whatever is thrown or lost the process ends
\* with a code.
AlwaysReports == TimeoutElapses => QS!Reports
Progress == EveryArrivalIsReported /\ AlwaysReports
-------------------------------------------------------------------------------
(* What makes the safety properties inductive. *)

\* The store has reached the server's handler.
Spent == rebuilding # "idle" \/ rebuilt # None \/ nFailed # 0

\* It is the store that was built, wherever it is.
ImageInv ==
  /\ sending = "read" => sendFile = Built
  /\ sending = "post" => vImage.image = Built /\ vImage.size # 0
  /\ EveryImageFits
  /\ inbox["server"] # <<>> => Head(inbox["server"]).image = Built
  /\ rebuilding \in {"load", "check"} => arrived = Built
  /\ rebuilding = "check" => recvFile = Built
  /\ rebuilt \in {None, Built}

\* It is posted once and rebuilt once, however often the login is acknowledged.
OncePosted ==
  /\ sending # "idle" => ~bSent
  /\ ~bSent => inbox["server"] = <<>> /\ ~Spent
  /\ inbox["server"] # <<>> => Len(inbox["server"]) = 1 /\ ~Spent /\ sendFile = None
  /\ Spent => sendFile = None
  /\ rebuilding \in {"load", "check"} => rebuilt = None /\ nFailed = 0

\* The event, the verdict and exit code 0 speak for a handler that has finished.
Reported == doneEvent = "set" \/ pc = "verdict" \/ nExit = 0

FinishedInv ==
  /\ Reported => rebuilding = "idle"
  /\ Reported \/ rebuilding = "signal" =>
       /\ Spent /\ recvFile = None
       /\ nFailed = 0 => Agrees(rebuilt)
  /\ nExit = 0 => nFailed = 0

\* The server's thread ends between two handlers, and before its event is closed.
TeardownInv ==
  /\ MainTeardownInv
  /\ hub["server"] = "stopped" => rebuilding = "idle"
  /\ ~con["client"] => ~link /\ ~ack /\ ~bSent /\ sending = "idle"
  /\ doneEvent = "closed" => Ended("server") \/ ~con["client"]

IInv == TypeOK /\ ImageInv /\ OncePosted /\ FinishedInv /\ TeardownInv
===============================================================================
