------------------------------ MODULE WsaStoreCom ------------------------------
(***************************************************************************)
(* ComExamples/WsaStoreTestCom: a store saved to a file, its bytes sent to *)
(* the other hub each time the peer comes up, written to a second file and *)
(* opened there.  Saving, reading, writing and opening may fail or fall    *)
(* short; each result is checked and main goes on whatever it is.          *)
(***************************************************************************)
EXTENDS ComHarness

CONSTANT Nobody      \* nothing has arrived

VARIABLES
  image,     \* the bytes of the saved store: "intact", "partial" or "empty"
  received,  \* the bytes that arrived, or Nobody
  rebuilt    \* the store opened from them: "none", "same" or "other"

storeVars == <<image, received, rebuilt>>
vars == <<meshVars, harnessVars, storeVars>>

Bytes == {"intact", "partial", "empty"}

Init == HarnessInit /\ image = "empty" /\ received = Nobody /\ rebuilt = "none"
-------------------------------------------------------------------------------
(* The handlers. *)

\* An image is sent as it is, also when it is empty or only a part.
ClientOnPeerUp ==
  /\ Delivers("client") /\ ack
  /\ ack' = FALSE
  /\ inbox' = Posted("server", <<image>>)
  /\ UNCHANGED <<hub, con, link, logins, harnessVars, storeVars>>

\* Mutant: the handler takes the payload as a text.
ServerTakesText ==
  /\ Delivers("server") /\ inbox["server"] # <<>>
  /\ received' = "partial"
  /\ inbox' = Taken("server")
  /\ Bump
  /\ UNCHANGED <<hub, con, link, ack, logins, pc, clockVars, owed, errors, verdictVars,
                 image, rebuilt>>

ServerOnStore ==
  /\ Delivers("server") /\ inbox["server"] # <<>>
  /\ received' = Head(inbox["server"])
  /\ inbox' = Taken("server")
  /\ Bump
  /\ UNCHANGED <<hub, con, link, ack, logins, pc, clockVars, owed, errors, verdictVars,
                 image, rebuilt>>
-------------------------------------------------------------------------------
(* Main. *)

\* BuildStore declares into memory and main verifies what it built.
BuildStore == Enter("source", "save")

Setup ==
  \/ Enter("apartment", "source") \/ BuildStore \/ Enter("network", "hubServer")
  \/ CreateHub("server", "hubServer", "listen") \/ Arm("server", "listen", "hubClient")
  \/ CreateHub("client", "hubClient", "connect") \/ Arm("client", "connect", "wait")
  \/ SetupFailure({"apartment", "source", "network", "hubServer", "listen",
                   "hubClient", "connect"})

\* What reading the saved file leaves: a read that falls short, the bytes it sized.
ReadWholeFile(saved, read) ==
  IF read THEN {"intact"} ELSE IF saved THEN {"empty", "partial"} ELSE {"empty"}

\* A save that fails leaves no file to read.
Serialise ==
  \E saved, read \in BOOLEAN :
    /\ read => saved
    /\ image' \in ReadWholeFile(saved, read)
    /\ Judge("save", "network", Fails("save", ~saved) \cup Fails("read", ~read)
                                  \cup Fails("image", image' = "empty"))
    /\ UNCHANGED <<received, rebuilt>>

CheckReceived ==
  Judge("opened", "rebuild",
    Fails("bytes", received = "empty" \/ received # image))

\* What the far side must find: shape, types and values of the store that was built.
VerifyStore(made) == made = "same"

\* Mutant: a store that opens is taken for the one that was sent.
OpensUnverified ==
  \E written \in BOOLEAN, made \in {"none", "same", "other"} :
    /\ made = "same" => written /\ received = "intact"
    /\ Judge("rebuild", "errors", Fails("write", ~written) \cup Fails("open", made = "none"))
    /\ rebuilt' = made
    /\ UNCHANGED <<image, received>>

\* WriteWholeFile, then open: only an intact file makes the same store.
Rebuild ==
  \E written \in BOOLEAN, made \in {"none", "same", "other"} :
    /\ made = "same" => written /\ received = "intact"
    /\ Judge("rebuild", "errors", Fails("write", ~written) \cup Fails("open", made = "none")
                                    \cup Fails("verify", ~VerifyStore(made)))
    /\ rebuilt' = made
    /\ UNCHANGED <<image, received>>

\* Every login warns each hub once, so that a second login fails this check.
CheckErrors ==
  Judge("errors", "verdict",
    Fails("real", errors["real"] # 0) \cup Fails("unrelated", errors["unrelated"] # 2))

Main ==
  \/ /\ Setup \/ Wait(1) \/ CheckReceived \/ CheckErrors \/ Verdict
     /\ UNCHANGED storeVars
  \/ Serialise \/ Rebuild

Handlers ==
  ClientOnPeerUp \/ ServerOnStore
    \/ ((OnError("server") \/ OnError("client")) /\ UNCHANGED storeVars)

Mesh == (LinkUp \/ LinkDown) /\ UNCHANGED storeVars

Next == Running /\ (Main \/ Handlers \/ Mesh)

Spec == Init /\ [][Next]_vars /\ WF_vars(Running /\ Main)
-------------------------------------------------------------------------------
(* Properties. *)

\* Files that were written and opened without a fault.
NoFileFault == failed \cap {"save", "read", "image", "write", "open", "verify"} = {}

\* Success means that a whole store arrived over the mesh and was rebuilt.
SuccessIsIntact ==
  exitCode = 0 => image = "intact" /\ received = "intact" /\ rebuilt = "same"

\* On a link that stays up, with files that behave, nothing but the timeout fails
\* a run: by the time the store arrives both hubs have been warned, once each.
OnlyTimeoutFails == logins = 1 /\ link /\ NoFileFault => failed \subseteq {"timeout"}
-------------------------------------------------------------------------------
(* What makes the safety properties inductive. *)

\* Whatever is on the way, or has arrived, is the image main saved before it set up
\* the hubs.
ImageInv ==
  /\ image \in Bytes
  /\ pc \notin {"apartment", "source", "save", "exited"} =>
       (image = "empty" => "image" \in failed) /\ (failed = {} => image = "intact")
  /\ DOMAIN inbox = Side /\ inbox["server"] \in Seq({image})
  /\ logins = 0 => inbox["server"] = <<>> /\ nBumped = 0
  /\ nBumped > 0 => received = image

\* A hub has been warned before anything reaches it.
WarnedInv ==
  NeverLost => /\ nBumped > 0 => owed["server"] = <<>>
               /\ ack => inbox["server"] = <<>> /\ nBumped = 0

\* Past the gate something has arrived; what is not the whole store fails a check.
JudgedInv ==
  /\ pc \in Late => nBumped > 0
  /\ pc \in {"errors", "verdict"} /\ failed = {} => received = "intact" /\ rebuilt = "same"
  /\ SuccessIsIntact

FailedInv ==
  /\ logins = 0 => failed \subseteq {"listen", "connect", "timeout", "save", "read", "image"}
  /\ OnlyTimeoutFails

IInv == ImageInv /\ WarnedInv /\ JudgedInv /\ FailedInv
===============================================================================
