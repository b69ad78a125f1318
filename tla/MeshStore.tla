------------------------------ MODULE MeshStore ------------------------------
(* The mesh harnesses that build their store their own way, one per behaviour:
   the FieldAccess ports of both Direct examples, and the store shipped over
   TargetFacade and from .NET.  `subject` says which; what another subject uses
   keeps its first value.                                                      *)
EXTENDS TLC, Naturals, Sequences, FiniteSets

CONSTANTS
  MaxLogins, Idle, None,
  Text, kQueries, QueryWrites, QueryAnchor,      \* the FieldAccess query
  StoreWrites, StoreAnchor, Samples, Leftover,   \* the FieldAccess store
  Sizes, MaxSize                                 \* of an image, and what a message takes

VARIABLES
  subject, hub, con, link, ack, logins, inbox, pc, nFailed, nExit, exitCode,
  doneEvent, gDone, gaveUp, store, serving, checking, bSent, nAnswered, seen, nThrown,
  sendFile, recvFile, sending, vImage, rebuilding, arrived, rebuilt,
  gate, loaded, mainLoaded, timedOut, size, agreed,
  held, image, fromWho, received, nBumped, owed, errors, failed

shared == <<hub, con, link, ack, logins, inbox, pc, exitCode>>
twoHub == <<doneEvent, gDone, gaveUp>>
queryOnly == <<nAnswered, seen, nThrown>>
storeOnly == <<vImage, rebuilding, arrived, rebuilt>>
lightOnly == <<gate, loaded, mainLoaded, timedOut, size, agreed>>
netOnly == <<held, image, fromWho, received, nBumped, owed, errors, failed>>
vars == <<subject, shared, twoHub, nFailed, nExit, store, serving, checking, bSent, queryOnly,
          sendFile, recvFile, sending, storeOnly, lightOnly, netOnly>>

FQ == INSTANCE WsaQueryField WITH Writes <- QueryWrites, Anchor <- QueryAnchor
FS == INSTANCE WsaStoreField WITH
        Writes <- StoreWrites, Anchor <- StoreAnchor, MAX_P2Psize <- MaxSize
LS == INSTANCE WsaStoreLight WITH MAX_PAYLOAD <- MaxSize
NS == INSTANCE WsaStoreNet

ASSUME MeshAssumption == MaxLogins \in Nat \ {0}
ASSUME QueryAssumption ==
  /\ {"", "MISS"} \subseteq Text
  /\ kQueries \in Seq([path : Text, type : Text, value : Text]) /\ Len(kQueries) > 0
  /\ \A i, j \in 1..Len(kQueries) : i # j => kQueries[i].path # kQueries[j].path
  /\ Len(QueryWrites) \in Nat
  /\ \A p \in DOMAIN FQ!V!Built : FQ!V!Built[p] \in [type : Text, value : Text]
ASSUME StoreAssumption ==
  /\ Len(StoreWrites) \in Nat /\ IsFiniteSet(DOMAIN Samples)
  /\ Sizes \subseteq Nat /\ MaxSize \in Nat
ASSUME NothingAssumption ==
  /\ Idle \notin [path : Text] /\ Idle \notin {"library", "image"}
  /\ None \notin {FS!BuildStore, Leftover, "image"}

QueryUnused == nAnswered = Idle /\ seen = Idle /\ nThrown = Idle
StoreUnused == vImage = Idle /\ rebuilding = Idle /\ arrived = Idle /\ rebuilt = Idle
LightUnused == 
  /\ gate = Idle /\ loaded = Idle /\ mainLoaded = Idle
  /\ timedOut = Idle /\ size = Idle /\ agreed = Idle
NetUnused == 
  /\ held = Idle /\ image = Idle /\ fromWho = Idle /\ received = Idle
  /\ nBumped = Idle /\ owed = Idle /\ errors = Idle /\ failed = Idle
MainUnused == doneEvent = Idle /\ gDone = Idle /\ gaveUp = Idle

Init ==
  \/ /\ subject = "fieldQuery" /\ FQ!Init
     /\ sendFile = Idle /\ recvFile = Idle /\ sending = Idle
     /\ StoreUnused /\ LightUnused /\ NetUnused
  \/ /\ subject = "fieldStore" /\ FS!Init
     /\ store = Idle /\ serving = Idle /\ checking = Idle
     /\ QueryUnused /\ LightUnused /\ NetUnused
  \/ /\ subject = "light" /\ LS!Init
     /\ bSent = Idle /\ MainUnused /\ QueryUnused /\ StoreUnused /\ NetUnused
  \/ /\ subject = "net" /\ NS!Init
     /\ nFailed = Idle /\ nExit = Idle /\ store = Idle
     /\ checking = Idle /\ bSent = Idle /\ sending = Idle
     /\ MainUnused /\ QueryUnused /\ StoreUnused /\ LightUnused

Querying ==
  subject = "fieldQuery" /\ UNCHANGED <<subject, sendFile, recvFile, sending, storeOnly,
                                        lightOnly, netOnly>>
Shipping ==
  subject = "fieldStore" /\ UNCHANGED <<subject, store, serving, checking, queryOnly,
                                        lightOnly, netOnly>>
Lightly == subject = "light" /\ UNCHANGED <<subject, twoHub, bSent, queryOnly, storeOnly, netOnly>>
Managed ==
  subject = "net" /\ UNCHANGED <<subject, twoHub, nFailed, nExit, store, checking, bSent,
                                 sending, queryOnly, storeOnly, lightOnly>>

Running == exitCode = 4
ServerPump == Running /\ ( \/ (Querying /\ FQ!ServerPump) \/ (Shipping /\ FS!ServerPump)
                           \/ (Lightly /\ LS!ServerPump) \/ (Managed /\ NS!ServerThread) )
ClientPump == Running /\ ( \/ (Querying /\ FQ!ClientPump) \/ (Shipping /\ FS!ClientPump)
                           \/ (Lightly /\ LS!ClientPump) \/ (Managed /\ NS!ClientThread) )
Main == Running /\ ( \/ (Querying /\ FQ!FieldMain) \/ (Shipping /\ FS!FieldMain)
                     \/ (Lightly /\ LS!Main) \/ (Managed /\ NS!Main) )
Mesh == Running /\ ( \/ (Querying /\ FQ!Mesh) \/ (Shipping /\ FS!Mesh)
                     \/ (Lightly /\ LS!Mesh) \/ (Managed /\ (NS!LinkUp \/ NS!LinkDown)) )

Next == ServerPump \/ ClientPump \/ Main \/ Mesh

\* Three threads that run on, and a wait that times out.
Spec == Init /\ [][Next]_vars /\ WF_vars(ServerPump) /\ WF_vars(ClientPump) /\ WF_vars(Main)
-------------------------------------------------------------------------------
(* Properties. *)

\* No harness fails undisturbed: a failure of the FieldAccess query is a read that
\* threw, its store is on the far side what the views wrote, and the .NET store, whose
\* handler writes without a lock, is whole past the gate and fails but by the timeout
\* on a link that stays up.
OnlyDisturbanceFails ==
  /\ subject = "fieldQuery" => FQ!OnlyThrowsFail
  /\ subject = "fieldStore" => FS!EveryViewAgrees
  /\ subject = "net" => NS!GateIsBarrier /\ NS!OnlyTimeoutFails

\* Success is earned: every query of the FieldAccess harness had its right answer, both
\* shipped stores arrived as they were built, and no lost increment of the facade's
\* counter turns a failure into a success.
SuccessIsIntact ==
  /\ subject = "fieldQuery" => FQ!SuccessIsComplete
  /\ subject = "fieldStore" => FS!SuccessIsIntact
  /\ subject = "light" => LS!SuccessIsIntact

\* Facade WsaStoreTest: the library outlives the handlers that use it, and the scratch
\* files do not outlive the process.
LightCleansUp == subject = "light" => LS!NoUseAfterDestruction /\ LS!NoScratchLeft

\* .NET: "Every harness that saves writes beside its own exe and cleans up".
NetCleansUp == subject = "net" => NS!CleansUp
-------------------------------------------------------------------------------
(* What makes the safety properties inductive. *)

IInv ==
  /\ subject \in {"fieldQuery", "fieldStore", "light", "net"}
  /\ subject = "fieldQuery" => FQ!IInv
  /\ subject = "fieldStore" => FS!IInv
  /\ subject = "light" => LS!IInv
  /\ subject = "net" => NS!IInv

\* What the programs' own tables owe each other: the CHECKs beside the writes pass, and
\* the catalogue answers each query as the table expects.
ViewsAgree == FQ!V!Disagreeing = {} /\ FS!V!Disagreeing = {}
TableIsRight == \A p \in FQ!D!QueryPath : FQ!D!FailedChecks(FQ!D!ReplyTo(p)) = {}

RightInv == subject = "fieldQuery" => FQ!RightInv
-------------------------------------------------------------------------------
\* The instance TLC checks: two of the five queries, a value and the path that is not
\* there; writes that go below a child, below the root and below another child.
MCAnchor == ("config" :> "config") @@ ("server" :> "server") @@ ("root" :> "")
MCQueries == <<
  [path |-> "..config.width", type |-> "INT32", value |-> "1024"],
  [path |-> "..config.depth", type |-> "",      value |-> ""] >>
MCWrites == <<
  [view |-> "config", name |-> "width", type |-> "INT32", value |-> "1024"],
  [view |-> "server", name |-> "port",  type |-> "INT32", value |-> "7842"],
  [view |-> "config", name |-> "height", type |-> "INT32", value |-> "768"] >>
MCText == {"", "MISS", "INT32", "WSTR16", "1024", "768", "7842", "..config.width", "..config.depth"}

MCStoreAnchor == ("root" :> "") @@ ("limits" :> "Limits")
MCStoreWrites == <<
  [view |-> "root",   name |-> "Interval", type |-> "INT32", value |-> "250"],
  [view |-> "limits", name |-> "Low",      type |-> "INT32", value |-> "-40"],
  [view |-> "root",   name |-> "Scale",    type |-> "FLOAT64", value |-> "0.125"],
  [view |-> "limits", name |-> "High",     type |-> "INT32", value |-> "125"] >>
MCSamples == "..Samples.4" :> [type |-> "INT32", value |-> "204"]
MCLeftover == "..Interval" :> [type |-> "INT32", value |-> "500"]
MCSizes == {0, 2047, 2048}
===============================================================================
