----------------------------- MODULE WsaStoreLight -----------------------------
(***************************************************************************)
(* FacadeExamples/WsaStoreTest: a store shipped over TargetFacade.  Main   *)
(* is that of the facade's query example, with `store` its Library and     *)
(* `serving` the image the server's handler is rebuilding; here it is the  *)
(* server's pump that races main for the failure counter.  The client      *)
(* serialises the store each time the peer comes up.                       *)
(***************************************************************************)
EXTENDS P2PeerMesh, FiniteSets

CONSTANTS
  None,         \* no file, no image
  Idle,         \* a pump between two handlers, a library that is gone
  Sizes,        \* the sizes an image may have
  MAX_PAYLOAD   \* the first size that does not fit a message

VARIABLES
  pc, gate, store, serving, checking, loaded, nFailed, mainLoaded, timedOut, nExit,
  exitCode,     \* as in WsaQueryLight
  sending,      \* the client's handler: "idle", "save", "read" or "post"
  sendFile,     \* its scratch file: None or "image"
  size,         \* the bytes it has read back
  recvFile,     \* the server's scratch file
  agreed        \* every store rebuilt so far was the one sent (history)

mainVars == <<pc, mainLoaded, timedOut, nExit, exitCode>>
clientVars == <<sending, sendFile, size>>
serverVars == <<serving, checking, loaded, recvFile, agreed>>
storeVars == <<sending, sendFile, size, recvFile, agreed>>
vars == <<meshVars, gate, store, nFailed, mainVars, clientVars, serverVars>>

L == INSTANCE WsaQueryLight WITH kQueries <- <<>>, Catalogues <- {"library"},
                                 nAnswered <- 0, seen <- {}

Init ==
  /\ L!Init
  /\ sending = "idle" /\ sendFile = None /\ size = 0 /\ recvFile = None /\ agreed = TRUE
-------------------------------------------------------------------------------
(* The client's pump: onPeerUp and PostStore.  The names of the scratch files are
   the process's own. *)

OnPeerUp ==
  /\ Pumping("client") /\ sending = "idle" /\ ack
  /\ ack' = FALSE /\ sending' = "save" /\ sendFile' = None
  /\ UNCHANGED <<hub, con, link, logins, inbox, gate, store, nFailed, mainVars, size,
                 serverVars>>

\* BuildStore and save; when the save fails the handler is over.
Save ==
  /\ sending = "save"
  /\ \/ sendFile' = "image" /\ sending' = "read"
     \/ sendFile' \in {None, "image"} /\ sending' = "idle"
  /\ UNCHANGED <<meshVars, gate, store, nFailed, mainVars, size, serverVars>>

\* StoreToBytes reads the file its own store holds open; less than all is a failure.
StoreToBytes ==
  /\ sending = "read"
  /\ \/ size' \in Sizes \ {0} /\ sending' = "post"
     \/ sending' = "idle" /\ UNCHANGED size
  /\ UNCHANGED <<meshVars, gate, store, nFailed, mainVars, sendFile, serverVars>>

PostStore ==
  /\ sending = "post" /\ sending' = "idle"
  /\ sendFile' = None
  /\ inbox' = IF size >= MAX_PAYLOAD THEN inbox ELSE Posted("server", <<"image">>)
  /\ UNCHANGED <<hub, con, link, ack, logins, gate, store, nFailed, mainVars, size, serverVars>>
-------------------------------------------------------------------------------
(* The server's pump: RebuildStore, then the gate. *)

ServerTakesStore ==
  /\ Pumping("server") /\ serving = Idle /\ inbox["server"] # <<>>
  /\ serving' = Head(inbox["server"]) /\ checking' = "load"
  /\ inbox' = Taken("server")
  /\ recvFile' = None
  /\ UNCHANGED <<hub, con, link, ack, logins, gate, store, nFailed, mainVars, clientVars,
                 loaded, agreed>>

\* Mutant: the catch block prints and counts nothing.
BytesToStoreForgives ==
  /\ checking = "load"
  /\ recvFile' = serving
  /\ \/ checking' = "remove" /\ UNCHANGED <<loaded, agreed>>
     \/ checking' = "remove" /\ agreed' = FALSE /\ UNCHANGED loaded
  /\ UNCHANGED <<meshVars, gate, store, nFailed, mainVars, clientVars, serving>>

\* Either the bytes make the store again, or the CHECKs of BytesToStore and ok()
\* fail, and then the first access throws an Error, which the catch block counts.
BytesToStore ==
  /\ checking = "load"
  /\ \/ recvFile' = serving /\ checking' = "remove" /\ UNCHANGED <<loaded, agreed>>
     \/ /\ recvFile' \in {None, serving}
        /\ loaded' = nFailed + 2 /\ agreed' = FALSE /\ checking' = "write"
  /\ UNCHANGED <<meshVars, gate, store, nFailed, mainVars, clientVars, serving>>

\* Failed() is no atomic: what main counted meanwhile is overwritten.
ServerWritesFailed ==
  /\ checking = "write" /\ checking' = "remove"
  /\ nFailed' = loaded
  /\ UNCHANGED <<meshVars, gate, store, mainVars, clientVars, serving, loaded, recvFile, agreed>>

\* Mutant: the scratch file is left where it was laid down.
LeavesScratch ==
  /\ checking = "remove" /\ checking' = "open"
  /\ UNCHANGED <<meshVars, gate, store, nFailed, mainVars, clientVars, serving, loaded,
                 recvFile, agreed>>

RemoveScratch ==
  /\ checking = "remove" /\ checking' = "open"
  /\ recvFile' = None
  /\ UNCHANGED <<meshVars, gate, store, nFailed, mainVars, clientVars, serving, loaded, agreed>>

OpenGate ==
  /\ checking = "open" /\ checking' = "idle"
  /\ serving' = Idle
  /\ gate' = IF gate = "none" THEN gate ELSE "open"
  /\ UNCHANGED <<meshVars, store, nFailed, mainVars, clientVars, loaded, recvFile, agreed>>
-------------------------------------------------------------------------------
\* Main sets up, waits, and lets the destructors close and join hub after hub.
MainOn == (L!Setup \/ L!WaitEnds \/ L!MainWritesFailed \/ L!Teardown) /\ UNCHANGED storeVars
WaitFails == L!WaitFails /\ UNCHANGED storeVars
Main == MainOn \/ WaitFails

HubsEnd(s) == PumpEnds(s) /\ UNCHANGED <<gate, store, nFailed, mainVars, clientVars, serverVars>>
ServerPump == ServerTakesStore \/ BytesToStore \/ ServerWritesFailed \/ RemoveScratch \/ OpenGate
                \/ (serving = Idle /\ HubsEnd("server"))
ClientPump == OnPeerUp \/ Save \/ StoreToBytes \/ PostStore
                \/ (sending = "idle" /\ HubsEnd("client"))
Mesh == (Login \/ LinkLost)
          /\ UNCHANGED <<gate, store, nFailed, mainVars, clientVars, serverVars>>

Next == ServerPump \/ ClientPump \/ Main \/ Mesh
-------------------------------------------------------------------------------
(* Properties. *)

\* Exit code 0 is for a store that arrived in time and was rebuilt with its types,
\* whichever increment of the failure counter main and the server's pump lose.
SuccessIsIntact == exitCode = 0 => agreed /\ ~timedOut

\* Neither handler touches the library once it is gone: it outlives the hubs.
NoUseAfterDestruction == serving # Idle \/ sending # "idle" => store # Idle

\* When the process ends the far side's scratch file is gone, whatever came of the
\* rebuilding; the near side's is gone when a peer that came up once led to success.
NoScratchLeft ==
  exitCode # L!Undecided =>
    recvFile = None /\ (exitCode = 0 /\ logins <= 1 => sendFile = None)
-------------------------------------------------------------------------------
(* What makes the safety properties inductive. *)

TypeOK ==
  /\ MeshTypeOK /\ L!MainTypeOK /\ inbox \in [Side -> Seq({"image"})]
  /\ store \in {"library", Idle}
  /\ serving \in {Idle, "image"} /\ checking \in {"idle", "load", "write", "remove", "open"}
  /\ sending \in {"idle", "save", "read", "post"} /\ sendFile \in {None, "image"}
  /\ loaded \in Nat /\ agreed \in BOOLEAN

\* A pump that has ended has left its handler.
HubInv ==
  /\ L!Gone("client") => sending = "idle"
  /\ L!Gone("server") => serving = Idle
  /\ serving = Idle <=> checking = "idle"
  /\ L!StageInv

\* Two threads write Failed() without a lock, and neither ever writes back a zero: what
\* one of them loses the other has counted.
FailuresInv ==
  /\ checking = "write" => loaded > 0
  /\ pc = "writeFailed" => mainLoaded > 0
  /\ timedOut => nFailed > 0 \/ pc = "writeFailed"
  /\ ~agreed => nFailed > 0 \/ checking = "write"

\* Main gets past the gate or has failed.
GateInv ==
  pc \in {"closeClient", "joinClient", "closeServer", "joinServer", "destroyStore", "verdict"} =>
    nExit = 1 \/ nFailed > 0 \/ gate = "open"

\* The server's scratch file lives as long as the handler that lays it down.
FileInv ==
  /\ recvFile # None => checking \in {"write", "remove"}
  /\ exitCode # L!Undecided => pc = "exited"

\* Nothing of the client's has reached the server's pump, or been opened by it.
Unarrived == inbox["server"] = <<>> /\ serving = Idle /\ gate # "open"

\* As long as the peer has come up once at most, what arrives is posted by a handler
\* that has let go of its file.
OnceInv ==
  logins <= 1 =>
    /\ logins = 0 => ~ack
    /\ ack \/ logins = 0 => sending = "idle" /\ Unarrived
    /\ sending # "idle" => Unarrived
    /\ ~Unarrived => sendFile = None

IInv ==
  /\ TypeOK /\ HubInv /\ FailuresInv /\ GateInv /\ FileInv /\ OnceInv
  /\ SuccessIsIntact
  /\ exitCode = 0 /\ logins <= 1 => sendFile = None
===============================================================================
