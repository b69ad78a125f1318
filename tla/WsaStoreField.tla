----------------------------- MODULE WsaStoreField -----------------------------
(***************************************************************************)
(* FieldAccessExamples/WsaStoreTest: WsaStoreDirect with the store built   *)
(* and checked through typed views.  The handlers are those of the         *)
(* original; the far side checks more, and checks it through views that    *)
(* find their items afresh.                                                *)
(***************************************************************************)
EXTENDS TwoHubMain, FiniteSets

CONSTANTS Writes, Anchor, Samples, Leftover, None, Sizes, MAX_P2Psize

VARIABLES sendFile, recvFile, sending, vImage, bSent, rebuilding, arrived, rebuilt

storeVars == <<sendFile, recvFile, sending, vImage, bSent, rebuilding, arrived, rebuilt>>
vars == <<meshVars, harnessVars, storeVars>>

V == INSTANCE FieldViews

\* Named fields through the views, the vector long-hand.
BuildStore ==
  [p \in DOMAIN V!Built \cup DOMAIN Samples |->
     IF p \in DOMAIN Samples THEN Samples[p] ELSE V!Built[p]]

\* Type and value of each item written, where the long-hand calls look for it.
Expected ==
  [p \in {V!LongHand(Writes[i]) : i \in 1..Len(Writes)} \cup DOMAIN Samples |->
     IF p \in DOMAIN Samples THEN Samples[p]
     ELSE LET i == CHOOSE j \in 1..Len(Writes) : V!LongHand(Writes[j]) = p IN
          [type |-> Writes[i].type, value |-> Writes[i].value]]

D == INSTANCE WsaStoreDirect WITH Built <- BuildStore, Expect <- Expected

Init == D!Init

PostStore == D!Save \/ D!SaveThrows \/ D!ReadBack \/ D!Post

On_ConLoginAck == D!On_ConLoginAck

RebuildStore == D!On_P2PeerBCast \/ D!BytesToStore \/ D!LoadFails \/ D!ServerSignals

\* What the views find in the loaded store; a field that is not there throws.
CheckStore == D!CheckStore

ServerEnds == rebuilding = "idle" /\ PumpEnds("server") /\ UNCHANGED <<harnessVars, storeVars>>
ClientEnds == sending = "idle" /\ PumpEnds("client") /\ UNCHANGED <<harnessVars, storeVars>>

ServerPump == RebuildStore \/ CheckStore \/ ServerEnds
ClientPump == On_ConLoginAck \/ PostStore \/ ClientEnds
FieldMain == Main /\ UNCHANGED storeVars
Mesh == (Login \/ LinkLost) /\ UNCHANGED <<harnessVars, storeVars>>

Next == ServerPump \/ ClientPump \/ FieldMain \/ Mesh
-------------------------------------------------------------------------------
(* Properties. *)

\* The far side, looking long-hand and for types as well, finds all that was
\* written through the views: a view never writes below another item.
EveryViewAgrees == rebuilt # None => D!Agrees(rebuilt)

\* Success leaves no scratch file and follows a store that agrees.
SuccessIsIntact == D!SuccessIsIntact /\ D!NoScratchLeft
-------------------------------------------------------------------------------
(* What makes the safety properties inductive: what the original needs. *)

IInv == D!IInv
===============================================================================
