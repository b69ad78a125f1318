----------------------------- MODULE WsaQueryField -----------------------------
(***************************************************************************)
(* FieldAccessExamples/WsaQueryTest: WsaQueryDirect with the catalogue     *)
(* built through typed views, and both messages as sets of named fields.   *)
(* What differs from the original: the catalogue is checked on main before *)
(* the hubs run, a query without its field is answered, and reading a      *)
(* reply may throw, which the client's handler catches and counts.         *)
(***************************************************************************)
EXTENDS TwoHubMain, FiniteSets

CONSTANTS Text, kQueries, Writes, Anchor, Idle

VARIABLES store, serving, checking, bSent, nAnswered, seen,   \* as in WsaQueryDirect
  nThrown    \* how many reads of a reply have thrown (history)

fieldVars == <<store, serving, checking, bSent, nAnswered, seen, nThrown>>
vars == <<meshVars, harnessVars, fieldVars>>

V == INSTANCE FieldViews
D == INSTANCE WsaQueryDirect WITH Catalogue <- V!Built

Init == D!Init /\ nThrown = 0
-------------------------------------------------------------------------------
(* What the original does not do. *)

\* BuildCatalogue: the views' writes, then the checks of what they wrote.
BuildCatalogue ==
  /\ pc = "startup" /\ Goto("spawnServer")
  /\ store' = "live"
  /\ nFailed' = nFailed + Cardinality(V!Disagreeing)
  /\ UNCHANGED <<meshVars, doneEvent, gDone, nExit, exitCode, gaveUp, serving, checking,
                 bSent, nAnswered, seen, nThrown>>

\* Mutant: the catch block cancels the event and counts nothing.
CatchForgives ==
  /\ Pumping("client") /\ checking = "idle" /\ inbox["client"] # <<>>
  /\ nThrown' = nThrown + 1
  /\ inbox' = Taken("client")
  /\ checking' = "count"
  /\ UNCHANGED <<hub, con, link, ack, logins, harnessVars, store, serving, bSent, nAnswered,
                 seen>>

\* A reply that cannot be read is a failed check, and is counted like any other:
\* nothing leaves the handler.
ReplyThrows ==
  /\ Pumping("client") /\ checking = "idle" /\ inbox["client"] # <<>>
  /\ nFailed' = nFailed + 1 /\ nThrown' = nThrown + 1
  /\ inbox' = Taken("client")
  /\ checking' = "count"
  /\ UNCHANGED <<hub, con, link, ack, logins, mainVars, doneEvent, gDone, store, serving,
                 bSent, nAnswered, seen>>
-------------------------------------------------------------------------------
(* What it does as the original does. *)

On_StoreQuery == (D!ServerTakesQuery \/ D!On_StoreQuery) /\ UNCHANGED nThrown

On_ConLoginAck == D!On_ConLoginAck /\ UNCHANGED nThrown

On_StoreReply ==
  \/ D!ClientChecksReply /\ UNCHANGED nThrown
  \/ ReplyThrows

CountReply == (D!ClientCountsReply \/ D!ClientSignals) /\ UNCHANGED nThrown

ServerEnds == serving = Idle /\ PumpEnds("server") /\ UNCHANGED <<harnessVars, fieldVars>>
ClientEnds == checking = "idle" /\ PumpEnds("client") /\ UNCHANGED <<harnessVars, fieldVars>>

ServerPump == On_StoreQuery \/ ServerEnds
ClientPump == On_ConLoginAck \/ On_StoreReply \/ CountReply \/ ClientEnds

FieldMain ==
  \/ BuildCatalogue
  \/ (D!DeleteStore /\ UNCHANGED nThrown)
  \/ ((MainOn \/ WaitFails) /\ UNCHANGED fieldVars)

Mesh == (Login \/ LinkLost) /\ UNCHANGED <<harnessVars, fieldVars>>

Next == ServerPump \/ ClientPump \/ FieldMain \/ Mesh
-------------------------------------------------------------------------------
(* Properties. *)

\* A write through a view lands under the child it is bound to, and no reply is
\* wrong, late or doubled: whatever becomes of the link, a failure is a read that
\* threw, and each of those is one.
OnlyThrowsFail == nFailed = nThrown

\* Exit code 0 is still for a table of which every query had its answer.
SuccessIsComplete == D!SuccessIsComplete

\* A reply that cannot be read does not keep main waiting: once as many replies were
\* counted as there are queries, the event is set.
CountedIsDone == nAnswered >= Len(kQueries) /\ gDone => doneEvent # "clear" \/ checking = "signal"
                                                          \/ pc # "wait"
-------------------------------------------------------------------------------
(* What makes the safety properties inductive. *)

\* Until a read throws, this is the original; and none throws once main has decided for
\* 0, as then every reply has been taken.
IInv ==
  /\ D!TypeOK /\ nThrown \in Nat
  /\ nFailed = 0 => nThrown = 0
  /\ nThrown = 0 => D!IInv
  /\ nExit = 0 => nThrown = 0

\* Where the views agree and the table is right, what is on its way back is the answer
\* to one of the queries, and no CHECK of it fails.
RightInv ==
  /\ inbox["client"] \in Seq({D!ReplyTo(p) : p \in D!QueryPath})
  /\ OnlyThrowsFail
===============================================================================
