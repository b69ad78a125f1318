------------------------------ MODULE TwoHubMain ------------------------------
(***************************************************************************)
(* The main thread of the two-hub harnesses (DirectExamples/WsaQueryTest   *)
(* and WsaStoreTest share it line for line): it sets the two hubs up,      *)
(* waits for the done event a pump sets, turns the failure counter into an *)
(* exit code and tears everything down.  The harness that composes it says *)
(* what the pumps do in the meantime.                                      *)
(***************************************************************************)
EXTENDS P2PeerMesh

VARIABLES
  pc,         \* where main is
  doneEvent,  \* the kernel event: "none", "clear", "set" or "closed"
  gDone,      \* g_hDoneEvent is not NULL
  nFailed,    \* g_nFailed
  nExit,      \* main's local nExit (4 until it is assigned)
  exitCode,   \* the code the process ended with (4 while it runs)
  gaveUp      \* hubs whose thread main stopped waiting for

mainVars == <<pc, nExit, exitCode, gaveUp>>
harnessVars == <<mainVars, doneEvent, gDone, nFailed>>

Undecided == 4
Running == exitCode = Undecided

MainInit ==
  /\ MeshInit
  /\ pc = "createEvent" /\ nExit = Undecided /\ exitCode = Undecided
  /\ gaveUp = {} /\ doneEvent = "none" /\ gDone = FALSE /\ nFailed = 0

\* SetEvent; on a handle that has been closed it does nothing or hits another.
SetDone == doneEvent' = IF doneEvent = "clear" THEN "set" ELSE doneEvent
-------------------------------------------------------------------------------
Goto(p) == pc' = p
Undecidedly == UNCHANGED <<nFailed, exitCode, gaveUp>>   \* main only goes on

\* CreateEvent's result is not checked: without an event main goes on.
CreateEvent ==
  /\ pc = "createEvent" /\ Goto("startup")
  /\ \/ doneEvent' = "clear" /\ gDone' = TRUE
     \/ UNCHANGED <<doneEvent, gDone>>
  /\ UNCHANGED <<meshVars, nExit>> /\ Undecidedly

\* StartupP2Pmsg, and the constructor of the server's hub.
Startup ==
  /\ pc = "startup" /\ Goto("spawnServer")
  /\ UNCHANGED <<meshVars, doneEvent, gDone, nExit>> /\ Undecidedly

SpawnServer ==
  /\ pc = "spawnServer" /\ Goto("service")
  /\ SpawnHub("server")
  /\ UNCHANGED <<doneEvent, gDone, nExit>> /\ Undecidedly

PostService ==
  /\ pc = "service" /\ Goto("spawnClient")
  /\ PostP2PeerCon("server")
  /\ UNCHANGED <<doneEvent, gDone, nExit>> /\ Undecidedly

SpawnClient ==
  /\ pc = "spawnClient" /\ Goto("dial")
  /\ SpawnHub("client")
  /\ UNCHANGED <<doneEvent, gDone, nExit>> /\ Undecidedly

Dial ==
  /\ pc = "dial" /\ Goto("wait")
  /\ PostP2PeerCon("client")
  /\ UNCHANGED <<doneEvent, gDone, nExit>> /\ Undecidedly

\* A factory, SpawnHub or StartupP2Pmsg fails: return 1, no hub is closed.
SetupFails ==
  /\ pc \in {"startup", "spawnServer", "service", "spawnClient", "dial"}
  /\ Goto("return") /\ nExit' = 1
  /\ UNCHANGED <<meshVars, doneEvent, gDone>> /\ Undecidedly

\* The event is auto-reset: the wait that it ends clears it.
WaitSignalled ==
  /\ pc = "wait" /\ doneEvent = "set"
  /\ doneEvent' = "clear" /\ Goto("verdict")
  /\ UNCHANGED <<meshVars, gDone, nExit>> /\ Undecidedly

\* Mutant: a timeout is judged like a signal.
TimeoutIsJudged ==
  /\ pc = "wait" /\ doneEvent # "set"
  /\ nExit' = (IF nFailed # 0 THEN 3 ELSE 0) /\ Goto("closeClient")
  /\ UNCHANGED <<meshVars, doneEvent, gDone>> /\ Undecidedly

\* Mutant: an INFINITE wait fails only without an event.
WaitsForEver ==
  /\ pc = "wait" /\ doneEvent = "none"
  /\ nExit' = 3 /\ Goto("closeClient")
  /\ UNCHANGED <<meshVars, doneEvent, gDone>> /\ Undecidedly

\* After 15 s, or at once when there is no event to wait on.
WaitFails ==
  /\ pc = "wait" /\ doneEvent # "set"
  /\ nExit' = 3 /\ Goto("closeClient")
  /\ UNCHANGED <<meshVars, doneEvent, gDone>> /\ Undecidedly

Verdict ==
  /\ pc = "verdict" /\ Goto("closeClient")
  /\ nExit' = IF nFailed # 0 THEN 3 ELSE 0
  /\ UNCHANGED <<meshVars, doneEvent, gDone>> /\ Undecidedly

CloseClient ==
  /\ pc = "closeClient" /\ Goto("closeServer")
  /\ CloseHub("client")
  /\ UNCHANGED <<doneEvent, gDone, nExit>> /\ Undecidedly

\* Mutant: the hubs are closed and nobody waits for their threads.
NobodyJoins ==
  /\ pc = "closeServer" /\ Goto("closeEvent")
  /\ CloseHub("server")
  /\ UNCHANGED <<doneEvent, gDone, nExit>> /\ Undecidedly

CloseServer ==
  /\ pc = "closeServer" /\ Goto("joinClient")
  /\ CloseHub("server")
  /\ UNCHANGED <<doneEvent, gDone, nExit>> /\ Undecidedly

\* WaitForSingleObject(thread, 3000), whose result is ignored: either the
\* thread has ended or main goes on without it.
Join(s, at, next) ==
  /\ pc = at /\ Goto(next)
  /\ gaveUp' = IF hub[s] = "stopped" THEN gaveUp ELSE gaveUp \cup {s}
  /\ UNCHANGED <<meshVars, doneEvent, gDone, nFailed, nExit, exitCode>>

JoinClient == Join("client", "joinClient", "joinServer")
JoinServer == Join("server", "joinServer", "closeEvent")

\* CleanupP2Pmsg, then CloseHandle and g_hDoneEvent = NULL, in two steps.
CloseEvent ==
  /\ pc = "closeEvent" /\ Goto("nullEvent")
  /\ doneEvent' = IF gDone THEN "closed" ELSE doneEvent
  /\ UNCHANGED <<meshVars, gDone, nExit>> /\ Undecidedly

NullEvent ==
  /\ pc = "nullEvent" /\ Goto("return")
  /\ gDone' = FALSE
  /\ UNCHANGED <<meshVars, doneEvent, nExit>> /\ Undecidedly

\* main returns: the hubs, which are its locals, are destroyed.
DestroyHubs ==
  /\ pc = "return" /\ Goto("exit")
  /\ UNCHANGED <<meshVars, doneEvent, gDone, nExit>> /\ Undecidedly

Exit ==
  /\ pc = "exit" /\ Goto("exited")
  /\ exitCode' = nExit
  /\ UNCHANGED <<meshVars, doneEvent, gDone, nFailed, nExit, gaveUp>>

\* The assert hook ends the process from whichever thread tripped the assert.
AssertReportHook ==
  /\ Goto("exited") /\ exitCode' = 2
  /\ UNCHANGED <<meshVars, doneEvent, gDone, nFailed, nExit, gaveUp>>

Setup == CreateEvent \/ SpawnServer \/ PostService \/ SpawnClient \/ Dial \/ SetupFails
Teardown == CloseClient \/ CloseServer \/ JoinClient \/ JoinServer \/ CloseEvent
              \/ NullEvent \/ Exit

\* Main, but for the timeout and for the two steps that build and destroy hubs.
MainOn == Setup \/ WaitSignalled \/ Verdict \/ Teardown
Main == Startup \/ MainOn \/ WaitFails \/ DestroyHubs
-------------------------------------------------------------------------------
MainTypeOK ==
  /\ pc \in {"createEvent", "startup", "spawnServer", "service", "spawnClient", "dial",
              "wait", "verdict", "closeClient", "closeServer", "joinClient", "joinServer",
              "closeEvent", "nullEvent", "return", "exit", "exited"}
  /\ nFailed \in Nat
  /\ nExit \in {0, 1, 3, Undecided}
  /\ exitCode \in {0, 1, 2, 3, Undecided}
  /\ gaveUp \subseteq Side
  /\ doneEvent \in {"none", "clear", "set", "closed"}
  /\ gDone \in BOOLEAN

\* The thread of the hub has ended, or main goes on without knowing.
Ended(s) == hub[s] = "stopped" \/ s \in gaveUp

SetupPC == {"createEvent", "startup", "spawnServer", "service", "spawnClient", "dial"}

\* Before main destroys something it has waited for the thread that uses it; a
\* setup that failed has not let the two hubs meet.
MainTeardownInv ==
  /\ pc \in SetupPC => ~con["client"] /\ doneEvent # "closed"
  /\ doneEvent = "closed" \/ pc \in {"joinServer", "closeEvent"} => Ended("client")
  /\ pc \in {"closeEvent", "nullEvent", "return", "exit"} => Ended("server") \/ ~con["client"]
===============================================================================
