---------------------------- MODULE WsaQueryDirect ----------------------------
(***************************************************************************)
(* DirectExamples/WsaQueryTest: a store used as a service.  Three threads: *)
(* main (TwoHubMain); the server's pump, which answers StoreQuery messages *)
(* out of the catalogue; and the client's pump, which posts the queries    *)
(* once the login is acknowledged and checks each reply.                   *)
(*                                                                         *)
(* A handler is split where another thread can come between its steps: the *)
(* server reads the store and then posts, the client checks, counts, and   *)
(* signals.                                                                *)
(***************************************************************************)
EXTENDS TwoHubMain, FiniteSets

CONSTANTS
  Text,        \* the paths, type tags and values there are
  kQueries,    \* the queries in the order issued: [path, type, value]
  Catalogue,   \* what BuildCatalogue declares: path -> [type, value]
  Idle         \* a pump between two handlers

kQueryCount == Len(kQueries)
QueryPath == {kQueries[i].path : i \in 1..kQueryCount}
MISS == [type |-> "MISS", value |-> "", pos |-> 0]

ASSUME TextAssumption == {"", "MISS"} \subseteq Text
ASSUME QueriesAssumption ==
  /\ kQueries \in Seq([path : Text, type : Text, value : Text])
  /\ kQueryCount > 0
  /\ \A i, j \in 1..kQueryCount : i # j => kQueries[i].path # kQueries[j].path
ASSUME CatalogueAssumption ==
  \A p \in DOMAIN Catalogue : Catalogue[p] \in [type : Text, value : Text]
ASSUME IdleAssumption == Idle \notin [path : Text]

VARIABLES
  store,      \* m_pStore of the server: "none", "live" or "deleted"
  serving,    \* the query the server's pump is answering, or Idle
  checking,   \* the client's handler: "idle", "count" or "signal"
  bSent,      \* m_bSent of the client
  nAnswered,  \* g_nAnswered
  seen        \* the replies g_nAnswered counts (history)

clientVars == <<checking, bSent, nAnswered, seen>>
vars == <<meshVars, harnessVars, store, serving, clientVars>>

Init ==
  /\ MainInit
  /\ store = "none" /\ serving = Idle /\ checking = "idle" /\ bSent = FALSE
  /\ nAnswered = 0 /\ seen = {}
-------------------------------------------------------------------------------
(* The server's pump. *)

\* What the catalogue says of a path; a path it does not hold is a thrown
\* P2Pevent, which the handler turns into a MISS.
ReplyTo(p) ==
  [path |-> p,
   answer |-> IF p \in DOMAIN Catalogue
              THEN [type |-> Catalogue[p].type, value |-> Catalogue[p].value, pos |-> 1]
              ELSE MISS]

ServerTakesQuery ==
  /\ Pumping("server") /\ serving = Idle /\ inbox["server"] # <<>>
  /\ serving' = Head(inbox["server"])
  /\ inbox' = Taken("server")
  /\ UNCHANGED <<hub, con, link, ack, logins, harnessVars, store, clientVars>>

\* Mutant: the miss is caught and nothing is replied.
SilentMiss ==
  /\ serving # Idle /\ serving' = Idle
  /\ inbox' = IF ReplyTo(serving.path).answer = MISS THEN inbox
              ELSE Posted("client", <<ReplyTo(serving.path)>>)
  /\ UNCHANGED <<hub, con, link, ack, logins, harnessVars, store, clientVars>>

On_StoreQuery ==
  /\ serving # Idle
  /\ inbox' = Posted("client", <<ReplyTo(serving.path)>>)
  /\ serving' = Idle
  /\ UNCHANGED <<hub, con, link, ack, logins, harnessVars, store, clientVars>>
-------------------------------------------------------------------------------
(* The client's pump. *)

\* The first query with the reply's path, as the handler's search finds it.
SpecOf(p) == kQueries[CHOOSE i \in 1..kQueryCount :
                        /\ kQueries[i].path = p
                        /\ \A j \in 1..(i - 1) : kQueries[j].path # p]

\* The CHECKs of a reply that fail: a miss is only checked to be a MISS, a hit
\* for its type, its value and a position that is not zero.
FailedChecks(r) ==
  IF r.path \notin QueryPath THEN {"spec"}
  ELSE LET s == SpecOf(r.path) IN
       IF s.type = "" THEN {"MISS"} \ {r.answer.type}
       ELSE {c \in {"type", "value"} : r.answer[c] # s[c]}
              \cup {c \in {"pos"} : r.answer.pos = 0}

\* Mutant: the queries are posted on every acknowledgement.
SendsOnEveryLogin ==
  /\ Pumping("client") /\ checking = "idle" /\ ack
  /\ ack' = FALSE
  /\ inbox' = Posted("server", [i \in 1..kQueryCount |-> [path |-> kQueries[i].path]])
  /\ bSent' = TRUE
  /\ UNCHANGED <<hub, con, link, logins, harnessVars, store, serving, checking, nAnswered, seen>>

On_ConLoginAck ==
  /\ Pumping("client") /\ checking = "idle" /\ ack
  /\ ack' = FALSE
  /\ inbox' = IF bSent THEN inbox
              ELSE Posted("server", [i \in 1..kQueryCount |-> [path |-> kQueries[i].path]])
  /\ bSent' = TRUE
  /\ UNCHANGED <<hub, con, link, logins, harnessVars, store, serving, checking, nAnswered, seen>>

\* On_StoreReply up to its last CHECK.
ClientChecksReply ==
  /\ Pumping("client") /\ checking = "idle" /\ inbox["client"] # <<>>
  /\ LET r == Head(inbox["client"]) IN
       /\ nFailed' = nFailed + Cardinality(FailedChecks(r))
       /\ seen' = seen \cup {r}
  /\ inbox' = Taken("client")
  /\ checking' = "count"
  /\ UNCHANGED <<hub, con, link, ack, logins, mainVars, doneEvent, gDone, store, serving,
                 bSent, nAnswered>>

\* Mutant: the last reply is not waited for.
CountsTooLow ==
  /\ checking = "count"
  /\ nAnswered' = nAnswered + 1
  /\ checking' = IF nAnswered + 2 >= kQueryCount /\ gDone THEN "signal" ELSE "idle"
  /\ UNCHANGED <<meshVars, harnessVars, store, serving, bSent, seen>>

\* InterlockedIncrement(&g_nAnswered) >= kQueryCount && g_hDoneEvent
ClientCountsReply ==
  /\ checking = "count"
  /\ nAnswered' = nAnswered + 1
  /\ checking' = IF nAnswered + 1 >= kQueryCount /\ gDone THEN "signal" ELSE "idle"
  /\ UNCHANGED <<meshVars, harnessVars, store, serving, bSent, seen>>

ClientSignals ==
  /\ checking = "signal"
  /\ SetDone
  /\ checking' = "idle"
  /\ UNCHANGED <<meshVars, mainVars, gDone, nFailed, store, serving, bSent, nAnswered, seen>>
-------------------------------------------------------------------------------
Unmeshed == UNCHANGED <<harnessVars, store, serving, clientVars>>
Unpumped == UNCHANGED <<serving, clientVars>>

ServerPump ==
  \/ ServerTakesQuery
  \/ On_StoreQuery
  \/ serving = Idle /\ PumpEnds("server") /\ Unmeshed

ClientPump ==
  \/ On_ConLoginAck
  \/ ClientChecksReply
  \/ ClientCountsReply
  \/ ClientSignals
  \/ checking = "idle" /\ PumpEnds("client") /\ Unmeshed

\* The server's constructor builds the catalogue, its destructor deletes it.
BuildCatalogue == Startup /\ store' = "live" /\ Unpumped
DeleteStore ==
  DestroyHubs /\ store' = (IF store = "live" THEN "deleted" ELSE store) /\ Unpumped

QueryMainOn == BuildCatalogue \/ DeleteStore \/ (MainOn /\ UNCHANGED store /\ Unpumped)
QueryMain == QueryMainOn \/ (WaitFails /\ UNCHANGED store /\ Unpumped)

LinkUp == Login /\ Unmeshed
LinkDown == LinkLost /\ Unmeshed
Asserts == AssertReportHook /\ UNCHANGED store /\ Unpumped

Next ==
  Running /\ (ServerPump \/ ClientPump \/ QueryMain \/ LinkUp \/ LinkDown \/ Asserts)

\* Three threads that run on.  That the 15 s elapse, or that a dial is answered,
\* is for a property to assume.
Spec ==
  /\ Init /\ [][Next]_vars
  /\ WF_vars(Running /\ ServerPump) /\ WF_vars(Running /\ ClientPump)
  /\ WF_vars(Running /\ QueryMainOn)

TimeoutElapses == WF_vars(Running /\ QueryMain)
DialIsAnswered == WF_vars(Running /\ LinkUp)
LinkStaysUp == [](pc = "wait" /\ logins > 0 => link)
-------------------------------------------------------------------------------
(* Properties. *)

Query == [path : QueryPath]
Reply == [path : QueryPath,
          answer : [type : Text, value : Text, pos : {0, 1}]]

QueueTypeOK ==
  /\ inbox \in [Side -> Seq(Query) \cup Seq(Reply)]
  /\ inbox["server"] \in Seq(Query)
  /\ inbox["client"] \in Seq(Reply)

PumpTypeOK ==
  /\ store \in {"none", "live", "deleted"}
  /\ serving \in Query \cup {Idle}
  /\ checking \in {"idle", "count", "signal"}
  /\ bSent \in BOOLEAN
  /\ nAnswered \in Nat
  /\ seen \subseteq Reply

\* Every variable keeps to its values; in particular the process only ever ends
\* with a code of the exit-code contract.
TypeOK == MeshTypeOK /\ QueueTypeOK /\ PumpTypeOK /\ MainTypeOK

\* A reply that is what its query expects, stated on its own.
Expected(r) ==
  \E i \in 1..kQueryCount :
    /\ r.path = kQueries[i].path
    /\ IF kQueries[i].type = "" THEN r.answer.type = "MISS"
       ELSE /\ r.answer.type = kQueries[i].type
            /\ r.answer.value = kQueries[i].value
            /\ r.answer.pos # 0

Confirmed == {r.path : r \in {x \in seen : Expected(x)}}

\* Exit code 0 says "every query answered, and every answer matched": whatever
\* is lost on the way, however often the login is acknowledged and whichever
\* wait gives up, main decides for 0 only when each query has had the reply it
\* expects (the count, the guard on sending twice and the failure counter
\* together).
SuccessIsComplete == nExit = 0 => Confirmed = QueryPath

\* g_nAnswered counts queries, not messages: no reply is counted for a query
\* that had been answered before, also when the login is acknowledged again.
CountsQueries == nAnswered <= Cardinality({r.path : r \in seen})

\* The done event is the barrier between the client's pump, which writes the
\* counters, and main, which reads them: once it is set no CHECK runs any more.
DoneIsBarrier ==
  [][doneEvent = "set" \/ pc = "verdict" => UNCHANGED <<nFailed, nAnswered>>]_vars

\* The client's pump signals a closed event, or the server's pump reads a deleted
\* store, only when main stopped waiting for that very thread.
NoUseAfterTeardown ==
  /\ checking = "signal" /\ doneEvent = "closed" => "client" \in gaveUp
  /\ serving # Idle /\ store = "deleted" => "server" \in gaveUp

\* On a link that stays up the five replies, the miss among them, end main's wait
\* unless main has given it up.
EveryQueryAnswered ==
  DialIsAnswered /\ LinkStaysUp =>
    (pc = "wait" /\ gDone ~> doneEvent = "set" \/ pc # "wait")

\* The example is a query service: it reports at most once, and success only when
\* all the queries have been answered as expected.
QS == INSTANCE QueryService WITH
  Query <- QueryPath,
  answered <- Confirmed,
  verdict <- CASE exitCode = Undecided -> "none"
               [] exitCode = 0 -> "success"
               [] OTHER -> "failure"
ImplementsService == QS!Spec

\* The replies end the wait, and whatever becomes of the link and of the pumps the
\* process ends with a code.
AlwaysReports == TimeoutElapses => QS!Reports
Progress == EveryQueryAnswered /\ AlwaysReports
-------------------------------------------------------------------------------
(* What makes the safety properties inductive. *)

OnWay == PathsIn(inbox["server"])
Served == {q.path : q \in {serving} \ {Idle}}
OnWayBack == PathsIn(inbox["client"])
Counted == {r.path : r \in seen}

\* A query is in one place at a time: on its way, being served, on its way back
\* or counted.  It is posted once, whatever happens to the link.
EachQueryInOnePlace ==
  /\ NoRepeat(inbox["server"]) /\ NoRepeat(inbox["client"])
  /\ OnWay \cap Served = {} /\ OnWay \cap OnWayBack = {} /\ OnWay \cap Counted = {}
  /\ Served \cap OnWayBack = {} /\ Served \cap Counted = {} /\ OnWayBack \cap Counted = {}
  /\ ~bSent => OnWay = {} /\ Served = {} /\ OnWayBack = {} /\ Counted = {}

\* The counters are what the history says they are.
CountersInv ==
  /\ IsFiniteSet(Counted)
  /\ Cardinality(Counted) = nAnswered + (IF checking = "count" THEN 1 ELSE 0)
  /\ nFailed = 0 => \A r \in seen : Expected(r)

\* The event speaks for the whole table.
DoneInv ==
  doneEvent = "set" \/ pc = "verdict" \/ checking = "signal" => nAnswered >= kQueryCount

\* What main tears down has been let go of by the thread that uses it.
TeardownInv ==
  /\ MainTeardownInv
  /\ hub["client"] = "stopped" => checking = "idle"
  /\ hub["server"] = "stopped" => serving = Idle
  /\ ~con["client"] => ~link /\ ~ack /\ ~bSent
  /\ pc \in SetupPC => store # "deleted"
  /\ store = "deleted" => Ended("server") \/ ~con["client"]

IInv ==
  /\ TypeOK
  /\ EachQueryInOnePlace
  /\ CountersInv
  /\ DoneInv
  /\ TeardownInv
  /\ SuccessIsComplete
===============================================================================
