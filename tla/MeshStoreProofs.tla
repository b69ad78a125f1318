---------------------------- MODULE MeshStoreProofs ----------------------------
(***************************************************************************)
(* What holds of the four mesh harnesses of MeshStore for every table of   *)
(* queries, every store, every size of an image and every number of        *)
(* logins.  What is proved of the two Direct examples is carried over to   *)
(* their FieldAccess ports; the two stores over the facades have           *)
(* invariants of their own.                                                *)
(***************************************************************************)
EXTENDS MeshStore, SequenceTheorems, FiniteSetTheorems, FunctionTheorems, TLAPS

-------------------------------------------------------------------------------
(* The FieldAccess query.  It is the original with the catalogue its views write, *)
(* but for the step that checks that catalogue and for a read that throws.        *)

QP == INSTANCE WsaQueryDirectProofs WITH Catalogue <- FQ!V!Built

LEMMA QueryMainIsDirect ==
  (FQ!MainOn <=> QP!MainOn) /\ (FQ!WaitFails <=> QP!WaitFails)
<1>1. /\ FQ!meshVars = QP!meshVars /\ FQ!meshVars' = QP!meshVars'
      /\ FQ!Undecidedly <=> QP!Undecidedly
      /\ \A p : FQ!Goto(p) <=> QP!Goto(p)
      /\ \A s : FQ!SpawnHub(s) <=> QP!SpawnHub(s)
      /\ \A s : FQ!PostP2PeerCon(s) <=> QP!PostP2PeerCon(s)
      /\ \A s : FQ!CloseHub(s) <=> QP!CloseHub(s)
      /\ \A s, at, next : FQ!Join(s, at, next) <=> QP!Join(s, at, next)
  BY DEF FQ!meshVars, QP!meshVars, FQ!Undecidedly, QP!Undecidedly, FQ!Goto, QP!Goto, FQ!SpawnHub,
     QP!SpawnHub, FQ!PostP2PeerCon, QP!PostP2PeerCon, FQ!CloseHub, QP!CloseHub, FQ!Join, QP!Join
<1>2. FQ!Setup <=> QP!Setup
  BY <1>1 DEF FQ!Setup, QP!Setup, FQ!CreateEvent, QP!CreateEvent, FQ!SpawnServer, QP!SpawnServer,
     FQ!PostService, QP!PostService, FQ!SpawnClient, QP!SpawnClient, FQ!Dial, QP!Dial, FQ!SetupFails,
     QP!SetupFails
<1>3. FQ!Teardown <=> QP!Teardown
  BY <1>1 DEF FQ!Teardown, QP!Teardown, FQ!CloseClient, QP!CloseClient, FQ!CloseServer, QP!CloseServer,
     FQ!JoinClient, QP!JoinClient, FQ!JoinServer, QP!JoinServer, FQ!CloseEvent, QP!CloseEvent,
     FQ!NullEvent, QP!NullEvent, FQ!Exit, QP!Exit
<1>4. (FQ!WaitSignalled <=> QP!WaitSignalled) /\ (FQ!Verdict <=> QP!Verdict)
      /\ (FQ!WaitFails <=> QP!WaitFails)
  BY <1>1 DEF FQ!WaitSignalled, QP!WaitSignalled, FQ!Verdict, QP!Verdict, FQ!WaitFails, QP!WaitFails
<1>5. QED BY <1>2, <1>3, <1>4 DEF FQ!MainOn, QP!MainOn

LEMMA QueryPumpsAreDirect ==
  /\ FQ!D!ServerTakesQuery <=> QP!ServerTakesQuery
  /\ FQ!D!On_StoreQuery <=> QP!On_StoreQuery
  /\ FQ!D!On_ConLoginAck <=> QP!On_ConLoginAck
  /\ FQ!D!ClientChecksReply <=> QP!ClientChecksReply
  /\ FQ!D!ClientCountsReply <=> QP!ClientCountsReply
  /\ FQ!D!ClientSignals <=> QP!ClientSignals
  /\ FQ!D!DeleteStore <=> QP!DeleteStore
<1>1. \A p : FQ!D!ReplyTo(p) = QP!ReplyTo(p)
  BY DEF FQ!D!ReplyTo, QP!ReplyTo, FQ!D!MISS, QP!MISS
<1>2. \A r : FQ!D!FailedChecks(r) = QP!FailedChecks(r)
  BY DEF FQ!D!FailedChecks, QP!FailedChecks, FQ!D!SpecOf, QP!SpecOf, FQ!D!QueryPath, QP!QueryPath,
     FQ!D!kQueryCount, QP!kQueryCount
<1>3. /\ FQ!D!meshVars = QP!meshVars /\ FQ!D!meshVars' = QP!meshVars'
      /\ FQ!D!mainVars = QP!mainVars /\ FQ!D!mainVars' = QP!mainVars'
      /\ FQ!D!harnessVars = QP!harnessVars /\ FQ!D!harnessVars' = QP!harnessVars'
      /\ FQ!D!clientVars = QP!clientVars /\ FQ!D!clientVars' = QP!clientVars'
      /\ FQ!D!kQueryCount = QP!kQueryCount
      /\ FQ!D!SetDone <=> QP!SetDone
      /\ FQ!D!Unpumped <=> QP!Unpumped
      /\ FQ!D!DestroyHubs <=> QP!DestroyHubs
      /\ \A s : FQ!D!Pumping(s) <=> QP!Pumping(s)
      /\ \A s : FQ!D!Taken(s) = QP!Taken(s)
      /\ \A s, msgs : FQ!D!Posted(s, msgs) = QP!Posted(s, msgs)
  BY DEF FQ!D!meshVars, QP!meshVars, FQ!D!mainVars, QP!mainVars, FQ!D!harnessVars, QP!harnessVars,
     FQ!D!clientVars, QP!clientVars, FQ!D!kQueryCount, QP!kQueryCount, FQ!D!SetDone, QP!SetDone,
     FQ!D!Unpumped, QP!Unpumped, FQ!D!DestroyHubs, QP!DestroyHubs, FQ!D!Goto, QP!Goto,
     FQ!D!Undecidedly, QP!Undecidedly, FQ!D!Pumping, QP!Pumping, FQ!D!Taken, QP!Taken, FQ!D!Posted,
     QP!Posted
<1>4. \A S : FQ!D!Cardinality(S) = QP!Cardinality(S)
  BY DEF FQ!D!Cardinality, QP!Cardinality
<1>5. QED
  BY <1>1, <1>2, <1>3, <1>4
     DEF FQ!D!ServerTakesQuery, QP!ServerTakesQuery, FQ!D!On_StoreQuery, QP!On_StoreQuery,
         FQ!D!On_ConLoginAck, QP!On_ConLoginAck, FQ!D!ClientChecksReply, QP!ClientChecksReply,
         FQ!D!ClientCountsReply, QP!ClientCountsReply, FQ!D!ClientSignals, QP!ClientSignals,
         FQ!D!DeleteStore, QP!DeleteStore

\* What the original says of a state.
LEMMA QueryInvIsDirect ==
  /\ FQ!D!TypeOK <=> QP!TypeOK
  /\ FQ!D!IInv <=> QP!IInv
  /\ FQ!D!TypeOK' <=> QP!TypeOK'
  /\ FQ!D!IInv' <=> QP!IInv'
<1>1. FQ!D!QueryPath = QP!QueryPath /\ FQ!D!kQueryCount = QP!kQueryCount
  BY DEF FQ!D!QueryPath, QP!QueryPath, FQ!D!kQueryCount, QP!kQueryCount
<1>2. (FQ!D!TypeOK <=> QP!TypeOK) /\ (FQ!D!TypeOK' <=> QP!TypeOK')
  BY <1>1
     DEF FQ!D!TypeOK, QP!TypeOK, FQ!D!MeshTypeOK, QP!MeshTypeOK, FQ!D!QueueTypeOK, QP!QueueTypeOK,
         FQ!D!PumpTypeOK, QP!PumpTypeOK, FQ!D!MainTypeOK, QP!MainTypeOK, FQ!D!Query, QP!Query,
         FQ!D!Reply, QP!Reply, FQ!D!Side, QP!Side, FQ!D!HubState, QP!HubState, FQ!D!Undecided,
         QP!Undecided
<1>3. \A q : FQ!D!PathsIn(q) = QP!PathsIn(q) /\ (FQ!D!NoRepeat(q) <=> QP!NoRepeat(q))
  BY DEF FQ!D!PathsIn, QP!PathsIn, FQ!D!NoRepeat, QP!NoRepeat
<1>4. (FQ!D!EachQueryInOnePlace <=> QP!EachQueryInOnePlace)
      /\ (FQ!D!EachQueryInOnePlace' <=> QP!EachQueryInOnePlace')
  BY <1>3 DEF FQ!D!EachQueryInOnePlace, QP!EachQueryInOnePlace, FQ!D!OnWay, QP!OnWay, FQ!D!Served,
     QP!Served, FQ!D!OnWayBack, QP!OnWayBack, FQ!D!Counted, QP!Counted
<1>5. \A r : FQ!D!Expected(r) <=> QP!Expected(r)
  BY <1>1 DEF FQ!D!Expected, QP!Expected
<1>6. \A S : FQ!D!Cardinality(S) = QP!Cardinality(S) /\ (FQ!D!IsFiniteSet(S) <=> QP!IsFiniteSet(S))
  BY DEF FQ!D!Cardinality, QP!Cardinality, FQ!D!IsFiniteSet, QP!IsFiniteSet
<1>7. (FQ!D!CountersInv <=> QP!CountersInv) /\ (FQ!D!CountersInv' <=> QP!CountersInv')
  BY <1>5, <1>6 DEF FQ!D!CountersInv, QP!CountersInv, FQ!D!Counted, QP!Counted
<1>8. (FQ!D!DoneInv <=> QP!DoneInv) /\ (FQ!D!DoneInv' <=> QP!DoneInv')
  BY <1>1 DEF FQ!D!DoneInv, QP!DoneInv
<1>9. (FQ!D!TeardownInv <=> QP!TeardownInv) /\ (FQ!D!TeardownInv' <=> QP!TeardownInv')
  BY DEF FQ!D!TeardownInv, QP!TeardownInv, FQ!D!MainTeardownInv, QP!MainTeardownInv, FQ!D!Ended,
     QP!Ended, FQ!D!SetupPC, QP!SetupPC
<1>10. (FQ!D!SuccessIsComplete <=> QP!SuccessIsComplete)
       /\ (FQ!D!SuccessIsComplete' <=> QP!SuccessIsComplete')
  BY <1>1, <1>5 DEF FQ!D!SuccessIsComplete, QP!SuccessIsComplete, FQ!D!Confirmed, QP!Confirmed
<1>11. QED
  BY <1>2, <1>4, <1>7, <1>8, <1>9, <1>10 DEF FQ!D!IInv, QP!IInv

LEMMA QuerySteps ==
  ASSUME Running, FQ!Next, ~FQ!ReplyThrows, ~FQ!BuildCatalogue
  PROVE  QP!Next /\ nThrown' = nThrown
<1>1. QP!Running
  BY DEF Running, QP!Running, QP!Undecided
<1>2. \A s : (FQ!PumpEnds(s) <=> QP!PumpEnds(s))
  BY DEF FQ!PumpEnds, QP!PumpEnds
<1>3. (FQ!Login <=> QP!Login) /\ (FQ!LinkLost <=> QP!LinkLost)
  BY DEF FQ!Login, QP!Login, FQ!LinkLost, QP!LinkLost, FQ!CutTo, QP!CutTo, FQ!Side, QP!Side
<1>4. UNCHANGED <<FQ!harnessVars, FQ!fieldVars>> => QP!Unmeshed /\ nThrown' = nThrown
  BY DEF FQ!harnessVars, FQ!mainVars, FQ!fieldVars, QP!Unmeshed, QP!harnessVars, QP!mainVars, QP!clientVars
<1>5. UNCHANGED FQ!fieldVars => UNCHANGED store /\ QP!Unpumped /\ nThrown' = nThrown
  BY DEF FQ!fieldVars, QP!Unpumped, QP!clientVars
<1>6. CASE FQ!ServerPump
  BY <1>1, <1>2, <1>4, <1>6, QueryPumpsAreDirect
     DEF FQ!ServerPump, FQ!On_StoreQuery, FQ!ServerEnds, QP!Next, QP!ServerPump
<1>7. CASE FQ!ClientPump
  BY <1>1, <1>2, <1>4, <1>7, QueryPumpsAreDirect
     DEF FQ!ClientPump, FQ!On_ConLoginAck, FQ!On_StoreReply, FQ!CountReply, FQ!ClientEnds, QP!Next,
         QP!ClientPump
<1>8. CASE FQ!FieldMain
  BY <1>1, <1>5, <1>8, QueryPumpsAreDirect, QueryMainIsDirect
     DEF FQ!FieldMain, QP!Next, QP!QueryMain, QP!QueryMainOn
<1>9. CASE FQ!Mesh
  BY <1>1, <1>3, <1>4, <1>9 DEF FQ!Mesh, QP!Next, QP!LinkUp, QP!LinkDown
<1>10. QED BY <1>6, <1>7, <1>8, <1>9 DEF FQ!Next

\* What the original assumes of its constants.
LEMMA QueryFacts ==
  /\ MaxLogins \in Nat \ {0} /\ {"", "MISS"} \subseteq Text
  /\ kQueries \in Seq([path : Text, type : Text, value : Text])
  /\ QP!kQueryCount > 0
  /\ \A i, j \in 1..QP!kQueryCount : i # j => kQueries[i].path # kQueries[j].path
  /\ \A p \in DOMAIN FQ!V!Built : FQ!V!Built[p] \in [type : Text, value : Text]
  /\ Idle \notin [path : Text]
BY MeshAssumption, QueryAssumption, NothingAssumption DEF QP!kQueryCount

LEMMA QueryInvInductive ==
  /\ QP!Init => QP!IInv
  /\ QP!TypeOK /\ [QP!Next]_QP!vars => QP!TypeOK'
  /\ QP!IInv /\ [QP!Next]_QP!vars => QP!IInv'
BY QueryFacts, QP!IInvInit, QP!TypeInductive, QP!IInvInductive

\* Nothing takes a failure back, and main decides for 0 only when there is none.
LEMMA QueryFailures ==
  ASSUME QP!TypeOK, QP!Next
  PROVE  nFailed' \in Nat /\ nFailed' >= nFailed /\ (nExit' = 0 => nExit = 0 \/ nFailed = 0)
<1>1. nFailed \in Nat
  BY DEF QP!TypeOK, QP!MainTypeOK
<1>2. CASE QP!ClientChecksReply
  <2>1. \A r : QP!Cardinality(QP!FailedChecks(r)) \in Nat
    BY QueryFacts, QP!FailedChecksFinite
  <2>2. nFailed' = nFailed + QP!Cardinality(QP!FailedChecks(Head(inbox["client"]))) /\ nExit' = nExit
    BY <1>2 DEF QP!ClientChecksReply, QP!mainVars
  <2>3. QP!Cardinality(QP!FailedChecks(Head(inbox["client"]))) \in Nat
    BY <2>1
  <2>4. QED BY <1>1, <2>2, <2>3
<1>3. CASE QP!QueryMain
  <2>1. nFailed' = nFailed /\ QP!Main
    BY <1>3, QueryFacts, QP!QueryMainIsMain
  <2>2. nExit' = 0 => nExit = 0 \/ nFailed = 0
    BY <2>1 DEF QP!Main, QP!MainOn, QP!Setup, QP!Teardown, QP!Startup, QP!WaitFails, QP!DestroyHubs,
       QP!WaitSignalled, QP!Verdict, QP!CreateEvent, QP!SpawnServer, QP!PostService, QP!SpawnClient,
       QP!Dial, QP!SetupFails, QP!CloseClient, QP!CloseServer, QP!JoinClient, QP!JoinServer, QP!Join,
       QP!CloseEvent, QP!NullEvent, QP!Exit
  <2>3. QED BY <1>1, <2>1, <2>2
<1>4. ASSUME ~QP!ClientChecksReply, ~QP!QueryMain PROVE nFailed' = nFailed /\ nExit' = nExit
  BY <1>4 DEF QP!Next, QP!ServerPump, QP!ClientPump, QP!ServerTakesQuery, QP!On_StoreQuery,
     QP!On_ConLoginAck, QP!ClientCountsReply, QP!ClientSignals, QP!LinkUp, QP!LinkDown, QP!Asserts,
     QP!AssertReportHook, QP!Unmeshed, QP!harnessVars, QP!mainVars
<1>5. QED BY <1>1, <1>2, <1>3, <1>4

\* The catalogue is checked before there is a hub.
LEMMA BuildInductive ==
  ASSUME FQ!IInv, FQ!BuildCatalogue PROVE FQ!IInv'
<1> DEFINE n == FQ!Cardinality(FQ!V!Disagreeing)
<1>1. n \in Nat
  <2>1. FQ!V!Disagreeing \in SUBSET (1..Len(QueryWrites)) /\ IsFiniteSet(1..Len(QueryWrites))
    <3>1. FQ!V!Disagreeing \subseteq 1..Len(QueryWrites)
      BY Zenon DEF FQ!V!Disagreeing
    <3>2. Len(QueryWrites) \in Nat
      BY QueryAssumption, Zenon
    <3>3. ASSUME NEW k \in Nat PROVE IsFiniteSet(1..k)
      BY FS_Interval
    <3>4. QED BY <3>1, <3>2, <3>3, Zenon
  <2>2. Cardinality(FQ!V!Disagreeing) \in Nat
    BY <2>1, FS_Subset, FS_CardinalityType
  <2>3. \A S : FQ!Cardinality(S) = Cardinality(S)
    BY DEF FQ!Cardinality, Cardinality
  <2>4. QED BY <2>2, <2>3
<1>2. /\ pc = "startup" /\ pc' = "spawnServer" /\ store' = "live" /\ nFailed' = nFailed + n
      /\ UNCHANGED <<hub, con, link, ack, logins, inbox, doneEvent, gDone, nExit, exitCode, gaveUp,
                     serving, checking, bSent, nAnswered, seen, nThrown>>
  BY DEF FQ!BuildCatalogue, FQ!Goto, FQ!meshVars
<1> HIDE DEF n
<1>3. QP!TypeOK /\ nFailed \in Nat
  BY QueryInvIsDirect DEF FQ!IInv, QP!TypeOK, QP!MainTypeOK
<1>4. nFailed' \in Nat /\ (nFailed' = 0 => nFailed = 0)
  BY <1>1, <1>2, <1>3
<1>5. QP!TypeOK'
  BY <1>2, <1>3, <1>4 DEF QP!TypeOK, QP!MeshTypeOK, QP!QueueTypeOK, QP!PumpTypeOK, QP!MainTypeOK
<1>6. ASSUME QP!IInv PROVE QP!IInv'
  <2>1. QP!EachQueryInOnePlace'
    BY <1>2, <1>6 DEF QP!IInv, QP!EachQueryInOnePlace, QP!OnWay, QP!Served, QP!OnWayBack, QP!Counted
  <2>2. QP!CountersInv'
    BY <1>2, <1>4, <1>6 DEF QP!IInv, QP!CountersInv, QP!Counted, QP!Expected
  <2>3. QP!DoneInv'
    BY <1>2, <1>6 DEF QP!IInv, QP!DoneInv
  <2>4. QP!TeardownInv'
    BY <1>2, <1>6 DEF QP!IInv, QP!TeardownInv, QP!MainTeardownInv, QP!Ended, QP!SetupPC
  <2>5. QP!SuccessIsComplete'
    BY <1>2, <1>6 DEF QP!IInv, QP!SuccessIsComplete, QP!Confirmed, QP!Expected
  <2>6. QED BY <1>5, <2>1, <2>2, <2>3, <2>4, <2>5 DEF QP!IInv
<1>7. QED
  BY <1>2, <1>4, <1>5, <1>6, QueryInvIsDirect DEF FQ!IInv

\* A read throws only while there is a reply, and then not every query has been answered:
\* main has not decided for 0.
LEMMA ThrowInductive ==
  ASSUME FQ!IInv, FQ!ReplyThrows PROVE FQ!IInv'
<1>1. /\ inbox["client"] # <<>> /\ inbox' = [inbox EXCEPT !["client"] = Tail(inbox["client"])]
      /\ nFailed' = nFailed + 1 /\ nThrown' = nThrown + 1 /\ checking' = "count"
      /\ UNCHANGED <<hub, con, link, ack, logins, pc, nExit, exitCode, gaveUp, doneEvent, gDone, store,
                     serving, bSent, nAnswered, seen>>
  BY DEF FQ!ReplyThrows, FQ!Taken, FQ!mainVars
<1>2. QP!TypeOK /\ nFailed \in Nat /\ nThrown \in Nat
  BY QueryInvIsDirect DEF FQ!IInv, QP!TypeOK, QP!MainTypeOK
<1>3. Head(inbox["client"]) \in QP!Reply /\ Tail(inbox["client"]) \in Seq(QP!Reply)
  BY <1>1, <1>2, HeadTailProperties DEF QP!TypeOK, QP!QueueTypeOK
<1>4. QP!TypeOK'
  <2>1. QP!QueueTypeOK'
    BY <1>1, <1>2, <1>3 DEF QP!TypeOK, QP!QueueTypeOK, QP!Side
  <2>2. nFailed' \in Nat
    BY <1>1, <1>2
  <2>3. QED
    BY <1>1, <1>2, <2>1, <2>2 DEF QP!TypeOK, QP!MeshTypeOK, QP!PumpTypeOK, QP!MainTypeOK
<1>5. nExit # 0
  <2>1. SUFFICES ASSUME nExit = 0 PROVE FALSE
    OBVIOUS
  <2>2. QP!IInv
    BY <2>1, QueryInvIsDirect DEF FQ!IInv
  <2>3. Head(inbox["client"]).path \in QP!OnWayBack
    <3>1. Len(inbox["client"]) \in Nat /\ Len(inbox["client"]) # 0
      BY <1>1, <1>2, EmptySeq, LenProperties DEF QP!TypeOK, QP!QueueTypeOK
    <3>2. 1 \in 1..Len(inbox["client"]) /\ Head(inbox["client"]) = inbox["client"][1]
      BY <3>1, HeadTailProperties, <1>1, <1>2 DEF QP!TypeOK, QP!QueueTypeOK
    <3>3. QED BY <3>2 DEF QP!OnWayBack, QP!PathsIn
  <2>4. Head(inbox["client"]).path \in QP!QueryPath
    BY <1>3 DEF QP!Reply
  <2>5. QP!QueryPath \subseteq QP!Counted
    BY <2>1, <2>2 DEF QP!IInv, QP!SuccessIsComplete, QP!Confirmed, QP!Counted
  <2>6. QED BY <2>2, <2>3, <2>4, <2>5 DEF QP!IInv, QP!EachQueryInOnePlace
<1>6. nThrown' \in Nat /\ nThrown' # 0 /\ nFailed' # 0 /\ nExit' # 0
  BY <1>1, <1>2, <1>5
<1>7. QED
  BY <1>4, <1>6, QueryInvIsDirect DEF FQ!IInv

LEMMA QueryInductive ==
  ASSUME Running, FQ!IInv, FQ!Next PROVE FQ!IInv'
<1>1. CASE FQ!BuildCatalogue
  BY <1>1, BuildInductive
<1>2. CASE FQ!ReplyThrows
  BY <1>2, ThrowInductive
<1>3. CASE ~FQ!BuildCatalogue /\ ~FQ!ReplyThrows
  <2>1. QP!Next /\ nThrown' = nThrown
    BY <1>3, QuerySteps
  <2>2. QP!TypeOK /\ QP!TypeOK'
    BY <2>1, QueryInvIsDirect, QueryInvInductive DEF FQ!IInv
  <2>3. nThrown = 0 => QP!IInv'
    BY <2>1, QueryInvIsDirect, QueryInvInductive DEF FQ!IInv
  <2>4. nFailed' \in Nat /\ nFailed' >= nFailed /\ (nExit' = 0 => nExit = 0 \/ nFailed = 0)
    BY <2>1, <2>2, QueryFailures
  <2>5. nFailed' = 0 => nFailed = 0
    BY <2>2, <2>4 DEF QP!TypeOK, QP!MainTypeOK
  <2>6. QED BY <2>1, <2>2, <2>3, <2>4, <2>5, QueryInvIsDirect DEF FQ!IInv
<1>4. QED BY <1>1, <1>2, <1>3

LEMMA QueueOperations ==
  ASSUME NEW S, NEW q \in Seq(S)
  PROVE  /\ q # <<>> => Head(q) \in S /\ Tail(q) \in Seq(S)
         /\ \A msgs \in Seq(S) : q \o msgs \in Seq(S)
         /\ \A e \in S : <<e>> \in Seq(S) /\ Append(q, e) \in Seq(S)
         /\ \A n \in 0..Len(q) : SubSeq(q, 1, n) \in Seq(S)
BY QueryFacts, QP!QueueOperations

\* What is on its way back stays a right answer, and no CHECK of a right answer fails.
LEMMA RightInductive ==
  ASSUME ViewsAgree, TableIsRight, Running, FQ!IInv, FQ!RightInv, FQ!Next PROVE FQ!RightInv'
<1> DEFINE R == {QP!ReplyTo(p) : p \in QP!QueryPath}
           Right == inbox["client"] \in Seq(R)
<1>1. QP!TypeOK /\ nFailed \in Nat /\ nThrown \in Nat
  BY QueryInvIsDirect DEF FQ!IInv, QP!TypeOK, QP!MainTypeOK
<1>2. /\ FQ!D!QueryPath = QP!QueryPath
      /\ \A p : FQ!D!ReplyTo(p) = QP!ReplyTo(p)
      /\ \A r : FQ!D!FailedChecks(r) = QP!FailedChecks(r)
  BY DEF FQ!D!ReplyTo, QP!ReplyTo, FQ!D!MISS, QP!MISS, FQ!D!FailedChecks, QP!FailedChecks, FQ!D!SpecOf,
     QP!SpecOf, FQ!D!QueryPath, QP!QueryPath, FQ!D!kQueryCount, QP!kQueryCount
<1>3. {FQ!D!ReplyTo(p) : p \in FQ!D!QueryPath} = R
  BY <1>2
<1>4. Right /\ nFailed = nThrown
  BY <1>3 DEF FQ!RightInv, FQ!OnlyThrowsFail
<1>5. ASSUME Right', nFailed' = nThrown' PROVE FQ!RightInv'
  BY <1>3, <1>5 DEF FQ!RightInv, FQ!OnlyThrowsFail
<1>6. \A r \in R : QP!FailedChecks(r) = {}
  BY <1>2 DEF TableIsRight
<1>7. QP!Cardinality({}) = 0 /\ FQ!Cardinality({}) = 0
  <2>1. \A S : QP!Cardinality(S) = Cardinality(S) /\ FQ!Cardinality(S) = Cardinality(S)
    BY DEF QP!Cardinality, FQ!Cardinality, Cardinality
  <2>2. QED BY <2>1, FS_EmptySet
<1>8. \A p \in QP!QueryPath : QP!ReplyTo(p) \in R
  OBVIOUS
<1> HIDE DEF R
<1>9. inbox["client"] # <<>> =>
        Head(inbox["client"]) \in R /\ Tail(inbox["client"]) \in Seq(R)
  BY <1>4, QueueOperations
<1>10. "server" # "client" /\ DOMAIN inbox = {"server", "client"}
  BY <1>1 DEF QP!TypeOK, QP!QueueTypeOK, QP!Side
<1>11. CASE FQ!BuildCatalogue
  <2>1. nFailed' = nFailed + 0 /\ nThrown' = nThrown /\ inbox' = inbox
    BY <1>7, <1>11 DEF FQ!BuildCatalogue, ViewsAgree, FQ!meshVars
  <2>2. QED BY <1>1, <1>4, <1>5, <2>1
<1>12. CASE FQ!ReplyThrows
  <2>1. /\ inbox["client"] # <<>> /\ inbox' = [inbox EXCEPT !["client"] = Tail(inbox["client"])]
        /\ nFailed' = nFailed + 1 /\ nThrown' = nThrown + 1
    BY <1>12 DEF FQ!ReplyThrows, FQ!Taken
  <2>2. QED BY <1>4, <1>5, <1>9, <1>10, <2>1
<1>13. CASE ~FQ!BuildCatalogue /\ ~FQ!ReplyThrows
  <2>1. QP!Next /\ nThrown' = nThrown
    BY <1>13, QuerySteps
  <2>2. CASE QP!ClientChecksReply
    <3>1. /\ inbox["client"] # <<>> /\ inbox' = [inbox EXCEPT !["client"] = Tail(inbox["client"])]
          /\ nFailed' = nFailed + QP!Cardinality(QP!FailedChecks(Head(inbox["client"])))
      BY <2>2 DEF QP!ClientChecksReply, QP!Taken
    <3>2. nFailed' = nFailed + 0
      BY <1>6, <1>7, <1>9, <3>1
    <3>3. QED BY <1>1, <1>4, <1>5, <1>9, <1>10, <2>1, <3>1, <3>2
  <2>3. CASE QP!On_StoreQuery
    <3>1. serving.path \in QP!QueryPath /\ nFailed' = nFailed
      BY <1>1, <2>3 DEF QP!On_StoreQuery, QP!TypeOK, QP!PumpTypeOK, QP!Query, QP!harnessVars
    <3>2. inbox["client"] \o <<QP!ReplyTo(serving.path)>> \in Seq(R)
      BY <1>4, <1>8, <3>1, QueueOperations
    <3>3. inbox' = inbox \/ inbox' = [inbox EXCEPT !["client"] =
                                        inbox["client"] \o <<QP!ReplyTo(serving.path)>>]
      BY <2>3 DEF QP!On_StoreQuery, QP!Posted
    <3>4. Right'
      BY <1>4, <1>10, <3>2, <3>3
    <3>5. QED BY <1>4, <1>5, <2>1, <3>1, <3>4
  <2>4. CASE QP!LinkDown
    <3>1. nFailed' = nFailed
      BY <2>4 DEF QP!LinkDown, QP!Unmeshed, QP!harnessVars
    <3>2. PICK n \in [QP!Side -> 0..(Len(inbox["server"]) + Len(inbox["client"]))] :
            (\A s \in QP!Side : n[s] <= Len(inbox[s])) /\ inbox' = QP!CutTo(n)
      BY <2>4 DEF QP!LinkDown, QP!LinkLost
    <3>3. n["client"] \in 0..Len(inbox["client"])
      <4>1. inbox["server"] \in Seq(QP!Query) /\ inbox["client"] \in Seq(QP!Reply)
        BY <1>1 DEF QP!TypeOK, QP!QueueTypeOK
      <4>2. Len(inbox["server"]) \in Nat /\ Len(inbox["client"]) \in Nat
        BY <4>1, LenProperties
      <4>3. "client" \in QP!Side
        BY DEF QP!Side
      <4>4. n["client"] \in 0..(Len(inbox["server"]) + Len(inbox["client"]))
            /\ n["client"] <= Len(inbox["client"])
        BY <3>2, <4>3
      <4>5. QED BY <4>2, <4>4
    <3>4. inbox'["client"] = SubSeq(inbox["client"], 1, n["client"])
      BY <3>2 DEF QP!CutTo, QP!Side
    <3>5. Right'
      BY <1>4, <3>3, <3>4, QueueOperations
    <3>6. QED BY <1>4, <1>5, <2>1, <3>1, <3>5
  <2>5. ASSUME ~QP!ClientChecksReply, ~QP!On_StoreQuery, ~QP!LinkDown PROVE FQ!RightInv'
    <3>1. nFailed' = nFailed
      BY <2>1, <2>5, QueryFacts, QP!QueryMainIsMain
         DEF QP!Next, QP!ServerPump, QP!ClientPump, QP!ServerTakesQuery, QP!On_ConLoginAck,
             QP!ClientCountsReply, QP!ClientSignals, QP!LinkUp, QP!Asserts, QP!AssertReportHook,
             QP!Unmeshed, QP!harnessVars
    <3>2. inbox'["client"] = inbox["client"] \/ inbox'["client"] = <<>>
      <4>1. CASE QP!QueryMain \/ QP!LinkUp \/ QP!Asserts \/ QP!ClientCountsReply \/ QP!ClientSignals
        BY <4>1, QueryFacts, QP!QueryMainIsMain
           DEF QP!LinkUp, QP!Login, QP!Asserts, QP!AssertReportHook, QP!ClientCountsReply,
               QP!ClientSignals, QP!meshVars
      <4>2. CASE QP!ServerTakesQuery \/ QP!On_ConLoginAck
        BY <1>10, <4>2 DEF QP!ServerTakesQuery, QP!On_ConLoginAck, QP!Taken, QP!Posted
      <4>3. ASSUME NEW s \in {"server", "client"}, QP!PumpEnds(s)
            PROVE  inbox'["client"] = inbox["client"] \/ inbox'["client"] = <<>>
        BY <1>10, <4>3 DEF QP!PumpEnds
      <4>4. QED
        BY <2>1, <2>5, <4>1, <4>2, <4>3 DEF QP!Next, QP!ServerPump, QP!ClientPump
    <3>3. Right'
      BY <1>4, <3>2, EmptySeq
    <3>4. QED BY <1>4, <1>5, <2>1, <3>1, <3>3
  <2>6. QED BY <2>2, <2>3, <2>4, <2>5
<1>14. QED BY <1>11, <1>12, <1>13
-------------------------------------------------------------------------------
(* The FieldAccess store: the original, with the image its views write. *)

SP == INSTANCE WsaStoreDirectProofs WITH
        Built <- FS!BuildStore, Expect <- FS!Expected, MAX_P2Psize <- MaxSize

LEMMA StoreMainIsDirect == FS!Main <=> SP!Main
<1>1. /\ FS!meshVars = SP!meshVars /\ FS!meshVars' = SP!meshVars'
      /\ FS!Undecidedly <=> SP!Undecidedly
      /\ \A p : FS!Goto(p) <=> SP!Goto(p)
      /\ \A s : FS!SpawnHub(s) <=> SP!SpawnHub(s)
      /\ \A s : FS!PostP2PeerCon(s) <=> SP!PostP2PeerCon(s)
      /\ \A s : FS!CloseHub(s) <=> SP!CloseHub(s)
      /\ \A s, at, next : FS!Join(s, at, next) <=> SP!Join(s, at, next)
  BY DEF FS!meshVars, SP!meshVars, FS!Undecidedly, SP!Undecidedly, FS!Goto, SP!Goto, FS!SpawnHub,
     SP!SpawnHub, FS!PostP2PeerCon, SP!PostP2PeerCon, FS!CloseHub, SP!CloseHub, FS!Join, SP!Join
<1>2. FS!Setup <=> SP!Setup
  BY <1>1 DEF FS!Setup, SP!Setup, FS!CreateEvent, SP!CreateEvent, FS!SpawnServer, SP!SpawnServer,
     FS!PostService, SP!PostService, FS!SpawnClient, SP!SpawnClient, FS!Dial, SP!Dial, FS!SetupFails,
     SP!SetupFails
<1>3. FS!Teardown <=> SP!Teardown
  BY <1>1 DEF FS!Teardown, SP!Teardown, FS!CloseClient, SP!CloseClient, FS!CloseServer, SP!CloseServer,
     FS!JoinClient, SP!JoinClient, FS!JoinServer, SP!JoinServer, FS!CloseEvent, SP!CloseEvent,
     FS!NullEvent, SP!NullEvent, FS!Exit, SP!Exit
<1>4. /\ FS!WaitSignalled <=> SP!WaitSignalled
      /\ FS!Verdict <=> SP!Verdict
      /\ FS!WaitFails <=> SP!WaitFails
      /\ FS!Startup <=> SP!Startup
      /\ FS!DestroyHubs <=> SP!DestroyHubs
  BY <1>1 DEF FS!WaitSignalled, SP!WaitSignalled, FS!Verdict, SP!Verdict, FS!WaitFails, SP!WaitFails,
     FS!Startup, SP!Startup, FS!DestroyHubs, SP!DestroyHubs
<1>5. QED BY <1>2, <1>3, <1>4 DEF FS!Main, SP!Main, FS!MainOn, SP!MainOn

LEMMA StorePumpsAreDirect ==
  /\ FS!D!On_ConLoginAck <=> SP!On_ConLoginAck
  /\ FS!D!Save <=> SP!Save
  /\ FS!D!SaveThrows <=> SP!SaveThrows
  /\ FS!D!ReadBack <=> SP!ReadBack
  /\ FS!D!Post <=> SP!Post
  /\ FS!D!On_P2PeerBCast <=> SP!On_P2PeerBCast
  /\ FS!D!BytesToStore <=> SP!BytesToStore
  /\ FS!D!LoadFails <=> SP!LoadFails
  /\ FS!D!CheckStore <=> SP!CheckStore
  /\ FS!D!ServerSignals <=> SP!ServerSignals
<1>1. /\ \A i : FS!D!Missing(i) = SP!Missing(i) /\ FS!D!Wrong(i) = SP!Wrong(i)
      /\ \A S : FS!D!Cardinality(S) = SP!Cardinality(S)
  BY DEF FS!D!Missing, SP!Missing, FS!D!Wrong, SP!Wrong, FS!D!Cardinality, SP!Cardinality
<1>2. /\ FS!D!meshVars = SP!meshVars /\ FS!D!meshVars' = SP!meshVars'
      /\ FS!D!mainVars = SP!mainVars /\ FS!D!mainVars' = SP!mainVars'
      /\ FS!D!harnessVars = SP!harnessVars /\ FS!D!harnessVars' = SP!harnessVars'
      /\ FS!D!clientVars = SP!clientVars /\ FS!D!clientVars' = SP!clientVars'
      /\ FS!D!serverVars = SP!serverVars /\ FS!D!serverVars' = SP!serverVars'
      /\ FS!D!SetDone <=> SP!SetDone
      /\ FS!D!Return <=> SP!Return
      /\ \A s : FS!D!Pumping(s) <=> SP!Pumping(s)
      /\ \A s : FS!D!Taken(s) = SP!Taken(s)
      /\ \A s, msgs : FS!D!Posted(s, msgs) = SP!Posted(s, msgs)
  BY DEF FS!D!meshVars, SP!meshVars, FS!D!mainVars, SP!mainVars, FS!D!harnessVars, SP!harnessVars,
     FS!D!clientVars, SP!clientVars, FS!D!serverVars, SP!serverVars, FS!D!SetDone, SP!SetDone,
     FS!D!Return, SP!Return, FS!D!Pumping, SP!Pumping, FS!D!Taken, SP!Taken, FS!D!Posted, SP!Posted
<1>3. QED
  BY <1>1, <1>2
     DEF FS!D!On_ConLoginAck, SP!On_ConLoginAck, FS!D!Save, SP!Save, FS!D!SaveThrows, SP!SaveThrows,
         FS!D!ReadBack, SP!ReadBack, FS!D!Post, SP!Post, FS!D!On_P2PeerBCast, SP!On_P2PeerBCast,
         FS!D!BytesToStore, SP!BytesToStore, FS!D!LoadFails, SP!LoadFails, FS!D!CheckStore,
         SP!CheckStore, FS!D!ServerSignals, SP!ServerSignals

\* What the original says of a state.
LEMMA StoreInvIsDirect ==
  /\ FS!IInv <=> SP!IInv
  /\ FS!IInv' <=> SP!IInv'
<1>1. /\ \A i : FS!D!Missing(i) = SP!Missing(i) /\ FS!D!Wrong(i) = SP!Wrong(i)
      /\ \A i : FS!D!Agrees(i) <=> SP!Agrees(i)
  BY DEF FS!D!Missing, SP!Missing, FS!D!Wrong, SP!Wrong, FS!D!Agrees, SP!Agrees
<1>2. (FS!D!TypeOK <=> SP!TypeOK) /\ (FS!D!TypeOK' <=> SP!TypeOK')
  BY DEF FS!D!TypeOK, SP!TypeOK, FS!D!MeshTypeOK, SP!MeshTypeOK, FS!D!MainTypeOK, SP!MainTypeOK,
     FS!D!Side, SP!Side, FS!D!HubState, SP!HubState, FS!D!Undecided, SP!Undecided, FS!D!Payload,
     SP!Payload, FS!D!Image, SP!Image
<1>3. (FS!D!ImageInv <=> SP!ImageInv) /\ (FS!D!ImageInv' <=> SP!ImageInv')
  BY DEF FS!D!ImageInv, SP!ImageInv, FS!D!EveryImageFits, SP!EveryImageFits
<1>4. (FS!D!OncePosted <=> SP!OncePosted) /\ (FS!D!OncePosted' <=> SP!OncePosted')
  BY DEF FS!D!OncePosted, SP!OncePosted, FS!D!Spent, SP!Spent
<1>5. (FS!D!FinishedInv <=> SP!FinishedInv) /\ (FS!D!FinishedInv' <=> SP!FinishedInv')
  BY <1>1 DEF FS!D!FinishedInv, SP!FinishedInv, FS!D!Reported, SP!Reported, FS!D!Spent, SP!Spent
<1>6. (FS!D!TeardownInv <=> SP!TeardownInv) /\ (FS!D!TeardownInv' <=> SP!TeardownInv')
  BY DEF FS!D!TeardownInv, SP!TeardownInv, FS!D!MainTeardownInv, SP!MainTeardownInv, FS!D!Ended,
     SP!Ended, FS!D!SetupPC, SP!SetupPC
<1>7. QED
  BY <1>2, <1>3, <1>4, <1>5, <1>6 DEF FS!IInv, FS!D!IInv, SP!IInv

LEMMA StoreSteps == ASSUME Running, FS!Next PROVE SP!Next
<1>1. SP!Running
  BY DEF Running, SP!Running, SP!Undecided
<1>2. \A s : (FS!PumpEnds(s) <=> SP!PumpEnds(s))
  BY DEF FS!PumpEnds, SP!PumpEnds
<1>3. (FS!Login <=> SP!Login) /\ (FS!LinkLost <=> SP!LinkLost)
  BY DEF FS!Login, SP!Login, FS!LinkLost, SP!LinkLost, FS!CutTo, SP!CutTo, FS!Side, SP!Side
<1>4. UNCHANGED <<FS!harnessVars, FS!storeVars>> => SP!Unmeshed
  BY DEF FS!harnessVars, FS!mainVars, FS!storeVars, SP!Unmeshed, SP!harnessVars, SP!mainVars,
     SP!clientVars, SP!serverVars
<1>5. UNCHANGED FS!storeVars => SP!Unpumped
  BY DEF FS!storeVars, SP!Unpumped, SP!clientVars, SP!serverVars
<1>6. CASE FS!ServerPump
  BY <1>1, <1>2, <1>4, <1>6, StorePumpsAreDirect
     DEF FS!ServerPump, FS!RebuildStore, FS!CheckStore, FS!ServerEnds, SP!Next, SP!ServerPump
<1>7. CASE FS!ClientPump
  BY <1>1, <1>2, <1>4, <1>7, StorePumpsAreDirect
     DEF FS!ClientPump, FS!On_ConLoginAck, FS!PostStore, FS!ClientEnds, SP!Next, SP!ClientPump,
         SP!ClientSends
<1>8. CASE FS!FieldMain
  BY <1>1, <1>5, <1>8, StoreMainIsDirect DEF FS!FieldMain, SP!Next, SP!StoreMain
<1>9. CASE FS!Mesh
  BY <1>1, <1>3, <1>4, <1>9 DEF FS!Mesh, SP!Next, SP!LinkUp, SP!LinkDown
<1>10. QED BY <1>6, <1>7, <1>8, <1>9 DEF FS!Next

\* What the original assumes of its constants.
LEMMA StoreFacts ==
  /\ MaxLogins \in Nat \ {0}
  /\ None # FS!BuildStore /\ None # Leftover
  /\ SP!IsFiniteSet(DOMAIN FS!Expected)
  /\ Sizes \subseteq Nat /\ MaxSize \in Nat
<1>1. IsFiniteSet(DOMAIN FS!Expected)
  <2> DEFINE Written == {FS!V!LongHand(StoreWrites[i]) : i \in 1..Len(StoreWrites)}
  <2>1. Len(StoreWrites) \in Nat /\ IsFiniteSet(DOMAIN Samples)
    BY StoreAssumption, Zenon
  <2>2. ASSUME NEW k \in Nat PROVE IsFiniteSet({FS!V!LongHand(StoreWrites[i]) : i \in 1..k})
    <3>1. IsFiniteSet(1..k)
      BY FS_Interval
    <3> DEFINE f == [i \in 1..k |-> FS!V!LongHand(StoreWrites[i])]
               T == {FS!V!LongHand(StoreWrites[i]) : i \in 1..k}
    <3>2. f \in [1..k -> T] /\ \A t \in T : \E i \in 1..k : f[i] = t
      OBVIOUS
    <3> HIDE DEF f, T
    <3>3. f \in Surjection(1..k, T)
      BY <3>2, Fun_IsSurj
    <3>4. IsFiniteSet(T)
      BY <3>1, <3>3, FS_Surjection
    <3>5. QED BY <3>4 DEF T
  <2>3. IsFiniteSet(Written)
    BY <2>1, <2>2, Zenon
  <2>4. DOMAIN FS!Expected = Written \cup DOMAIN Samples
    BY Zenon DEF FS!Expected
  <2> HIDE DEF Written
  <2>5. QED BY <2>1, <2>3, <2>4, FS_Union
<1>2. \A S : SP!IsFiniteSet(S) <=> IsFiniteSet(S)
  BY DEF SP!IsFiniteSet, IsFiniteSet
<1>3. QED BY <1>1, <1>2, MeshAssumption, StoreAssumption, NothingAssumption

LEMMA StoreInvInductive ==
  /\ SP!Init => SP!IInv
  /\ SP!IInv /\ [SP!Next]_SP!vars => SP!IInv'
BY StoreFacts, SP!IInvInit, SP!IInvInductive

LEMMA StoreInductive == ASSUME Running, FS!IInv, FS!Next PROVE FS!IInv'
BY StoreSteps, StoreInvIsDirect, StoreInvInductive

\* The far side, which looks long-hand, finds in the store that was built what was
\* written, when the near side has: that is what its own CHECKs have looked for.
LEMMA BuiltAgrees ==
  ASSUME FS!V!Disagreeing = {} PROVE SP!Agrees(FS!BuildStore)
<1> DEFINE Long(i) == FS!V!LongHand(StoreWrites[i])
           Row(i) == [type |-> StoreWrites[i].type, value |-> StoreWrites[i].value]
           Written == {Long(i) : i \in 1..Len(StoreWrites)}
<1>1. \A i \in 1..Len(StoreWrites) : Long(i) \in DOMAIN FS!V!Built /\ FS!V!Built[Long(i)] = Row(i)
  BY Zenon DEF FS!V!Disagreeing
<1>2. /\ DOMAIN FS!BuildStore = DOMAIN FS!V!Built \cup DOMAIN Samples
      /\ \A p \in DOMAIN FS!V!Built \cup DOMAIN Samples :
           FS!BuildStore[p] = IF p \in DOMAIN Samples THEN Samples[p] ELSE FS!V!Built[p]
  BY DEF FS!BuildStore
<1>3. /\ DOMAIN FS!Expected = Written \cup DOMAIN Samples
      /\ \A p \in Written \cup DOMAIN Samples :
           FS!Expected[p] = IF p \in DOMAIN Samples THEN Samples[p]
                            ELSE Row(CHOOSE j \in 1..Len(StoreWrites) : Long(j) = p)
  BY DEF FS!Expected
<1>4. \A p \in Written : p \in DOMAIN FS!V!Built
        /\ FS!V!Built[p] = Row(CHOOSE j \in 1..Len(StoreWrites) : Long(j) = p)
  <2> SUFFICES ASSUME NEW p \in Written
               PROVE  p \in DOMAIN FS!V!Built
                      /\ FS!V!Built[p] = Row(CHOOSE j \in 1..Len(StoreWrites) : Long(j) = p)
    OBVIOUS
  <2> DEFINE j == CHOOSE i \in 1..Len(StoreWrites) : Long(i) = p
  <2>1. \E i \in 1..Len(StoreWrites) : Long(i) = p
    OBVIOUS
  <2> HIDE DEF Long, Row, Written
  <2>2. j \in 1..Len(StoreWrites) /\ Long(j) = p
    BY <2>1
  <2> HIDE DEF j
  <2>3. p \in DOMAIN FS!V!Built /\ FS!V!Built[p] = Row(j)
    BY <1>1, <2>2
  <2>4. QED BY <2>3 DEF j
<1> HIDE DEF Long, Row, Written
<1>5. SP!Missing(FS!BuildStore) = {}
  BY <1>2, <1>3, <1>4 DEF SP!Missing
<1>6. SP!Wrong(FS!BuildStore) = {}
  BY <1>2, <1>3, <1>4 DEF SP!Wrong
<1>7. QED BY <1>5, <1>6, StoreFacts DEF SP!Agrees

LEMMA StoreSafe ==
  ASSUME FS!IInv
  PROVE  FS!SuccessIsIntact /\ (FS!V!Disagreeing = {} => FS!EveryViewAgrees)
<1>1. SP!IInv /\ (\A i : FS!D!Agrees(i) <=> SP!Agrees(i))
  BY StoreInvIsDirect DEF FS!D!Missing, SP!Missing, FS!D!Wrong, SP!Wrong, FS!D!Agrees, SP!Agrees
<1>2. FS!SuccessIsIntact
  BY <1>1 DEF SP!IInv, SP!FinishedInv, SP!Reported, SP!OncePosted, SP!ImageInv, SP!Agrees,
     FS!SuccessIsIntact, FS!D!SuccessIsIntact, FS!D!NoScratchLeft
<1>3. FS!V!Disagreeing = {} => FS!EveryViewAgrees
  BY <1>1, BuiltAgrees DEF SP!IInv, SP!ImageInv, FS!EveryViewAgrees
<1>4. QED BY <1>2, <1>3

LEMMA QuerySafe == ASSUME FQ!IInv PROVE FQ!SuccessIsComplete
BY DEF FQ!IInv, FQ!D!IInv, FQ!SuccessIsComplete, FQ!D!SuccessIsComplete
-------------------------------------------------------------------------------
(* The store shipped over TargetFacade.  Its main is that of the facade's query *)
(* example, and what is proved of that main is carried over.                    *)

LP == INSTANCE WsaQueryLightProofs WITH
        kQueries <- <<>>, Catalogues <- {"library"}, nAnswered <- 0, seen <- {}

LEMMA LightFacts ==
  /\ MaxLogins \in Nat \ {0}
  /\ DOMAIN <<>> = 1..Len(<<>>) /\ Len(<<>>) \in Nat
  /\ \A i, j \in DOMAIN <<>> : <<>>[i].path = <<>>[j].path => i = j
  /\ Idle \notin {"library"} /\ Idle \notin [path : LP!QueryPath]
<1>1. DOMAIN <<>> = 1..Len(<<>>) /\ Len(<<>>) \in Nat /\ DOMAIN <<>> = {}
  OBVIOUS
<1>2. LP!QueryPath = {}
  BY <1>1 DEF LP!QueryPath, LP!kQueryCount
<1>3. [path : LP!QueryPath] = {}
  BY <1>2
<1>4. QED BY <1>1, <1>3, MeshAssumption, NothingAssumption

LEMMA LightMainIsLight ==
  /\ LS!Main => LP!Main /\ UNCHANGED <<sending, sendFile, size, recvFile, agreed>>
  /\ LS!L!MainTypeOK <=> LP!MainTypeOK
  /\ LS!L!MainTypeOK' <=> LP!MainTypeOK'
  /\ LS!MeshTypeOK <=> LP!MeshTypeOK
  /\ LS!MeshTypeOK' <=> LP!MeshTypeOK'
  /\ LS!L!StageInv <=> LP!StageInv
  /\ LS!L!StageInv' <=> LP!StageInv'
<1>1. /\ LS!L!meshVars = LP!meshVars /\ LS!L!meshVars' = LP!meshVars'
      /\ LS!L!Quietly <=> LP!Quietly
      /\ LS!L!Unpumped <=> LP!Unpumped
      /\ \A p : LS!L!Goto(p) <=> LP!Goto(p)
      /\ \A s : LS!L!SpawnHub(s) <=> LP!SpawnHub(s)
      /\ \A s : LS!L!PostP2PeerCon(s) <=> LP!PostP2PeerCon(s)
      /\ \A s : LS!L!CloseHub(s) <=> LP!CloseHub(s)
      /\ \A s : LS!L!Gone(s) <=> LP!Gone(s)
  BY DEF LS!L!meshVars, LP!meshVars, LS!L!Quietly, LP!Quietly, LS!L!Unpumped, LP!Unpumped,
     LS!L!clientVars, LP!clientVars, LS!L!Goto, LP!Goto, LS!L!SpawnHub, LP!SpawnHub,
     LS!L!PostP2PeerCon, LP!PostP2PeerCon, LS!L!CloseHub, LP!CloseHub, LS!L!Gone, LP!Gone
<1>2. LS!L!Setup <=> LP!Setup
  BY <1>1 DEF LS!L!Setup, LP!Setup, LS!L!Create, LP!Create, LS!L!CreateServer, LP!CreateServer,
     LS!L!CreateClient, LP!CreateClient, LS!L!CreateHub, LP!CreateHub, LS!L!Listen, LP!Listen,
     LS!L!Connect, LP!Connect, LS!L!Arm, LP!Arm, LS!L!ErrorThrown, LP!ErrorThrown, LS!L!SetupFails,
     LP!SetupFails
<1>3. LS!L!Teardown <=> LP!Teardown
  BY <1>1 DEF LS!L!Teardown, LP!Teardown, LS!L!CloseClient, LP!CloseClient, LS!L!CloseServer,
     LP!CloseServer, LS!L!Close, LP!Close, LS!L!JoinClient, LP!JoinClient, LS!L!JoinServer,
     LP!JoinServer, LS!L!Join, LP!Join, LS!L!DestroyStore, LP!DestroyStore, LS!L!Verdict, LP!Verdict
<1>4. /\ LS!L!WaitEnds <=> LP!WaitEnds
      /\ LS!L!WaitFails <=> LP!WaitFails
      /\ LS!L!MainWritesFailed <=> LP!MainWritesFailed
  BY <1>1 DEF LS!L!WaitEnds, LP!WaitEnds, LS!L!WaitFails, LP!WaitFails, LS!L!MainWritesFailed,
     LP!MainWritesFailed
<1>5. LS!Main => LP!Main /\ UNCHANGED <<sending, sendFile, size, recvFile, agreed>>
  BY <1>2, <1>3, <1>4 DEF LS!Main, LS!MainOn, LS!WaitFails, LS!storeVars, LP!Main, LP!MainOn
<1>6. (LS!L!MainTypeOK <=> LP!MainTypeOK) /\ (LS!L!MainTypeOK' <=> LP!MainTypeOK')
  BY DEF LS!L!MainTypeOK, LP!MainTypeOK, LS!L!MainPC, LP!MainPC, LS!L!Undecided, LP!Undecided
<1>7. (LS!MeshTypeOK <=> LP!MeshTypeOK) /\ (LS!MeshTypeOK' <=> LP!MeshTypeOK')
  BY DEF LS!MeshTypeOK, LP!MeshTypeOK, LS!Side, LP!Side, LS!HubState, LP!HubState
<1>8. (LS!L!StageInv <=> LP!StageInv) /\ (LS!L!StageInv' <=> LP!StageInv')
  BY DEF LS!L!StageInv, LP!StageInv, LS!L!Gone, LP!Gone
<1>9. QED BY <1>5, <1>6, <1>7, <1>8

\* What a step of main does to the rest, and by which ways it gets past its wait.
LEMMA LightMain ==
  ASSUME LS!TypeOK, LS!L!StageInv, LS!Main
  PROVE  /\ UNCHANGED <<link, ack, logins, inbox, gate, serving, checking, loaded, sending, sendFile,
                        size, recvFile, agreed>>
         /\ LS!MeshTypeOK' /\ LS!L!MainTypeOK' /\ store' \in {store, Idle} /\ LS!L!StageInv'
         /\ \A s \in LS!Side : LS!L!Gone(s)' => LS!L!Gone(s)
         /\ \/ UNCHANGED <<nFailed, mainLoaded, timedOut>>
               /\ pc' # "writeFailed" /\ pc # "writeFailed"
            \/ nFailed' = nFailed + 1 /\ UNCHANGED <<mainLoaded, timedOut>>
               /\ pc' # "writeFailed" /\ pc # "writeFailed"
            \/ pc' = "writeFailed" /\ mainLoaded' = nFailed + 1 /\ UNCHANGED nFailed
            \/ pc = "writeFailed" /\ nFailed' = mainLoaded /\ UNCHANGED <<mainLoaded, timedOut>>
               /\ pc' # "writeFailed"
         /\ pc' \in {"closeClient", "joinClient", "closeServer", "joinServer", "destroyStore", "verdict"}
              => \/ pc \in {"closeClient", "joinClient", "closeServer", "joinServer", "destroyStore"}
                    /\ UNCHANGED <<nExit, nFailed>>
                 \/ nExit' = 1
                 \/ gate = "open"
                 \/ nFailed' = nFailed + 1
                 \/ pc = "writeFailed" /\ nFailed' = mainLoaded
<1>1. /\ LP!Main /\ UNCHANGED <<sending, sendFile, size, recvFile, agreed>>
      /\ LP!MeshTypeOK /\ LP!MainTypeOK /\ LP!StageInv
  BY LightMainIsLight DEF LS!TypeOK
<1>2. UNCHANGED <<link, ack, logins, inbox, gate, serving, checking, loaded>>
  BY <1>1, LightFacts, LP!MainFrame
<1>3. LP!MeshTypeOK' /\ LP!MainTypeOK' /\ store' \in {store, Idle}
  BY <1>1, LightFacts, LP!MainType
<1>4. LP!StageInv' /\ \A s \in LP!Side : LP!Gone(s)' => LP!Gone(s)
  BY <1>1, LightFacts, LP!MainHubs
<1>5. \A s \in LS!Side : LS!L!Gone(s)' => LS!L!Gone(s)
  BY <1>4 DEF LS!Side, LP!Side, LS!L!Gone, LP!Gone
<1>6. QED
  BY <1>1, <1>2, <1>3, <1>4, <1>5, LightMainIsLight, LightFacts, LP!MainFails

\* Every step but main's and the server's own leaves Failed() and the gate alone.
LEMMA LightPumps ==
  /\ LS!OnPeerUp \/ LS!Save \/ LS!StoreToBytes \/ LS!PostStore \/ LS!ServerTakesStore \/ LS!BytesToStore
       \/ LS!ServerWritesFailed \/ LS!RemoveScratch \/ LS!OpenGate
     => UNCHANGED <<hub, con, link, logins, store, pc, mainLoaded, timedOut, nExit, exitCode>>
  /\ LS!Mesh \/ (\E s \in LS!Side : LS!HubsEnd(s))
     => UNCHANGED <<con, gate, store, nFailed, pc, mainLoaded, timedOut, nExit, exitCode, sending,
                    sendFile, size, serving, checking, loaded, recvFile, agreed>>
BY DEF LS!OnPeerUp, LS!Save, LS!StoreToBytes, LS!PostStore, LS!ServerTakesStore, LS!BytesToStore,
   LS!ServerWritesFailed, LS!RemoveScratch, LS!OpenGate, LS!Mesh, LS!Login, LS!LinkLost, LS!HubsEnd,
   LS!PumpEnds, LS!meshVars, LS!mainVars, LS!clientVars, LS!serverVars

\* A queue of which the prefix is kept that had arrived when the link was cut.
LEMMA CutQueue ==
  ASSUME NEW S, NEW Sd, NEW q \in [Sd -> Seq(S)], NEW N \in Nat, NEW n \in [Sd -> 0..N],
         \A s \in Sd : n[s] <= Len(q[s])
  PROVE  \A s \in Sd : /\ SubSeq(q[s], 1, n[s]) \in Seq(S)
                       /\ q[s] = <<>> => SubSeq(q[s], 1, n[s]) = <<>>
<1> SUFFICES ASSUME NEW s \in Sd
             PROVE  /\ SubSeq(q[s], 1, n[s]) \in Seq(S)
                    /\ q[s] = <<>> => SubSeq(q[s], 1, n[s]) = <<>>
  OBVIOUS
<1>1. q[s] \in Seq(S) /\ Len(q[s]) \in Nat /\ n[s] \in 0..N /\ n[s] <= Len(q[s])
  BY LenProperties
<1>2. n[s] \in 0..Len(q[s])
  BY <1>1
<1>3. SubSeq(q[s], 1, n[s]) \in Seq(S)
  BY <1>1, <1>2, QueueOperations
<1>4. ASSUME q[s] = <<>> PROVE SubSeq(q[s], 1, n[s]) = <<>>
  <2>1. n[s] = 0
    BY <1>2, <1>4
  <2>2. SubSeq(<<>>, 1, 0) = <<>>
    OBVIOUS
  <2>3. QED BY <1>4, <2>1, <2>2, Zenon
<1>5. QED BY <1>3, <1>4

LEMMA QueueLengths ==
  ASSUME NEW S, inbox \in [LS!Side -> Seq(S)]
  PROVE  Len(inbox["server"]) + Len(inbox["client"]) \in Nat
<1>1. Len(inbox["server"]) \in Nat /\ Len(inbox["client"]) \in Nat
  BY LenProperties DEF LS!Side
<1>2. \A a, b \in Nat : a + b \in Nat
  OBVIOUS
<1>3. QED BY <1>1, <1>2, Zenon

LEMMA CutKeeps ==
  ASSUME inbox \in [LS!Side -> Seq({"image"})], LS!LinkLost
  PROVE  /\ inbox' \in [LS!Side -> Seq({"image"})]
         /\ inbox["server"] = <<>> => inbox'["server"] = <<>>
<1>1. PICK N \in Nat : N = Len(inbox["server"]) + Len(inbox["client"])
  BY QueueLengths
<1>2. PICK n \in [LS!Side -> 0..N] : (\A s \in LS!Side : n[s] <= Len(inbox[s])) /\ inbox' = LS!CutTo(n)
  <2>1. \E n \in [LS!Side -> 0..(Len(inbox["server"]) + Len(inbox["client"]))] :
          (\A s \in LS!Side : n[s] <= Len(inbox[s])) /\ inbox' = LS!CutTo(n)
    BY DEF LS!LinkLost
  <2>2. QED BY <1>1, <2>1, Zenon
<1>3. \A s \in LS!Side : /\ SubSeq(inbox[s], 1, n[s]) \in Seq({"image"})
                         /\ inbox[s] = <<>> => SubSeq(inbox[s], 1, n[s]) = <<>>
  BY <1>2, CutQueue
<1>4. QED BY <1>2, <1>3 DEF LS!CutTo, LS!Side

\* What the link and a pump that ends do to the mesh: no queue grows.
LEMMA LightMesh ==
  ASSUME LS!TypeOK, LS!Mesh \/ (\E s \in LS!Side : LS!HubsEnd(s))
  PROVE  /\ LS!MeshTypeOK' /\ inbox' \in [LS!Side -> Seq({"image"})]
         /\ inbox["server"] = <<>> => inbox'["server"] = <<>>
         /\ \/ logins' = logins /\ (ack' => ack)
            \/ logins' = logins + 1 /\ inbox' = inbox
<1> USE DEF LS!TypeOK, LS!MeshTypeOK, LS!HubState
<1>1. CASE LS!Mesh /\ LS!Login
  <2>1. logins' \in 0..MaxLogins
    BY <1>1, MeshAssumption DEF LS!Login
  <2>2. QED BY <1>1, <2>1 DEF LS!Login
<1>2. CASE LS!Mesh /\ LS!LinkLost
  BY <1>2, CutKeeps DEF LS!LinkLost
<1>3. ASSUME NEW s \in LS!Side, LS!HubsEnd(s)
      PROVE  /\ LS!MeshTypeOK' /\ inbox' \in [LS!Side -> Seq({"image"})]
             /\ inbox["server"] = <<>> => inbox'["server"] = <<>>
             /\ logins' = logins /\ (ack' => ack)
  <2>1. inbox' = [inbox EXCEPT ![s] = <<>>] /\ <<>> \in Seq({"image"})
    BY <1>3, EmptySeq DEF LS!HubsEnd, LS!PumpEnds
  <2>2. inbox' \in [LS!Side -> Seq({"image"})]
    BY <2>1
  <2>3. QED BY <1>3, <2>1, <2>2 DEF LS!HubsEnd, LS!PumpEnds, LS!Side
<1>4. QED BY <1>1, <1>2, <1>3 DEF LS!Mesh

\* The server's and the client's handlers, on the queue and on what each keeps.
LEMMA LightType == ASSUME LS!TypeOK, LS!HubInv, LS!Next PROVE LS!TypeOK'
<1> USE DEF LS!TypeOK, LS!L!MainTypeOK
<1>1. CASE LS!Main
  BY <1>1, LightMain DEF LS!HubInv
<1>2. CASE LS!Mesh \/ (\E s \in LS!Side : LS!HubsEnd(s))
  <2>1. LS!MeshTypeOK' /\ inbox' \in [LS!Side -> Seq({"image"})]
    BY <1>2, LightMesh
  <2>2. QED BY <1>2, <2>1, LightPumps
<1>3. ASSUME LS!OnPeerUp \/ LS!Save \/ LS!StoreToBytes \/ LS!PostStore \/ LS!ServerTakesStore
               \/ LS!BytesToStore \/ LS!ServerWritesFailed \/ LS!RemoveScratch \/ LS!OpenGate,
             inbox' \in [LS!Side -> Seq({"image"})], nFailed' \in Nat, ack' \in BOOLEAN,
             gate' \in {"none", "shut", "open"}
      PROVE  LS!MeshTypeOK' /\ LS!L!MainTypeOK' /\ store' = store
  BY <1>3, LightPumps DEF LS!MeshTypeOK
<1>4. CASE LS!OnPeerUp \/ LS!Save \/ LS!StoreToBytes
  <2>1. inbox' = inbox /\ nFailed' = nFailed /\ gate' = gate /\ ack' \in BOOLEAN
        /\ UNCHANGED LS!serverVars
    BY <1>4 DEF LS!OnPeerUp, LS!Save, LS!StoreToBytes, LS!meshVars, LS!MeshTypeOK
  <2>2. sending' \in {"idle", "save", "read", "post"} /\ sendFile' \in {None, "image"}
    BY <1>4 DEF LS!OnPeerUp, LS!Save, LS!StoreToBytes
  <2>3. QED BY <1>3, <1>4, <2>1, <2>2 DEF LS!serverVars
<1>5. CASE LS!PostStore
  <2>1. nFailed' = nFailed /\ gate' = gate /\ ack' = ack /\ UNCHANGED LS!serverVars
        /\ sending' = "idle" /\ sendFile' = None
        /\ (inbox' = inbox \/ inbox' = [inbox EXCEPT !["server"] = inbox["server"] \o <<"image">>])
    BY <1>5 DEF LS!PostStore, LS!Posted
  <2>2. inbox["server"] \o <<"image">> \in Seq({"image"})
    BY QueueOperations DEF LS!Side
  <2>3. inbox' \in [LS!Side -> Seq({"image"})]
    BY <2>1, <2>2
  <2>4. QED BY <1>3, <1>5, <2>1, <2>3 DEF LS!serverVars, LS!MeshTypeOK
<1>6. CASE LS!ServerTakesStore
  <2>1. /\ inbox' = [inbox EXCEPT !["server"] = Tail(inbox["server"])] /\ inbox["server"] # <<>>
        /\ serving' = Head(inbox["server"]) /\ checking' = "load"
        /\ UNCHANGED <<nFailed, gate, ack, sending, sendFile, loaded, agreed>>
    BY <1>6 DEF LS!ServerTakesStore, LS!Taken, LS!clientVars
  <2>2. Head(inbox["server"]) = "image" /\ Tail(inbox["server"]) \in Seq({"image"})
    BY <2>1, QueueOperations DEF LS!Side
  <2>3. inbox' \in [LS!Side -> Seq({"image"})]
    BY <2>1, <2>2
  <2>4. QED BY <1>3, <1>6, <2>1, <2>2, <2>3 DEF LS!MeshTypeOK
<1>7. CASE LS!BytesToStore \/ LS!ServerWritesFailed \/ LS!RemoveScratch \/ LS!OpenGate
  <2>1. /\ UNCHANGED <<inbox, ack, sending, sendFile>> /\ serving' \in {serving, Idle}
        /\ nFailed' \in {nFailed, loaded} /\ gate' \in {gate, "open"}
        /\ checking' \in {"idle", "load", "write", "remove", "open"}
        /\ loaded' \in {loaded, nFailed + 2}
    BY <1>7 DEF LS!BytesToStore, LS!ServerWritesFailed, LS!RemoveScratch, LS!OpenGate, LS!meshVars,
       LS!clientVars
  <2>2. agreed' \in BOOLEAN
    BY <1>7, Zenon DEF LS!BytesToStore, LS!ServerWritesFailed, LS!RemoveScratch, LS!OpenGate
  <2>3. nFailed + 2 \in Nat
    OBVIOUS
  <2>4. QED BY <1>3, <1>7, <2>1, <2>2, <2>3 DEF LS!MeshTypeOK
<1>8. QED
  BY <1>1, <1>2, <1>4, <1>5, <1>6, <1>7 DEF LS!Next, LS!ServerPump, LS!ClientPump, LS!Side

LEMMA LightHubs == ASSUME LS!TypeOK, LS!HubInv, LS!Next PROVE LS!HubInv'
<1> USE DEF LS!TypeOK, LS!MeshTypeOK, LS!HubInv, LS!L!Gone
<1>1. CASE LS!Main
  BY <1>1, LightMain DEF LS!Side
<1>2. CASE LS!OnPeerUp \/ LS!Save \/ LS!StoreToBytes \/ LS!PostStore
  <2>1. UNCHANGED <<hub, store, pc, serving, checking>>
    BY <1>2, LightPumps DEF LS!OnPeerUp, LS!Save, LS!StoreToBytes, LS!PostStore, LS!serverVars
  <2>2. LS!L!Gone("client") => sending' = "idle"
    BY <1>2 DEF LS!OnPeerUp, LS!Save, LS!StoreToBytes, LS!PostStore, LS!Pumping
  <2>3. QED BY <2>1, <2>2 DEF LS!L!StageInv
<1>3. CASE LS!ServerTakesStore
  <2>1. UNCHANGED <<hub, store, pc, sending>>
    BY <1>3, LightPumps DEF LS!ServerTakesStore, LS!clientVars
  <2>2. ~LS!L!Gone("server") /\ serving' = "image" /\ checking' = "load"
    <3>1. Head(inbox["server"]) \in {"image"}
      BY <1>3, QueueOperations DEF LS!ServerTakesStore, LS!Side
    <3>2. QED BY <1>3, <3>1 DEF LS!ServerTakesStore, LS!Pumping
  <2>3. "image" # Idle
    BY NothingAssumption
  <2>4. QED BY <2>1, <2>2, <2>3 DEF LS!L!StageInv
<1>4. CASE LS!BytesToStore \/ LS!ServerWritesFailed \/ LS!RemoveScratch \/ LS!OpenGate
  <2>1. UNCHANGED <<hub, store, pc, sending>>
    BY <1>4, LightPumps DEF LS!BytesToStore, LS!ServerWritesFailed, LS!RemoveScratch, LS!OpenGate,
       LS!clientVars
  <2>2. \/ serving' = serving /\ checking # "idle" /\ checking' # "idle"
        \/ serving' = Idle /\ checking' = "idle"
    BY <1>4 DEF LS!BytesToStore, LS!ServerWritesFailed, LS!RemoveScratch, LS!OpenGate
  <2>3. QED BY <2>1, <2>2 DEF LS!L!StageInv
<1>5. CASE LS!Mesh
  <2>1. UNCHANGED <<hub, store, pc, sending, serving, checking>>
    BY <1>5, LightPumps DEF LS!Mesh, LS!Login, LS!LinkLost
  <2>2. QED BY <2>1 DEF LS!L!StageInv
<1>6. ASSUME NEW s \in LS!Side, LS!HubsEnd(s), s = "server" => serving = Idle,
             s = "client" => sending = "idle"
      PROVE  LS!HubInv'
  <2>1. UNCHANGED <<store, pc, sending, serving, checking>> /\ hub' = [hub EXCEPT ![s] = "stopped"]
    BY <1>6, LightPumps DEF LS!HubsEnd, LS!PumpEnds
  <2>2. QED BY <1>6, <2>1 DEF LS!L!StageInv, LS!Side
<1>7. QED
  BY <1>1, <1>2, <1>3, <1>4, <1>5, <1>6 DEF LS!Next, LS!ServerPump, LS!ClientPump, LS!Side

\* Main's verdict is the one step that sets the exit code.
LEMMA LightVerdict ==
  ASSUME LS!Next
  PROVE  \/ exitCode' = exitCode
         \/ /\ pc = "verdict" /\ pc' = "exited"
            /\ exitCode' = 0 => nExit # 1 /\ nFailed = 0
            /\ UNCHANGED <<timedOut, agreed, logins, sendFile, recvFile, checking>>
<1>1. CASE LS!Main
  <2>1. LP!Main /\ UNCHANGED <<sendFile, recvFile, agreed>>
    BY <1>1, LightMainIsLight
  <2>2. LP!Verdict \/ exitCode' = exitCode
    BY <2>1, LightFacts, LP!MainVerdict
  <2>3. LP!Verdict =>
          /\ pc = "verdict" /\ pc' = "exited" /\ UNCHANGED <<timedOut, logins, checking>>
          /\ exitCode' = 0 => nExit # 1 /\ nFailed = 0
    BY DEF LP!Verdict, LP!Goto, LP!meshVars, LP!Unpumped, LP!clientVars
  <2>4. QED BY <2>1, <2>2, <2>3
<1>2. CASE ~LS!Main
  BY <1>2, LightPumps DEF LS!Next, LS!ServerPump, LS!ClientPump, LS!Side
<1>3. QED BY <1>1, <1>2

\* Whichever thread's write of Failed() comes last, it is not a zero once something failed.
LEMMA LightFailures ==
  ASSUME LS!TypeOK, LS!HubInv, LS!FailuresInv, LS!Next PROVE LS!FailuresInv'
<1> USE DEF LS!TypeOK, LS!L!MainTypeOK, LS!FailuresInv
<1>1. CASE LS!Main
  <2>1. UNCHANGED <<checking, loaded, agreed>>
    BY <1>1, LightMain DEF LS!HubInv
  <2>2. /\ pc' = "writeFailed" => mainLoaded' > 0
        /\ timedOut' => nFailed' > 0 \/ pc' = "writeFailed"
        /\ ~agreed => nFailed' > 0 \/ checking = "write"
    BY <1>1, LightMain DEF LS!HubInv
  <2>3. QED BY <2>1, <2>2
<1>2. CASE LS!BytesToStore
  <2>1. UNCHANGED <<pc, nFailed, mainLoaded, timedOut>> /\ checking = "load"
        /\ \/ checking' = "remove" /\ agreed' = agreed
           \/ checking' = "write" /\ loaded' = nFailed + 2
    BY <1>2, LightPumps DEF LS!BytesToStore
  <2>2. QED BY <2>1
<1>3. CASE LS!ServerWritesFailed
  <2>1. UNCHANGED <<pc, mainLoaded, timedOut, agreed>> /\ nFailed' = loaded /\ checking = "write"
        /\ checking' = "remove"
    BY <1>3, LightPumps DEF LS!ServerWritesFailed
  <2>2. QED BY <2>1
<1>4. CASE UNCHANGED <<pc, nFailed, mainLoaded, timedOut, agreed, loaded>> /\ checking' # "write"
             /\ (checking = "write" => checking' = "write")
  BY <1>4
<1>5. CASE LS!OnPeerUp \/ LS!Save \/ LS!StoreToBytes \/ LS!PostStore \/ LS!ServerTakesStore
             \/ LS!RemoveScratch \/ LS!OpenGate
  <2>1. UNCHANGED <<pc, nFailed, mainLoaded, timedOut, agreed, loaded>>
        /\ (checking = "write" <=> checking' = "write")
    <3>1. UNCHANGED <<pc, mainLoaded, timedOut>>
      BY <1>5, LightPumps
    <3>2. UNCHANGED <<nFailed, agreed, loaded>>
      BY <1>5 DEF LS!OnPeerUp, LS!Save, LS!StoreToBytes, LS!PostStore, LS!ServerTakesStore,
         LS!RemoveScratch, LS!OpenGate, LS!serverVars
    <3>3. CASE LS!OnPeerUp \/ LS!Save \/ LS!StoreToBytes \/ LS!PostStore
      BY <3>1, <3>2, <3>3 DEF LS!OnPeerUp, LS!Save, LS!StoreToBytes, LS!PostStore, LS!serverVars
    <3>4. CASE LS!ServerTakesStore
      <4>1. checking = "idle" /\ checking' = "load"
        BY <3>4 DEF LS!ServerTakesStore, LS!HubInv
      <4>2. QED BY <3>1, <3>2, <4>1
    <3>5. CASE LS!RemoveScratch \/ LS!OpenGate
      BY <3>1, <3>2, <3>5 DEF LS!RemoveScratch, LS!OpenGate
    <3>6. QED BY <1>5, <3>3, <3>4, <3>5
  <2>2. QED BY <2>1
<1>6. CASE LS!Mesh \/ (\E s \in LS!Side : LS!HubsEnd(s))
  <2>1. UNCHANGED <<pc, nFailed, mainLoaded, timedOut, agreed, loaded, checking>>
    BY <1>6, LightPumps
  <2>2. QED BY <2>1
<1>7. QED
  BY <1>1, <1>2, <1>3, <1>5, <1>6 DEF LS!Next, LS!ServerPump, LS!ClientPump, LS!Side

\* Main gets past its wait by the gate, by a failure or by giving up.
LEMMA LightGate ==
  ASSUME LS!TypeOK, LS!HubInv, LS!FailuresInv, LS!GateInv, LS!Next PROVE LS!GateInv'
<1> USE DEF LS!TypeOK, LS!L!MainTypeOK, LS!GateInv
<1>1. CASE LS!Main
  <2>1. gate' = gate
    BY <1>1, LightMain DEF LS!HubInv
  <2>2. QED BY <1>1, <2>1, LightMain DEF LS!HubInv, LS!FailuresInv
<1>2. CASE LS!ServerWritesFailed
  <2>1. UNCHANGED <<pc, nExit, gate>> /\ nFailed' = loaded /\ loaded > 0
    BY <1>2, LightPumps DEF LS!ServerWritesFailed, LS!FailuresInv
  <2>2. QED BY <2>1
<1>3. ASSUME ~LS!Main, ~LS!ServerWritesFailed
      PROVE  UNCHANGED <<pc, nExit, nFailed>> /\ (gate = "open" => gate' = "open")
  <2>1. CASE LS!Mesh \/ (\E s \in LS!Side : LS!HubsEnd(s))
    BY <2>1, LightPumps
  <2>2. CASE LS!OnPeerUp \/ LS!Save \/ LS!StoreToBytes \/ LS!PostStore \/ LS!ServerTakesStore
               \/ LS!BytesToStore \/ LS!RemoveScratch \/ LS!OpenGate
    <3>1. UNCHANGED <<pc, nExit>>
      BY <2>2, LightPumps
    <3>2. nFailed' = nFailed /\ (gate = "open" => gate' = "open")
      BY <2>2 DEF LS!OnPeerUp, LS!Save, LS!StoreToBytes, LS!PostStore, LS!ServerTakesStore,
         LS!BytesToStore, LS!RemoveScratch, LS!OpenGate
    <3>3. QED BY <3>1, <3>2
  <2>3. QED BY <1>3, <2>1, <2>2 DEF LS!Next, LS!ServerPump, LS!ClientPump, LS!Side
<1>4. QED BY <1>1, <1>2, <1>3

\* What is laid down is removed before the handler is left.
LEMMA LightFile ==
  ASSUME Running, LS!TypeOK, LS!HubInv, LS!FileInv, LS!Next PROVE LS!FileInv'
<1>1. exitCode' # LS!L!Undecided => pc' = "exited"
  BY LightVerdict DEF Running, LS!L!Undecided
<1>2. recvFile' # None => checking' \in {"write", "remove"}
  <2>1. CASE LS!Main
    BY <2>1, LightMain DEF LS!HubInv, LS!FileInv
  <2>2. CASE LS!Mesh \/ (\E s \in LS!Side : LS!HubsEnd(s))
    BY <2>2, LightPumps DEF LS!FileInv
  <2>3. CASE LS!OnPeerUp \/ LS!Save \/ LS!StoreToBytes \/ LS!PostStore
    BY <2>3 DEF LS!FileInv, LS!OnPeerUp, LS!Save, LS!StoreToBytes, LS!PostStore, LS!serverVars
  <2>4. CASE LS!ServerTakesStore \/ LS!BytesToStore \/ LS!ServerWritesFailed \/ LS!RemoveScratch
               \/ LS!OpenGate
    BY <2>4 DEF LS!FileInv, LS!ServerTakesStore, LS!BytesToStore, LS!ServerWritesFailed,
       LS!RemoveScratch, LS!OpenGate
  <2>5. QED
    BY <2>1, <2>2, <2>3, <2>4 DEF LS!Next, LS!ServerPump, LS!ClientPump, LS!Side
<1>3. QED BY <1>1, <1>2 DEF LS!FileInv

\* As long as the peer came up once at most: before it did there is nothing to be lost, and
\* while the store is on its way the client's handler is done with its file.
LEMMA LightOnce ==
  ASSUME LS!TypeOK, LS!HubInv, LS!OnceInv, LS!Next PROVE LS!OnceInv'
<1>1. logins \in Nat /\ ack \in BOOLEAN
  BY MeshAssumption DEF LS!TypeOK, LS!MeshTypeOK
<1>2. ASSUME logins' = logins, ack' => ack, UNCHANGED <<sending, sendFile>>,
             LS!Unarrived => LS!Unarrived'
      PROVE  LS!OnceInv'
  BY <1>2 DEF LS!OnceInv
<1>3. CASE LS!Main
  <2>1. UNCHANGED <<logins, ack, inbox, serving, gate, sending, sendFile>>
    BY <1>3, LightMain DEF LS!HubInv
  <2>2. QED BY <1>2, <2>1 DEF LS!Unarrived
<1>4. CASE LS!Mesh \/ (\E s \in LS!Side : LS!HubsEnd(s))
  <2>1. UNCHANGED <<sending, sendFile, serving, gate>>
    BY <1>4, LightPumps
  <2>2. LS!Unarrived => LS!Unarrived'
    BY <1>4, <2>1, LightMesh DEF LS!Unarrived
  <2>3. CASE logins' = logins /\ (ack' => ack)
    BY <1>2, <2>1, <2>2, <2>3
  <2>4. CASE logins' = logins + 1 /\ inbox' = inbox
    <3>1. ASSUME logins' <= 1 PROVE logins = 0
      BY <1>1, <2>4, <3>1
    <3>2. QED BY <1>1, <2>1, <2>2, <2>4, <3>1 DEF LS!OnceInv
  <2>5. QED BY <1>4, <2>3, <2>4, LightMesh
<1>5. CASE LS!OnPeerUp \/ LS!Save \/ LS!StoreToBytes \/ LS!PostStore
  <2>1. logins' = logins /\ UNCHANGED <<serving, gate>>
    BY <1>5, LightPumps DEF LS!OnPeerUp, LS!Save, LS!StoreToBytes, LS!PostStore, LS!serverVars
  <2>2. CASE LS!OnPeerUp
    <3>1. ack /\ ack' = FALSE /\ inbox' = inbox /\ sending' = "save"
      BY <2>2 DEF LS!OnPeerUp
    <3>2. QED BY <2>1, <3>1 DEF LS!OnceInv, LS!Unarrived
  <2>3. CASE LS!Save \/ LS!StoreToBytes
    <3>1. sending # "idle" /\ UNCHANGED <<ack, inbox>>
      BY <2>3 DEF LS!Save, LS!StoreToBytes, LS!meshVars
    <3>2. QED BY <2>1, <3>1 DEF LS!OnceInv, LS!Unarrived
  <2>4. CASE LS!PostStore
    <3>1. sending # "idle" /\ sending' = "idle" /\ sendFile' = None /\ ack' = ack
      BY <2>4 DEF LS!PostStore
    <3>2. QED BY <2>1, <3>1 DEF LS!OnceInv
  <2>5. QED BY <1>5, <2>2, <2>3, <2>4
<1>6. CASE LS!ServerTakesStore \/ LS!BytesToStore \/ LS!ServerWritesFailed \/ LS!RemoveScratch
             \/ LS!OpenGate
  <2>1. UNCHANGED <<logins, ack, sending, sendFile>>
    BY <1>6, LightPumps DEF LS!ServerTakesStore, LS!BytesToStore, LS!ServerWritesFailed,
       LS!RemoveScratch, LS!OpenGate, LS!meshVars, LS!clientVars
  <2>2. ~LS!Unarrived
    BY <1>6 DEF LS!Unarrived, LS!HubInv, LS!ServerTakesStore, LS!BytesToStore,
       LS!ServerWritesFailed, LS!RemoveScratch, LS!OpenGate
  <2>3. QED BY <1>2, <2>1, <2>2
<1>7. QED
  BY <1>3, <1>4, <1>5, <1>6 DEF LS!Next, LS!ServerPump, LS!ClientPump, LS!Side

\* What the verdict 0 is given for: by then both pumps have ended.
LEMMA LightSafe ==
  ASSUME Running, LS!TypeOK, LS!HubInv, LS!FailuresInv, LS!GateInv, LS!OnceInv, LS!Next
  PROVE  exitCode' = 0 => agreed' /\ ~timedOut' /\ (logins' <= 1 => sendFile' = None)
<1> SUFFICES ASSUME exitCode' = 0 PROVE agreed' /\ ~timedOut' /\ (logins' <= 1 => sendFile' = None)
  OBVIOUS
<1>1. /\ pc = "verdict" /\ nExit # 1 /\ nFailed = 0
      /\ UNCHANGED <<timedOut, agreed, logins, sendFile>>
  BY LightVerdict DEF Running
<1>2. gate = "open" /\ ~timedOut
  BY <1>1 DEF LS!GateInv, LS!FailuresInv
<1>3. checking = "idle"
  BY <1>1 DEF LS!HubInv, LS!L!StageInv
<1>4. agreed
  BY <1>1, <1>3 DEF LS!FailuresInv
<1>5. logins <= 1 => sendFile = None
  BY <1>2 DEF LS!OnceInv, LS!Unarrived
<1>6. QED BY <1>1, <1>2, <1>4, <1>5

LEMMA LightInductive == ASSUME Running, LS!IInv, LS!Next PROVE LS!IInv'
BY LightType, LightHubs, LightFailures, LightGate, LightFile, LightOnce, LightSafe
   DEF LS!IInv, LS!SuccessIsIntact

LEMMA LightCleans == ASSUME LS!IInv PROVE LS!NoUseAfterDestruction /\ LS!NoScratchLeft
<1>1. LS!NoUseAfterDestruction
  BY DEF LS!IInv, LS!HubInv, LS!L!StageInv, LS!NoUseAfterDestruction
<1>2. exitCode # LS!L!Undecided => recvFile = None
  BY DEF LS!IInv, LS!FileInv, LS!HubInv, LS!L!StageInv
<1>3. QED BY <1>1, <1>2 DEF LS!IInv, LS!NoScratchLeft
-------------------------------------------------------------------------------
(* The store shipped from .NET. *)

\* Main leaves the link, the queues and the sink alone, fails one of its checks at most,
\* and gets to the checks past the gate.
LEMMA NetMain ==
  ASSUME NS!TypeOK, NS!Main
  PROVE  /\ UNCHANGED <<link, ack, logins, inbox, fromWho, received, serving, nBumped, owed, errors>>
         /\ NS!MeshTypeOK'
         /\ pc' \in NS!Early => pc \in NS!Early /\ con'["client"] = con["client"]
         /\ con["client"] => con'["client"]
         /\ \/ pc' \in {"source", "save", "exited"} \/ image' = "image"
            \/ image' = image /\ pc \notin {"source", "save", "exited"}
         /\ pc' = "exited" => exitCode' # 4
         /\ pc' \in {"received", "rebuild", "late", "relation"} =>
              nBumped > 0 \/ pc \in {"received", "rebuild", "late", "relation"}
         /\ \/ failed' = failed
            \/ pc = "wait" /\ failed' = failed \cup {"timeout"}
            \/ pc \in NS!Early /\ exitCode' = 1 /\ failed' \subseteq failed \cup {"listen", "connect"}
            \/ NS!CheckReceived \/ NS!Rebuild \/ NS!CheckErrors \/ NS!CheckRelation
<1> USE DEF NS!TypeOK, NS!MeshTypeOK, NS!Side, NS!Goto, NS!Undelivered, NS!Early
<1>1. CASE NS!BuildStore \/ NS!Serialise \/ NS!CreateNetwork \/ NS!SetupFailure \/ NS!Unwound
  BY <1>1 DEF NS!BuildStore, NS!Serialise, NS!CreateNetwork, NS!SetupFailure, NS!Unwound, NS!Judge,
     NS!Unhandled, NS!meshVars, NS!fileVars, NS!sinkVars, NS!verdictVars
<1>2. ASSUME NEW s \in NS!Side, NEW at, NEW next,
             next \notin {"received", "rebuild", "late", "relation", "exited"},
             NS!CreateHub(s, at, next) \/ NS!Dispose(s, at, next),
             at \notin {"source", "save", "exited"}, next \in NS!Early => at \in NS!Early
      PROVE  /\ UNCHANGED <<link, ack, logins, inbox, fromWho, received, serving, nBumped, owed, errors>>
             /\ NS!MeshTypeOK' /\ con' = con /\ pc = at /\ pc' = next
             /\ UNCHANGED <<image, failed>>
  BY <1>2 DEF NS!CreateHub, NS!Dispose, NS!SpawnHub, NS!CloseHub, NS!HubState, NS!fileVars,
     NS!sinkVars, NS!verdictVars
<1>3. CASE \/ NS!CreateHub("server", "hubServer", "listen") \/ NS!CreateHub("client", "hubClient", "connect")
           \/ NS!Dispose("client", "disposeClient", "disposeServer")
           \/ NS!Dispose("server", "disposeServer", "disposeStores")
  <2>1. PICK s \in NS!Side, at \in {"hubServer", "hubClient", "disposeClient", "disposeServer"},
             next \in {"listen", "connect", "disposeServer", "disposeStores"} :
          /\ NS!CreateHub(s, at, next) \/ NS!Dispose(s, at, next)
          /\ next \in NS!Early => at \in NS!Early
    BY <1>3
  <2>2. /\ UNCHANGED <<link, ack, logins, inbox, fromWho, received, serving, nBumped, owed, errors>>
        /\ NS!MeshTypeOK' /\ con' = con /\ pc = at /\ pc' = next
        /\ UNCHANGED <<image, failed>>
    BY <1>2, <2>1
  <2>3. QED BY <2>1, <2>2
<1>4. CASE NS!Arm("server", "listen", "hubClient") \/ NS!Arm("client", "connect", "wait")
  BY <1>4 DEF NS!Arm, NS!PostP2PeerCon, NS!fileVars, NS!sinkVars, NS!verdictVars
<1>5. CASE NS!GateOpens \/ NS!GateTimesOut
  BY <1>5 DEF NS!GateOpens, NS!GateTimesOut, NS!Judge, NS!meshVars, NS!fileVars, NS!sinkVars,
     NS!verdictVars
<1>6. CASE NS!CheckReceived \/ NS!Rebuild \/ NS!CheckErrors \/ NS!CheckRelation
  <2>1. /\ UNCHANGED <<NS!meshVars, NS!sinkVars, image>>
        /\ pc \in {"received", "rebuild", "late", "relation"}
        /\ pc' \in {"rebuild", "late", "relation", "remove"}
    BY <1>6 DEF NS!CheckReceived, NS!Rebuild, NS!CheckErrors, NS!CheckRelation, NS!Judge, NS!fileVars
  <2>2. QED BY <1>6, <2>1 DEF NS!meshVars, NS!sinkVars
<1>7. CASE NS!RemoveScratch \/ NS!DisposeStores \/ NS!Verdict
  BY <1>7 DEF NS!RemoveScratch, NS!DisposeStores, NS!Verdict, NS!meshVars, NS!fileVars, NS!sinkVars,
     NS!verdictVars
<1>8. QED
  BY <1>1, <1>3, <1>4, <1>5, <1>6, <1>7 DEF NS!Main, NS!Setup

\* The steps of a harness of this kind, but for the destructors'.
NetNext == NS!ServerThread \/ NS!ClientThread \/ NS!Main \/ NS!LinkUp \/ NS!LinkDown
NetHandler == NS!OnPeerUp \/ NS!NoteSource \/ NS!NotePayload \/ NS!Bump

LEMMA NetFrames ==
  /\ NetHandler =>
       UNCHANGED <<hub, con, link, logins, pc, image, owed, errors, failed, exitCode>> /\ (ack' => ack)
  /\ \A s \in NS!Side : NS!OnError(s) =>
       UNCHANGED <<hub, con, link, ack, logins, inbox, pc, image, fromWho, received, serving, nBumped,
                   failed, exitCode>>
  /\ \A s \in NS!Side : NS!HubsEnd(s) =>
       /\ UNCHANGED <<con, logins, pc, image, fromWho, received, serving, nBumped, owed, errors, failed,
                      exitCode>>
       /\ link' = FALSE /\ (ack' => ack) /\ hub' = [hub EXCEPT ![s] = "stopped"]
       /\ inbox' = [inbox EXCEPT ![s] = <<>>] /\ ack' = (ack /\ s # "client")
  /\ NS!LinkUp \/ NS!LinkDown =>
       UNCHANGED <<hub, con, pc, image, fromWho, received, serving, nBumped, errors, failed, exitCode>>
<1>1. NetHandler =>
        UNCHANGED <<hub, con, link, logins, pc, image, owed, errors, failed, exitCode>> /\ (ack' => ack)
  BY DEF NetHandler, NS!OnPeerUp, NS!NoteSource, NS!NotePayload, NS!Bump, NS!meshVars, NS!fileVars,
     NS!sinkVars, NS!verdictVars
<1>2. ASSUME NEW s \in NS!Side, NS!OnError(s)
      PROVE  UNCHANGED <<hub, con, link, ack, logins, inbox, pc, image, fromWho, received, serving, nBumped,
                         failed, exitCode>>
  BY <1>2 DEF NS!OnError, NS!meshVars, NS!fileVars, NS!verdictVars
<1>3. ASSUME NEW s \in NS!Side, NS!HubsEnd(s)
      PROVE  /\ UNCHANGED <<con, logins, pc, image, fromWho, received, serving, nBumped, owed, errors, failed,
                            exitCode>>
             /\ link' = FALSE /\ (ack' => ack) /\ hub' = [hub EXCEPT ![s] = "stopped"]
             /\ inbox' = [inbox EXCEPT ![s] = <<>>] /\ ack' = (ack /\ s # "client")
  BY <1>3 DEF NS!HubsEnd, NS!PumpEnds, NS!fileVars, NS!sinkVars, NS!verdictVars
<1>4. NS!LinkUp \/ NS!LinkDown =>
        UNCHANGED <<hub, con, pc, image, fromWho, received, serving, nBumped, errors, failed, exitCode>>
  BY DEF NS!LinkUp, NS!LinkDown, NS!Login, NS!LinkLost, NS!fileVars, NS!verdictVars
<1>5. QED BY <1>1, <1>2, <1>3, <1>4

LEMMA NetKinds ==
  NetNext => \/ NS!Main \/ NetHandler \/ (\E s \in NS!Side : NS!OnError(s))
             \/ (\E s \in NS!Side : NS!HubsEnd(s)) \/ NS!LinkUp \/ NS!LinkDown
BY DEF NetNext, NetHandler, NS!ServerThread, NS!ClientThread, NS!Side

\* The image is posted once it is there; the server's handler takes what has been posted.
LEMMA NetType == ASSUME Running, NS!TypeOK, NS!SetupInv, NetNext PROVE NS!TypeOK'
<1> USE DEF NS!TypeOK, NS!MeshTypeOK
<1>1. CASE NS!Main
  BY <1>1, NetMain
<1>2. ASSUME NetHandler,
             inbox' \in [NS!Side -> Seq({"image"})], nBumped' \in Nat, ack' \in BOOLEAN,
             serving' \in [body : {"image"}, left : {"payload", "bump"}] \cup {Idle}
      PROVE  NS!TypeOK'
  BY <1>2, NetFrames
<1>3. CASE NS!OnPeerUp
  <2>1. /\ ack = TRUE /\ ack' = FALSE /\ UNCHANGED <<serving, nBumped>>
        /\ inbox' = inbox \/ inbox' = [inbox EXCEPT !["server"] = inbox["server"] \o <<image>>]
    BY <1>3 DEF NS!OnPeerUp, NS!Posted, NS!sinkVars
  <2>2. image = "image"
    BY <2>1 DEF NS!SetupInv, NS!Early, Running, NS!Running, NS!Undecided
  <2>3. inbox["server"] \o <<"image">> \in Seq({"image"})
    BY QueueOperations DEF NS!Side
  <2>4. inbox' \in [NS!Side -> Seq({"image"})]
    BY <2>1, <2>2, <2>3
  <2>5. QED BY <1>2, <1>3, <2>1, <2>4 DEF NetHandler
<1>4. CASE NS!NoteSource
  <2>1. /\ inbox["server"] # <<>> /\ inbox' = [inbox EXCEPT !["server"] = Tail(inbox["server"])]
        /\ serving' = [body |-> Head(inbox["server"]), left |-> "payload"]
        /\ UNCHANGED <<ack, nBumped>>
    BY <1>4 DEF NS!NoteSource, NS!Taken
  <2>2. Head(inbox["server"]) \in {"image"} /\ Tail(inbox["server"]) \in Seq({"image"})
    BY <2>1, QueueOperations DEF NS!Side
  <2>3. inbox' \in [NS!Side -> Seq({"image"})]
    BY <2>1, <2>2
  <2>4. QED BY <1>2, <1>4, <2>1, <2>2, <2>3 DEF NetHandler
<1>5. CASE NS!NotePayload \/ NS!Bump
  <2>1. UNCHANGED <<inbox, ack>> /\ nBumped' \in {nBumped, nBumped + 1}
        /\ \/ serving' = Idle
           \/ serving # Idle /\ serving' = [serving EXCEPT !.left = "bump"]
    BY <1>5 DEF NS!NotePayload, NS!Bump, NS!meshVars
  <2>2. serving' \in [body : {"image"}, left : {"payload", "bump"}] \cup {Idle}
    BY <2>1
  <2>3. QED BY <1>2, <1>5, <2>1, <2>2 DEF NetHandler
<1>6. ASSUME NEW s \in NS!Side, NS!OnError(s) PROVE NS!TypeOK'
  <2>1. /\ owed[s] # <<>> /\ owed' = [owed EXCEPT ![s] = Tail(owed[s])]
        /\ errors' = [errors EXCEPT ![Head(owed[s])] = errors[Head(owed[s])] + 1]
    BY <1>6 DEF NS!OnError
  <2>2. Head(owed[s]) \in NS!ErrorKind /\ Tail(owed[s]) \in Seq(NS!ErrorKind)
    BY <2>1, QueueOperations
  <2>3. owed' \in [NS!Side -> Seq(NS!ErrorKind)]
    BY <2>1, <2>2
  <2>4. errors' \in [NS!ErrorKind -> Nat]
    BY <2>1, <2>2
  <2>5. QED BY <1>6, <2>3, <2>4, NetFrames
<1>7. ASSUME NEW s \in NS!Side, NS!HubsEnd(s) PROVE NS!TypeOK'
  <2>1. /\ inbox' = [inbox EXCEPT ![s] = <<>>] /\ hub' = [hub EXCEPT ![s] = "stopped"]
        /\ link' = FALSE /\ ack' = (ack /\ s # "client")
        /\ UNCHANGED <<con, logins, serving, nBumped, owed, errors>>
    BY <1>7, NetFrames
  <2>2. <<>> \in Seq({"image"}) /\ "stopped" \in NS!HubState
    BY EmptySeq DEF NS!HubState
  <2>3. ack' \in BOOLEAN
    BY <2>1
  <2>4. inbox' \in [NS!Side -> Seq({"image"})] /\ hub' \in [NS!Side -> NS!HubState]
    BY <2>1, <2>2
  <2>5. QED BY <2>1, <2>3, <2>4
<1>8. CASE NS!LinkUp
  <2>1. owed' = [s \in NS!Side |-> Append(owed[s], "unrelated")]
        /\ ack' = TRUE /\ link' = TRUE /\ inbox' = inbox /\ logins' \in 0..MaxLogins
    BY <1>8, MeshAssumption DEF NS!LinkUp, NS!Login
  <2>2. \A s \in NS!Side : Append(owed[s], "unrelated") \in Seq(NS!ErrorKind)
    BY QueueOperations DEF NS!ErrorKind
  <2>3. owed' \in [NS!Side -> Seq(NS!ErrorKind)]
    BY <2>1, <2>2
  <2>4. QED BY <1>8, <2>1, <2>3, NetFrames
<1>9. CASE NS!LinkDown
  <2>1. PICK told \in SUBSET NS!Side :
          owed' = [s \in NS!Side |-> IF s \in told THEN Append(owed[s], "real") ELSE owed[s]]
    BY <1>9 DEF NS!LinkDown
  <2>2. link' = FALSE /\ UNCHANGED <<ack, logins>>
    BY <1>9 DEF NS!LinkDown, NS!LinkLost
  <2>3. \A s \in NS!Side : Append(owed[s], "real") \in Seq(NS!ErrorKind)
    BY QueueOperations DEF NS!ErrorKind
  <2>4. owed' \in [NS!Side -> Seq(NS!ErrorKind)]
    BY <2>1, <2>3
  <2>5. inbox' \in [NS!Side -> Seq({"image"})]
    <3>1. LS!Side = NS!Side /\ \A n : NS!CutTo(n) = LS!CutTo(n)
      BY DEF NS!CutTo, LS!CutTo, NS!Side, LS!Side
    <3>2. NS!LinkLost => LS!LinkLost
      BY <3>1, Zenon DEF NS!LinkLost, LS!LinkLost
    <3>3. QED BY <1>9, <3>1, <3>2, CutKeeps DEF NS!LinkDown
  <2>6. QED BY <1>9, <2>2, <2>4, <2>5, NetFrames
<1>10. QED
  BY <1>1, <1>3, <1>4, <1>5, <1>6, <1>7, <1>8, <1>9, NetKinds DEF NetHandler

\* Until the link comes up for the first time nothing comes over it.
LEMMA NetSetup == ASSUME Running, NS!TypeOK, NS!SetupInv, NetNext PROVE NS!SetupInv'
<1> USE DEF NS!TypeOK, NS!MeshTypeOK, NS!Side
<1>1. CASE NS!Main
  <2>1. pc' \in NS!Early => ~con'["client"]
    BY <1>1, NetMain DEF NS!SetupInv
  <2>2. pc' \in {"source", "save", "exited"} \/ image' = "image"
    BY <1>1, NetMain DEF NS!SetupInv
  <2>3. pc' = "exited" => ~NS!Running'
    BY <1>1, NetMain DEF NS!Running, NS!Undecided
  <2>4. /\ UNCHANGED <<link, ack, logins, inbox, serving, nBumped, owed, errors>>
        /\ con["client"] => con'["client"]
    BY <1>1, NetMain
  <2>5. QED BY <2>1, <2>2, <2>3, <2>4 DEF NS!SetupInv
<1>2. ASSUME UNCHANGED <<con, pc, image, exitCode>>,
             logins' = 0 => logins = 0,
             ~con["client"] => logins' = 0,
             logins' = 0 =>
               /\ UNCHANGED <<serving, nBumped, owed, errors>> /\ inbox'["server"] = <<>>
               /\ ~link' /\ ~ack'
      PROVE  NS!SetupInv'
  BY <1>2 DEF NS!SetupInv, NS!Running
<1>3. CASE NetHandler
  <2>1. UNCHANGED <<con, link, logins, pc, image, owed, errors, exitCode>> /\ (ack' => ack)
    BY <1>3, NetFrames
  <2>2. logins # 0
    BY <1>3 DEF NetHandler, NS!OnPeerUp, NS!NoteSource, NS!NotePayload, NS!Bump, NS!SetupInv
  <2>3. QED BY <1>2, <2>1, <2>2 DEF NS!SetupInv
<1>4. ASSUME NEW s \in NS!Side, NS!OnError(s) PROVE NS!SetupInv'
  <2>1. logins # 0
    BY <1>4 DEF NS!OnError, NS!SetupInv
  <2>2. QED BY <1>2, <1>4, <2>1, NetFrames DEF NS!SetupInv
<1>5. ASSUME NEW s \in NS!Side, NS!HubsEnd(s) PROVE NS!SetupInv'
  <2>1. inbox["server"] = <<>> => inbox'["server"] = <<>>
    BY <1>5, NetFrames
  <2>2. QED BY <1>2, <1>5, <2>1, NetFrames DEF NS!SetupInv
<1>6. CASE NS!LinkUp
  <2>1. con["client"] /\ logins' = logins + 1 /\ logins \in Nat
    BY <1>6, MeshAssumption DEF NS!LinkUp, NS!Login
  <2>2. QED BY <1>2, <1>6, <2>1, NetFrames
<1>7. CASE NS!LinkDown
  <2>1. logins' = logins /\ logins # 0
    BY <1>7 DEF NS!LinkDown, NS!LinkLost, NS!SetupInv
  <2>2. QED BY <1>2, <1>7, <2>1, NetFrames DEF NS!SetupInv
<1>8. QED BY <1>1, <1>3, <1>4, <1>5, <1>6, <1>7, NetKinds

\* The handler bumps the gate when all of the message is noted, and main is past the gate
\* only once it has been bumped.
LEMMA NetArrived == ASSUME NS!TypeOK, NS!ArrivedInv, NetNext PROVE NS!ArrivedInv'
<1> USE DEF NS!ArrivedInv
<1>1. CASE NS!Main
  BY <1>1, NetMain
<1>2. CASE NS!NoteSource \/ NS!OnPeerUp
  <2>1. /\ pc' = pc /\ UNCHANGED <<received, nBumped>>
        /\ \/ UNCHANGED <<serving, fromWho>>
           \/ serving'.left = "payload" /\ fromWho' = "client"
    BY <1>2 DEF NS!NoteSource, NS!OnPeerUp, NS!sinkVars
  <2>2. QED BY <2>1
<1>3. CASE NS!NotePayload
  <2>1. serving # Idle /\ serving.body = "image"
    BY <1>3 DEF NS!NotePayload, NS!TypeOK
  <2>2. received' = "image" /\ UNCHANGED <<pc, fromWho, nBumped>>
    BY <1>3, <2>1 DEF NS!NotePayload
  <2>3. QED BY <2>1, <2>2
<1>4. CASE NS!Bump
  <2>1. /\ fromWho = "client" /\ received = "image" /\ UNCHANGED <<pc, fromWho, received>>
        /\ serving' = Idle /\ nBumped' = nBumped + 1 /\ nBumped \in Nat
    BY <1>4 DEF NS!Bump, NS!TypeOK
  <2>2. QED BY <2>1
<1>5. CASE \/ (\E s \in NS!Side : NS!OnError(s)) \/ (\E s \in NS!Side : NS!HubsEnd(s))
           \/ NS!LinkUp \/ NS!LinkDown
  <2>1. UNCHANGED <<pc, fromWho, received, serving, nBumped>>
    BY <1>5, NetFrames
  <2>2. QED BY <2>1
<1>6. QED BY <1>1, <1>2, <1>3, <1>4, <1>5, NetKinds DEF NetHandler

\* A login owes each hub its warning, and nothing that comes over the link overtakes one.
LEMMA NetWarn ==
  ASSUME NS!TypeOK, NS!SetupInv, NS!WarnInv, NetNext PROVE NS!WarnInv'
<1> USE DEF NS!TypeOK, NS!MeshTypeOK
<1>1. ASSUME NS!NeverLost' => NS!NeverLost, UNCHANGED <<owed, errors>>,
             NS!NeverLost =>
               /\ ack' => inbox'["server"] = <<>> /\ serving' = Idle /\ nBumped' = 0
               /\ ~ack' => owed["client"] = <<>>
               /\ serving' # Idle \/ nBumped' > 0 => owed["server"] = <<>>
      PROVE  NS!WarnInv'
  BY <1>1 DEF NS!WarnInv, NS!nOwed
<1>2. CASE NS!Main
  <2>1. UNCHANGED <<link, logins, ack, inbox, serving, nBumped, owed, errors>>
    BY <1>2, NetMain
  <2>2. QED BY <1>1, <2>1 DEF NS!NeverLost, NS!WarnInv
<1>3. CASE NetHandler
  <2>1. UNCHANGED <<link, logins, owed, errors>>
    BY <1>3, NetFrames
  <2>2. CASE NS!OnPeerUp
    <3>1. /\ ack' = FALSE /\ UNCHANGED <<serving, nBumped>>
          /\ logins > 1 \/ owed["client"] = <<>>
      BY <2>2 DEF NS!OnPeerUp, NS!Delivers, NS!sinkVars
    <3>2. NS!NeverLost => owed["client"] = <<>>
      BY <3>1 DEF NS!NeverLost
    <3>3. QED BY <1>1, <2>1, <3>1, <3>2 DEF NS!NeverLost, NS!WarnInv
  <2>3. CASE NS!NoteSource
    <3>1. /\ ack' = ack /\ inbox["server"] # <<>>
          /\ logins > 1 \/ owed["server"] = <<>>
      BY <2>3 DEF NS!NoteSource, NS!Delivers
    <3>2. NS!NeverLost => owed["server"] = <<>>
      BY <3>1 DEF NS!NeverLost
    <3>3. QED BY <1>1, <2>1, <3>1, <3>2 DEF NS!NeverLost, NS!WarnInv
  <2>4. CASE NS!NotePayload \/ NS!Bump
    <3>1. ack' = ack /\ serving # Idle
      BY <2>4 DEF NS!NotePayload, NS!Bump, NS!meshVars
    <3>2. QED BY <1>1, <2>1, <3>1 DEF NS!NeverLost, NS!WarnInv
  <2>5. QED BY <1>3, <2>2, <2>3, <2>4 DEF NetHandler
<1>4. ASSUME NEW s \in NS!Side, NS!OnError(s) PROVE NS!WarnInv'
  <2>1. /\ owed[s] # <<>> /\ owed' = [owed EXCEPT ![s] = Tail(owed[s])]
        /\ errors' = [errors EXCEPT ![Head(owed[s])] = errors[Head(owed[s])] + 1]
        /\ UNCHANGED <<link, ack, logins, inbox, serving, nBumped>>
    <3>1. UNCHANGED <<link, ack, logins, inbox, serving, nBumped>>
      BY <1>4, NetFrames
    <3>2. QED BY <1>4, <3>1 DEF NS!OnError
  <2>2. ASSUME NS!NeverLost
        PROVE  /\ \A t \in NS!Side : owed'[t] \in {<<>>, <<"unrelated">>}
               /\ \A t \in NS!Side : owed[t] = <<>> => owed'[t] = <<>>
               /\ errors'["real"] = 0
               /\ errors'["unrelated"] + NS!nOwed("server")' + NS!nOwed("client")' = 2
    <3>1. owed[s] = <<"unrelated">> /\ Head(owed[s]) = "unrelated" /\ Tail(owed[s]) = <<>>
      <4>1. owed[s] = <<"unrelated">>
        BY <2>1, <2>2, Zenon DEF NS!WarnInv
      <4>2. Head(<<"unrelated">>) = "unrelated" /\ Tail(<<"unrelated">>) = <<>>
        OBVIOUS
      <4>3. QED BY <4>1, <4>2, Zenon
    <3>2. owed'[s] = <<>> /\ \A t \in NS!Side : t # s => owed'[t] = owed[t]
      BY <2>1, <3>1
    <3>3. errors'["real"] = 0 /\ errors'["unrelated"] = errors["unrelated"] + 1
      BY <2>1, <2>2, <3>1 DEF NS!WarnInv, NS!ErrorKind
    <3>4. NS!nOwed(s) = 1 /\ NS!nOwed(s)' = 0 /\ \A t \in NS!Side : t # s => NS!nOwed(t)' = NS!nOwed(t)
      BY <2>1, <3>2 DEF NS!nOwed
    <3>5. NS!nOwed("server") \in Nat /\ NS!nOwed("client") \in Nat /\ errors["unrelated"] \in Nat
      BY DEF NS!nOwed, NS!ErrorKind
    <3>6. errors'["unrelated"] + NS!nOwed("server")' + NS!nOwed("client")' = 2
      <4>1. errors["unrelated"] + NS!nOwed("server") + NS!nOwed("client") = 2
        BY <2>2 DEF NS!WarnInv
      <4>2. QED BY <3>3, <3>4, <3>5, <4>1 DEF NS!Side
    <3>7. QED BY <2>2, <3>2, <3>3, <3>6 DEF NS!WarnInv, NS!Side
  <2>3. QED BY <2>1, <2>2 DEF NS!WarnInv, NS!NeverLost, NS!Side
<1>5. ASSUME NEW s \in NS!Side, NS!HubsEnd(s) \/ NS!LinkDown PROVE NS!WarnInv'
  <2>1. link' = FALSE
    BY <1>5, NetFrames DEF NS!LinkDown, NS!LinkLost
  <2>2. QED BY <2>1 DEF NS!WarnInv, NS!NeverLost
<1>6. CASE NS!LinkUp
  <2>1. /\ logins' = logins + 1 /\ logins \in Nat /\ ack' = TRUE
        /\ owed' = [s \in NS!Side |-> Append(owed[s], "unrelated")]
        /\ UNCHANGED <<inbox, serving, nBumped, errors>>
    BY <1>6, NetFrames, MeshAssumption DEF NS!LinkUp, NS!Login
  <2>2. ASSUME logins = 0
        PROVE  /\ \A s \in NS!Side : owed'[s] = <<"unrelated">> /\ owed'[s] # <<>>
               /\ errors'["real"] = 0 /\ errors'["unrelated"] = 0
    <3>1. \A s \in NS!Side : owed[s] = <<>>
      BY <2>2 DEF NS!SetupInv
    <3>2. Append(<<>>, "unrelated") = <<"unrelated">> /\ <<"unrelated">> # <<>>
      OBVIOUS
    <3>3. ASSUME NEW s \in NS!Side PROVE owed'[s] = <<"unrelated">> /\ owed'[s] # <<>>
      <4>1. owed'[s] = <<"unrelated">>
        BY <2>1, <3>1, <3>2
      <4>2. QED BY <3>2, <4>1, Zenon
    <3>4. errors["real"] = 0 /\ errors["unrelated"] = 0 /\ errors' = errors
      BY <2>1, <2>2 DEF NS!SetupInv, NS!ErrorKind
    <3>5. QED BY <3>3, <3>4, Zenon
  <2>3. logins = 0 => NS!nOwed("server")' = 1 /\ NS!nOwed("client")' = 1
    BY <2>2 DEF NS!nOwed, NS!Side
  <2>4. QED BY <2>1, <2>2, <2>3 DEF NS!WarnInv, NS!NeverLost, NS!SetupInv
<1>7. QED BY <1>2, <1>3, <1>4, <1>5, <1>6, NetKinds DEF NS!Side

\* The checks past the gate find what the handlers have left there.
LEMMA NetChecks ==
  ASSUME NS!TypeOK, NS!SetupInv, NS!ArrivedInv, NS!WarnInv,
         NS!CheckReceived \/ NS!Rebuild \/ NS!CheckErrors \/ NS!CheckRelation
  PROVE  logins # 0 /\ UNCHANGED <<link, logins, exitCode>> /\ (NS!NeverLost => failed' = failed)
<1> USE DEF NS!TypeOK
<1>1. /\ pc \in {"received", "rebuild", "late", "relation"} /\ UNCHANGED <<link, logins, exitCode>>
      /\ nBumped > 0
  BY DEF NS!CheckReceived, NS!Rebuild, NS!CheckErrors, NS!CheckRelation, NS!Judge, NS!meshVars,
     NS!ArrivedInv
<1>2. logins # 0
  BY <1>1 DEF NS!SetupInv
<1>3. fromWho = "client" /\ received = "image" /\ image = "image"
  BY <1>1 DEF NS!ArrivedInv, NS!SetupInv
<1>4. ASSUME NS!NeverLost PROVE failed' = failed
  <2>1. errors["real"] = 0 /\ errors["unrelated"] = 2 /\ link
    <3>1. ~ack /\ owed["server"] = <<>> /\ owed["client"] = <<>>
      BY <1>1, <1>4 DEF NS!WarnInv
    <3>2. NS!nOwed("server") = 0 /\ NS!nOwed("client") = 0
      BY <3>1 DEF NS!nOwed
    <3>3. errors["unrelated"] \in Nat
      BY DEF NS!ErrorKind
    <3>4. QED BY <1>4, <3>2, <3>3 DEF NS!WarnInv, NS!NeverLost
  <2>2. CASE NS!CheckReceived
    <3>1. received # None
      BY <1>3, NothingAssumption
    <3>2. QED BY <2>2, <1>3, <3>1 DEF NS!CheckReceived, NS!Judge, NS!Fails
  <2>3. CASE NS!Rebuild
    BY <2>3, <1>3 DEF NS!Rebuild, NS!Fails
  <2>4. CASE NS!CheckErrors
    BY <2>4, <2>1 DEF NS!CheckErrors, NS!Judge, NS!Fails
  <2>5. CASE NS!CheckRelation
    BY <2>5, <2>1 DEF NS!CheckRelation, NS!Judge, NS!Fails
  <2>6. QED BY <2>2, <2>3, <2>4, <2>5
<1>5. QED BY <1>1, <1>2, <1>4

\* A check that fails before the client has dialled ends the process, and on a link that
\* stays up none fails after it but the wait.
LEMMA NetFailed ==
  ASSUME Running, NS!IInv, NetNext PROVE NS!FailedInv'
<1> USE DEF NS!IInv, NS!FailedInv, NS!OnlyTimeoutFails, NS!Running, NS!Undecided, Running
<1>1. CASE NS!Main
  <2>1. UNCHANGED <<link, logins>>
    BY <1>1, NetMain
  <2>2. CASE failed' = failed \/ failed' = failed \cup {"timeout"}
    BY <2>1, <2>2
  <2>3. CASE pc \in NS!Early /\ exitCode' = 1 /\ failed' \subseteq failed \cup {"listen", "connect"}
    <3>1. logins = 0
      BY <2>3 DEF NS!SetupInv
    <3>2. QED BY <2>1, <2>3, <3>1
  <2>4. CASE NS!CheckReceived \/ NS!Rebuild \/ NS!CheckErrors \/ NS!CheckRelation
    <3>1. logins # 0 /\ UNCHANGED <<link, logins, exitCode>> /\ (NS!NeverLost => failed' = failed)
      BY <2>4, NetChecks
    <3>2. failed' \cap {"listen", "connect"} = failed \cap {"listen", "connect"}
      BY <2>4 DEF NS!CheckReceived, NS!Rebuild, NS!CheckErrors, NS!CheckRelation, NS!Judge, NS!Fails
    <3>3. QED BY <3>1, <3>2 DEF NS!NeverLost
  <2>5. QED BY <1>1, <2>2, <2>3, <2>4, NetMain
<1>2. CASE NS!LinkUp
  <2>1. logins' = logins + 1 /\ logins \in Nat /\ UNCHANGED <<failed, exitCode>>
    BY <1>2, NetFrames, MeshAssumption DEF NS!LinkUp, NS!Login, NS!TypeOK, NS!MeshTypeOK
  <2>2. QED BY <2>1
<1>3. CASE \/ NetHandler \/ NS!LinkDown \/ (\E s \in NS!Side : NS!OnError(s))
           \/ (\E s \in NS!Side : NS!HubsEnd(s))
  <2>1. UNCHANGED <<logins, failed, exitCode>> /\ (link' => link)
    <3>1. NS!LinkDown => UNCHANGED <<logins, failed, exitCode>> /\ link' = FALSE
      BY DEF NS!LinkDown, NS!LinkLost, NS!verdictVars
    <3>2. CASE NetHandler
      BY <3>2, NetFrames
    <3>3. CASE (\E s \in NS!Side : NS!OnError(s)) \/ (\E s \in NS!Side : NS!HubsEnd(s))
      BY <3>3, NetFrames
    <3>4. QED BY <1>3, <3>1, <3>2, <3>3
  <2>2. QED BY <2>1
<1>4. QED BY <1>1, <1>2, <1>3, NetKinds

LEMMA NetInductive == ASSUME Running, NS!IInv, NetNext PROVE NS!IInv'
BY NetType, NetSetup, NetArrived, NetWarn, NetFailed DEF NS!IInv

LEMMA NetSafe == ASSUME NS!IInv PROVE NS!GateIsBarrier /\ NS!OnlyTimeoutFails
BY DEF NS!IInv, NS!GateIsBarrier, NS!ArrivedInv, NS!SetupInv, NS!FailedInv
-------------------------------------------------------------------------------
(* The four together. *)

LEMMA SubjectSteps ==
  ASSUME Next
  PROVE  /\ Running /\ subject' = subject
         /\ subject = "fieldQuery" => FQ!Next
         /\ subject = "fieldStore" => FS!Next
         /\ subject = "light" => LS!Next
         /\ subject = "net" => NetNext
<1>1. CASE ServerPump
  BY <1>1 DEF ServerPump, Querying, Shipping, Lightly, Managed, FQ!Next, FS!Next, LS!Next, NetNext
<1>2. CASE ClientPump
  BY <1>2 DEF ClientPump, Querying, Shipping, Lightly, Managed, FQ!Next, FS!Next, LS!Next, NetNext
<1>3. CASE Main
  BY <1>3 DEF Main, Querying, Shipping, Lightly, Managed, FQ!Next, FS!Next, LS!Next, NetNext
<1>4. CASE Mesh
  BY <1>4 DEF Mesh, Querying, Shipping, Lightly, Managed, FQ!Next, FS!Next, LS!Next, NetNext
<1>5. QED BY <1>1, <1>2, <1>3, <1>4 DEF Next

LEMMA QueryInit == ASSUME FQ!Init PROVE FQ!IInv /\ FQ!RightInv
<1>1. QP!Init /\ nThrown = 0
  BY DEF FQ!Init, FQ!D!Init, QP!Init, FQ!D!MainInit, QP!MainInit, FQ!D!MeshInit, QP!MeshInit, FQ!D!Side,
     QP!Side, FQ!D!Undecided, QP!Undecided
<1>2. QP!IInv /\ QP!TypeOK
  BY <1>1, QueryInvInductive DEF QP!IInv
<1>3. FQ!D!IInv /\ FQ!D!TypeOK
  BY <1>2, QueryInvIsDirect
<1>4. nExit # 0 /\ nFailed = 0 /\ inbox["client"] = <<>>
  BY <1>1 DEF QP!Init, QP!MainInit, QP!MeshInit, QP!Side, QP!Undecided
<1>5. FQ!IInv
  BY <1>1, <1>3, <1>4 DEF FQ!IInv
<1>6. <<>> \in Seq({FQ!D!ReplyTo(p) : p \in FQ!D!QueryPath})
  BY EmptySeq
<1>7. FQ!RightInv
  BY <1>1, <1>4, <1>6 DEF FQ!RightInv, FQ!OnlyThrowsFail
<1>8. QED BY <1>5, <1>7

LEMMA StoreInit == ASSUME FS!Init PROVE FS!IInv
<1>1. SP!Init
  BY DEF FS!Init, FS!D!Init, SP!Init, FS!D!MainInit, SP!MainInit, FS!D!MeshInit, SP!MeshInit, FS!D!Side,
     SP!Side, FS!D!Undecided, SP!Undecided
<1>2. QED BY <1>1, StoreInvInductive, StoreInvIsDirect

LEMMA LightInit == ASSUME LS!Init PROVE LS!IInv
<1>1. /\ hub = [s \in LS!Side |-> "none"] /\ con = [s \in LS!Side |-> FALSE] /\ link = FALSE
      /\ ack = FALSE /\ logins = 0 /\ inbox = [s \in LS!Side |-> <<>>]
      /\ pc = "create" /\ gate \in {"none", "shut"} /\ store = "library"
      /\ serving = Idle /\ checking = "idle" /\ loaded = 0
      /\ nFailed = 0 /\ mainLoaded = 0 /\ timedOut = FALSE /\ nExit = 4 /\ exitCode = 4
      /\ sending = "idle" /\ sendFile = None /\ recvFile = None /\ agreed = TRUE
  BY DEF LS!Init, LS!L!Init, LS!L!MeshInit, LS!L!Side, LS!Side, LS!L!Undecided
<1>2. LS!TypeOK
  <2>1. <<>> \in Seq({"image"}) /\ 0 \in 0..MaxLogins
    BY EmptySeq, MeshAssumption
  <2>2. inbox \in [LS!Side -> Seq({"image"})] /\ LS!MeshTypeOK
    BY <1>1, <2>1 DEF LS!MeshTypeOK, LS!HubState
  <2>3. LS!L!MainTypeOK
    <3>1. timedOut \in BOOLEAN
      BY <1>1, Zenon
    <3>2. QED BY <1>1, <3>1 DEF LS!L!MainTypeOK, LS!L!MainPC, LS!L!Undecided
  <2>4. agreed \in BOOLEAN
    BY <1>1, Zenon
  <2>5. QED BY <1>1, <2>2, <2>3, <2>4 DEF LS!TypeOK
<1>3. LS!HubInv
  <2>1. "library" # Idle
    BY NothingAssumption
  <2>2. QED BY <1>1, <2>1 DEF LS!HubInv, LS!L!StageInv
<1>4. LS!FailuresInv /\ LS!GateInv /\ LS!FileInv
  BY <1>1 DEF LS!FailuresInv, LS!GateInv, LS!FileInv, LS!L!Undecided
<1>5. LS!OnceInv
  BY <1>1 DEF LS!OnceInv, LS!Unarrived, LS!Side
<1>6. QED BY <1>1, <1>2, <1>3, <1>4, <1>5 DEF LS!IInv, LS!SuccessIsIntact

LEMMA NetInit == ASSUME NS!Init PROVE NS!IInv
<1>1. /\ hub = [s \in NS!Side |-> "none"] /\ con = [s \in NS!Side |-> FALSE] /\ link = FALSE
      /\ ack = FALSE /\ logins = 0 /\ inbox = [s \in NS!Side |-> <<>>]
      /\ pc = "source" /\ serving = Idle /\ nBumped = 0
      /\ owed = [s \in NS!Side |-> <<>>] /\ errors = [k \in NS!ErrorKind |-> 0] /\ failed = {}
  BY DEF NS!Init, NS!MeshInit
<1>2. <<>> \in Seq({"image"}) /\ <<>> \in Seq(NS!ErrorKind) /\ 0 \in 0..MaxLogins
  BY EmptySeq, MeshAssumption
<1>3. NS!TypeOK
  BY <1>1, <1>2 DEF NS!TypeOK, NS!MeshTypeOK, NS!HubState
<1>4. NS!SetupInv
  BY <1>1 DEF NS!SetupInv, NS!Side
<1>5. NS!ArrivedInv /\ NS!WarnInv /\ NS!FailedInv
  BY <1>1 DEF NS!ArrivedInv, NS!WarnInv, NS!NeverLost, NS!FailedInv, NS!OnlyTimeoutFails
<1>6. QED BY <1>3, <1>4, <1>5 DEF NS!IInv

LEMMA IInvInit == Init => IInv /\ RightInv
BY QueryInit, StoreInit, LightInit, NetInit DEF Init, IInv, RightInv

\* A step of the subject keeps its invariant; what the subject does not use is no part of it.
LEMMA IInvNext == ASSUME IInv, Next PROVE IInv'
<1>1. Running /\ subject' = subject
  BY SubjectSteps
<1>2. subject = "fieldQuery" => FQ!IInv'
  BY <1>1, SubjectSteps, QueryInductive DEF IInv
<1>3. subject = "fieldStore" => FS!IInv'
  BY <1>1, SubjectSteps, StoreInductive DEF IInv
<1>4. subject = "light" => LS!IInv'
  BY <1>1, SubjectSteps, LightInductive DEF IInv
<1>5. subject = "net" => NS!IInv'
  BY <1>1, SubjectSteps, NetInductive DEF IInv
<1>6. QED BY <1>1, <1>2, <1>3, <1>4, <1>5 DEF IInv

LEMMA Stutters == ASSUME IInv, UNCHANGED vars PROVE IInv' /\ (RightInv => RightInv')
<1>1. UNCHANGED <<subject, shared, twoHub, nFailed, nExit, store, serving, checking, bSent, queryOnly,
                  sendFile, recvFile, sending, storeOnly, lightOnly, netOnly>>
  BY DEF vars
<1>2. UNCHANGED QP!vars /\ UNCHANGED SP!vars /\ nThrown' = nThrown /\ nFailed' = nFailed
      /\ nExit' = nExit /\ inbox' = inbox /\ subject' = subject
  BY <1>1 DEF shared, twoHub, queryOnly, storeOnly, QP!vars, QP!meshVars, QP!harnessVars, QP!mainVars,
     QP!clientVars, SP!vars, SP!meshVars, SP!harnessVars, SP!mainVars, SP!clientVars, SP!serverVars
<1>3. ASSUME subject = "fieldQuery" PROVE FQ!IInv'
  <2>1. FQ!IInv
    BY <1>3 DEF IInv
  <2>2. QP!TypeOK /\ (nThrown = 0 => QP!IInv)
    BY <2>1, QueryInvIsDirect DEF FQ!IInv
  <2>3. QP!TypeOK' /\ (nThrown = 0 => QP!IInv')
    BY <1>2, <2>2, QueryInvInductive
  <2>4. QED BY <1>2, <2>1, <2>3, QueryInvIsDirect DEF FQ!IInv
<1>4. ASSUME subject = "fieldStore" PROVE FS!IInv'
  <2>1. SP!IInv
    BY <1>4, StoreInvIsDirect DEF IInv
  <2>2. QED BY <1>2, <2>1, StoreInvInductive, StoreInvIsDirect
<1>5. ASSUME subject = "light" PROVE LS!IInv'
  <2>1. LS!IInv
    BY <1>5 DEF IInv
  <2>2. UNCHANGED <<hub, con, link, ack, logins, inbox, pc, nFailed, nExit, exitCode, store, serving,
                    checking, sendFile, recvFile, sending, gate, loaded, mainLoaded, timedOut, agreed>>
    BY <1>1 DEF shared, lightOnly
  <2>3. QED
    BY <2>1, <2>2 DEF LS!IInv, LS!TypeOK, LS!MeshTypeOK, LS!L!MainTypeOK, LS!HubInv, LS!L!StageInv,
       LS!L!Gone, LS!FailuresInv, LS!GateInv, LS!FileInv, LS!OnceInv, LS!Unarrived, LS!SuccessIsIntact
<1>6. ASSUME subject = "net" PROVE NS!IInv'
  <2>1. NS!IInv
    BY <1>6 DEF IInv
  <2>2. UNCHANGED <<hub, con, link, ack, logins, inbox, pc, exitCode, serving, image, fromWho, received,
                    nBumped, owed, errors, failed>>
    BY <1>1 DEF shared, netOnly
  <2>3. QED
    BY <2>1, <2>2 DEF NS!IInv, NS!TypeOK, NS!MeshTypeOK, NS!SetupInv, NS!Running, NS!ArrivedInv,
       NS!WarnInv, NS!NeverLost, NS!nOwed, NS!FailedInv, NS!OnlyTimeoutFails
<1>7. RightInv => RightInv'
  BY <1>2 DEF RightInv, FQ!RightInv, FQ!OnlyThrowsFail
<1>8. QED BY <1>2, <1>3, <1>4, <1>5, <1>6, <1>7 DEF IInv

\* Whatever the tables say, whichever the subject: the invariant the safety properties rest on.
THEOREM Invariant == Spec => []IInv
<1>1. Init => IInv
  BY IInvInit
<1>2. IInv /\ [Next]_vars => IInv'
  BY IInvNext, Stutters
<1>3. QED BY <1>1, <1>2, PTL DEF Spec

\* Success is earned: no lost reply, login or increment of a counter lets a harness exit with
\* 0 on a query unanswered or on a store that did not arrive as it was built.
THEOREM SuccessCorrect == Spec => []SuccessIsIntact
<1>1. IInv => SuccessIsIntact
  BY QuerySafe, StoreSafe DEF IInv, SuccessIsIntact, LS!IInv
<1>2. QED BY <1>1, Invariant, PTL

\* The facade's example destroys its library after both handlers are done with it, and
\* leaves no scratch file when the process ends.
THEOREM LightCorrect == Spec => []LightCleansUp
<1>1. IInv => LightCleansUp
  BY LightCleans DEF IInv, LightCleansUp
<1>2. QED BY <1>1, Invariant, PTL

\* Undisturbed, no harness fails.  That the views' writes agree with what was built, and the
\* table with the catalogue, is what the programs' own CHECKs look for: a table that breaks
\* it is one a harness reports.
THEOREM DisturbanceCorrect ==
  ASSUME ViewsAgree, TableIsRight PROVE Spec => []OnlyDisturbanceFails
<1>1. Init => IInv /\ RightInv
  BY IInvInit
<1>2. IInv /\ RightInv /\ [Next]_vars => IInv' /\ RightInv'
  <2>1. ASSUME IInv, RightInv, Next PROVE RightInv'
    <3>1. Running /\ subject' = subject /\ (subject = "fieldQuery" => FQ!Next /\ FQ!IInv /\ FQ!RightInv)
      BY <2>1, SubjectSteps DEF IInv, RightInv
    <3>2. subject = "fieldQuery" => FQ!RightInv'
      BY <3>1, RightInductive
    <3>3. QED BY <3>1, <3>2 DEF RightInv
  <2>2. QED BY <2>1, IInvNext, Stutters
<1>3. IInv /\ RightInv => OnlyDisturbanceFails
  <2>1. FS!V!Disagreeing = {}
    BY DEF ViewsAgree
  <2>2. QED
    BY <2>1, StoreSafe, NetSafe DEF IInv, RightInv, FQ!RightInv, OnlyDisturbanceFails
<1>4. QED BY <1>1, <1>2, <1>3, PTL DEF Spec
===============================================================================
