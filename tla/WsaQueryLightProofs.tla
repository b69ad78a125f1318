-------------------------- MODULE WsaQueryLightProofs --------------------------
(***************************************************************************)
(* What holds of WsaQueryLight for every table of queries, every catalogue *)
(* and every number of logins.                                             *)
(***************************************************************************)
EXTENDS WsaQueryLight, SequenceTheorems, FiniteSetTheorems, FunctionTheorems, TLAPS

-------------------------------------------------------------------------------
(* The operators of the model. *)

\* What TwoHubProofs says of the queues of any mesh, of the queues of this one.
Queues == INSTANCE TwoHubProofs WITH doneEvent <- gate, gDone <- gate # "none", gaveUp <- {}

LEMMA SameQueues ==
  \A q : Queues!PathsIn(q) = PathsIn(q) /\ (Queues!NoRepeat(q) <=> NoRepeat(q))
BY DEF Queues!PathsIn, PathsIn, Queues!NoRepeat, NoRepeat

LEMMA QueueOperations ==
  ASSUME NEW S, NEW q \in Seq(S)
  PROVE  /\ q # <<>> => Head(q) \in S /\ Tail(q) \in Seq(S)
         /\ \A msgs \in Seq(S) : q \o msgs \in Seq(S)
         /\ \A e \in S : <<e>> \in Seq(S) /\ Append(q, e) \in Seq(S)
         /\ \A n \in 0..Len(q) : SubSeq(q, 1, n) \in Seq(S)
BY MaxLoginsAssumption, Queues!QueueOperations

LEMMA TailPaths ==
  ASSUME NEW S, NEW q \in Seq(S), q # <<>>, NoRepeat(q)
  PROVE  /\ PathsIn(Tail(q)) \subseteq PathsIn(q)
         /\ Head(q).path \in PathsIn(q)
         /\ Head(q).path \notin PathsIn(Tail(q))
         /\ NoRepeat(Tail(q))
BY MaxLoginsAssumption, SameQueues, Queues!TailPaths

LEMMA PostedPaths ==
  ASSUME NEW S, NEW q \in Seq(S), NEW x \in S
  PROVE  /\ PathsIn(q \o <<x>>) = PathsIn(q) \cup {x.path}
         /\ NoRepeat(q) /\ x.path \notin PathsIn(q) => NoRepeat(q \o <<x>>)
BY MaxLoginsAssumption, SameQueues, Queues!PostedPaths

LEMMA CutPaths ==
  ASSUME NEW S, NEW q \in Seq(S), NEW n \in 0..Len(q)
  PROVE  /\ PathsIn(SubSeq(q, 1, n)) \subseteq PathsIn(q)
         /\ NoRepeat(q) => NoRepeat(SubSeq(q, 1, n))
BY MaxLoginsAssumption, SameQueues, Queues!CutPaths

LEMMA EmptyPaths ==
  /\ PathsIn(<<>>) = {} /\ NoRepeat(<<>>)
  /\ \A S : \A q \in Seq(S) : PathsIn(q) = {} => q = <<>>
BY MaxLoginsAssumption, SameQueues, Queues!EmptyPaths

LEMMA QueryPathFacts ==
  /\ kQueryCount \in Nat
  /\ \A i \in 1..kQueryCount : kQueries[i].path \in QueryPath
  /\ Idle \notin Query /\ Idle \notin Catalogues
BY QueriesAssumption, IdleAssumption DEF kQueryCount, QueryPath, Query

\* The table has as many paths as rows.
LEMMA QueryPathCardinality ==
  IsFiniteSet(QueryPath) /\ Cardinality(QueryPath) = kQueryCount
<1> DEFINE f == [i \in 1..kQueryCount |-> kQueries[i].path]
<1>1. f \in Bijection(1..kQueryCount, QueryPath)
  <2>1. f \in [1..kQueryCount -> QueryPath]
    BY QueryPathFacts
  <2>2. \A i, j \in 1..kQueryCount : f[i] = f[j] => i = j
    BY QueriesAssumption DEF kQueryCount
  <2>3. \A p \in QueryPath : \E i \in 1..kQueryCount : f[i] = p
    BY DEF QueryPath
  <2> HIDE DEF f
  <2>4. f \in Injection(1..kQueryCount, QueryPath)
    BY <2>1, <2>2, Fun_IsInj
  <2>5. f \in Surjection(1..kQueryCount, QueryPath)
    BY <2>1, <2>3, Fun_IsSurj
  <2>6. QED BY <2>4, <2>5 DEF Bijection
<1>2. ExistsBijection(1..kQueryCount, QueryPath)
  BY <1>1 DEF ExistsBijection
<1>3. IsFiniteSet(1..kQueryCount) /\ Cardinality(1..kQueryCount) = kQueryCount
  BY QueryPathFacts, FS_Interval
<1>4. QED BY <1>2, <1>3, FS_Bijection

\* The server answers out of a catalogue that may be.
LEMMA AnswerQueryType ==
  ASSUME store \in Catalogues, NEW p \in QueryPath
  PROVE  AnswerQuery(p) \in Reply /\ AnswerQuery(p).path = p
<1> DEFINE Hit == [type |-> store[p].type, value |-> store[p].value, pos |-> 1]
           Miss == [type |-> "MISS", value |-> "", pos |-> 0]
           A == IF p \in DOMAIN store THEN Hit ELSE Miss
<1>1. ASSUME p \in DOMAIN store PROVE Hit \in Answers
  <2> DEFINE Hits(c) == {[type |-> c[n].type, value |-> c[n].value, pos |-> 1] : n \in DOMAIN c}
  <2>1. Hit \in Hits(store)
    BY <1>1
  <2>2. Hits(store) \in {Hits(c) : c \in Catalogues}
    OBVIOUS
  <2>3. Hit \in UNION {Hits(c) : c \in Catalogues}
    BY <2>1, <2>2
  <2>4. QED BY <2>3 DEF Answers
<1>2. Miss \in Answers
  BY DEF Answers
<1>3. A \in Answers
  BY <1>1, <1>2
<1>4. AnswerQuery(p) = [path |-> p, answer |-> A]
  BY DEF AnswerQuery
<1> HIDE DEF A
<1>5. QED BY <1>3, <1>4 DEF Reply

\* A hit is never at position 0, and a reply is a record of three.
LEMMA AnswerFields ==
  ASSUME NEW a \in Answers
  PROVE  /\ a.pos \in {0, 1}
         /\ a = [type |-> a.type, value |-> a.value, pos |-> a.pos]
<1> DEFINE Hits(c) == {[type |-> c[n].type, value |-> c[n].value, pos |-> 1] : n \in DOMAIN c}
<1>1. CASE a = [type |-> "MISS", value |-> "", pos |-> 0]
  BY <1>1
<1>2. CASE a # [type |-> "MISS", value |-> "", pos |-> 0]
  <2>1. a \in UNION {Hits(c) : c \in Catalogues}
    BY <1>2 DEF Answers
  <2>2. PICK c \in Catalogues : a \in Hits(c)
    BY <2>1
  <2>3. PICK n \in DOMAIN c : a = [type |-> c[n].type, value |-> c[n].value, pos |-> 1]
    BY <2>2
  <2>4. QED BY <2>3
<1>3. QED BY <1>1, <1>2

\* A reply fails finitely many checks, so the counter stays a number.
LEMMA FailedChecksFinite ==
  ASSUME NEW r PROVE IsFiniteSet(FailedChecks(r)) /\ Cardinality(FailedChecks(r)) \in Nat
<1> DEFINE All == {"spec", "MISS", "type", "value", "pos"}
<1>1. IsFiniteSet(All)
  <2>1. All = (((({} \cup {"spec"}) \cup {"MISS"}) \cup {"type"}) \cup {"value"}) \cup {"pos"}
    OBVIOUS
  <2> HIDE DEF All
  <2>2. QED BY <2>1, FS_EmptySet, FS_AddElement
<1>2. FailedChecks(r) \subseteq All
  BY DEF FailedChecks
<1> HIDE DEF All
<1>3. QED BY <1>1, <1>2, FS_Subset, FS_CardinalityType

\* A reply that fails no check is the one its query expects.
LEMMA NoFailedCheck ==
  ASSUME NEW r \in Reply, FailedChecks(r) = {} PROVE Expected(r)
<1> DEFINE specs == {q \in {kQueries[i] : i \in 1..kQueryCount} : q.path = r.path}
           s == CHOOSE q \in specs : TRUE
<1>1. specs # {}
  BY DEF Reply, QueryPath
<1>2. s \in specs
  BY <1>1
<1>3. PICK i \in 1..kQueryCount : s = kQueries[i] /\ s.path = r.path
  BY <1>2
<1>4. FailedChecks(r) = IF s.type = "" THEN {"MISS"} \ {r.answer.type}
                        ELSE {c \in {"type", "value"} : r.answer[c] # s[c]}
                               \cup {c \in {"pos"} : r.answer.pos = 0}
  BY <1>1 DEF FailedChecks
<1> HIDE DEF s, specs
<1>5. CASE s.type = ""
  <2>1. {"MISS"} \ {r.answer.type} = {}
    BY <1>4, <1>5
  <2>2. QED BY <1>3, <1>5, <2>1 DEF Expected
<1>6. CASE s.type # ""
  <2>1. {c \in {"type", "value"} : r.answer[c] # s[c]} = {} /\ {c \in {"pos"} : r.answer.pos = 0} = {}
    BY <1>4, <1>6
  <2>2. r.answer["type"] = s["type"] /\ r.answer["value"] = s["value"] /\ r.answer.pos # 0
    BY <2>1
  <2>3. r.answer = [type |-> s.type, value |-> s.value, pos |-> 1]
    BY <2>2, AnswerFields DEF Reply
  <2>4. QED BY <1>3, <1>6, <2>3 DEF Expected
<1>7. QED BY <1>5, <1>6

-------------------------------------------------------------------------------
(* Types. *)

\* Main's steps leave the pumps, the link and the gate alone.
LEMMA MainFrame ==
  ASSUME Main
  PROVE  UNCHANGED <<link, ack, logins, inbox, gate, serving, checking, loaded, nAnswered, seen>>
BY DEF Main, MainOn, Setup, Teardown, Create, CreateServer, CreateClient, CreateHub, Listen, Connect,
   Arm, ErrorThrown, SetupFails, WaitEnds, WaitFails, MainWritesFailed, CloseClient, CloseServer, Close,
   JoinClient, JoinServer, Join, DestroyStore, Verdict, SpawnHub, PostP2PeerCon, CloseHub, Unpumped,
   clientVars, meshVars

LEMMA MainType ==
  ASSUME MeshTypeOK, MainTypeOK, Main
  PROVE  MeshTypeOK' /\ MainTypeOK' /\ store' \in {store, Idle}
<1> USE DEF MeshTypeOK, MainTypeOK, MainPC, HubState, Side, Goto, Quietly, Undecided
<1>1. UNCHANGED <<link, ack, logins, gate>>
  BY MainFrame
<1>2. CASE CreateServer \/ CreateClient
  BY <1>1, <1>2 DEF CreateServer, CreateClient, CreateHub, SpawnHub
<1>3. CASE Listen \/ Connect
  BY <1>1, <1>3 DEF Listen, Connect, Arm, PostP2PeerCon
<1>4. CASE CloseClient \/ CloseServer
  BY <1>1, <1>4 DEF CloseClient, CloseServer, Close, CloseHub
<1>5. CASE Create \/ ErrorThrown \/ SetupFails \/ WaitEnds \/ WaitFails \/ MainWritesFailed
  <2>1. MeshTypeOK' /\ store' = store
    BY <1>1, <1>5 DEF Create, ErrorThrown, SetupFails, WaitEnds, WaitFails, MainWritesFailed, meshVars
  <2>2. timedOut' \in BOOLEAN
    BY <1>5, Zenon DEF Create, ErrorThrown, SetupFails, WaitEnds, WaitFails, MainWritesFailed
  <2>3. CASE Create \/ ErrorThrown \/ SetupFails
    BY <1>1, <2>1, <2>2, <2>3 DEF Create, ErrorThrown, SetupFails
  <2>4. CASE WaitEnds \/ WaitFails \/ MainWritesFailed
    BY <1>1, <2>1, <2>2, <2>4 DEF WaitEnds, WaitFails, MainWritesFailed
  <2>5. QED BY <1>5, <2>3, <2>4
<1>6. CASE JoinClient \/ JoinServer \/ DestroyStore \/ Verdict
  BY <1>1, <1>6 DEF JoinClient, JoinServer, Join, DestroyStore, Verdict, meshVars
<1>7. QED BY <1>2, <1>3, <1>4, <1>5, <1>6 DEF Main, MainOn, Setup, Teardown

LEMMA TypeInductive == ASSUME TypeOK, HubInv, [Next]_vars PROVE TypeOK'
<1> USE DEF TypeOK, QueueTypeOK, PumpTypeOK
<1>1. CASE ServerTakesQuery
  <2>1. Head(inbox["server"]) \in Query /\ Tail(inbox["server"]) \in Seq(Query)
    BY <1>1, QueueOperations DEF ServerTakesQuery
  <2>2. MeshTypeOK' /\ MainTypeOK'
    BY <1>1 DEF ServerTakesQuery, MeshTypeOK, MainTypeOK, mainVars
  <2>3. QED BY <1>1, <2>1, <2>2 DEF ServerTakesQuery, Taken, clientVars, Side
<1>2. CASE ServerReplies
  <2>1. store \in Catalogues /\ serving \in Query /\ serving.path \in QueryPath
    BY <1>2 DEF ServerReplies, HubInv, StageInv, Query, MainPC
  <2>2. inbox["client"] \o <<AnswerQuery(serving.path)>> \in Seq(Reply)
    BY <2>1, AnswerQueryType, QueueOperations
  <2>3. MeshTypeOK' /\ MainTypeOK'
    BY <1>2 DEF ServerReplies, MeshTypeOK, MainTypeOK, mainVars
  <2>4. QED BY <1>2, <2>2, <2>3 DEF ServerReplies, Posted, clientVars, Side
<1>3. CASE OnPeerUp
  <2> DEFINE Queries == [i \in 1..kQueryCount |-> [path |-> kQueries[i].path]]
  <2>1. Queries \in Seq(Query)
    BY QueryPathFacts, IsASeq DEF Query
  <2>2. inbox["server"] \o Queries \in Seq(Query)
    BY <2>1, QueueOperations
  <2>3. QueueTypeOK'
    <3> HIDE DEF Queries
    <3>1. inbox' = inbox \/ inbox' = [inbox EXCEPT !["server"] = @ \o Queries]
      BY <1>3 DEF OnPeerUp, Posted, Queries
    <3>2. QED BY <2>2, <3>1 DEF Side
  <2>4. MeshTypeOK' /\ MainTypeOK'
    BY <1>3 DEF OnPeerUp, MeshTypeOK, MainTypeOK, mainVars
  <2>5. QED BY <1>3, <2>3, <2>4 DEF OnPeerUp, serverVars, clientVars
<1>4. CASE ClientTakesReply
  <2>1. Head(inbox["client"]) \in Reply /\ Tail(inbox["client"]) \in Seq(Reply)
    BY <1>4, QueueOperations DEF ClientTakesReply
  <2>2. QueueTypeOK'
    BY <1>4, <2>1 DEF ClientTakesReply, Taken, Side
  <2>3. loaded' \in Nat
    BY <1>4, FailedChecksFinite DEF ClientTakesReply, MainTypeOK
  <2>4. seen' \subseteq Reply /\ checking' \in {"write", "count"}
    BY <1>4, <2>1 DEF ClientTakesReply
  <2>5. MeshTypeOK' /\ MainTypeOK'
    BY <1>4 DEF ClientTakesReply, MeshTypeOK, MainTypeOK, mainVars
  <2>6. QED BY <1>4, <2>2, <2>3, <2>4, <2>5 DEF ClientTakesReply, serverVars
<1>5. CASE ClientWritesFailed \/ ClientCountsReply \/ ClientOpensGate
  <2>1. MeshTypeOK' /\ QueueTypeOK'
    BY <1>5 DEF ClientWritesFailed, ClientCountsReply, ClientOpensGate, MeshTypeOK, meshVars
  <2>2. MainTypeOK'
    BY <1>5 DEF ClientWritesFailed, ClientCountsReply, ClientOpensGate, MainTypeOK, mainVars
  <2>3. PumpTypeOK'
    BY <1>5 DEF ClientWritesFailed, ClientCountsReply, ClientOpensGate, serverVars
  <2>4. QED BY <2>1, <2>2, <2>3
<1>6. ASSUME NEW s \in Side, PumpEnds(s), Unmeshed PROVE TypeOK'
  <2>1. <<>> \in Seq(Query) /\ <<>> \in Seq(Reply)
    BY EmptySeq
  <2>2. QueueTypeOK'
    BY <1>6, <2>1 DEF PumpEnds, Side
  <2>3. MeshTypeOK'
    BY <1>6 DEF PumpEnds, MeshTypeOK, HubState
  <2>4. PumpTypeOK' /\ MainTypeOK'
    BY <1>6 DEF Unmeshed, serverVars, mainVars, clientVars, MainTypeOK
  <2>5. QED BY <2>2, <2>3, <2>4
<1>7. CASE LinkUp
  <2>1. MeshTypeOK' /\ QueueTypeOK'
    BY <1>7, MaxLoginsAssumption DEF LinkUp, Login, MeshTypeOK
  <2>2. PumpTypeOK' /\ MainTypeOK'
    BY <1>7 DEF LinkUp, Unmeshed, serverVars, mainVars, clientVars, MainTypeOK
  <2>3. QED BY <2>1, <2>2
<1>8. CASE LinkDown
  <2>1. PICK n \in [Side -> 0..(Len(inbox["server"]) + Len(inbox["client"]))] :
          (\A s \in Side : n[s] <= Len(inbox[s])) /\ inbox' = CutTo(n)
    BY <1>8 DEF LinkDown, LinkLost
  <2>2. SubSeq(inbox["server"], 1, n["server"]) \in Seq(Query)
    BY <2>1, QueueOperations, LenProperties DEF Side
  <2>3. SubSeq(inbox["client"], 1, n["client"]) \in Seq(Reply)
    BY <2>1, QueueOperations, LenProperties DEF Side
  <2>4. QueueTypeOK'
    BY <2>1, <2>2, <2>3 DEF CutTo, Side
  <2>5. MeshTypeOK'
    BY <1>8 DEF LinkDown, LinkLost, MeshTypeOK
  <2>6. PumpTypeOK' /\ MainTypeOK'
    BY <1>8 DEF LinkDown, Unmeshed, serverVars, mainVars, clientVars, MainTypeOK
  <2>7. QED BY <2>4, <2>5, <2>6
<1>9. CASE Main
  BY <1>9, MainType, MainFrame
<1>10. CASE UNCHANGED vars
  BY <1>10 DEF vars, meshVars, serverVars, clientVars, mainVars, MeshTypeOK, MainTypeOK
<1>11. QED
  BY <1>1, <1>2, <1>3, <1>4, <1>5, <1>6, <1>7, <1>8, <1>9, <1>10
     DEF Next, ServerPump, ClientPump, Side
-------------------------------------------------------------------------------
(* The inductive invariant, one conjunct at a time. *)

\* A handler only runs while its hub's pump does.
\* Main starts no hub once it has begun to tear down, and waits for each before it goes on.
LEMMA MainHubs ==
  ASSUME MeshTypeOK, StageInv, Main
  PROVE  StageInv' /\ \A s \in Side : Gone(s)' => Gone(s)
<1> USE DEF MeshTypeOK, StageInv, Gone, Side, Goto
<1>1. CASE CreateServer \/ CreateClient \/ Listen \/ Connect
  BY <1>1 DEF CreateServer, CreateClient, CreateHub, Listen, Connect, Arm, SpawnHub, PostP2PeerCon
<1>2. CASE CloseClient \/ CloseServer
  BY <1>2 DEF CloseClient, CloseServer, Close, CloseHub
<1>3. CASE Create \/ ErrorThrown \/ SetupFails \/ WaitEnds \/ WaitFails \/ MainWritesFailed
  BY <1>3 DEF Create, ErrorThrown, SetupFails, WaitEnds, WaitFails, MainWritesFailed, meshVars
<1>4. CASE JoinClient \/ JoinServer \/ DestroyStore \/ Verdict
  BY <1>4 DEF JoinClient, JoinServer, Join, DestroyStore, Verdict, meshVars
<1>5. QED BY <1>1, <1>2, <1>3, <1>4 DEF Main, MainOn, Setup, Teardown

LEMMA HubInductive == ASSUME TypeOK, HubInv, [Next]_vars PROVE HubInv'
<1> USE DEF TypeOK, MeshTypeOK, PumpTypeOK, HubInv, StageInv, Gone, Side
<1>1. CASE ServerTakesQuery \/ ServerReplies
  BY <1>1 DEF ServerTakesQuery, ServerReplies, Pumping, clientVars, mainVars
<1>2. CASE OnPeerUp \/ ClientTakesReply
  BY <1>2 DEF OnPeerUp, ClientTakesReply, Pumping, serverVars, clientVars, mainVars
<1>3. CASE ClientWritesFailed \/ ClientCountsReply \/ ClientOpensGate
  BY <1>3 DEF ClientWritesFailed, ClientCountsReply, ClientOpensGate, meshVars, serverVars, mainVars
<1>4. CASE serving = Idle /\ PumpEnds("server") /\ Unmeshed
  BY <1>4 DEF PumpEnds, Unmeshed, serverVars, clientVars, mainVars
<1>5. CASE checking = "idle" /\ PumpEnds("client") /\ Unmeshed
  BY <1>5 DEF PumpEnds, Unmeshed, serverVars, clientVars, mainVars
<1>6. CASE LinkUp \/ LinkDown
  BY <1>6 DEF LinkUp, Login, LinkDown, LinkLost, Unmeshed, serverVars, clientVars, mainVars
<1>7. CASE Main
  <2>1. UNCHANGED <<serving, checking>>
    BY <1>7, MainFrame
  <2>2. QED BY <1>7, <2>1, MainHubs
<1>8. CASE UNCHANGED vars
  BY <1>8 DEF vars, meshVars, serverVars, clientVars, mainVars
<1>9. QED
  BY <1>1, <1>2, <1>3, <1>4, <1>5, <1>6, <1>7, <1>8 DEF Next, ServerPump, ClientPump

\* Of main, what bears on the failures, and how it gets past its wait.
LEMMA MainFails ==
  ASSUME Main
  PROVE  /\ \/ UNCHANGED <<nFailed, mainLoaded, timedOut>>
               /\ pc' # "writeFailed" /\ pc # "writeFailed"
            \/ nFailed' = nFailed + 1 /\ UNCHANGED <<mainLoaded, timedOut>>
               /\ pc' # "writeFailed" /\ pc # "writeFailed"
            \/ pc' = "writeFailed" /\ mainLoaded' = nFailed + 1 /\ UNCHANGED nFailed
            \/ pc = "writeFailed" /\ nFailed' = mainLoaded /\ UNCHANGED <<mainLoaded, timedOut>>
               /\ pc' # "writeFailed"
         /\ pc' \in {"closeClient", "joinClient", "closeServer", "joinServer", "destroyStore", "verdict"}
              => \/ pc \in {"closeClient", "joinClient", "closeServer", "joinServer", "destroyStore"}
                    /\ UNCHANGED <<nExit, nFailed>>
                 \/ nExit' = 1
                 \/ gate = "open"
                 \/ nFailed' = nFailed + 1
                 \/ pc = "writeFailed" /\ nFailed' = mainLoaded
<1> USE DEF Goto, Quietly
<1>1. CASE Create \/ CreateServer \/ CreateClient \/ Listen \/ Connect
  BY <1>1 DEF Create, CreateServer, CreateClient, CreateHub, Listen, Connect, Arm
<1>2. CASE ErrorThrown \/ SetupFails
  BY <1>2 DEF ErrorThrown, SetupFails
<1>3. CASE WaitEnds \/ WaitFails \/ MainWritesFailed
  BY <1>3 DEF WaitEnds, WaitFails, MainWritesFailed
<1>4. CASE CloseClient \/ CloseServer \/ JoinClient \/ JoinServer
  BY <1>4 DEF CloseClient, CloseServer, Close, JoinClient, JoinServer, Join
<1>5. CASE DestroyStore \/ Verdict
  BY <1>5 DEF DestroyStore, Verdict
<1>6. QED BY <1>1, <1>2, <1>3, <1>4, <1>5 DEF Main, MainOn, Setup, Teardown

\* Whichever thread's write of Failed() comes last, it is not a zero once something failed.
LEMMA FailuresInductive == ASSUME TypeOK, FailuresInv, [Next]_vars PROVE FailuresInv'
<1> USE DEF TypeOK, PumpTypeOK, MainTypeOK, FailuresInv
<1>1. \A r : Expected(r)' = Expected(r)
  BY DEF Expected
<1>2. CASE ClientTakesReply
  <2> DEFINE r == Head(inbox["client"])
             n == Cardinality(FailedChecks(r))
  <2>1. r \in Reply
    BY <1>2, QueueOperations DEF ClientTakesReply, QueueTypeOK
  <2>2. /\ checking = "idle" /\ seen' = seen \cup {r} /\ loaded' = nFailed + n
        /\ checking' = (IF n = 0 THEN "count" ELSE "write")
        /\ UNCHANGED <<pc, nFailed, mainLoaded, timedOut>>
    BY <1>2 DEF ClientTakesReply, mainVars
  <2> HIDE DEF r
  <2>3. n \in Nat /\ (n = 0 => Expected(r))
    BY <2>1, FailedChecksFinite, FS_EmptySet, NoFailedCheck
  <2> HIDE DEF n
  <2>4. QED BY <1>1, <2>2, <2>3
<1>3. CASE ClientWritesFailed
  BY <1>1, <1>3 DEF ClientWritesFailed, mainVars
<1>4. CASE ClientCountsReply \/ ClientOpensGate
  BY <1>1, <1>4 DEF ClientCountsReply, ClientOpensGate, mainVars
<1>5. CASE Main
  <2>1. UNCHANGED <<checking, loaded, seen>>
    BY <1>5, MainFrame
  <2>2. QED BY <1>1, <1>5, <2>1, MainFails
<1>6. CASE UNCHANGED <<pc, nFailed, mainLoaded, timedOut, checking, loaded, seen>>
  BY <1>1, <1>6
<1>7. ServerTakesQuery \/ ServerReplies \/ OnPeerUp \/ Unmeshed \/ UNCHANGED vars
        => UNCHANGED <<pc, nFailed, mainLoaded, timedOut, checking, loaded, seen>>
  BY DEF ServerTakesQuery, ServerReplies, OnPeerUp, Unmeshed, vars, clientVars, mainVars
<1>8. QED
  BY <1>2, <1>3, <1>4, <1>5, <1>6, <1>7 DEF Next, ServerPump, ClientPump, LinkUp, LinkDown

\* Only the count that reaches the size of the table opens the gate.
LEMMA GateInductive == ASSUME TypeOK, FailuresInv, GateInv, [Next]_vars PROVE GateInv'
<1> USE DEF TypeOK, PumpTypeOK, MainTypeOK, GateInv
<1>1. CASE ClientCountsReply
  BY <1>1, QueryPathFacts DEF ClientCountsReply, mainVars
<1>2. CASE ClientOpensGate
  BY <1>2 DEF ClientOpensGate, mainVars
<1>3. CASE ClientTakesReply
  BY <1>3 DEF ClientTakesReply, mainVars
<1>4. CASE ClientWritesFailed
  BY <1>4 DEF ClientWritesFailed, mainVars, FailuresInv
<1>5. CASE Main
  <2>1. UNCHANGED <<gate, checking, nAnswered>>
    BY <1>5, MainFrame
  <2>2. QED BY <1>5, <2>1, MainFails DEF FailuresInv
<1>6. CASE UNCHANGED <<pc, gate, nFailed, nExit, checking, nAnswered>>
  BY <1>6
<1>7. ServerTakesQuery \/ ServerReplies \/ OnPeerUp \/ Unmeshed \/ UNCHANGED vars
        => UNCHANGED <<pc, gate, nFailed, nExit, checking, nAnswered>>
  BY DEF ServerTakesQuery, ServerReplies, OnPeerUp, Unmeshed, vars, clientVars, mainVars
<1>8. QED
  BY <1>1, <1>2, <1>3, <1>4, <1>5, <1>6, <1>7 DEF Next, ServerPump, ClientPump, LinkUp, LinkDown
\* As long as the peer has come up once, a query is posted once and then only moved.
LEMMA OnePlaceInductive ==
  ASSUME TypeOK, OnceInv, HubInv, [Next]_vars, logins' <= 1 PROVE EachQueryInOnePlace'
<1> USE DEF TypeOK, QueueTypeOK
<1>1. CASE ServerTakesQuery
  <2> DEFINE q == inbox["server"]
  <2>1. q \in Seq(Query) /\ q # <<>> /\ logins <= 1
    BY <1>1 DEF ServerTakesQuery
  <2>2. EachQueryInOnePlace
    BY <2>1 DEF OnceInv
  <2>3. /\ PathsIn(Tail(q)) \subseteq PathsIn(q) /\ Head(q).path \in PathsIn(q)
        /\ Head(q).path \notin PathsIn(Tail(q)) /\ NoRepeat(Tail(q))
    BY <2>1, <2>2, TailPaths DEF EachQueryInOnePlace
  <2>4. inbox'["server"] = Tail(q) /\ inbox'["client"] = inbox["client"]
    BY <1>1 DEF ServerTakesQuery, Taken, Side
  <2>5. OnWay' = PathsIn(Tail(q)) /\ OnWayBack' = OnWayBack /\ Counted' = Counted
    BY <1>1, <2>4 DEF OnWay, OnWayBack, Counted, ServerTakesQuery, clientVars
  <2>6. Served' \subseteq {Head(q).path} /\ Served = {} /\ ack' = ack /\ logins' = logins
    BY <1>1 DEF Served, ServerTakesQuery
  <2>7. NoRepeat(inbox["server"])' /\ NoRepeat(inbox["client"])' /\ OnWay = PathsIn(q)
    BY <2>2, <2>3, <2>4 DEF EachQueryInOnePlace, OnWay
  <2> HIDE DEF q
  <2>8. QED BY <2>2, <2>3, <2>5, <2>6, <2>7 DEF EachQueryInOnePlace
<1>2. CASE ServerReplies
  <2> DEFINE q == inbox["client"]
             x == AnswerQuery(serving.path)
  <2>1. serving \in Query /\ serving # Idle /\ store \in Catalogues
    BY <1>2 DEF ServerReplies, PumpTypeOK, HubInv, StageInv, MainPC
  <2>2. x.path = serving.path /\ x \in Reply
    BY <2>1, AnswerQueryType DEF Query
  <2>3. Served = {x.path} /\ Served' = {}
    BY <1>2, <2>1, <2>2 DEF Served, ServerReplies
  <2>4. inbox'["server"] = inbox["server"]
        /\ (inbox'["client"] = q \/ inbox'["client"] = q \o <<x>>)
    BY <1>2 DEF ServerReplies, Posted, Side
  <2> HIDE DEF q, x
  <2>5. EachQueryInOnePlace /\ q \in Seq(Reply)
    BY <1>2 DEF ServerReplies, OnceInv, q
  <2>6. PathsIn(q \o <<x>>) = PathsIn(q) \cup {x.path}
        /\ (NoRepeat(q) /\ x.path \notin PathsIn(q) => NoRepeat(q \o <<x>>))
    BY <2>2, <2>5, PostedPaths
  <2>7. OnWay' = OnWay /\ Counted' = Counted /\ ack' = ack /\ logins' = logins
    BY <1>2, <2>4 DEF OnWay, Counted, ServerReplies, clientVars
  <2>8. OnWayBack = PathsIn(q) /\ OnWayBack' \subseteq PathsIn(q) \cup {x.path}
    BY <2>4, <2>6 DEF OnWayBack, q
  <2>9. NoRepeat(inbox["server"])' /\ NoRepeat(inbox["client"])'
    <3>1. NoRepeat(q) /\ NoRepeat(inbox["server"]) /\ x.path \notin PathsIn(q)
      BY <2>3, <2>5, <2>8 DEF EachQueryInOnePlace, q
    <3>2. QED BY <2>4, <2>6, <3>1
  <2>10. QED BY <2>3, <2>5, <2>7, <2>8, <2>9 DEF EachQueryInOnePlace
<1>3. CASE OnPeerUp
  <2> DEFINE Queries == [i \in 1..kQueryCount |-> [path |-> kQueries[i].path]]
             q == inbox["server"]
  <2>1. EachQueryInOnePlace /\ ack
    BY <1>3 DEF OnPeerUp, OnceInv
  <2>2. OnWay = {} /\ Served = {} /\ OnWayBack = {} /\ Counted = {}
    BY <2>1 DEF EachQueryInOnePlace
  <2>3. Served' = Served /\ Counted' = Counted /\ ack' = FALSE /\ logins' = logins
    BY <1>3 DEF Served, Counted, OnPeerUp, serverVars, clientVars
  <2>4. q = <<>>
    BY <2>2, EmptyPaths DEF OnWay
  <2>5. Queries \in Seq(Query) /\ Len(Queries) = kQueryCount
    BY QueryPathFacts, IsASeq, LenProperties DEF Query
  <2>6. q \o Queries = Queries
    BY <2>4, <2>5, ConcatEmptySeq
  <2>7. NoRepeat(Queries)
    BY <2>5, QueriesAssumption DEF NoRepeat, kQueryCount
  <2> HIDE DEF Queries, q
  <2>8. inbox'["client"] = inbox["client"]
        /\ (inbox'["server"] = q \/ inbox'["server"] = q \o Queries)
    BY <1>3 DEF OnPeerUp, Posted, Side, Queries, q
  <2>9. NoRepeat(inbox["server"])' /\ NoRepeat(inbox["client"])'
    BY <2>1, <2>6, <2>7, <2>8 DEF EachQueryInOnePlace, q
  <2>10. OnWayBack' = {} /\ logins' # 0
    BY <2>1, <2>2, <2>3, <2>8 DEF OnWayBack, EachQueryInOnePlace
  <2>11. QED BY <2>2, <2>3, <2>9, <2>10 DEF EachQueryInOnePlace
<1>4. CASE ClientTakesReply
  <2> DEFINE q == inbox["client"]
  <2>1. q \in Seq(Reply) /\ q # <<>> /\ EachQueryInOnePlace
    BY <1>4 DEF ClientTakesReply, OnceInv
  <2>2. /\ PathsIn(Tail(q)) \subseteq PathsIn(q) /\ Head(q).path \in PathsIn(q)
        /\ Head(q).path \notin PathsIn(Tail(q)) /\ NoRepeat(Tail(q))
    BY <2>1, TailPaths DEF EachQueryInOnePlace
  <2>3. inbox'["client"] = Tail(q) /\ inbox'["server"] = inbox["server"]
    BY <1>4 DEF ClientTakesReply, Taken, Side
  <2>4. /\ OnWay' = OnWay /\ OnWayBack' = PathsIn(Tail(q)) /\ Served' = Served
        /\ ack' = ack /\ logins' = logins
    BY <1>4, <2>3 DEF OnWay, OnWayBack, Served, ClientTakesReply, serverVars
  <2>5. Counted' = Counted \cup {Head(q).path}
    BY <1>4 DEF Counted, ClientTakesReply
  <2>6. NoRepeat(inbox["server"])' /\ NoRepeat(inbox["client"])'
    BY <2>1, <2>2, <2>3 DEF EachQueryInOnePlace
  <2>7. OnWayBack = PathsIn(q)
    BY DEF OnWayBack
  <2> HIDE DEF q
  <2>8. ~(ack \/ logins = 0)
    BY <2>1, <2>2, <2>7 DEF EachQueryInOnePlace
  <2>9. QED BY <2>1, <2>2, <2>4, <2>5, <2>6, <2>7, <2>8 DEF EachQueryInOnePlace
<1>5. ASSUME NEW s \in Side, PumpEnds(s), Unmeshed PROVE EachQueryInOnePlace'
  <2>1. Served' = Served /\ Counted' = Counted /\ (ack' => ack) /\ logins' = logins
    BY <1>5 DEF PumpEnds, Served, Counted, Unmeshed, serverVars, clientVars
  <2>2. (inbox'["server"] = inbox["server"] \/ inbox'["server"] = <<>>)
        /\ (inbox'["client"] = inbox["client"] \/ inbox'["client"] = <<>>)
    BY <1>5 DEF PumpEnds, Side
  <2>3. EachQueryInOnePlace
    BY <2>1 DEF OnceInv
  <2>4. OnWay' \subseteq OnWay /\ OnWayBack' \subseteq OnWayBack
        /\ NoRepeat(inbox["server"])' /\ NoRepeat(inbox["client"])'
    BY <2>2, <2>3, EmptyPaths DEF OnWay, OnWayBack, EachQueryInOnePlace
  <2>5. QED BY <2>1, <2>3, <2>4 DEF EachQueryInOnePlace
<1>6. CASE LinkDown
  <2>1. PICK n \in [Side -> 0..(Len(inbox["server"]) + Len(inbox["client"]))] :
          (\A s \in Side : n[s] <= Len(inbox[s])) /\ inbox' = CutTo(n)
    BY <1>6 DEF LinkDown, LinkLost
  <2>2. /\ n["server"] \in 0..Len(inbox["server"]) /\ n["client"] \in 0..Len(inbox["client"])
        /\ inbox'["server"] = SubSeq(inbox["server"], 1, n["server"])
        /\ inbox'["client"] = SubSeq(inbox["client"], 1, n["client"])
    BY <2>1, LenProperties DEF CutTo, Side
  <2>3. Served' = Served /\ Counted' = Counted /\ ack' = ack /\ logins' = logins
    BY <1>6 DEF LinkDown, LinkLost, Served, Counted, Unmeshed, serverVars, clientVars
  <2>4. EachQueryInOnePlace
    BY <2>3 DEF OnceInv
  <2>5. OnWay' \subseteq OnWay /\ NoRepeat(inbox["server"])'
    BY <2>2, <2>4, CutPaths DEF OnWay, EachQueryInOnePlace
  <2>6. OnWayBack' \subseteq OnWayBack /\ NoRepeat(inbox["client"])'
    BY <2>2, <2>4, CutPaths DEF OnWayBack, EachQueryInOnePlace
  <2>7. QED BY <2>3, <2>4, <2>5, <2>6 DEF EachQueryInOnePlace
<1>7. CASE LinkUp
  <2>1. logins' = logins + 1 /\ UNCHANGED <<inbox, serving, seen>>
    BY <1>7 DEF LinkUp, Login, Unmeshed, serverVars, clientVars
  <2>2. logins = 0
    BY <2>1, MaxLoginsAssumption DEF MeshTypeOK
  <2>3. EachQueryInOnePlace
    BY <2>2 DEF OnceInv
  <2>4. OnWay' = OnWay /\ Served' = Served /\ OnWayBack' = OnWayBack /\ Counted' = Counted
    BY <2>1 DEF OnWay, Served, OnWayBack, Counted
  <2>5. logins' # 0
    BY <2>1, <2>2
  <2>6. QED BY <2>1, <2>2, <2>3, <2>4, <2>5 DEF EachQueryInOnePlace
<1>8. CASE UNCHANGED <<inbox, serving, seen, ack, logins>>
  BY <1>8 DEF OnceInv, EachQueryInOnePlace, OnWay, Served, OnWayBack, Counted
<1>9. ClientWritesFailed \/ ClientCountsReply \/ ClientOpensGate \/ UNCHANGED vars
        => UNCHANGED <<inbox, serving, seen, ack, logins>>
  BY DEF ClientWritesFailed, ClientCountsReply, ClientOpensGate, vars, meshVars, serverVars,
     clientVars
<1>10. Main => UNCHANGED <<inbox, serving, seen, ack, logins>>
  BY MainFrame
<1>11. QED
  BY <1>1, <1>2, <1>3, <1>4, <1>5, <1>6, <1>7, <1>8, <1>9, <1>10
     DEF Next, ServerPump, ClientPump, Side

\* Then a reply that is taken is one that has not been counted.
LEMMA CountInductive ==
  ASSUME TypeOK, OnceInv, [Next]_vars, logins' <= 1 PROVE CountedOnce'
<1> USE DEF TypeOK, PumpTypeOK
<1>1. logins <= 1
  <2>1. logins \in Nat
    BY MaxLoginsAssumption DEF MeshTypeOK
  <2>2. logins' = logins \/ logins' = logins + 1
    BY MainFrame
       DEF Next, ServerPump, ClientPump, ServerTakesQuery, ServerReplies, OnPeerUp, ClientTakesReply,
           ClientWritesFailed, ClientCountsReply, ClientOpensGate, PumpEnds, LinkUp, LinkDown, Login,
           LinkLost, vars, meshVars
  <2>3. QED BY <2>1, <2>2
<1>2. EachQueryInOnePlace /\ CountedOnce
  BY <1>1 DEF OnceInv
<1>3. CASE ClientTakesReply
  <2> DEFINE r == Head(inbox["client"])
  <2>1. r.path \in OnWayBack
    BY <1>2, <1>3, TailPaths
       DEF ClientTakesReply, EachQueryInOnePlace, OnWayBack, QueueTypeOK
  <2>2. r.path \notin Counted
    BY <1>2, <2>1 DEF EachQueryInOnePlace
  <2>3. Counted' = Counted \cup {r.path} /\ nAnswered' = nAnswered /\ checking = "idle"
        /\ checking' \in {"write", "count"}
    BY <1>3 DEF ClientTakesReply, Counted
  <2> HIDE DEF r
  <2>4. IsFiniteSet(Counted') /\ Cardinality(Counted') = Cardinality(Counted) + 1
    BY <1>2, <2>2, <2>3, FS_AddElement DEF CountedOnce
  <2>5. Cardinality(Counted) = nAnswered
    BY <1>2, <2>3 DEF CountedOnce
  <2>6. QED BY <2>3, <2>4, <2>5 DEF CountedOnce
<1>4. CASE ClientCountsReply
  <2>1. Counted' = Counted /\ checking = "count" /\ nAnswered' = nAnswered + 1
        /\ checking' \notin {"write", "count"}
    BY <1>4 DEF ClientCountsReply, Counted
  <2>2. IsFiniteSet(Counted) /\ Cardinality(Counted) = nAnswered + 1
    BY <1>2, <2>1 DEF CountedOnce
  <2>3. IsFiniteSet(Counted') /\ Cardinality(Counted') = nAnswered' + 0
    BY <2>1, <2>2
  <2>4. QED BY <2>1, <2>3 DEF CountedOnce
<1>5. CASE ClientWritesFailed \/ ClientOpensGate
  <2>1. Counted' = Counted /\ nAnswered' = nAnswered
        /\ (checking \in {"write", "count"} <=> checking' \in {"write", "count"})
    BY <1>5 DEF ClientWritesFailed, ClientOpensGate, Counted
  <2>2. QED BY <1>2, <2>1 DEF CountedOnce
<1>6. CASE UNCHANGED <<seen, nAnswered, checking>>
  BY <1>2, <1>6 DEF CountedOnce, Counted
<1>7. ServerTakesQuery \/ ServerReplies \/ OnPeerUp \/ Unmeshed \/ UNCHANGED vars
        => UNCHANGED <<seen, nAnswered, checking>>
  BY DEF ServerTakesQuery, ServerReplies, OnPeerUp, Unmeshed, vars, clientVars
<1>8. Main => UNCHANGED <<seen, nAnswered, checking>>
  BY MainFrame
<1>9. QED
  BY <1>3, <1>4, <1>5, <1>6, <1>7, <1>8 DEF Next, ServerPump, ClientPump, LinkUp, LinkDown

LEMMA OnceInductive == ASSUME TypeOK, OnceInv, HubInv, [Next]_vars PROVE OnceInv'
BY OnePlaceInductive, CountInductive DEF OnceInv

\* A counter that has reached the size of the table has counted every query.
LEMMA AllCounted ==
  ASSUME TypeOK, OnceInv, logins <= 1, nAnswered >= kQueryCount, checking = "idle"
  PROVE  Counted = QueryPath
<1>1. Counted \subseteq QueryPath
  BY DEF TypeOK, PumpTypeOK, Counted, Reply
<1>2. Cardinality(Counted) \in Nat /\ Cardinality(Counted) <= kQueryCount
      /\ (Cardinality(Counted) = kQueryCount => Counted = QueryPath)
  BY <1>1, QueryPathCardinality, FS_Subset, FS_CardinalityType
<1>3. Cardinality(Counted) = nAnswered
  BY DEF OnceInv, CountedOnce, TypeOK, PumpTypeOK
<1>4. QED BY <1>2, <1>3, QueryPathFacts DEF TypeOK, PumpTypeOK

\* Main sets the exit code by its verdict and by nothing else.
LEMMA MainVerdict == ASSUME Main PROVE Verdict \/ exitCode' = exitCode
BY DEF Main, MainOn, Setup, Teardown, Create, CreateServer, CreateClient, CreateHub, Listen, Connect,
   Arm, ErrorThrown, SetupFails, WaitEnds, WaitFails, MainWritesFailed, CloseClient, CloseServer, Close,
   JoinClient, JoinServer, Join, DestroyStore, Quietly

\* Main takes its verdict when the pump that counts is gone.
LEMMA SuccessInductive ==
  ASSUME IInv, [Next]_vars PROVE SuccessIsRight'
<1> USE DEF IInv
<1>1. ASSUME UNCHANGED <<exitCode, timedOut, seen, logins>> PROVE SuccessIsRight'
  <2>1. \A x : Expected(x)' = Expected(x)
    BY DEF Expected
  <2>2. Confirmed' = Confirmed
    BY <1>1 DEF Confirmed, Expected
  <2>3. QED BY <1>1, <2>1, <2>2 DEF SuccessIsRight
<1>2. CASE UNCHANGED vars
  BY <1>1, <1>2 DEF vars, meshVars, clientVars, mainVars
<1>3. CASE Next /\ Verdict
  <2>1. UNCHANGED <<timedOut, seen, logins>> /\ pc = "verdict"
    BY <1>3 DEF Verdict, Unpumped, clientVars, meshVars
  <2>2. SUFFICES ASSUME exitCode' = 0 PROVE SuccessIsRight'
    BY DEF SuccessIsRight
  <2>3. nExit # 1 /\ nFailed = 0
    BY <1>3, <2>2 DEF Verdict
  <2>4. checking = "idle" /\ nAnswered >= kQueryCount
    BY <2>1, <2>3 DEF HubInv, StageInv, GateInv
  <2>5. ~timedOut /\ \A r \in seen : Expected(r)
    BY <2>1, <2>3, <2>4 DEF FailuresInv
  <2>6. logins <= 1 => Confirmed = QueryPath
    <3>1. Confirmed = Counted
      BY <2>5 DEF Confirmed, Counted
    <3>2. QED BY <2>4, <3>1, AllCounted
  <2>7. QED BY <2>1, <2>5, <2>6 DEF SuccessIsRight, Confirmed, Expected
<1>4. CASE Next /\ ~Verdict
  <2>1. exitCode' = exitCode /\ exitCode = Undecided
    <3>1. CASE Main
      BY <1>4, <3>1, MainVerdict DEF Next, Running
    <3>2. CASE ~Main
      BY <1>4, <3>2 DEF Next, Running, ServerPump, ClientPump, ServerTakesQuery, ServerReplies,
         OnPeerUp, ClientTakesReply, ClientWritesFailed, ClientCountsReply, ClientOpensGate, LinkUp,
         LinkDown, Unmeshed, mainVars
    <3>3. QED BY <3>1, <3>2
  <2>2. QED BY <2>1 DEF SuccessIsRight, Undecided
<1>5. QED BY <1>2, <1>3, <1>4
-------------------------------------------------------------------------------
(* The theorems. *)

LEMMA IInvInit == Init => IInv
<1> SUFFICES ASSUME Init PROVE IInv
  OBVIOUS
<1>1. inbox["server"] = <<>> /\ inbox["client"] = <<>>
  BY DEF Init, MeshInit, Side
<1>2. OnWay = {} /\ OnWayBack = {} /\ Served = {} /\ Counted = {}
  BY <1>1, EmptyPaths DEF Init, OnWay, OnWayBack, Served, Counted
<1>3. OnceInv
  BY <1>1, <1>2, EmptyPaths, FS_EmptySet DEF Init, MeshInit, OnceInv, EachQueryInOnePlace, CountedOnce
<1>4. FailuresInv /\ SuccessIsRight
  BY DEF Init, FailuresInv, SuccessIsRight, Undecided
<1>5. GateInv /\ HubInv
  BY IdleAssumption DEF Init, MeshInit, GateInv, HubInv, StageInv, Gone, Side
<1>6. MeshTypeOK
  <2>1. link \in BOOLEAN /\ ack \in BOOLEAN /\ con \in [Side -> BOOLEAN]
    BY DEF Init, MeshInit
  <2>2. logins \in 0..MaxLogins /\ hub \in [Side -> HubState]
    BY MaxLoginsAssumption DEF Init, MeshInit, HubState
  <2>3. QED BY <2>1, <2>2 DEF MeshTypeOK
<1>7. QueueTypeOK
  BY <1>1, EmptySeq DEF Init, MeshInit, QueueTypeOK, Side
<1>8. PumpTypeOK
  BY DEF Init, PumpTypeOK
<1>9. MainTypeOK
  <2>1. timedOut \in BOOLEAN
    BY DEF Init
  <2>2. QED BY <2>1 DEF Init, MainTypeOK, MainPC, Undecided
<1>10. QED BY <1>3, <1>4, <1>5, <1>6, <1>7, <1>8, <1>9 DEF IInv, TypeOK

LEMMA IInvInductive == IInv /\ [Next]_vars => IInv'
BY TypeInductive, OnceInductive, FailuresInductive, GateInductive, HubInductive, SuccessInductive
   DEF IInv

\* The invariant the others rest on: what each of the two threads that write Failed() may
\* lose, what the gate stands for, whose pump a destructor has waited for and, on a
\* peer that has come up once, where each query is.
THEOREM Invariant == Spec => []IInv
BY IInvInit, IInvInductive, PTL DEF Spec

\* Every variable keeps to its values, and the exit code to the contract.
THEOREM TypeCorrect == Spec => []TypeOK
<1>1. IInv => TypeOK
  BY DEF IInv
<1>2. QED BY <1>1, Invariant, PTL

\* Exit code 0 means no failed wait and no wrong reply, although two threads increment
\* Failed() without a lock, and no missing reply unless the peer has come up again.
THEOREM SuccessCorrect == Spec => []SuccessIsRight
<1>1. IInv => SuccessIsRight
  BY DEF IInv
<1>2. QED BY <1>1, Invariant, PTL

\* The store outlives the handlers that read it, without a lock on it.
THEOREM DestructionCorrect == Spec => []NoUseAfterDestruction
<1>1. IInv => NoUseAfterDestruction
  BY DEF IInv, HubInv, StageInv, NoUseAfterDestruction
<1>2. QED BY <1>1, Invariant, PTL

\* Nothing counts any more while main takes its verdict.
THEOREM VerdictCorrect == Spec => VerdictIsFinal
<1>1. IInv /\ [Next]_vars => [pc = "verdict" => UNCHANGED <<nFailed, nAnswered>>]_vars
  <2> SUFFICES ASSUME IInv, Next, pc = "verdict" PROVE UNCHANGED <<nFailed, nAnswered>>
    OBVIOUS
  <2>1. checking = "idle" /\ ~Pumping("client")
    BY DEF IInv, HubInv, StageInv, Gone, Pumping
  <2>2. ~ClientTakesReply /\ ~ClientWritesFailed /\ ~ClientCountsReply
    BY <2>1 DEF ClientTakesReply, ClientWritesFailed, ClientCountsReply
  <2>3. Main => UNCHANGED <<nFailed, nAnswered>>
    <3>1. Main => Verdict
      BY DEF Main, MainOn, Setup, Teardown, Create, CreateServer, CreateClient, CreateHub, Listen,
         Connect, Arm, ErrorThrown, SetupFails, WaitEnds, WaitFails, MainWritesFailed, CloseClient,
         CloseServer, Close, JoinClient, JoinServer, Join, DestroyStore
    <3>2. QED BY <3>1 DEF Verdict, Unpumped, clientVars
  <2>4. QED
    BY <2>2, <2>3 DEF Next, ServerPump, ClientPump, LinkUp, LinkDown, ServerTakesQuery, ServerReplies,
       OnPeerUp, ClientOpensGate, Unmeshed, clientVars
<1>2. QED BY <1>1, Invariant, PTL DEF Spec, VerdictIsFinal
===============================================================================
