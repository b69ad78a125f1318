------------------------- MODULE WsaQueryDirectProofs -------------------------
(***************************************************************************)
(* What holds of WsaQueryDirect for every table of queries, every          *)
(* catalogue and every number of logins.                                   *)
(***************************************************************************)
EXTENDS WsaQueryDirect, TwoHubProofs, FiniteSetTheorems, FunctionTheorems

-------------------------------------------------------------------------------
(* The operators of the model. *)

LEMMA QueryPathFacts ==
  /\ kQueryCount \in Nat
  /\ QueryPath \subseteq Text
  /\ \A i \in 1..kQueryCount : kQueries[i].path \in QueryPath
  /\ Idle \notin Query
<1> DEFINE Spec1 == [path : Text, type : Text, value : Text]
<1>1. kQueries \in Seq(Spec1) /\ kQueryCount \in Nat
  BY QueriesAssumption DEF kQueryCount
<1>2. \A i \in 1..kQueryCount : kQueries[i] \in Spec1
  BY <1>1, ElementOfSeq DEF kQueryCount
<1>3. \A i \in 1..kQueryCount : kQueries[i].path \in Text
  BY <1>2
<1>4. QED BY <1>1, <1>3, IdleAssumption DEF QueryPath, Query

LEMMA ReplyToType == ASSUME NEW p \in QueryPath PROVE ReplyTo(p) \in Reply
<1> DEFINE Hit == [type |-> Catalogue[p].type, value |-> Catalogue[p].value, pos |-> 1]
           Answers == [type : Text, value : Text, pos : {0, 1}]
           A == IF p \in DOMAIN Catalogue THEN Hit ELSE MISS
<1>1. p \in DOMAIN Catalogue => Hit \in Answers
  BY CatalogueAssumption
<1>2. MISS \in Answers
  BY TextAssumption DEF MISS
<1>3. A \in Answers
  BY <1>1, <1>2
<1>4. ReplyTo(p) = [path |-> p, answer |-> A]
  BY DEF ReplyTo
<1> HIDE DEF A
<1>5. QED BY <1>3, <1>4 DEF Reply

\* A reply fails finitely many checks, so the counter stays a number.
LEMMA FailedChecksFinite ==
  ASSUME NEW r PROVE IsFiniteSet(FailedChecks(r)) /\ Cardinality(FailedChecks(r)) \in Nat
<1> DEFINE All == {"spec", "MISS", "type", "value", "pos"}
<1>1. IsFiniteSet(All)
  <2>1. All = (((({} \cup {"spec"}) \cup {"MISS"}) \cup {"type"}) \cup {"value"}) \cup {"pos"}
    OBVIOUS
  <2> HIDE DEF All
  <2>2. QED BY <2>1, FS_EmptySet, FS_AddElement
<1>2. FailedChecks(r) \subseteq All
  BY DEF FailedChecks
<1> HIDE DEF All
<1>3. QED BY <1>1, <1>2, FS_Subset, FS_CardinalityType

-------------------------------------------------------------------------------
(* Types. *)

\* Main's step in this example is one of the harness's.
LEMMA QueryMainIsMain ==
  ASSUME QueryMain
  PROVE  Main /\ UNCHANGED <<serving, checking, bSent, nAnswered, seen, inbox, link, ack, logins,
                             nFailed>>
<1>1. Main /\ UNCHANGED <<serving, checking, bSent, nAnswered, seen>>
  BY DEF QueryMain, QueryMainOn, BuildCatalogue, DeleteStore, Unpumped, clientVars, Main
<1>2. QED BY <1>1, MainLeavesPumps

\* The pumps and the link keep the queues and the pumps' own variables typed.
LEMMA TypeInductive == ASSUME TypeOK, [Next]_vars PROVE TypeOK'
<1> USE DEF TypeOK, QueueTypeOK, PumpTypeOK, MeshTypeOK, MainTypeOK
<1>1. CASE ServerTakesQuery
  <2>1. Head(inbox["server"]) \in Query /\ Tail(inbox["server"]) \in Seq(Query)
    BY <1>1, QueueOperations DEF ServerTakesQuery
  <2>2. QED BY <1>1, <2>1 DEF ServerTakesQuery, Taken, harnessVars, mainVars, clientVars, Side
<1>2. CASE On_StoreQuery
  <2>1. ReplyTo(serving.path) \in Reply
    BY <1>2, ReplyToType DEF On_StoreQuery, Query
  <2>2. inbox["client"] \o <<ReplyTo(serving.path)>> \in Seq(Reply)
    BY <2>1, QueueOperations
  <2>3. QED BY <1>2, <2>2 DEF On_StoreQuery, Posted, harnessVars, mainVars, clientVars, Side
<1>3. CASE On_ConLoginAck
  <2> DEFINE Queries == [i \in 1..kQueryCount |-> [path |-> kQueries[i].path]]
  <2>1. Queries \in Seq(Query)
    BY QueryPathFacts, IsASeq DEF Query
  <2>2. inbox["server"] \o Queries \in Seq(Query)
    BY <2>1, QueueOperations
  <2>3. QueueTypeOK'
    <3> HIDE DEF Queries
    <3>1. inbox' = inbox \/ inbox' = [inbox EXCEPT !["server"] = @ \o Queries]
      BY <1>3 DEF On_ConLoginAck, Posted, Queries
    <3>2. QED BY <2>2, <3>1 DEF Side
  <2>4. ack' \in BOOLEAN /\ bSent' \in BOOLEAN
    BY <1>3, Zenon DEF On_ConLoginAck
  <2>5. QED BY <1>3, <2>3, <2>4 DEF On_ConLoginAck, harnessVars, mainVars
<1>4. CASE ClientChecksReply
  <2>1. Head(inbox["client"]) \in Reply /\ Tail(inbox["client"]) \in Seq(Reply)
    BY <1>4, QueueOperations DEF ClientChecksReply
  <2>2. QueueTypeOK'
    BY <1>4, <2>1 DEF ClientChecksReply, Taken, Side
  <2>3. nFailed' \in Nat
    BY <1>4, FailedChecksFinite DEF ClientChecksReply
  <2>4. seen' \subseteq Reply
    BY <1>4, <2>1 DEF ClientChecksReply
  <2>5. PumpTypeOK'
    BY <1>4, <2>4 DEF ClientChecksReply
  <2>6. MeshTypeOK' /\ MainTypeOK'
    BY <1>4, <2>3 DEF ClientChecksReply, mainVars
  <2>7. QED BY <2>2, <2>5, <2>6
<1>5. CASE ClientCountsReply
  BY <1>5 DEF ClientCountsReply, meshVars, harnessVars, mainVars
<1>6. CASE ClientSignals
  BY <1>6 DEF ClientSignals, SetDone, meshVars, mainVars
<1>7. ASSUME NEW s \in Side, PumpEnds(s), Unmeshed PROVE TypeOK'
  <2>1. <<>> \in Seq(Query) /\ <<>> \in Seq(Reply)
    BY EmptySeq
  <2>2. QueueTypeOK'
    BY <1>7, <2>1 DEF PumpEnds, Side
  <2>3. MeshTypeOK'
    BY <1>7 DEF PumpEnds, HubState
  <2>4. PumpTypeOK' /\ MainTypeOK'
    BY <1>7 DEF Unmeshed, harnessVars, mainVars, clientVars
  <2>5. QED BY <2>2, <2>3, <2>4
<1>8. CASE QueryMain
  <2>1. MeshTypeOK' /\ MainTypeOK'
    BY <1>8, QueryMainIsMain, MainType
  <2>2. store' \in {"none", "live", "deleted"}
    BY <1>8 DEF QueryMain, QueryMainOn, BuildCatalogue, DeleteStore
  <2>3. QED BY <1>8, <2>1, <2>2, QueryMainIsMain
<1>9. CASE LinkUp
  BY <1>9, MaxLoginsAssumption DEF LinkUp, Login, Unmeshed, harnessVars, mainVars, clientVars
<1>10. CASE LinkDown
  <2>1. PICK n \in [Side -> 0..(Len(inbox["server"]) + Len(inbox["client"]))] :
          (\A s \in Side : n[s] <= Len(inbox[s])) /\ inbox' = CutTo(n)
    BY <1>10 DEF LinkDown, LinkLost
  <2>2. SubSeq(inbox["server"], 1, n["server"]) \in Seq(Query)
    BY <2>1, QueueOperations, LenProperties DEF Side
  <2>3. SubSeq(inbox["client"], 1, n["client"]) \in Seq(Reply)
    BY <2>1, QueueOperations, LenProperties DEF Side
  <2>4. QueueTypeOK'
    BY <2>1, <2>2, <2>3 DEF CutTo, Side
  <2>5. MeshTypeOK'
    BY <1>10 DEF LinkDown, LinkLost
  <2>6. PumpTypeOK' /\ MainTypeOK'
    BY <1>10 DEF LinkDown, Unmeshed, harnessVars, mainVars, clientVars
  <2>7. QED BY <2>4, <2>5, <2>6
<1>11. CASE Asserts
  BY <1>11 DEF Asserts, AssertReportHook, Goto, Unpumped, meshVars, clientVars
<1>12. CASE UNCHANGED vars
  BY <1>12 DEF vars, meshVars, harnessVars, mainVars, clientVars
<1>13. QED
  BY <1>1, <1>2, <1>3, <1>4, <1>5, <1>6, <1>7, <1>8, <1>9, <1>10, <1>11, <1>12
     DEF Next, ServerPump, ClientPump, Side

LEMMA TypeInit == Init => TypeOK
<1>1. <<>> \in Seq(Query) /\ <<>> \in Seq(Reply)
  BY EmptySeq
<1>2. Init => QueueTypeOK
  BY <1>1 DEF Init, MainInit, MeshInit, QueueTypeOK, Side
<1>3. Init => bSent \in BOOLEAN
  BY Zenon DEF Init
<1>4. Init => PumpTypeOK
  BY <1>3 DEF Init, PumpTypeOK
<1>5. QED BY <1>2, <1>4, MainInitType DEF Init, TypeOK

\* Type correctness, with the exit codes of the contract, of the whole example.
THEOREM TypeCorrect == Spec => []TypeOK
BY TypeInit, TypeInductive, PTL DEF Spec

-------------------------------------------------------------------------------
(* The table and the replies. *)

\* The table has as many paths as rows.
LEMMA QueryPathCardinality ==
  IsFiniteSet(QueryPath) /\ Cardinality(QueryPath) = kQueryCount
<1> DEFINE f == [i \in 1..kQueryCount |-> kQueries[i].path]
<1>1. kQueryCount \in Nat
  BY QueryPathFacts
<1>2. f \in Bijection(1..kQueryCount, QueryPath)
  <2>1. f \in [1..kQueryCount -> QueryPath]
    BY QueryPathFacts
  <2>2. \A i, j \in 1..kQueryCount : f[i] = f[j] => i = j
    BY QueriesAssumption
  <2>3. \A p \in QueryPath : \E i \in 1..kQueryCount : f[i] = p
    BY DEF QueryPath
  <2> HIDE DEF f
  <2>4. f \in Injection(1..kQueryCount, QueryPath)
    BY <2>1, <2>2, Fun_IsInj
  <2>5. f \in Surjection(1..kQueryCount, QueryPath)
    BY <2>1, <2>3, Fun_IsSurj
  <2>6. QED BY <2>4, <2>5 DEF Bijection
<1>3. ExistsBijection(1..kQueryCount, QueryPath)
  BY <1>2 DEF ExistsBijection
<1>4. IsFiniteSet(1..kQueryCount) /\ Cardinality(1..kQueryCount) = kQueryCount
  BY <1>1, FS_Interval
<1>5. QED BY <1>3, <1>4, FS_Bijection

\* The counters speak for the whole table when the count has reached its size.
LEMMA AllCounted ==
  ASSUME TypeOK, CountersInv, nAnswered >= kQueryCount
  PROVE  Counted = QueryPath /\ checking # "count"
<1>1. Counted \subseteq QueryPath
  BY DEF TypeOK, PumpTypeOK, Counted, Reply
<1>2. Cardinality(Counted) \in Nat /\ Cardinality(Counted) <= kQueryCount
      /\ (Cardinality(Counted) = kQueryCount => Counted = QueryPath)
  BY <1>1, QueryPathCardinality, FS_Subset, FS_CardinalityType DEF CountersInv
<1>3. nAnswered \in Nat /\ kQueryCount \in Nat
  BY QueryPathFacts DEF TypeOK, PumpTypeOK
<1>4. CASE checking = "count"
  <2>1. Cardinality(Counted) = nAnswered + 1
    BY <1>4 DEF CountersInv
  <2>2. QED BY <1>2, <1>3, <2>1
<1>5. CASE checking # "count"
  <2>1. Cardinality(Counted) = nAnswered
    BY <1>3, <1>5 DEF CountersInv
  <2>2. Cardinality(Counted) = kQueryCount
    BY <1>2, <1>3, <2>1
  <2>3. QED BY <1>2, <1>5, <2>2
<1>6. QED BY <1>4, <1>5

\* The search of the handler finds the row the path belongs to.
LEMMA SpecOfRow ==
  ASSUME NEW p \in QueryPath
  PROVE  \E i \in 1..kQueryCount : kQueries[i].path = p /\ SpecOf(p) = kQueries[i]
<1> DEFINE First(i) == kQueries[i].path = p /\ \A j \in 1..(i - 1) : kQueries[j].path # p
<1>1. PICK i \in 1..kQueryCount : kQueries[i].path = p
  BY DEF QueryPath
<1>2. First(i)
  BY <1>1, QueriesAssumption, QueryPathFacts
<1>3. \E k \in 1..kQueryCount : First(k)
  BY <1>2
<1>4. PICK k \in 1..kQueryCount : k = (CHOOSE n \in 1..kQueryCount : First(n)) /\ First(k)
  BY <1>3
<1>5. SpecOf(p) = kQueries[k]
  BY <1>4 DEF SpecOf
<1>6. QED BY <1>4, <1>5

\* A reply that fails no check is the one its query expects.
LEMMA NoFailedCheck ==
  ASSUME NEW r \in Reply, FailedChecks(r) = {} PROVE Expected(r)
<1>1. PICK i \in 1..kQueryCount : kQueries[i].path = r.path /\ SpecOf(r.path) = kQueries[i]
  BY SpecOfRow DEF Reply
<1>2. r.path \in QueryPath
  BY DEF Reply
<1>3. CASE kQueries[i].type = ""
  <2>1. {"MISS"} \ {r.answer.type} = {}
    BY <1>1, <1>2, <1>3 DEF FailedChecks
  <2>2. QED BY <1>1, <1>3, <2>1 DEF Expected
<1>4. CASE kQueries[i].type # ""
  <2>1. FailedChecks(r) = {c \in {"type", "value"} : r.answer[c] # kQueries[i][c]}
                            \cup {c \in {"pos"} : r.answer.pos = 0}
    BY <1>1, <1>2, <1>4 DEF FailedChecks
  <2>2. r.answer["type"] = kQueries[i]["type"] /\ r.answer["value"] = kQueries[i]["value"]
    BY <2>1
  <2>3. r.answer.pos # 0
    BY <2>1
  <2>4. QED BY <1>1, <1>4, <2>2, <2>3 DEF Expected
<1>5. QED BY <1>3, <1>4

-------------------------------------------------------------------------------
(* The inductive invariant, one conjunct at a time. *)

\* A query is posted once and then only moved from one place to the next.
LEMMA OnePlaceInductive ==
  ASSUME IInv, [Next]_vars PROVE EachQueryInOnePlace'
<1> USE DEF IInv, TypeOK, QueueTypeOK
<1>1. CASE ServerTakesQuery
  <2> DEFINE q == inbox["server"]
  <2>1. q \in Seq(Query) /\ q # <<>> /\ NoRepeat(q)
    BY <1>1 DEF ServerTakesQuery, EachQueryInOnePlace
  <2>2. /\ PathsIn(Tail(q)) \subseteq PathsIn(q) /\ Head(q).path \in PathsIn(q)
        /\ Head(q).path \notin PathsIn(Tail(q)) /\ NoRepeat(Tail(q))
    BY <2>1, TailPaths
  <2>3. inbox'["server"] = Tail(q) /\ inbox'["client"] = inbox["client"]
    BY <1>1 DEF ServerTakesQuery, Taken, Side
  <2>4. OnWay' = PathsIn(Tail(q)) /\ OnWayBack' = OnWayBack /\ Counted' = Counted
    BY <1>1, <2>3 DEF OnWay, OnWayBack, Counted, ServerTakesQuery, clientVars
  <2>5. Served' \subseteq {Head(q).path} /\ Served = {}
    BY <1>1 DEF Served, ServerTakesQuery
  <2>6. bSent' = bSent
    BY <1>1 DEF ServerTakesQuery, clientVars
  <2>7. NoRepeat(inbox["server"])' /\ NoRepeat(inbox["client"])'
    BY <2>2, <2>3 DEF EachQueryInOnePlace
  <2> HIDE DEF q
  <2>8. QED
    <3>1. OnWay = PathsIn(q)
      BY DEF OnWay, q
    <3>2. QED BY <2>2, <2>4, <2>5, <2>6, <2>7, <3>1 DEF EachQueryInOnePlace
<1>2. CASE On_StoreQuery
  <2> DEFINE q == inbox["client"]
             x == ReplyTo(serving.path)
  <2>1. serving \in Query /\ serving # Idle /\ x.path = serving.path /\ x \in Reply
    BY <1>2, ReplyToType DEF On_StoreQuery, PumpTypeOK, ReplyTo, Query
  <2>2. Served = {x.path} /\ Served' = {}
    BY <1>2, <2>1 DEF Served, On_StoreQuery
  <2>3. inbox'["server"] = inbox["server"]
        /\ (inbox'["client"] = q \/ inbox'["client"] = q \o <<x>>)
    BY <1>2 DEF On_StoreQuery, Posted, Side
  <2> HIDE DEF q, x
  <2>4. q \in Seq(Reply)
    BY DEF q
  <2>5. PathsIn(q \o <<x>>) = PathsIn(q) \cup {x.path}
        /\ (NoRepeat(q) /\ x.path \notin PathsIn(q) => NoRepeat(q \o <<x>>))
    BY <2>1, <2>4, PostedPaths
  <2>6. OnWay' = OnWay /\ Counted' = Counted /\ bSent' = bSent
    BY <1>2, <2>3 DEF OnWay, Counted, On_StoreQuery, clientVars
  <2>7. OnWayBack = PathsIn(q) /\ OnWayBack' \subseteq PathsIn(q) \cup {x.path}
    BY <2>3, <2>5 DEF OnWayBack, q
  <2>8. NoRepeat(inbox["server"])' /\ NoRepeat(inbox["client"])'
    <3>1. NoRepeat(q) /\ NoRepeat(inbox["server"]) /\ x.path \notin PathsIn(q)
      BY <2>2, <2>7 DEF EachQueryInOnePlace, q
    <3>2. QED BY <2>3, <2>5, <3>1
  <2>9. QED BY <2>2, <2>6, <2>7, <2>8 DEF EachQueryInOnePlace
<1>3. CASE On_ConLoginAck
  <2> DEFINE Queries == [i \in 1..kQueryCount |-> [path |-> kQueries[i].path]]
             q == inbox["server"]
  <2>1. Served' = Served /\ Counted' = Counted /\ bSent' = TRUE
    BY <1>3 DEF Served, Counted, On_ConLoginAck
  <2>2. CASE bSent
    BY <1>3, <2>1, <2>2 DEF On_ConLoginAck, EachQueryInOnePlace, OnWay, OnWayBack
  <2>3. CASE ~bSent
    <3>1. OnWay = {} /\ Served = {} /\ OnWayBack = {} /\ Counted = {}
      BY <2>3 DEF EachQueryInOnePlace
    <3>2. q = <<>>
      BY <3>1, EmptyPaths DEF OnWay
    <3>3. Queries \in Seq(Query) /\ Len(Queries) = kQueryCount
      BY QueryPathFacts, IsASeq, LenProperties DEF Query
    <3>4. q \o Queries = Queries
      BY <3>2, <3>3, ConcatEmptySeq
    <3>5. NoRepeat(Queries)
      BY <3>3, QueriesAssumption DEF NoRepeat
    <3> HIDE DEF Queries, q
    <3>6. inbox'["client"] = inbox["client"]
          /\ (inbox'["server"] = q \/ inbox'["server"] = q \o Queries)
      BY <1>3 DEF On_ConLoginAck, Posted, Side, Queries, q
    <3>7. NoRepeat(inbox["server"])' /\ NoRepeat(inbox["client"])'
      BY <3>4, <3>5, <3>6 DEF EachQueryInOnePlace, q
    <3>8. OnWayBack' = {}
      BY <3>1, <3>6 DEF OnWayBack
    <3>9. QED BY <2>1, <3>1, <3>7, <3>8 DEF EachQueryInOnePlace
  <2>4. QED BY <2>2, <2>3
<1>4. CASE ClientChecksReply
  <2> DEFINE q == inbox["client"]
  <2>1. q \in Seq(Reply) /\ q # <<>> /\ NoRepeat(q)
    BY <1>4 DEF ClientChecksReply, EachQueryInOnePlace
  <2>2. /\ PathsIn(Tail(q)) \subseteq PathsIn(q) /\ Head(q).path \in PathsIn(q)
        /\ Head(q).path \notin PathsIn(Tail(q)) /\ NoRepeat(Tail(q))
    BY <2>1, TailPaths
  <2>3. inbox'["client"] = Tail(q) /\ inbox'["server"] = inbox["server"]
    BY <1>4 DEF ClientChecksReply, Taken, Side
  <2>4. OnWay' = OnWay /\ OnWayBack' = PathsIn(Tail(q)) /\ Served' = Served /\ bSent' = bSent
    BY <1>4, <2>3 DEF OnWay, OnWayBack, Served, ClientChecksReply
  <2>5. Counted' = Counted \cup {Head(q).path}
    BY <1>4 DEF Counted, ClientChecksReply
  <2>6. NoRepeat(inbox["server"])' /\ NoRepeat(inbox["client"])'
    BY <2>2, <2>3 DEF EachQueryInOnePlace
  <2>7. OnWayBack = PathsIn(q)
    BY DEF OnWayBack
  <2> HIDE DEF q
  <2>8. bSent
    BY <2>2, <2>7 DEF EachQueryInOnePlace
  <2>9. QED BY <2>2, <2>4, <2>5, <2>6, <2>7, <2>8 DEF EachQueryInOnePlace
<1>5. ASSUME NEW s \in Side, PumpEnds(s), Unmeshed PROVE EachQueryInOnePlace'
  <2>1. Served' = Served /\ Counted' = Counted /\ bSent' = bSent
    BY <1>5 DEF Served, Counted, Unmeshed, clientVars
  <2>2. (inbox'["server"] = inbox["server"] \/ inbox'["server"] = <<>>)
        /\ (inbox'["client"] = inbox["client"] \/ inbox'["client"] = <<>>)
    BY <1>5 DEF PumpEnds, Side
  <2>3. OnWay' \subseteq OnWay /\ OnWayBack' \subseteq OnWayBack
        /\ NoRepeat(inbox["server"])' /\ NoRepeat(inbox["client"])'
    BY <2>2, EmptyPaths DEF OnWay, OnWayBack, EachQueryInOnePlace
  <2>4. QED BY <2>1, <2>3 DEF EachQueryInOnePlace
<1>6. CASE LinkDown
  <2>1. PICK n \in [Side -> 0..(Len(inbox["server"]) + Len(inbox["client"]))] :
          (\A s \in Side : n[s] <= Len(inbox[s])) /\ inbox' = CutTo(n)
    BY <1>6 DEF LinkDown, LinkLost
  <2>2. /\ n["server"] \in 0..Len(inbox["server"]) /\ n["client"] \in 0..Len(inbox["client"])
        /\ inbox'["server"] = SubSeq(inbox["server"], 1, n["server"])
        /\ inbox'["client"] = SubSeq(inbox["client"], 1, n["client"])
    BY <2>1, LenProperties DEF CutTo, Side
  <2>3. OnWay' \subseteq OnWay /\ NoRepeat(inbox["server"])'
    BY <2>2, CutPaths DEF OnWay, EachQueryInOnePlace
  <2>4. OnWayBack' \subseteq OnWayBack /\ NoRepeat(inbox["client"])'
    BY <2>2, CutPaths DEF OnWayBack, EachQueryInOnePlace
  <2>5. Served' = Served /\ Counted' = Counted /\ bSent' = bSent
    BY <1>6 DEF LinkDown, Served, Counted, Unmeshed, clientVars
  <2>6. QED BY <2>3, <2>4, <2>5 DEF EachQueryInOnePlace
<1>7. CASE UNCHANGED <<inbox, serving, seen, bSent>>
  BY <1>7 DEF EachQueryInOnePlace, OnWay, Served, OnWayBack, Counted
<1>8. ClientCountsReply \/ ClientSignals \/ LinkUp \/ Asserts \/ UNCHANGED vars
        => UNCHANGED <<inbox, serving, seen, bSent>>
  BY DEF ClientCountsReply, ClientSignals, LinkUp, Login, Unmeshed, Asserts, AssertReportHook,
     Unpumped, vars, meshVars, clientVars
<1>9. QueryMain => UNCHANGED <<inbox, serving, seen, bSent>>
  BY QueryMainIsMain
<1>10. QED
  BY <1>1, <1>2, <1>3, <1>4, <1>5, <1>6, <1>7, <1>8, <1>9 DEF Next, ServerPump, ClientPump, Side

\* Each reply that is checked is counted once, and a failure stays on record.
LEMMA CountersInductive ==
  ASSUME IInv, [Next]_vars PROVE CountersInv'
<1> USE DEF IInv, TypeOK, PumpTypeOK, MainTypeOK
<1>1. CASE ClientChecksReply
  <2> DEFINE r == Head(inbox["client"])
  <2>1. r \in Reply /\ r.path \in OnWayBack
    BY <1>1, TailPaths, QueueOperations
       DEF ClientChecksReply, EachQueryInOnePlace, OnWayBack, QueueTypeOK
  <2>2. r.path \notin Counted
    BY <2>1 DEF EachQueryInOnePlace
  <2>3. Counted' = Counted \cup {r.path} /\ seen' = seen \cup {r}
        /\ nFailed' = nFailed + Cardinality(FailedChecks(r))
        /\ nAnswered' = nAnswered /\ checking = "idle" /\ checking' = "count"
    BY <1>1 DEF ClientChecksReply, Counted
  <2> HIDE DEF r
  <2>4. IsFiniteSet(Counted') /\ Cardinality(Counted') = Cardinality(Counted) + 1
    BY <2>2, <2>3, FS_AddElement DEF CountersInv
  <2>5. Cardinality(Counted) = nAnswered
    BY <2>3 DEF CountersInv
  <2>6. ASSUME nFailed' = 0 PROVE \A x \in seen' : Expected(x)
    <3>1. nFailed = 0 /\ Cardinality(FailedChecks(r)) = 0
      BY <2>3, <2>6, FailedChecksFinite
    <3>2. FailedChecks(r) = {}
      BY <3>1, FailedChecksFinite, FS_EmptySet
    <3>3. Expected(r)
      BY <2>1, <3>2, NoFailedCheck
    <3>4. QED BY <2>3, <3>1, <3>3 DEF CountersInv
  <2>7. \A x : Expected(x)' = Expected(x)
    BY DEF Expected
  <2>8. QED BY <2>3, <2>4, <2>5, <2>6, <2>7 DEF CountersInv
<1>2. CASE ClientCountsReply
  <2>1. Counted' = Counted /\ seen' = seen /\ nFailed' = nFailed /\ checking = "count"
        /\ nAnswered' = nAnswered + 1 /\ checking' # "count"
    BY <1>2 DEF ClientCountsReply, harnessVars, Counted
  <2>2. IsFiniteSet(Counted) /\ Cardinality(Counted) = nAnswered + 1
    BY <2>1 DEF CountersInv
  <2>3. IsFiniteSet(Counted') /\ Cardinality(Counted') = nAnswered' + 0
    BY <2>1, <2>2
  <2>4. nFailed' = 0 => \A x \in seen' : Expected(x)
    BY <2>1 DEF CountersInv
  <2>5. \A x : Expected(x)' = Expected(x)
    BY DEF Expected
  <2>6. QED BY <2>1, <2>3, <2>4, <2>5 DEF CountersInv
<1>3. CASE ClientSignals
  <2>1. Counted' = Counted /\ seen' = seen /\ nFailed' = nFailed /\ nAnswered' = nAnswered
        /\ checking # "count" /\ checking' # "count"
    BY <1>3 DEF ClientSignals, Counted
  <2>2. QED BY <2>1 DEF CountersInv, Expected
<1>4. CASE UNCHANGED <<seen, nFailed, nAnswered, checking>>
  BY <1>4 DEF CountersInv, Counted, Expected
<1>5. ServerTakesQuery \/ On_StoreQuery \/ On_ConLoginAck \/ Unmeshed \/ Asserts
        \/ UNCHANGED vars => UNCHANGED <<seen, nFailed, nAnswered, checking>>
  BY DEF ServerTakesQuery, On_StoreQuery, On_ConLoginAck, Unmeshed, Asserts, AssertReportHook,
     Unpumped, vars, harnessVars, clientVars
<1>6. QueryMain => UNCHANGED <<seen, nFailed, nAnswered, checking>>
  BY QueryMainIsMain
<1>7. QED
  BY <1>1, <1>2, <1>3, <1>4, <1>5, <1>6 DEF Next, ServerPump, ClientPump, LinkUp, LinkDown

\* Only the count that reaches the size of the table leads to the event.
LEMMA DoneInductive ==
  ASSUME IInv, [Next]_vars PROVE DoneInv'
<1> USE DEF IInv, TypeOK, PumpTypeOK, MainTypeOK
<1>1. CASE ClientCountsReply
  <2>1. nAnswered' = nAnswered + 1 /\ doneEvent' = doneEvent /\ pc' = pc
        /\ (checking' = "signal" => nAnswered + 1 >= kQueryCount)
    BY <1>1 DEF ClientCountsReply, harnessVars, mainVars
  <2>2. QED BY <2>1, QueryPathFacts DEF DoneInv
<1>2. CASE ClientSignals
  BY <1>2 DEF ClientSignals, SetDone, DoneInv, mainVars
<1>3. CASE ClientChecksReply
  BY <1>3 DEF ClientChecksReply, DoneInv, mainVars
<1>4. CASE QueryMain
  BY <1>4, QueryMainIsMain, MainEvent DEF DoneInv
<1>5. CASE UNCHANGED <<nAnswered, checking, doneEvent>> /\ (pc' = pc \/ pc' = "exited")
  BY <1>5 DEF DoneInv
<1>6. ServerTakesQuery \/ On_StoreQuery \/ On_ConLoginAck \/ Unmeshed \/ Asserts
        \/ UNCHANGED vars
        => UNCHANGED <<nAnswered, checking, doneEvent>> /\ (pc' = pc \/ pc' = "exited")
  BY DEF ServerTakesQuery, On_StoreQuery, On_ConLoginAck, Unmeshed, Asserts, AssertReportHook,
     Unpumped, vars, clientVars, harnessVars, mainVars, Goto
<1>7. QED
  BY <1>1, <1>2, <1>3, <1>4, <1>5, <1>6
     DEF Next, ServerPump, ClientPump, LinkUp, LinkDown

\* What main tears down, the pump that uses it has let go of.
LEMMA TeardownInductive ==
  ASSUME IInv, [Next]_vars PROVE TeardownInv'
<1> USE DEF IInv, TypeOK, MeshTypeOK, PumpTypeOK, MainTypeOK, Side, TeardownInv, MainTeardownInv
<1>1. CASE ServerTakesQuery \/ On_StoreQuery
  BY <1>1 DEF ServerTakesQuery, On_StoreQuery, Pumping, Ended, SetupPC, harnessVars, mainVars,
     clientVars
<1>2. CASE On_ConLoginAck
  BY <1>2 DEF On_ConLoginAck, Ended, SetupPC, harnessVars, mainVars
<1>3. CASE ClientChecksReply
  BY <1>3 DEF ClientChecksReply, Pumping, Ended, SetupPC, mainVars
<1>4. CASE ClientCountsReply \/ ClientSignals
  BY <1>4 DEF ClientCountsReply, ClientSignals, SetDone, Ended, SetupPC, meshVars, harnessVars,
     mainVars
<1>5. CASE serving = Idle /\ PumpEnds("server") /\ Unmeshed
  BY <1>5 DEF PumpEnds, Unmeshed, Ended, SetupPC, harnessVars, mainVars, clientVars
<1>6. CASE checking = "idle" /\ PumpEnds("client") /\ Unmeshed
  BY <1>6 DEF PumpEnds, Unmeshed, Ended, SetupPC, harnessVars, mainVars, clientVars
<1>7. CASE LinkUp \/ LinkDown
  BY <1>7 DEF LinkUp, Login, LinkDown, LinkLost, Unmeshed, Ended, SetupPC, harnessVars, mainVars,
     clientVars
<1>8. CASE QueryMain
  <2>1. Main /\ UNCHANGED <<serving, checking, bSent, link, ack>>
    BY <1>8, QueryMainIsMain
  <2>2. MainTeardownInv'
    BY <2>1, MainTeardown
  <2>3. /\ hub'["client"] = "stopped" => hub["client"] = "stopped"
        /\ hub'["server"] = "stopped" => hub["server"] = "stopped"
        /\ con'["client"] = con["client"] \/ pc = "dial"
        /\ Ended("server") /\ pc \notin SetupPC => Ended("server")'
        /\ pc \notin SetupPC => pc' \notin SetupPC
    BY <2>1, MainKeepsEnded
  <2>4. store' = store \/ (store' = "live" /\ pc = "startup") \/ (store' = "deleted" /\ pc = "return")
    BY <1>8 DEF QueryMain, QueryMainOn, BuildCatalogue, Startup, DeleteStore, DestroyHubs
  <2>5. ~con'["client"] => ~con["client"]
    BY <1>8, QueryMainIsMain, MainCons
  <2>6. QED BY <2>1, <2>2, <2>3, <2>4, <2>5 DEF SetupPC
<1>9. CASE Asserts
  BY <1>9 DEF Asserts, AssertReportHook, Unpumped, Goto, Ended, SetupPC, meshVars, clientVars
<1>10. CASE UNCHANGED vars
  BY <1>10 DEF vars, Ended, SetupPC, meshVars, harnessVars, mainVars, clientVars
<1>11. QED
  BY <1>1, <1>2, <1>3, <1>4, <1>5, <1>6, <1>7, <1>8, <1>9, <1>10
     DEF Next, ServerPump, ClientPump

\* Main decides for 0 only after the event and with no failure on record.
LEMMA SuccessInductive ==
  ASSUME IInv, [Next]_vars PROVE SuccessIsComplete'
<1> USE DEF IInv
<1>1. Confirmed \subseteq QueryPath /\ Confirmed' \subseteq QueryPath
  BY TypeInductive DEF Confirmed, TypeOK, PumpTypeOK, Reply
<1>2. seen \subseteq seen'
  <2>1. QueryMain => seen' = seen
    BY QueryMainIsMain
  <2>2. QED
    BY <2>1 DEF Next, ServerPump, ClientPump, LinkUp, LinkDown, ServerTakesQuery, On_StoreQuery,
       On_ConLoginAck, ClientChecksReply, ClientCountsReply, ClientSignals, Unmeshed,
       Asserts, Unpumped, vars, clientVars
<1>3. Confirmed \subseteq Confirmed'
  BY <1>2 DEF Confirmed, Expected
<1>4. CASE nExit' = nExit
  BY <1>1, <1>3, <1>4 DEF SuccessIsComplete
<1>5. CASE nExit' # 0
  BY <1>5 DEF SuccessIsComplete
<1>6. CASE pc = "verdict" /\ nFailed = 0
  <2>1. nAnswered >= kQueryCount
    BY <1>6 DEF DoneInv
  <2>2. Counted = QueryPath
    BY <2>1, AllCounted
  <2>3. \A r \in seen : Expected(r)
    BY <1>6 DEF CountersInv
  <2>4. Confirmed = QueryPath
    BY <2>2, <2>3 DEF Confirmed, Counted
  <2>5. QED BY <1>1, <1>3, <2>4 DEF SuccessIsComplete
<1>7. QueryMain => nExit' = nExit \/ nExit' # 0 \/ (pc = "verdict" /\ nFailed = 0)
  BY QueryMainIsMain, MainDecides
<1>8. ~QueryMain => nExit' = nExit
  BY DEF Next, ServerPump, ClientPump, LinkUp, LinkDown, ServerTakesQuery, On_StoreQuery,
     On_ConLoginAck, ClientChecksReply, ClientCountsReply, ClientSignals, Unmeshed,
     Asserts, AssertReportHook, vars, harnessVars, mainVars
<1>9. QED BY <1>4, <1>5, <1>6, <1>7, <1>8

-------------------------------------------------------------------------------
(* The theorems. *)

LEMMA IInvInit == Init => IInv
<1> SUFFICES ASSUME Init PROVE IInv
  OBVIOUS
<1>1. inbox["server"] = <<>> /\ inbox["client"] = <<>>
  BY DEF Init, MainInit, MeshInit, Side
<1>2. OnWay = {} /\ OnWayBack = {} /\ Served = {} /\ Counted = {}
  BY <1>1, EmptyPaths DEF Init, OnWay, OnWayBack, Served, Counted
<1>3. EachQueryInOnePlace
  BY <1>1, <1>2, EmptyPaths DEF EachQueryInOnePlace
<1>4. CountersInv
  BY <1>2, FS_EmptySet DEF Init, MainInit, CountersInv
<1>5. DoneInv /\ SuccessIsComplete
  BY DEF Init, MainInit, DoneInv, SuccessIsComplete, Undecided
<1>6. TeardownInv
  BY DEF Init, MainInit, MeshInit, TeardownInv, MainTeardownInv, SetupPC, Ended, Side
<1>7. QED BY <1>3, <1>4, <1>5, <1>6, TypeInit DEF IInv

LEMMA IInvInductive == IInv /\ [Next]_vars => IInv'
BY TypeInductive, OnePlaceInductive, CountersInductive, DoneInductive, TeardownInductive,
   SuccessInductive DEF IInv

\* The invariant the safety theorems rest on: where each query is, what the
\* counters count, what the event and what the teardown stand for.
THEOREM Invariant == Spec => []IInv
BY IInvInit, IInvInductive, PTL DEF Spec

\* Exit code 0 means that every query has had the answer expected for it.
THEOREM SuccessCorrect == Spec => []SuccessIsComplete
<1>1. IInv => SuccessIsComplete
  BY DEF IInv
<1>2. QED BY <1>1, Invariant, PTL

\* g_nAnswered counts distinct queries, also over a repeated login.
THEOREM CountsQueriesCorrect == Spec => []CountsQueries
<1>1. IInv => CountsQueries
  BY DEF IInv, TypeOK, PumpTypeOK, CountersInv, CountsQueries, Counted
<1>2. QED BY <1>1, Invariant, PTL

\* Nothing is used after main has torn it down, unless main gave up on the thread.
THEOREM TeardownCorrect == Spec => []NoUseAfterTeardown
<1>1. IInv => NoUseAfterTeardown
  <2> SUFFICES ASSUME IInv PROVE NoUseAfterTeardown
    OBVIOUS
  <2>1. serving # Idle => bSent
    BY DEF IInv, EachQueryInOnePlace, Served
  <2>2. QED BY <2>1 DEF IInv, TeardownInv, MainTeardownInv, Ended, NoUseAfterTeardown
<1>2. QED BY <1>1, Invariant, PTL

\* The event is a barrier: after it the counters main reads are final.
THEOREM BarrierCorrect == Spec => DoneIsBarrier
<1>1. IInv /\ [Next]_vars =>
        [doneEvent = "set" \/ pc = "verdict" => UNCHANGED <<nFailed, nAnswered>>]_vars
  <2> SUFFICES ASSUME IInv, Next, doneEvent = "set" \/ pc = "verdict"
               PROVE  UNCHANGED <<nFailed, nAnswered>>
    OBVIOUS
  <2>1. Counted = QueryPath /\ checking # "count"
    BY AllCounted DEF IInv, DoneInv
  <2>2. ~ClientCountsReply
    BY <2>1 DEF ClientCountsReply
  <2>3. ~ClientChecksReply
    <3> SUFFICES ASSUME ClientChecksReply PROVE FALSE
      OBVIOUS
    <3>1. Head(inbox["client"]) \in Reply /\ Head(inbox["client"]).path \in OnWayBack
      BY TailPaths, QueueOperations
         DEF ClientChecksReply, IInv, TypeOK, QueueTypeOK, EachQueryInOnePlace, OnWayBack
    <3>2. Head(inbox["client"]).path \in Counted
      BY <2>1, <3>1 DEF Reply
    <3>3. QED BY <3>1, <3>2 DEF IInv, EachQueryInOnePlace
  <2>4. QueryMain => UNCHANGED <<nFailed, nAnswered>>
    BY QueryMainIsMain
  <2>5. QED
    BY <2>2, <2>3, <2>4 DEF Next, ServerPump, ClientPump, LinkUp, LinkDown, ServerTakesQuery,
       On_StoreQuery, On_ConLoginAck, ClientSignals, Unmeshed, Asserts, AssertReportHook,
       Unpumped, harnessVars, clientVars
<1>2. QED BY <1>1, Invariant, PTL DEF Spec, DoneIsBarrier
-------------------------------------------------------------------------------
(* The query service. *)

\* Only On_StoreReply adds to the replies; only the end of main and the assert hook
\* give the process its code.
LEMMA ServiceVariables ==
  ASSUME IInv, Next
  PROVE  /\ exitCode = Undecided
         /\ Confirmed \subseteq Confirmed' /\ Confirmed' \subseteq QueryPath
         /\ \/ UNCHANGED exitCode /\ (UNCHANGED Confirmed \/ \E q \in QueryPath : Confirmed' = Confirmed \cup {q})
            \/ UNCHANGED Confirmed /\ exitCode' \in {nExit, 2}
<1>1. exitCode = Undecided
  BY DEF Next, Running
<1>2. CASE ClientChecksReply
  <2> DEFINE r == Head(inbox["client"])
  <2>1. r \in Reply /\ seen' = seen \cup {r} /\ exitCode' = exitCode
    BY <1>2, QueueOperations DEF ClientChecksReply, IInv, TypeOK, QueueTypeOK, mainVars
  <2>2. seen \subseteq Reply
    BY DEF IInv, TypeOK, PumpTypeOK
  <2> HIDE DEF r
  <2>3. Confirmed' = IF Expected(r) THEN Confirmed \cup {r.path} ELSE Confirmed
    BY <2>1 DEF Confirmed, Expected
  <2>4. r.path \in QueryPath /\ Confirmed \subseteq QueryPath
    BY <2>1, <2>2 DEF Reply, Confirmed
  <2>5. QED BY <1>1, <2>1, <2>3, <2>4
<1>3. CASE ~ClientChecksReply
  <2>1. seen' = seen /\ (exitCode' = exitCode \/ exitCode' \in {nExit, 2})
    <3>1. CASE QueryMain
      BY <3>1, QueryMainIsMain DEF QueryMain, QueryMainOn, BuildCatalogue, DeleteStore, MainOn,
         Startup, DestroyHubs, WaitFails, Setup, CreateEvent, SpawnServer, PostService,
         SpawnClient, Dial, SetupFails, WaitSignalled, Verdict, Teardown, CloseClient,
         CloseServer, JoinClient, JoinServer, Join, CloseEvent, NullEvent, Exit, Undecidedly
    <3>2. CASE ~QueryMain
      BY <1>3, <3>2 DEF Next, ServerPump, ClientPump, LinkUp, LinkDown, Asserts, AssertReportHook,
         ServerTakesQuery, On_StoreQuery, On_ConLoginAck, ClientCountsReply, ClientSignals,
         Unmeshed, Unpumped, harnessVars, mainVars, clientVars
    <3>3. QED BY <3>1, <3>2
  <2>2. Confirmed' = Confirmed /\ Confirmed \subseteq QueryPath
    BY <2>1 DEF Confirmed, Expected, IInv, TypeOK, PumpTypeOK, Reply
  <2>3. QED BY <1>1, <2>1, <2>2
<1>4. QED BY <1>2, <1>3

\* Whatever the link and the threads do, the example is a query service: it reports at
\* most once, and success only when every query has had the answer expected for it.
THEOREM ServiceCorrect == Spec => ImplementsService
<1>1. Init => QS!Init
  <2> SUFFICES ASSUME Init PROVE QS!Init
    OBVIOUS
  <2>1. exitCode = Undecided /\ seen = {}
    BY DEF Init, MainInit
  <2>2. Confirmed = {}
    BY <2>1 DEF Confirmed
  <2>3. QED BY <2>1, <2>2 DEF QS!Init, Undecided
<1>2. IInv /\ [Next]_vars => [QS!Next]_QS!vars
  <2> SUFFICES ASSUME IInv, [Next]_vars PROVE [QS!Next]_QS!vars
    OBVIOUS
  <2>1. CASE UNCHANGED vars
    BY <2>1 DEF QS!vars, vars, clientVars, harnessVars, mainVars, Confirmed, Expected
  <2>2. CASE Next
    <3>1. exitCode = Undecided
      BY <2>2, ServiceVariables
    <3>2. CASE UNCHANGED exitCode /\ UNCHANGED Confirmed
      BY <3>2 DEF QS!vars
    <3>3. CASE UNCHANGED exitCode /\ \E q \in QueryPath : Confirmed' = Confirmed \cup {q}
      <4>1. PICK q \in QueryPath : Confirmed' = Confirmed \cup {q}
        BY <3>3
      <4>2. exitCode' = Undecided
        BY <3>1, <3>3
      <4>3. QS!Answer(q)
        BY <3>1, <4>1, <4>2 DEF QS!Answer, Undecided
      <4>4. QED BY <4>3 DEF QS!Next
    <3>4. CASE UNCHANGED Confirmed /\ exitCode' \in {nExit, 2}
      <4>1. CASE exitCode' = Undecided
        BY <3>1, <3>4, <4>1 DEF QS!vars
      <4>2. CASE exitCode' = 0
        <5>1. Confirmed = QueryPath
          BY <3>4, <4>2 DEF IInv, SuccessIsComplete
        <5>2. QED BY <3>1, <3>4, <4>2, <5>1 DEF QS!Next, QS!Report, QS!Succeed, Undecided
      <4>3. CASE exitCode' # 0 /\ exitCode' # Undecided
        BY <3>1, <3>4, <4>3 DEF QS!Next, QS!Report, QS!GiveUp, Undecided
      <4>4. QED BY <4>1, <4>2, <4>3
    <3>5. QED BY <2>2, <3>2, <3>3, <3>4, ServiceVariables
  <2>3. QED BY <2>1, <2>2
<1>3. QED BY <1>1, <1>2, Invariant, PTL DEF Spec, ImplementsService, QS!Spec
===============================================================================
