--------------------------- MODULE WsaQueryNetProofs ---------------------------
(***************************************************************************)
(* What holds of WsaQueryNet for every list of questions, every store and  *)
(* every number of logins.                                                 *)
(***************************************************************************)
EXTENDS WsaQueryNet, SequenceTheorems, TLAPS

-------------------------------------------------------------------------------
(* The operators of the model. *)

\* What TwoHubProofs says of the queues of any mesh, of the queues of this one.
Queues == INSTANCE TwoHubProofs WITH
  doneEvent <- "none", gDone <- FALSE, nFailed <- 0, nExit <- exitCode, gaveUp <- {}

LEMMA SameQueues == \A q : Queues!TagsIn(q) = TagsIn(q)
BY DEF Queues!TagsIn, TagsIn

LEMMA QueueOperations ==
  ASSUME NEW S, NEW q \in Seq(S)
  PROVE  /\ q # <<>> => Head(q) \in S /\ Tail(q) \in Seq(S)
         /\ \A msgs \in Seq(S) : q \o msgs \in Seq(S)
         /\ \A e \in S : <<e>> \in Seq(S) /\ Append(q, e) \in Seq(S)
         /\ \A n \in 0..Len(q) : SubSeq(q, 1, n) \in Seq(S)
BY MaxLoginsAssumption, Queues!QueueOperations

LEMMA TailTags ==
  ASSUME NEW S, NEW q \in Seq(S), q # <<>>
  PROVE  /\ Len(q) \in Nat /\ Len(Tail(q)) = Len(q) - 1 /\ Len(q) > 0
         /\ TagsIn(q) = {Head(q).tag} \cup TagsIn(Tail(q))
BY MaxLoginsAssumption, SameQueues, Queues!TailTags

LEMMA PostedTags ==
  ASSUME NEW S, NEW q \in Seq(S), NEW msgs \in Seq(S)
  PROVE  /\ Len(q \o msgs) = Len(q) + Len(msgs) /\ Len(q) \in Nat /\ Len(msgs) \in Nat
         /\ TagsIn(q \o msgs) = TagsIn(q) \cup TagsIn(msgs)
BY MaxLoginsAssumption, SameQueues, Queues!PostedTags

LEMMA AppendedTags ==
  ASSUME NEW S, NEW q \in Seq(S), NEW e \in S
  PROVE  /\ Len(q) \in Nat
         /\ Append(q, e) = q \o <<e>> /\ Len(q \o <<e>>) = Len(q) + 1
         /\ TagsIn(q \o <<e>>) = TagsIn(q) \cup {e.tag}
BY MaxLoginsAssumption, SameQueues, Queues!AppendedTags

LEMMA CutLength ==
  ASSUME NEW S, NEW q \in Seq(S), NEW n \in 0..Len(q)
  PROVE  Len(q) \in Nat /\ Len(SubSeq(q, 1, n)) = n
BY MaxLoginsAssumption, Queues!CutLength

LEMMA FirstTagged ==
  ASSUME NEW S, NEW q \in Seq(S), NEW t \in TagsIn(q)
  PROVE  \E k \in 1..Len(q) : q[k].tag = t /\ \A j \in 1..(k - 1) : q[j].tag # t
BY MaxLoginsAssumption, SameQueues, Queues!FirstTagged

\* The questions are questions about the store.
LEMMA AsksFacts ==
  /\ nAsks \in Nat \ {0} /\ DOMAIN Asks = Tags
  /\ Built \in [DOMAIN Built -> Values] /\ Rewritten \in DOMAIN Built /\ NoField \in Values
  /\ \A i \in Tags : [path |-> Asks[i].path, tag |-> i] \in Question
<1>1. \A p \in DOMAIN Built : Built[p] \in Values
  BY DEF Values
<1>2. Built \in [DOMAIN Built -> Values]
  BY <1>1, BuiltAssumption
<1>3. QED
  BY <1>2, AsksAssumption, QuestionsAreOfTheStore DEF nAsks, Tags, Question, Values

\* What the server's handler looks up is a reply to the question it has taken, and an
\* honest one as long as the store is as it was built.
LEMMA LookupAnswers ==
  ASSUME TypeOK, NEW q \in Question
  PROVE  /\ [tag |-> q.tag, body |-> Lookup(q.path)] \in Reply
         /\ store = Built => [tag |-> q.tag, body |-> Lookup(q.path)] \in Honest
<1>1. PICK i \in Tags : q = [path |-> Asks[i].path, tag |-> i]
  BY DEF Question
<1>2. q.path = Asks[i].path /\ q.tag = i
  BY <1>1
<1>3. Lookup(q.path) \in [ok : BOOLEAN, value : Values]
  BY AsksFacts DEF Lookup, TypeOK
<1>4. [tag |-> q.tag, body |-> Lookup(q.path)] \in Reply
  BY <1>2, <1>3 DEF Reply
<1>5. ASSUME store = Built, Lookup(q.path).ok PROVE Lookup(q.path).value = Built[Asks[q.tag].path]
  BY <1>2, <1>5 DEF Lookup
<1>6. QED BY <1>4, <1>5 DEF Honest

-------------------------------------------------------------------------------
(* Types. *)

\* Main's steps leave the threads and the link alone.
LEMMA MainFrame ==
  ASSUME Main
  PROVE  UNCHANGED <<link, ack, logins, inbox, serving, counting, answered, bumping, replies,
                     nBumped>>
BY DEF Main, MainOn, Setup, Checks, Create, CreateServer, CreateClient, CreateHub, Listen, Connect,
   Arm, SetupFailure, GateOpens, GateTimesOut, CheckCount, TakeSnapshot, Compare, CheckClientPeer,
   CheckServerPeer, CheckPeer, CheckTag, Write, DisposeClient, DisposeServer, Dispose, DisposeStore,
   Verdict, SpawnHub, PostP2PeerCon, CloseHub, Unpumped, serverVars, clientVars, meshVars

\* The queues hold questions, and answers of whatever kind the server's handler makes.
LEMMA QueuesKept ==
  ASSUME NEW Answer, InboxOf(Answer), serving \in Answer \cup {Idle}, [Next]_vars
  PROVE  InboxOf(Answer)'
<1> USE DEF InboxOf
<1>1. CASE ServerLooksUp
  <2>1. Tail(inbox["server"]) \in Seq(Question)
    BY <1>1, QueueOperations DEF ServerLooksUp
  <2>2. QED BY <1>1, <2>1 DEF ServerLooksUp, Taken, Side
<1>2. CASE ServerSends
  <2>1. inbox["client"] \o <<serving>> \in Seq(Answer)
    BY <1>2, QueueOperations DEF ServerSends
  <2>2. inbox' = inbox \/ inbox' = [inbox EXCEPT !["client"] = @ \o <<serving>>]
    BY <1>2 DEF ServerSends, Posted
  <2>3. QED BY <2>1, <2>2 DEF Side
<1>3. CASE OnPeerUp
  <2> DEFINE Questions == [i \in 1..nAsks |-> [path |-> Asks[i].path, tag |-> i]]
  <2>1. Questions \in Seq(Question)
    BY AsksFacts, IsASeq DEF Tags
  <2>2. inbox["server"] \o Questions \in Seq(Question)
    BY <2>1, QueueOperations
  <2>3. inbox' = inbox \/ inbox' = [inbox EXCEPT !["server"] = @ \o Questions]
    BY <1>3 DEF OnPeerUp, Posted
  <2> HIDE DEF Questions
  <2>4. QED BY <2>2, <2>3 DEF Side
<1>4. CASE ClientLists
  <2>1. Tail(inbox["client"]) \in Seq(Answer)
    BY <1>4, QueueOperations DEF ClientLists
  <2>2. QED BY <1>4, <2>1 DEF ClientLists, Taken, Side
<1>5. ASSUME NEW s \in Side, PumpEnds(s) PROVE InboxOf(Answer)'
  <2>1. <<>> \in Seq(Question) /\ <<>> \in Seq(Answer)
    BY EmptySeq
  <2>2. QED BY <1>5, <2>1 DEF PumpEnds, Side
<1>6. CASE LinkDown
  <2>1. PICK n \in [Side -> 0..(Len(inbox["server"]) + Len(inbox["client"]))] :
          (\A s \in Side : n[s] <= Len(inbox[s])) /\ inbox' = CutTo(n)
    BY <1>6 DEF LinkDown, LinkLost
  <2>2. SubSeq(inbox["server"], 1, n["server"]) \in Seq(Question)
    BY <2>1, QueueOperations, LenProperties DEF Side
  <2>3. SubSeq(inbox["client"], 1, n["client"]) \in Seq(Answer)
    BY <2>1, QueueOperations, LenProperties DEF Side
  <2>4. QED BY <2>1, <2>2, <2>3 DEF CutTo, Side
<1>7. CASE ServerCounts \/ ClientBumps \/ LinkUp \/ UNCHANGED vars
  BY <1>7 DEF ServerCounts, ClientBumps, LinkUp, Login, vars, meshVars
<1>8. CASE Main
  BY <1>8, MainFrame
<1>9. QED
  BY <1>1, <1>2, <1>3, <1>4, <1>5, <1>6, <1>7, <1>8 DEF Next, ServerThread, ClientThread, Side
\* Of the mesh, main's steps start, arm and stop the hubs.
LEMMA MainMesh == ASSUME MeshTypeOK, Main PROVE MeshTypeOK'
<1> USE DEF MeshTypeOK, HubState, Side
<1>1. link' \in BOOLEAN /\ ack' \in BOOLEAN /\ logins' \in 0..MaxLogins
  BY MainFrame
<1>2. CASE CreateServer \/ CreateClient
  BY <1>1, <1>2 DEF CreateServer, CreateClient, CreateHub, SpawnHub
<1>3. CASE Listen \/ Connect
  BY <1>1, <1>3 DEF Listen, Connect, Arm, PostP2PeerCon
<1>4. CASE DisposeClient \/ DisposeServer
  BY <1>1, <1>4 DEF DisposeClient, DisposeServer, Dispose, CloseHub
<1>5. CASE ~(CreateServer \/ CreateClient \/ Listen \/ Connect \/ DisposeClient \/ DisposeServer)
  <2>1. UNCHANGED <<hub, con>>
    BY <1>5 DEF Main, MainOn, Setup, Checks, Create, SetupFailure, GateOpens, GateTimesOut,
       CheckCount, TakeSnapshot, Compare, CheckClientPeer, CheckServerPeer, CheckPeer, CheckTag,
       Write, DisposeStore, Verdict, meshVars
  <2>2. QED BY <1>1, <2>1
<1>6. QED BY <1>2, <1>3, <1>4, <1>5

\* Main's own variables: the copy, the failed checks, the code.
LEMMA MainValues ==
  ASSUME TypeOK, BuiltInv, Main
  PROVE  /\ pc' \in EarlyPC \cup LatePC
         /\ store' \in [DOMAIN Built -> Values] \cup {Idle}
         /\ snapshot' \in {snapshot, replies}
         /\ failed' \subseteq {"listen", "connect", "timeout", "count", "snapshot", "answers",
                               "peerClient", "peerServer", "tag"}
         /\ exitCode' \in {0, 1, 3, Undecided}
<1> USE DEF TypeOK, Goto, EarlyPC, LatePC
<1>1. CASE Setup
  BY <1>1 DEF Setup, Create, CreateServer, CreateClient, CreateHub, Listen, Connect, Arm,
     SetupFailure
<1>2. CASE GateOpens \/ GateTimesOut
  BY <1>2 DEF GateOpens, GateTimesOut
<1>3. CASE Checks
  BY <1>3 DEF Checks, CheckCount, TakeSnapshot, Compare, CheckClientPeer, CheckServerPeer,
     CheckPeer, CheckTag, Fails
<1>4. CASE Write
  <2>1. store' \in [DOMAIN Built -> Values] \cup {Idle}
    <3>1. store \in [DOMAIN Built -> Values]
      BY <1>4, AsksFacts DEF Write, BuiltInv
    <3>2. QED BY <1>4, <3>1, AsksFacts DEF Write, Values
  <2>2. QED BY <1>4, <2>1 DEF Write
<1>5. CASE DisposeClient \/ DisposeServer \/ DisposeStore \/ Verdict
  BY <1>5 DEF DisposeClient, DisposeServer, Dispose, DisposeStore, Verdict
<1>6. QED BY <1>1, <1>2, <1>3, <1>4, <1>5 DEF Main, MainOn
LEMMA TypeInductive == ASSUME TypeOK, BuiltInv, [Next]_vars PROVE TypeOK'
<1> USE DEF TypeOK
<1>1. InboxOf(Reply)'
  BY QueuesKept
<1>2. CASE ServerLooksUp
  <2>1. serving' \in Reply
    <3>1. Head(inbox["server"]) \in Question
      BY <1>2, QueueOperations DEF ServerLooksUp, InboxOf
    <3>2. QED BY <1>2, <3>1, LookupAnswers DEF ServerLooksUp
  <2>2. QED BY <1>1, <1>2, <2>1 DEF ServerLooksUp, clientVars, mainVars, MeshTypeOK
<1>3. CASE ServerSends
  BY <1>1, <1>3 DEF ServerSends, clientVars, mainVars, MeshTypeOK
<1>4. CASE ServerCounts
  <2>1. MeshTypeOK'
    BY <1>4 DEF ServerCounts, meshVars, MeshTypeOK
  <2>2. answered' \in Nat /\ serving' = Idle /\ counting' = FALSE
    BY <1>4 DEF ServerCounts
  <2>3. QED BY <1>1, <1>4, <2>1, <2>2 DEF ServerCounts, clientVars, mainVars
<1>5. CASE OnPeerUp
  BY <1>1, <1>5 DEF OnPeerUp, serverVars, clientVars, mainVars, MeshTypeOK
<1>6. CASE ClientLists
  <2>1. replies' \in Seq(Reply)
    BY <1>6, QueueOperations DEF ClientLists, InboxOf
  <2>2. QED BY <1>1, <1>6, <2>1 DEF ClientLists, serverVars, mainVars, MeshTypeOK
<1>7. CASE ClientBumps
  <2>1. MeshTypeOK'
    BY <1>7 DEF ClientBumps, meshVars, MeshTypeOK
  <2>2. nBumped' \in Nat /\ bumping' = FALSE
    BY <1>7 DEF ClientBumps
  <2>3. QED BY <1>1, <1>7, <2>1, <2>2 DEF ClientBumps, serverVars, mainVars
<1>8. ASSUME NEW s \in Side, PumpEnds(s), Unmeshed PROVE TypeOK'
  <2>1. MeshTypeOK'
    BY <1>8 DEF PumpEnds, MeshTypeOK, HubState
  <2>2. QED BY <1>1, <1>8, <2>1 DEF Unmeshed, serverVars, clientVars, mainVars
<1>9. CASE LinkUp
  <2>1. MeshTypeOK'
    BY <1>9, MaxLoginsAssumption DEF LinkUp, Login, MeshTypeOK
  <2>2. QED BY <1>1, <1>9, <2>1 DEF LinkUp, Unmeshed, serverVars, clientVars, mainVars
<1>10. CASE LinkDown
  <2>1. MeshTypeOK'
    BY <1>10 DEF LinkDown, LinkLost, MeshTypeOK
  <2>2. QED BY <1>1, <1>10, <2>1 DEF LinkDown, Unmeshed, serverVars, clientVars, mainVars
<1>11. CASE Main
  <2>1. MeshTypeOK' /\ snapshot' \in Seq(Reply)
    BY <1>11, MainMesh, MainValues
  <2>2. QED BY <1>1, <1>11, <2>1, MainFrame, MainValues
<1>12. CASE UNCHANGED vars
  BY <1>1, <1>12 DEF vars, meshVars, serverVars, clientVars, mainVars, MeshTypeOK
<1>13. QED
  BY <1>2, <1>3, <1>4, <1>5, <1>6, <1>7, <1>8, <1>9, <1>10, <1>11, <1>12
     DEF Next, ServerThread, ClientThread, Side

-------------------------------------------------------------------------------
(* The inductive invariant, one conjunct at a time. *)

\* The list and the gate's count move together.
LEMMA GateInductive ==
  ASSUME TypeOK, GateInv, GateIsBarrier, [Next]_vars PROVE GateInv' /\ GateIsBarrier'
<1> USE DEF TypeOK, GateInv, GateIsBarrier
<1>1. CASE ClientLists
  <2>1. Len(replies') = Len(replies) + 1
    BY <1>1, QueueOperations, AppendProperties DEF ClientLists, InboxOf
  <2>2. QED BY <1>1, <2>1, AsksFacts, LenProperties DEF ClientLists, mainVars
<1>2. CASE ClientBumps
  BY <1>2 DEF ClientBumps, mainVars
<1>3. CASE Main
  <2>1. GateInv'
    BY <1>3, MainFrame
  <2>2. pc' \in {"count", "snapshot"} => pc = "count" \/ GateOpens
    BY <1>3 DEF Main, MainOn, Setup, Checks, Create, CreateServer, CreateClient, CreateHub, Listen,
       Connect, Arm, SetupFailure, GateTimesOut, CheckCount, TakeSnapshot, Compare, CheckClientPeer,
       CheckServerPeer, CheckPeer, CheckTag, Write, DisposeClient, DisposeServer, Dispose,
       DisposeStore, Verdict, Goto
  <2>3. GateOpens => Len(replies) >= nAsks
    BY AsksFacts, LenProperties DEF GateOpens
  <2>4. QED BY <1>3, <2>1, <2>2, <2>3, MainFrame
<1>4. CASE ~(ClientLists \/ ClientBumps \/ Main)
  <2>1. UNCHANGED <<replies, nBumped, bumping, pc>>
    BY <1>4 DEF Next, ServerThread, ClientThread, ServerLooksUp, ServerSends, ServerCounts, OnPeerUp,
       LinkUp, LinkDown, Unmeshed, vars, serverVars, clientVars, mainVars
  <2>2. QED BY <2>1
<1>5. QED BY <1>1, <1>2, <1>3, <1>4

\* Nothing but main's one write changes the store before it is disposed of.
LEMMA BuiltInductive == ASSUME TypeOK, BuiltInv, [Next]_vars PROVE BuiltInv'
<1>1. pc' \in EarlyPC => pc \in EarlyPC /\ store' = store
  <2>1. CASE Main
    BY <2>1 DEF Main, MainOn, Setup, Checks, Create, CreateServer, CreateClient, CreateHub, Listen,
       Connect, Arm, SetupFailure, GateOpens, GateTimesOut, CheckCount, TakeSnapshot, Compare,
       CheckClientPeer, CheckServerPeer, CheckPeer, CheckTag, Write, DisposeClient, DisposeServer,
       Dispose, DisposeStore, Verdict, Goto, EarlyPC
  <2>2. CASE ~Main
    BY <2>2 DEF Next, ServerThread, ClientThread, ServerLooksUp, ServerSends, ServerCounts, OnPeerUp,
       ClientLists, ClientBumps, LinkUp, LinkDown, Unmeshed, vars, serverVars, clientVars, mainVars
  <2>3. QED BY <2>1, <2>2
<1>2. SUFFICES ASSUME pc \in EarlyPC, store' = store
               PROVE  /\ store' = Built
                      /\ InboxOf(Honest)' /\ serving' \in Honest \cup {Idle}
                      /\ replies' \in Seq(Honest)
  BY <1>1 DEF BuiltInv
<1>3. store = Built /\ InboxOf(Honest) /\ serving \in Honest \cup {Idle} /\ replies \in Seq(Honest)
  BY <1>2 DEF BuiltInv
<1>4. InboxOf(Honest)'
  BY <1>3, QueuesKept
<1>5. serving' \in Honest \cup {Idle}
  <2>1. CASE ServerLooksUp
    <3>1. Head(inbox["server"]) \in Question
      BY <2>1, <1>3, QueueOperations DEF ServerLooksUp, InboxOf
    <3>2. QED BY <1>3, <2>1, <3>1, LookupAnswers DEF ServerLooksUp
  <2>2. CASE ~ServerLooksUp
    BY <1>3, <2>2, MainFrame DEF Next, ServerThread, ClientThread, ServerSends, ServerCounts, OnPeerUp,
       ClientLists, ClientBumps, LinkUp, LinkDown, Unmeshed, vars, serverVars, clientVars, mainVars
  <2>3. QED BY <2>1, <2>2
<1>6. replies' \in Seq(Honest)
  <2>1. CASE ClientLists
    BY <1>3, <2>1, QueueOperations DEF ClientLists, InboxOf
  <2>2. CASE ~ClientLists
    BY <1>3, <2>2, MainFrame DEF Next, ServerThread, ClientThread, ServerLooksUp, ServerSends,
       ServerCounts, OnPeerUp, ClientBumps, LinkUp, LinkDown, Unmeshed, vars, serverVars, clientVars,
       mainVars
  <2>3. QED BY <2>1, <2>2
<1>7. QED BY <1>2, <1>3, <1>4, <1>5, <1>6
\* The copy is honest: it was taken before the write.
LEMMA SnapshotInductive ==
  ASSUME TypeOK, BuiltInv, snapshot \in Seq(Honest), [Next]_vars PROVE snapshot' \in Seq(Honest)
<1>1. CASE TakeSnapshot
  BY <1>1 DEF TakeSnapshot, BuiltInv, EarlyPC
<1>2. CASE ~TakeSnapshot
  <2>1. snapshot' = snapshot
    BY <1>2 DEF Next, Main, MainOn, Setup, Checks, Create, CreateServer, CreateClient, CreateHub,
       Listen, Connect, Arm, SetupFailure, GateOpens, GateTimesOut, CheckCount, Compare,
       CheckClientPeer, CheckServerPeer, CheckPeer, CheckTag, Write, DisposeClient, DisposeServer,
       Dispose, DisposeStore, Verdict, ServerThread, ClientThread, ServerLooksUp, ServerSends,
       ServerCounts, OnPeerUp, ClientLists, ClientBumps, LinkUp, LinkDown, Unmeshed, vars, mainVars
  <2>2. QED BY <2>1
<1>3. QED BY <1>1, <1>2

\* What is in the list stays there.
LEMMA ListGrows ==
  ASSUME TypeOK, [Next]_vars
  PROVE  /\ Len(replies) \in Nat /\ Len(replies') \in Nat /\ Len(replies) <= Len(replies')
         /\ \A k \in 1..Len(replies) : replies'[k] = replies[k]
<1>1. CASE ClientLists
  <2>1. Head(inbox["client"]) \in Reply /\ replies \in Seq(Reply)
    BY <1>1, QueueOperations DEF ClientLists, TypeOK, InboxOf
  <2>2. QED BY <1>1, <2>1, AppendProperties, LenProperties DEF ClientLists
<1>2. CASE ~ClientLists
  <2>1. replies' = replies
    BY <1>2, MainFrame DEF Next, ServerThread, ClientThread, ServerLooksUp, ServerSends, ServerCounts,
       OnPeerUp, ClientBumps, LinkUp, LinkDown, Unmeshed, vars, clientVars
  <2>2. QED BY <2>1, LenProperties DEF TypeOK
<1>3. QED BY <1>1, <1>2

LEMMA AnsweredGrows ==
  ASSUME TypeOK, [Next]_vars PROVE AnsweredRight \subseteq AnsweredRight' /\ AnsweredRight' \subseteq Tags
<1>1. ASSUME NEW i \in AnsweredRight PROVE i \in AnsweredRight'
  <2>1. PICK k \in 1..Len(replies) : replies[k].tag = i /\ replies[k].body = RightBody(i)
    BY <1>1 DEF AnsweredRight
  <2>2. k \in 1..Len(replies') /\ replies'[k] = replies[k]
    BY <2>1, ListGrows
  <2>3. replies'[k].tag = i /\ replies'[k].body = RightBody(i)'
    BY <2>1, <2>2 DEF RightBody
  <2>4. QED BY <1>1, <2>2, <2>3 DEF AnsweredRight
<1>2. QED BY <1>1 DEF AnsweredRight

\* A question that compares right has its right answer in the list.
LEMMA RightIsAnswered ==
  ASSUME JudgedInv, pc = "compare", NEW i \in Tags, IsRight(i) PROVE i \in AnsweredRight
<1>1. PICK k \in 1..Len(snapshot) : snapshot[k].tag = i /\ snapshot[k].body = RightBody(i)
  BY DEF IsRight, Tagged
<1>2. k <= Len(replies) /\ replies[k] = snapshot[k]
  BY <1>1 DEF JudgedInv
<1>3. k \in 1..Len(replies)
  BY <1>1, <1>2
<1>4. QED BY <1>1, <1>2, <1>3 DEF AnsweredRight
\* Where main has compared and disposes of what it has made.
Judged == {"peerClient", "peerServer", "tag", "write", "disposeClient", "disposeServer",
           "disposeStore", "verdict"}

\* Main gets there through the comparison or through the timeout, and drops no failure.
LEMMA MainJudges ==
  ASSUME Main, exitCode = Undecided
  PROVE  /\ pc' = "compare" => TakeSnapshot
         /\ pc' \in Judged /\ failed' = {} => failed = {} /\ (pc \in Judged \/ Compare)
         /\ exitCode' = 0 => pc = "verdict" /\ failed = {}
<1> USE DEF Goto, Judged
<1>1. CASE Setup
  BY <1>1 DEF Setup, Create, CreateServer, CreateClient, CreateHub, Listen, Connect, Arm,
     SetupFailure, Undecided
<1>2. CASE GateOpens \/ GateTimesOut
  BY <1>2 DEF GateOpens, GateTimesOut, Undecided
<1>3. CASE Checks
  <2>1. CASE TakeSnapshot
    <3>1. pc' = "compare" /\ UNCHANGED exitCode
      BY <2>1 DEF TakeSnapshot
    <3>2. QED BY <2>1, <3>1 DEF Undecided
  <2>2. CASE CheckCount \/ Compare \/ CheckClientPeer \/ CheckServerPeer
    <3>1. /\ pc' # "compare" /\ UNCHANGED exitCode
          /\ failed' = {} => failed = {}
          /\ pc' \in Judged => pc \in Judged \/ Compare
      <4>1. CASE Compare
        BY <4>1, Zenon DEF Compare
      <4>2. CASE CheckCount \/ CheckClientPeer \/ CheckServerPeer
        BY <4>2 DEF CheckCount, CheckClientPeer, CheckServerPeer, CheckPeer
      <4>3. QED BY <2>2, <4>1, <4>2
    <3>2. QED BY <3>1 DEF Undecided
  <2>3. CASE CheckTag
    <3>1. /\ pc = "tag" /\ pc' = "write" /\ UNCHANGED exitCode
          /\ failed' = {} => failed = {}
      BY <2>3 DEF CheckTag
    <3>2. QED BY <3>1 DEF Undecided
  <2>4. QED BY <1>3, <2>1, <2>2, <2>3 DEF Checks
<1>4. CASE Write \/ DisposeClient \/ DisposeServer \/ DisposeStore \/ Verdict
  BY <1>4 DEF Write, DisposeClient, DisposeServer, Dispose, DisposeStore, Verdict, Undecided
<1>5. QED BY <1>1, <1>2, <1>3, <1>4 DEF Main, MainOn

LEMMA JudgedInductive == ASSUME TypeOK, JudgedInv, [Next]_vars PROVE JudgedInv'
<1>1. CASE Next /\ Main
  <2>1. exitCode = Undecided /\ replies' = replies
    BY <1>1, MainFrame DEF Next, Running
  <2>2. AnsweredRight \subseteq AnsweredRight' /\ AnsweredRight' \subseteq Tags
    BY AnsweredGrows
  <2>3. pc' = "compare" => snapshot' = replies'
    BY <1>1, <2>1, MainJudges DEF TakeSnapshot
  <2>4. ASSUME pc' \in Judged, failed' = {} PROVE AnsweredRight' = Tags
    <3>1. failed = {} /\ (pc \in Judged \/ Compare)
      BY <1>1, <2>1, <2>4, MainJudges
    <3>2. CASE pc \in Judged
      BY <2>2, <3>1, <3>2 DEF JudgedInv, Judged
    <3>3. CASE Compare
      <4>1. pc = "compare" /\ \A i \in 1..nAsks : IsRight(i)
        BY <2>4, <3>3 DEF Compare, Fails
      <4>2. Tags \subseteq AnsweredRight
        BY <4>1, RightIsAnswered DEF Tags
      <4>3. QED BY <2>2, <4>2
    <3>4. QED BY <3>1, <3>2, <3>3
  <2>5. exitCode' = 0 => AnsweredRight' = Tags
    BY <1>1, <2>1, <2>2, MainJudges DEF JudgedInv
  <2>6. QED BY <2>3, <2>4, <2>5 DEF JudgedInv, Judged
<1>2. CASE ~(Next /\ Main)
  <2>1. UNCHANGED <<pc, snapshot, failed, exitCode>>
    BY <1>2 DEF Next, ServerThread, ClientThread, ServerLooksUp, ServerSends, ServerCounts, OnPeerUp,
       ClientLists, ClientBumps, LinkUp, LinkDown, Unmeshed, vars, mainVars
  <2>2. AnsweredRight = Tags => AnsweredRight' = Tags
    BY AnsweredGrows
  <2>3. pc = "compare" =>
          \A k \in 1..Len(snapshot) : k <= Len(replies') /\ replies'[k] = snapshot[k]
    <3> SUFFICES ASSUME pc = "compare", NEW k \in 1..Len(snapshot)
                 PROVE  k <= Len(replies') /\ replies'[k] = snapshot[k]
      OBVIOUS
    <3>1. k <= Len(replies) /\ replies[k] = snapshot[k] /\ k \in Nat /\ k >= 1
      BY LenProperties DEF JudgedInv, TypeOK
    <3>2. QED BY <3>1, ListGrows
  <2>4. QED BY <2>1, <2>2, <2>3 DEF JudgedInv
<1>3. QED BY <1>1, <1>2

-------------------------------------------------------------------------------
(* One login: what is asked over it, and where it is. *)

\* Only main's steps move main, and none leads back to before the write.
LEMMA PlaceOfMain ==
  ASSUME [Next]_vars
  PROVE  /\ pc' \in EarlyPC => pc \in EarlyPC
         /\ ~Main => UNCHANGED <<pc, snapshot, failed, exitCode, con>>
<1>1. CASE Main
  BY <1>1 DEF Main, MainOn, Setup, Checks, Create, CreateServer, CreateClient, CreateHub, Listen,
     Connect, Arm, SetupFailure, GateOpens, GateTimesOut, CheckCount, TakeSnapshot, Compare,
     CheckClientPeer, CheckServerPeer, CheckPeer, CheckTag, Write, DisposeClient, DisposeServer,
     Dispose, DisposeStore, Verdict, Goto, EarlyPC
<1>2. CASE ~Main
  BY <1>2 DEF Next, ServerThread, ClientThread, ServerLooksUp, ServerSends, ServerCounts, OnPeerUp,
     ClientLists, ClientBumps, PumpEnds, LinkUp, LinkDown, Login, LinkLost, Unmeshed, vars, meshVars,
     serverVars, clientVars, mainVars
<1>3. QED BY <1>1, <1>2

\* Both hubs run, armed, from the first login until main disposes of them.
LEMMA HubsInductive == ASSUME TypeOK, HubInv, [Next]_vars PROVE HubInv'
<1> USE DEF TypeOK, MeshTypeOK, Side, HubInv, EarlyPC
<1>1. CASE CreateServer \/ CreateClient
  BY <1>1, MainFrame DEF CreateServer, CreateClient, CreateHub, SpawnHub, Goto, Main, MainOn, Setup
<1>2. CASE Listen \/ Connect
  BY <1>2, MainFrame DEF Listen, Connect, Arm, PostP2PeerCon, Goto, Main, MainOn, Setup
<1>3. CASE DisposeClient \/ DisposeServer
  BY <1>3 DEF DisposeClient, DisposeServer, Dispose, CloseHub, Goto
<1>4. CASE Main /\ ~(CreateServer \/ CreateClient \/ Listen \/ Connect \/ DisposeClient \/ DisposeServer)
  <2>1. UNCHANGED <<hub, con, logins>>
    BY <1>4, MainFrame DEF Main, MainOn, Setup, Checks, Create, SetupFailure, GateOpens, GateTimesOut,
       CheckCount, TakeSnapshot, Compare, CheckClientPeer, CheckServerPeer, CheckPeer, CheckTag,
       Write, DisposeStore, Verdict, meshVars
  <2>2. /\ pc' \in EarlyPC \ {"create", "hubServer"} => pc \in EarlyPC \ {"create", "hubServer"}
        /\ pc' \in EarlyPC \ {"create", "hubServer", "listen", "hubClient"} =>
             pc \in EarlyPC \ {"create", "hubServer", "listen", "hubClient"}
        /\ pc' \in {"create", "hubServer", "listen", "hubClient", "connect"} => pc = "create"
    BY <1>4 DEF Main, MainOn, Setup, Checks, Create, SetupFailure, GateOpens, GateTimesOut,
       CheckCount, TakeSnapshot, Compare, CheckClientPeer, CheckServerPeer, CheckPeer, CheckTag,
       Write, DisposeStore, Verdict, Goto
  <2>3. QED BY <2>1, <2>2
<1>5. ASSUME NEW s \in Side, PumpEnds(s), ~Main PROVE HubInv'
  BY <1>5, PlaceOfMain DEF PumpEnds
<1>6. CASE LinkUp /\ ~Main
  BY <1>6, PlaceOfMain DEF LinkUp, Login
<1>7. CASE ~Main /\ ~LinkUp /\ ~\E s \in Side : PumpEnds(s)
  <2>1. UNCHANGED <<hub, con, logins, pc>>
    BY <1>7 DEF Next, ServerThread, ClientThread, ServerLooksUp, ServerSends, ServerCounts, OnPeerUp,
       ClientLists, ClientBumps, LinkDown, LinkLost, Unmeshed, vars, meshVars, mainVars
  <2>2. QED BY <2>1
<1>8. QED BY <1>1, <1>2, <1>3, <1>4, <1>5, <1>6, <1>7

\* An answer out of the store as built is the one the table states.
LEMMA LookupIsRight ==
  ASSUME TypeOK, store = Built, NEW q \in Question
  PROVE  [tag |-> q.tag, body |-> Lookup(q.path)] \in Right
<1>1. PICK i \in Tags : q = [path |-> Asks[i].path, tag |-> i]
  BY DEF Question
<1>2. q.path = Asks[i].path /\ q.tag = i /\ i \in DOMAIN Asks
  BY <1>1, AsksFacts
<1>3. Lookup(q.path) = RightBody(i)
  BY <1>2, TableIsRight, BuiltAssumption DEF Lookup, RightBody
<1>4. [tag |-> q.tag, body |-> Lookup(q.path)] \in Reply
  BY LookupAnswers
<1>5. QED BY <1>2, <1>3, <1>4 DEF Right

\* Until main writes, every answer is the right one.
LEMMA RightInductive == ASSUME TypeOK, BuiltInv, RightInv, [Next]_vars PROVE RightInv'
<1>1. SUFFICES ASSUME pc' \in EarlyPC
               PROVE  /\ InboxOf(Right)' /\ serving' \in Right \cup {Idle}
                      /\ replies' \in Seq(Right) /\ snapshot' \in Seq(Right)
  BY DEF RightInv, Right, RightBody
<1>2. /\ store = Built /\ InboxOf(Right) /\ serving \in Right \cup {Idle}
      /\ replies \in Seq(Right) /\ snapshot \in Seq(Right)
  BY <1>1, PlaceOfMain DEF RightInv, BuiltInv
<1>3. InboxOf(Right)'
  <2>1. Right' = Right
    BY DEF Right, RightBody
  <2>2. QED BY <1>2, <2>1, QueuesKept
<1>4. serving' \in Right \cup {Idle}
  <2>1. CASE ServerLooksUp
    <3>1. Head(inbox["server"]) \in Question
      BY <2>1, <1>2, QueueOperations DEF ServerLooksUp, InboxOf
    <3>2. QED BY <1>2, <2>1, <3>1, LookupIsRight DEF ServerLooksUp
  <2>2. CASE ~ServerLooksUp
    BY <1>2, <2>2, MainFrame DEF Next, ServerThread, ClientThread, ServerSends, ServerCounts, OnPeerUp,
       ClientLists, ClientBumps, LinkUp, LinkDown, Unmeshed, vars, serverVars, clientVars, mainVars
  <2>3. QED BY <2>1, <2>2
<1>5. replies' \in Seq(Right)
  <2>1. CASE ClientLists
    BY <1>2, <2>1, QueueOperations DEF ClientLists, InboxOf
  <2>2. CASE ~ClientLists
    BY <1>2, <2>2, MainFrame DEF Next, ServerThread, ClientThread, ServerLooksUp, ServerSends,
       ServerCounts, OnPeerUp, ClientBumps, LinkUp, LinkDown, Unmeshed, vars, serverVars, clientVars,
       mainVars
  <2>3. QED BY <2>1, <2>2
<1>6. snapshot' \in Seq(Right)
  BY <1>2, PlaceOfMain, MainValues
<1>7. QED BY <1>3, <1>4, <1>5, <1>6

\* What the queues hold, as the counts and the tags of DeliveryInv take it.
LEMMA Holding ==
  ASSUME TypeOK
  PROVE  /\ inbox["server"] \in Seq(Question) /\ inbox["client"] \in Seq(Reply) /\ replies \in Seq(Reply)
         /\ Len(inbox["server"]) \in Nat /\ Len(inbox["client"]) \in Nat /\ Len(replies) \in Nat
         /\ DOMAIN inbox = Side /\ logins \in Nat /\ nAsks \in Nat \ {0}
         /\ serving \in Reply \cup {Idle} /\ nInHand \in {0, 1} /\ nHeld \in Nat
<1>1. /\ inbox["server"] \in Seq(Question) /\ inbox["client"] \in Seq(Reply) /\ replies \in Seq(Reply)
      /\ DOMAIN inbox = Side /\ logins \in Nat /\ serving \in Reply \cup {Idle}
  BY MaxLoginsAssumption DEF TypeOK, InboxOf, MeshTypeOK
<1>2. Len(inbox["server"]) \in Nat /\ Len(inbox["client"]) \in Nat /\ Len(replies) \in Nat
  BY <1>1, LenProperties
<1>3. nInHand \in {0, 1}
  BY DEF nInHand
<1>4. nHeld \in Nat
  <2>1. \A a, b, c, d \in Nat : a + b + c + d \in Nat
    OBVIOUS
  <2>2. nInHand \in Nat
    BY <1>3
  <2>3. QED BY <1>2, <2>1, <2>2 DEF nHeld
<1>5. QED BY <1>1, <1>2, <1>3, <1>4, AsksFacts

\* A step that asks nothing and after which the link is down loses at most.
LEMMA LosingKeeps ==
  ASSUME DeliveryInv, TypeOK, ~link', logins' = logins, ack' => ack, counting' => serving' # Idle,
         nHeld' \in Nat, nHeld' <= nHeld
  PROVE  DeliveryInv'
BY Holding, AsksFacts DEF DeliveryInv, NeverLost, nAsks

\* A step that hands questions and answers on loses none.
LEMMA HandingOnKeeps ==
  ASSUME DeliveryInv, TypeOK, UNCHANGED <<link, logins, ack, pc, snapshot>>, counting' => serving' # Idle,
         nHeld' \in Nat, nHeld' <= nHeld,
         NeverLost /\ pc \in EarlyPC =>
           TagsIn(inbox["server"]) \cup InHand \cup TagsIn(inbox["client"]) \cup TagsIn(replies) \subseteq
             (TagsIn(inbox["server"]) \cup InHand \cup TagsIn(inbox["client"]) \cup TagsIn(replies))'
  PROVE  DeliveryInv'
<1>1. NeverLost' = NeverLost /\ Tags' = Tags /\ nAsks' = nAsks
  BY DEF NeverLost, Tags, nAsks
<1>2. /\ logins = 0 \/ (logins = 1 /\ ack) => nHeld' = 0
      /\ logins = 1 => nHeld' <= nAsks
  BY Holding DEF DeliveryInv
<1>3. NeverLost /\ pc = "compare" => Tags \subseteq TagsIn(snapshot')
  BY DEF DeliveryInv
<1>4. NeverLost /\ ~ack /\ pc \in EarlyPC =>
        Tags \subseteq (TagsIn(inbox["server"]) \cup InHand \cup TagsIn(inbox["client"]) \cup TagsIn(replies))'
  BY DEF DeliveryInv
<1>5. QED BY <1>1, <1>2, <1>3, <1>4 DEF DeliveryInv

\* The server's handler takes a question, and sends the answer.
LEMMA ServerHandsOn ==
  ASSUME DeliveryInv, TypeOK, HubInv, ServerLooksUp \/ ServerSends \/ ServerCounts PROVE DeliveryInv'
<1>1. CASE ServerLooksUp
  <2> DEFINE q == inbox["server"]
  <2>1. q \in Seq(Question) /\ q # <<>> /\ Head(q) \in Question
    BY <1>1, Holding, QueueOperations DEF ServerLooksUp
  <2>2. /\ Len(q) \in Nat /\ Len(Tail(q)) = Len(q) - 1 /\ Len(q) > 0
        /\ TagsIn(q) = {Head(q).tag} \cup TagsIn(Tail(q))
    BY <2>1, TailTags
  <2>3. /\ serving = Idle /\ counting = FALSE /\ counting' = FALSE
        /\ serving' = [tag |-> Head(q).tag, body |-> Lookup(Head(q).path)]
        /\ inbox'["server"] = Tail(q) /\ inbox'["client"] = inbox["client"]
        /\ UNCHANGED <<link, logins, ack, pc, snapshot, replies>>
    BY <1>1, Holding DEF ServerLooksUp, Taken, DeliveryInv, TypeOK, clientVars, mainVars, Side
  <2>4. serving' # Idle /\ serving'.tag = Head(q).tag
    BY <2>1, <2>3, LookupAnswers, IdleAssumption
  <2>5. InHand = {} /\ InHand' = {Head(q).tag}
    BY <2>3, <2>4 DEF InHand
  <2>6. nHeld' = nHeld
    <3>1. nInHand = 0 /\ nInHand' = 1
      BY <2>5 DEF nInHand
    <3>2. /\ nHeld' = (Len(q) - 1) + 1 + Len(inbox["client"]) + Len(replies)
          /\ nHeld = Len(q) + 0 + Len(inbox["client"]) + Len(replies)
      BY <2>2, <2>3, <3>1 DEF nHeld
    <3>3. \A a, c, d \in Nat : a > 0 => (a - 1) + 1 + c + d = a + 0 + c + d
      OBVIOUS
    <3>4. QED BY <2>2, <3>2, <3>3, Holding
  <2>7. QED BY <2>2, <2>3, <2>4, <2>5, <2>6, HandingOnKeeps, Holding
<1>2. CASE ServerSends
  <2> DEFINE q == inbox["client"]
  <2>1. /\ serving # Idle /\ counting = FALSE /\ counting' = TRUE /\ serving' = serving
        /\ UNCHANGED <<link, logins, ack, pc, snapshot, replies>>
    BY <1>2 DEF ServerSends, TypeOK, clientVars, mainVars
  <2>2. serving \in Reply /\ q \in Seq(Reply)
    BY <2>1, Holding
  <2>3. /\ Len(q) \in Nat /\ Len(q \o <<serving>>) = Len(q) + 1
        /\ TagsIn(q \o <<serving>>) = TagsIn(q) \cup {serving.tag}
    BY <2>2, AppendedTags
  <2>4. InHand = {serving.tag} /\ InHand' = {}
    BY <2>1 DEF InHand
  <2>5. /\ inbox'["server"] = inbox["server"]
        /\ \/ inbox'["client"] = q \o <<serving>>
           \/ inbox'["client"] = q /\ ~(Advised("server") /\ link)
    BY <1>2, Holding DEF ServerSends, Posted, Side
  <2>6. nHeld' \in Nat /\ nHeld' <= nHeld
    <3>1. nInHand = 1 /\ nInHand' = 0
      BY <2>4 DEF nInHand
    <3>2. nHeld = Len(inbox["server"]) + 1 + Len(q) + Len(replies)
      BY <3>1 DEF nHeld
    <3>3. \/ nHeld' = Len(inbox["server"]) + 0 + (Len(q) + 1) + Len(replies)
          \/ nHeld' = Len(inbox["server"]) + 0 + Len(q) + Len(replies)
      BY <2>1, <2>3, <2>5, <3>1 DEF nHeld
    <3>4. \A a, c, d \in Nat : /\ a + 0 + (c + 1) + d \in Nat /\ a + 0 + (c + 1) + d <= a + 1 + c + d
                               /\ a + 0 + c + d \in Nat /\ a + 0 + c + d <= a + 1 + c + d
      OBVIOUS
    <3>5. CASE nHeld' = Len(inbox["server"]) + 0 + (Len(q) + 1) + Len(replies)
      BY <2>3, <3>2, <3>4, <3>5, Holding
    <3>6. CASE nHeld' = Len(inbox["server"]) + 0 + Len(q) + Len(replies)
      BY <2>3, <3>2, <3>4, <3>6, Holding
    <3>7. QED BY <3>3, <3>5, <3>6
  <2>7. NeverLost /\ pc \in EarlyPC => Advised("server") /\ link
    BY Holding DEF NeverLost, HubInv, Advised, EarlyPC
  <2>8. NeverLost /\ pc \in EarlyPC => TagsIn(inbox'["client"]) = TagsIn(q) \cup InHand
    BY <2>3, <2>4, <2>5, <2>7
  <2>9. QED BY <2>1, <2>4, <2>5, <2>6, <2>8, HandingOnKeeps
<1>3. CASE ServerCounts
  <2>1. /\ counting = TRUE /\ counting' = FALSE /\ serving' = Idle
        /\ UNCHANGED <<inbox, link, logins, ack, pc, snapshot, replies>>
    BY <1>3 DEF ServerCounts, TypeOK, meshVars, clientVars, mainVars
  <2>2. InHand = {} /\ InHand' = {}
    BY <2>1 DEF InHand
  <2>3. nHeld' = nHeld
    BY <2>1, <2>2 DEF nHeld, nInHand
  <2>4. QED BY <2>1, <2>2, <2>3, HandingOnKeeps, Holding
<1>4. QED BY <1>1, <1>2, <1>3

\* The client's handlers ask every question once, and list what comes back.
LEMMA ClientAsksAndLists ==
  ASSUME DeliveryInv, TypeOK, OnPeerUp \/ ClientLists \/ ClientBumps PROVE DeliveryInv'
<1>1. CASE OnPeerUp
  <2> DEFINE msgs == [i \in 1..nAsks |-> [path |-> Asks[i].path, tag |-> i]]
             q == inbox["server"]
  <2>1. msgs \in Seq(Question) /\ Len(msgs) = nAsks /\ \A i \in 1..nAsks : msgs[i].tag = i
    BY AsksFacts, IsASeq DEF Tags
  <2>2. TagsIn(msgs) = Tags
    BY <2>1 DEF TagsIn, Tags
  <2>3. /\ ack = TRUE /\ ack' = FALSE /\ UNCHANGED <<link, logins, pc, snapshot, replies, serving, counting>>
        /\ inbox' = Posted("server", msgs)
    BY <1>1 DEF OnPeerUp, TypeOK, MeshTypeOK, serverVars, clientVars, mainVars
  <2> HIDE DEF msgs
  <2>4. /\ Len(q \o msgs) = Len(q) + nAsks
        /\ TagsIn(q \o msgs) = TagsIn(q) \cup Tags
    <3>1. q \in Seq(Question)
      BY Holding
    <3> HIDE DEF q
    <3>2. QED BY <2>1, <2>2, <3>1, PostedTags
  <2>5. /\ inbox'["client"] = inbox["client"]
        /\ \/ inbox'["server"] = q \o msgs /\ link
           \/ inbox'["server"] = q /\ ~link
    BY <2>3, Holding DEF Posted, Side
  <2>6. logins = 1 => nHeld = 0
    BY <2>3 DEF DeliveryInv
  <2>7. nHeld' = nHeld + nAsks \/ nHeld' = nHeld
    <3>1. nInHand' = nInHand
      BY <2>3 DEF nInHand, InHand
    <3>2. CASE inbox'["server"] = q
      BY <2>3, <2>5, <3>1, <3>2 DEF nHeld
    <3>3. CASE inbox'["server"] = q \o msgs
      <4> DEFINE a == Len(q)
                 b == nInHand
                 c == Len(inbox["client"])
                 d == Len(replies)
      <4>1. nHeld' = (a + nAsks) + b + c + d /\ nHeld = a + b + c + d
        BY <2>3, <2>4, <2>5, <3>1, <3>3 DEF nHeld
      <4>2. a \in Nat /\ b \in Nat /\ c \in Nat /\ d \in Nat /\ nAsks \in Nat
        BY Holding
      <4> HIDE DEF a, b, c, d
      <4>3. QED BY <4>1, <4>2
    <3>4. QED BY <2>5, <3>2, <3>3
  <2>8. logins # 0
    BY <2>3 DEF DeliveryInv
  <2>9. logins = 1 => nHeld' <= nAsks
    BY <2>6, <2>7, Holding
  <2>10. NeverLost' => Tags \subseteq TagsIn(inbox'["server"])
    BY <2>3, <2>4, <2>5 DEF NeverLost
  <2>11. NeverLost' /\ pc' = "compare" => Tags \subseteq TagsIn(snapshot')
    BY <2>3 DEF DeliveryInv, NeverLost
  <2>12. (counting => serving # Idle)' /\ Tags' = Tags /\ nAsks' = nAsks
    BY <2>3 DEF DeliveryInv, Tags, nAsks
  <2>13. QED BY <2>3, <2>8, <2>9, <2>10, <2>11, <2>12 DEF DeliveryInv
<1>2. CASE ClientLists
  <2> DEFINE q == inbox["client"]
             r == Head(q)
  <2>1. q \in Seq(Reply) /\ q # <<>> /\ r \in Reply /\ replies \in Seq(Reply)
    BY <1>2, Holding, QueueOperations DEF ClientLists
  <2>2. /\ Len(q) \in Nat /\ Len(Tail(q)) = Len(q) - 1 /\ Len(q) > 0
        /\ TagsIn(q) = {r.tag} \cup TagsIn(Tail(q))
    BY <2>1, TailTags
  <2>3. /\ replies' = Append(replies, r) /\ inbox'["client"] = Tail(q)
        /\ inbox'["server"] = inbox["server"]
        /\ UNCHANGED <<link, logins, ack, pc, snapshot, serving, counting>>
    BY <1>2, Holding DEF ClientLists, Taken, serverVars, mainVars, Side
  <2>4. Len(replies') = Len(replies) + 1 /\ TagsIn(replies') = TagsIn(replies) \cup {r.tag}
    <3> HIDE DEF q, r
    <3>1. Append(replies, r) = replies \o <<r>> /\ Len(replies \o <<r>>) = Len(replies) + 1
          /\ TagsIn(replies \o <<r>>) = TagsIn(replies) \cup {r.tag}
      BY <2>1, AppendedTags
    <3>2. replies' = Append(replies, r)
      BY <2>3
    <3>3. QED BY <3>1, <3>2
  <2>5. InHand' = InHand /\ nInHand' = nInHand
    BY <2>3 DEF InHand, nInHand
  <2>6. nHeld' = nHeld
    <3> DEFINE a == Len(inbox["server"])
               b == nInHand
               c == Len(q)
               d == Len(replies)
    <3>1. nHeld' = a + b + (c - 1) + (d + 1) /\ nHeld = a + b + c + d
      BY <2>2, <2>3, <2>4, <2>5 DEF nHeld
    <3>2. a \in Nat /\ b \in Nat /\ c \in Nat /\ d \in Nat
      BY <2>2, Holding
    <3> HIDE DEF a, b, c, d
    <3>3. QED BY <3>1, <3>2
  <2>7. (counting => serving # Idle)'
    BY <2>3 DEF DeliveryInv
  <2>8. QED BY <2>2, <2>3, <2>4, <2>5, <2>6, <2>7, HandingOnKeeps, Holding
<1>3. CASE ClientBumps
  <2>1. UNCHANGED <<inbox, link, logins, ack, pc, snapshot, replies, serving, counting>>
    BY <1>3 DEF ClientBumps, meshVars, serverVars, mainVars
  <2>2. QED BY <2>1 DEF DeliveryInv, NeverLost, InHand, nInHand, nHeld, nAsks, Tags
<1>4. QED BY <1>1, <1>2, <1>3

\* The mesh gives and takes the link; a pump that ends takes it along.
LEMMA MeshKeepsDelivery ==
  ASSUME DeliveryInv, FailedInv, TypeOK, Unmeshed,
         Login \/ LinkLost \/ PumpEnds("server") \/ PumpEnds("client")
  PROVE  DeliveryInv'
<1>1. UNCHANGED <<pc, snapshot, replies, serving, counting>>
  BY DEF Unmeshed, serverVars, clientVars, mainVars
<1>2. (counting => serving # Idle)' /\ nInHand' = nInHand
  BY <1>1 DEF DeliveryInv, nInHand, InHand
<1>3. CASE Login
  <2>1. /\ logins' = logins + 1 /\ ack' = TRUE /\ link' = TRUE /\ inbox' = inbox
    BY <1>3 DEF Login
  <2>2. nHeld' = nHeld /\ (logins = 0 => nHeld = 0)
    BY <1>1, <1>2, <2>1 DEF nHeld, DeliveryInv
  <2>3. logins = 0 => pc # "compare"
    BY DEF FailedInv
  <2>4. nAsks' = nAsks
    BY DEF nAsks
  <2>5. logins' = 1 => nHeld' = 0 /\ pc' # "compare"
    BY <1>1, <2>1, <2>2, <2>3, Holding
  <2>6. logins' # 0
    BY <2>1, Holding
  <2>7. QED BY <1>2, <2>1, <2>4, <2>5, <2>6, AsksFacts DEF DeliveryInv, NeverLost
<1>4. CASE LinkLost
  <2>1. PICK n \in [Side -> 0..(Len(inbox["server"]) + Len(inbox["client"]))] :
          (\A s \in Side : n[s] <= Len(inbox[s])) /\ inbox' = CutTo(n)
    BY <1>4 DEF LinkLost
  <2>2. \A s \in Side : n[s] \in 0..Len(inbox[s])
    BY <2>1, Holding DEF Side
  <2>3. Len(inbox'["server"]) = n["server"] /\ Len(inbox'["client"]) = n["client"]
    BY <2>1, <2>2, CutLength, Holding DEF CutTo, Side
  <2>4. nHeld' \in Nat /\ nHeld' <= nHeld
    BY <1>1, <1>2, <2>2, <2>3, Holding DEF nHeld, Side
  <2>5. QED BY <1>2, <1>4, <2>4, LosingKeeps DEF LinkLost
<1>5. ASSUME NEW s \in Side, PumpEnds(s) PROVE DeliveryInv'
  <2>1. Len(<<>>) = 0
    OBVIOUS
  <2>2. /\ link' = FALSE /\ logins' = logins /\ (ack' => ack)
        /\ inbox' = [inbox EXCEPT ![s] = <<>>]
    BY <1>5 DEF PumpEnds
  <2>3. nHeld' \in Nat /\ nHeld' <= nHeld
    BY <1>1, <1>2, <2>1, <2>2, Holding DEF nHeld, Side
  <2>4. QED BY <1>2, <2>2, <2>3, LosingKeeps
<1>6. QED BY <1>3, <1>4, <1>5 DEF Side

\* Main leaves the questions where they are, and copies the list when it has all of them.
LEMMA MainKeepsDelivery ==
  ASSUME DeliveryInv, GateIsBarrier, TypeOK, Main, Running, [Next]_vars PROVE DeliveryInv'
<1>1. UNCHANGED <<link, logins, ack, inbox, serving, counting, replies>>
  BY MainFrame
<1>2. nHeld' = nHeld /\ InHand' = InHand /\ nAsks' = nAsks /\ Tags' = Tags /\ NeverLost' = NeverLost
  BY <1>1 DEF nHeld, nInHand, InHand, nAsks, Tags, NeverLost
<1>3. pc' \in EarlyPC => pc \in EarlyPC
  BY PlaceOfMain
<1>4. ASSUME NeverLost, pc' = "compare" PROVE Tags \subseteq TagsIn(snapshot')
  <2>1. pc = "snapshot" /\ snapshot' = replies /\ pc \in EarlyPC
    BY <1>4, MainJudges DEF TakeSnapshot, Running, EarlyPC
  <2> DEFINE a == Len(inbox["server"])
             b == nInHand
             c == Len(inbox["client"])
             d == Len(replies)
  <2>2. nHeld = a + b + c + d
    BY DEF nHeld
  <2>3. a \in Nat /\ b \in Nat /\ c \in Nat /\ d \in Nat /\ nAsks \in Nat \ {0}
    BY Holding
  <2>4. d >= nAsks /\ nHeld <= nAsks /\ (ack => nHeld = 0)
    BY <1>4, <2>1 DEF GateIsBarrier, DeliveryInv, NeverLost
  <2>5. a = 0 /\ b = 0 /\ c = 0 /\ ~ack
    <3> HIDE DEF a, b, c, d
    <3>1. QED BY <2>2, <2>3, <2>4
  <2>6. TagsIn(inbox["server"]) = {} /\ InHand = {} /\ TagsIn(inbox["client"]) = {}
    BY <2>5 DEF TagsIn, nInHand
  <2>7. Tags \subseteq TagsIn(inbox["server"]) \cup InHand \cup TagsIn(inbox["client"]) \cup TagsIn(replies)
    BY <1>4, <2>1, <2>5 DEF DeliveryInv
  <2>8. QED BY <2>1, <2>6, <2>7
<1>5. QED BY <1>1, <1>2, <1>3, <1>4 DEF DeliveryInv

LEMMA DeliveryInductive ==
  ASSUME IInv, HubInv, DeliveryInv, FailedInv, [Next]_vars PROVE DeliveryInv'
<1>1. TypeOK /\ GateIsBarrier
  BY DEF IInv
<1>2. CASE ServerLooksUp \/ ServerSends \/ ServerCounts
  BY <1>1, <1>2, ServerHandsOn
<1>3. CASE OnPeerUp \/ ClientLists \/ ClientBumps
  BY <1>1, <1>3, ClientAsksAndLists
<1>4. CASE Unmeshed /\ (Login \/ LinkLost \/ PumpEnds("server") \/ PumpEnds("client"))
  BY <1>1, <1>4, MeshKeepsDelivery
<1>5. CASE Main /\ Running
  BY <1>1, <1>5, MainKeepsDelivery
<1>6. CASE UNCHANGED vars
  BY <1>6 DEF DeliveryInv, vars, meshVars, serverVars, clientVars, mainVars, NeverLost, InHand, nInHand,
     nHeld, nAsks, Tags
<1>7. QED
  BY <1>2, <1>3, <1>4, <1>5, <1>6 DEF Next, ServerThread, ClientThread, LinkUp, LinkDown

\* Where every tag is in main's copy, every question compares right.
LEMMA CompletesRight ==
  ASSUME snapshot \in Seq(Right), Tags \subseteq TagsIn(snapshot), NEW i \in Tags PROVE IsRight(i)
<1>1. PICK k \in 1..Len(snapshot) : snapshot[k].tag = i /\ \A j \in 1..(k - 1) : snapshot[j].tag # i
  BY FirstTagged
<1>2. snapshot[k] \in Right
  BY ElementOfSeq
<1>3. QED BY <1>1, <1>2 DEF IsRight, Tagged, Right

\* What a step of main adds to the failed checks.
LEMMA MainFails ==
  ASSUME IInv, HubInv, RightInv, DeliveryInv, FailedInv, Main, Running
  PROVE  /\ {"listen", "connect"} \cap failed' # {} => logins = 0 /\ ~Running'
         /\ logins = 0 => /\ pc' \notin {"count", "snapshot", "compare", "peerClient", "peerServer", "tag"}
                          /\ failed' \subseteq failed \cup {"listen", "connect", "timeout"}
         /\ NeverLost => failed' \subseteq failed \cup {"timeout", "count", "tag"}
<1> USE DEF Goto
<1>1. {"listen", "connect"} \cap failed = {}
  BY DEF FailedInv
<1>2. logins = 0 => pc \notin {"count", "snapshot", "compare", "peerClient", "peerServer", "tag"}
  BY DEF FailedInv
<1>3. NeverLost => logins # 0
  BY DEF NeverLost
<1>4. CASE SetupFailure
  <2>1. logins = 0
    BY <1>4, MaxLoginsAssumption DEF SetupFailure, HubInv, IInv, TypeOK, MeshTypeOK
  <2>2. QED BY <1>3, <1>4, <2>1 DEF SetupFailure, Running, Undecided
<1>5. CASE Create \/ CreateServer \/ Listen \/ CreateClient \/ Connect
  BY <1>1, <1>5 DEF Create, CreateServer, CreateClient, CreateHub, Listen, Connect, Arm
<1>6. CASE GateOpens
  <2>1. logins # 0
    <3>1. nBumped <= Len(replies) /\ nBumped >= nAsks
      BY <1>6, LenProperties DEF GateOpens, IInv, GateInv, TypeOK
    <3>2. Len(replies) # 0 /\ Len(replies) \in Nat
      BY <3>1, Holding DEF IInv, TypeOK
    <3>3. nHeld # 0
      <4> DEFINE a == Len(inbox["server"])
                 b == nInHand
                 c == Len(inbox["client"])
                 d == Len(replies)
      <4>1. nHeld = a + b + c + d
        BY DEF nHeld
      <4>2. a \in Nat /\ b \in Nat /\ c \in Nat /\ d \in Nat /\ d # 0
        BY <3>2, Holding DEF IInv
      <4> HIDE DEF a, b, c, d
      <4>3. QED BY <4>1, <4>2
    <3>4. QED BY <3>3 DEF DeliveryInv
  <2>2. QED BY <1>1, <1>6, <2>1 DEF GateOpens
<1>7. CASE GateTimesOut
  BY <1>1, <1>7 DEF GateTimesOut
<1>8. CASE CheckCount
  BY <1>1, <1>2, <1>8 DEF CheckCount, Fails
<1>9. CASE TakeSnapshot
  <2>1. ASSUME NeverLost PROVE Len(replies) = nAsks
    <3> DEFINE a == Len(inbox["server"])
               b == nInHand
               c == Len(inbox["client"])
               d == Len(replies)
    <3>1. nHeld = a + b + c + d
      BY DEF nHeld
    <3>2. a \in Nat /\ b \in Nat /\ c \in Nat /\ d \in Nat /\ nAsks \in Nat
      BY Holding DEF IInv
    <3>3. d >= nAsks /\ nHeld <= nAsks
      BY <1>9, <2>1 DEF TakeSnapshot, IInv, GateIsBarrier, DeliveryInv, NeverLost
    <3>4. d = nAsks
      <4> HIDE DEF a, b, c, d
      <4>1. QED BY <3>1, <3>2, <3>3
    <3>5. QED BY <3>4
  <2>2. QED BY <1>1, <1>2, <1>9, <2>1 DEF TakeSnapshot, Fails
<1>10. CASE Compare
  <2>1. ASSUME NeverLost PROVE \A i \in 1..nAsks : IsRight(i)
    <3>1. snapshot \in Seq(Right) /\ Tags \subseteq TagsIn(snapshot)
      BY <1>10, <2>1 DEF Compare, RightInv, EarlyPC, DeliveryInv
    <3>2. QED BY <3>1, CompletesRight DEF Tags
  <2> DEFINE wrong == \E i \in 1..nAsks : ~IsRight(i)
  <2>2. NeverLost => ~wrong
    BY <2>1
  <2>3. failed' = failed \cup Fails("answers", wrong) /\ pc = "compare" /\ pc' = "peerClient"
    BY <1>10, Zenon DEF Compare
  <2> HIDE DEF wrong
  <2>4. QED BY <1>1, <1>2, <2>2, <2>3 DEF Fails
<1>11. CASE CheckClientPeer \/ CheckServerPeer
  <2>1. failed' = failed \/ ~link
    BY <1>11 DEF CheckClientPeer, CheckServerPeer, CheckPeer, Fails
  <2>2. failed' \subseteq failed \cup {"peerClient", "peerServer"} /\ logins # 0
    BY <1>2, <1>11 DEF CheckClientPeer, CheckServerPeer, CheckPeer, Fails
  <2>3. QED BY <1>1, <2>1, <2>2 DEF NeverLost
<1>12. CASE CheckTag
  <2>1. failed' \subseteq failed \cup {"tag"} /\ logins # 0
    BY <1>2, <1>12 DEF CheckTag, Fails
  <2>2. QED BY <1>1, <2>1
<1>13. CASE Write \/ DisposeClient \/ DisposeServer \/ DisposeStore \/ Verdict
  BY <1>1, <1>13 DEF Write, DisposeClient, DisposeServer, Dispose, DisposeStore, Verdict
<1>14. QED
  BY <1>4, <1>5, <1>6, <1>7, <1>8, <1>9, <1>10, <1>11, <1>12, <1>13 DEF Main, MainOn, Setup, Checks

\* A login opens the first, and so far clean, account of a link that stays up.
LEMMA FailedInductive ==
  ASSUME IInv, HubInv, RightInv, DeliveryInv, FailedInv, [Next]_vars PROVE FailedInv'
<1>1. CASE Main /\ Running
  <2>1. logins' = logins /\ link' = link
    BY <1>1, MainFrame
  <2>2. QED
    BY <1>1, <2>1, MainFails DEF FailedInv, OnlyTimingFails, NeverLost
<1>2. CASE LinkUp /\ Running /\ ~Main
  <2>1. UNCHANGED <<pc, failed>> /\ logins' = logins + 1 /\ logins \in Nat
    BY <1>2, PlaceOfMain, MaxLoginsAssumption DEF LinkUp, Login, IInv, TypeOK, MeshTypeOK
  <2>2. {"listen", "connect"} \cap failed = {} /\ (logins = 0 => failed \subseteq {"timeout"})
    BY <1>2 DEF FailedInv
  <2>3. QED BY <2>1, <2>2 DEF FailedInv, OnlyTimingFails, NeverLost
<1>3. CASE ~Main /\ ~LinkUp
  <2>1. UNCHANGED <<pc, failed, exitCode>>
    BY <1>3, PlaceOfMain
  <2>2. logins' = logins /\ (link' = link \/ link' = FALSE)
    <3>1. PumpEnds("server") \/ PumpEnds("client") \/ LinkDown => logins' = logins /\ link' = FALSE
      BY DEF PumpEnds, LinkDown, LinkLost
    <3>2. \/ PumpEnds("server") \/ PumpEnds("client") \/ LinkDown
          \/ logins' = logins /\ link' = link
      BY <1>3 DEF Next, ServerThread, ClientThread, ServerLooksUp, ServerSends, ServerCounts,
         OnPeerUp, ClientLists, ClientBumps, vars, meshVars
    <3>3. QED BY <3>1, <3>2
  <2>3. QED BY <2>1, <2>2 DEF FailedInv, OnlyTimingFails, NeverLost, Running
<1>4. CASE UNCHANGED vars
  BY <1>4 DEF vars, meshVars, mainVars, FailedInv, OnlyTimingFails, NeverLost, Running
<1>5. QED BY <1>1, <1>2, <1>3, <1>4 DEF Next

-------------------------------------------------------------------------------
(* The theorems. *)

LEMMA IInvInit == Init => IInv
<1> SUFFICES ASSUME Init PROVE IInv
  OBVIOUS
<1> USE DEF Init
<1>1. <<>> \in Seq(Question) /\ <<>> \in Seq(Reply) /\ <<>> \in Seq(Honest) /\ Len(<<>>) = 0
  BY EmptySeq
<1>2. inbox = [s \in Side |-> <<>>] /\ MeshTypeOK
  <2>1. link \in BOOLEAN /\ ack \in BOOLEAN /\ con \in [Side -> BOOLEAN]
    BY DEF MeshInit
  <2>2. QED BY <2>1, MaxLoginsAssumption DEF MeshInit, MeshTypeOK, HubState
<1>3. InboxOf(Reply) /\ InboxOf(Honest)
  BY <1>1, <1>2 DEF InboxOf, Side
<1>4. TypeOK
  BY <1>1, <1>2, <1>3, AsksFacts DEF TypeOK, EarlyPC
<1>5. BuiltInv /\ GateInv /\ GateIsBarrier
  BY <1>1, <1>3 DEF BuiltInv, GateInv, GateIsBarrier
<1>6. JudgedInv
  BY DEF JudgedInv, Undecided
<1>7. QED BY <1>1, <1>4, <1>5, <1>6 DEF IInv

LEMMA IInvInductive == IInv /\ [Next]_vars => IInv'
BY TypeInductive, GateInductive, BuiltInductive, SnapshotInductive, JudgedInductive DEF IInv

\* The invariant the theorems rest on: the list and the gate agree, every answer before
\* main's write is one out of the store as built, and no failure is dropped.
THEOREM Invariant == Spec => []IInv
BY IInvInit, IInvInductive, PTL DEF Spec

\* Every variable keeps to its values, and the exit code to the contract.
THEOREM TypeCorrect == Spec => []TypeOK
<1>1. IInv => TypeOK
  BY DEF IInv
<1>2. QED BY <1>1, Invariant, PTL

\* What the gate has counted is in the list that main copies.
THEOREM GateCorrect == Spec => []GateIsBarrier
<1>1. IInv => GateIsBarrier
  BY DEF IInv
<1>2. QED BY <1>1, Invariant, PTL

\* What main compares was answered before it wrote, whoever asks again.
THEOREM SnapshotCorrect == Spec => []SnapshotPredatesWrite
<1>1. IInv => SnapshotPredatesWrite
  BY ElementOfSeq DEF IInv, SnapshotPredatesWrite, Honest
<1>2. QED BY <1>1, Invariant, PTL

LEMMA DInvInit == Init => DInv
<1> SUFFICES ASSUME Init PROVE DInv
  OBVIOUS
<1> USE DEF Init, MeshInit
<1>1. /\ <<>> \in Seq(Right) /\ <<>> \in Seq(Question) /\ Len(<<>>) = 0
      /\ inbox["server"] = <<>> /\ inbox["client"] = <<>> /\ inbox \in [Side -> {<<>>}]
  BY EmptySeq DEF Side
<1>2. RightInv
  BY <1>1 DEF RightInv, InboxOf
<1>3. HubInv
  BY DEF HubInv, Side
<1>4. nHeld = 0
  <2>1. nInHand = 0 /\ replies = <<>>
    BY DEF nInHand, InHand
  <2>2. Len(inbox["server"]) = 0 /\ Len(inbox["client"]) = 0 /\ Len(replies) = 0
    BY <1>1, <2>1
  <2>3. nHeld = 0 + 0 + 0 + 0
    BY <2>1, <2>2 DEF nHeld
  <2>4. QED BY <2>3
<1>5. DeliveryInv
  BY <1>4 DEF DeliveryInv, NeverLost
<1>6. FailedInv
  BY DEF FailedInv, OnlyTimingFails, NeverLost
<1>7. QED BY <1>2, <1>3, <1>5, <1>6, IInvInit DEF DInv

LEMMA DInvInductive == DInv /\ [Next]_vars => DInv'
<1> SUFFICES ASSUME DInv, [Next]_vars PROVE DInv'
  OBVIOUS
<1>1. IInv /\ HubInv /\ RightInv /\ DeliveryInv /\ FailedInv /\ TypeOK /\ BuiltInv
  BY DEF DInv, IInv
<1>2. QED
  BY <1>1, IInvInductive, HubsInductive, RightInductive, DeliveryInductive, FailedInductive DEF DInv

\* One login asks each question once, and while the link stays up each is on its way,
\* in the server's hand, on its way back or in the list.
THEOREM DeliveryCorrect == Spec => []DInv
BY DInvInit, DInvInductive, PTL DEF Spec

\* On a link that stays up no answer is lost, doubled or mistaken for another's: only
\* the clock and the two reads beside a running handler can fail a run.
THEOREM OnlyTimingFailsCorrect == Spec => []OnlyTimingFails
<1>1. DInv => OnlyTimingFails
  BY DEF DInv, FailedInv
<1>2. QED BY <1>1, DeliveryCorrect, PTL

\* Main's report and the answers listed, one at a time.
LEMMA ServiceVariables ==
  ASSUME IInv, Next
  PROVE  /\ exitCode = Undecided
         /\ \/ UNCHANGED <<exitCode, AnsweredRight>>
            \/ UNCHANGED exitCode /\ \E i \in Tags : AnsweredRight' = AnsweredRight \cup {i}
            \/ UNCHANGED AnsweredRight
<1>1. exitCode = Undecided
  BY DEF Next, Running
<1>2. CASE ClientLists
  <2> DEFINE r == Head(inbox["client"])
  <2>1. r \in Reply /\ replies \in Seq(Reply) /\ replies' = Append(replies, r)
        /\ exitCode' = exitCode
    BY <1>2, QueueOperations DEF ClientLists, IInv, TypeOK, InboxOf, mainVars
  <2> HIDE DEF r
  <2>2. Len(replies) \in Nat /\ Len(replies') = Len(replies) + 1 /\ replies'[Len(replies) + 1] = r
    BY <2>1, AppendProperties, LenProperties
  <2>3. AnsweredRight' \subseteq AnsweredRight \cup {r.tag}
    <3> SUFFICES ASSUME NEW i \in AnsweredRight', i # r.tag PROVE i \in AnsweredRight
      OBVIOUS
    <3>1. PICK k \in 1..Len(replies') : replies'[k].tag = i /\ replies'[k].body = RightBody(i)
      BY DEF AnsweredRight, RightBody
    <3>2. k \in 1..Len(replies)
      BY <2>2, <3>1
    <3>3. replies'[k] = replies[k]
      BY <3>2, ListGrows DEF IInv
    <3>4. QED BY <3>1, <3>2, <3>3 DEF AnsweredRight
  <2>4. AnsweredRight \subseteq AnsweredRight' /\ r.tag \in Tags
    BY <2>1, AnsweredGrows DEF IInv, Reply
  <2>5. QED BY <1>1, <2>1, <2>3, <2>4
<1>3. CASE ~ClientLists
  <2>1. replies' = replies
    BY <1>3, MainFrame DEF Next, ServerThread, ClientThread, ServerLooksUp, ServerSends, ServerCounts,
       OnPeerUp, ClientBumps, LinkUp, LinkDown, Unmeshed, clientVars
  <2>2. AnsweredRight' = AnsweredRight
    BY <2>1 DEF AnsweredRight, RightBody
  <2>3. QED BY <1>1, <2>2
<1>4. QED BY <1>2, <1>3

\* Whatever becomes of the link and however often the questions are asked, the example
\* is a query service: it reports success only with the right answer to each question.
THEOREM ServiceCorrect == Spec => ImplementsService
<1>1. Init => QS!Init
  <2> SUFFICES ASSUME Init PROVE QS!Init
    OBVIOUS
  <2>1. exitCode = Undecided /\ Len(replies) = 0
    BY EmptySeq DEF Init
  <2>2. AnsweredRight = {}
    BY <2>1 DEF AnsweredRight
  <2>3. QED BY <2>1, <2>2 DEF QS!Init, Undecided
<1>2. IInv /\ [Next]_vars => [QS!Next]_QS!vars
  <2> SUFFICES ASSUME IInv, [Next]_vars PROVE [QS!Next]_QS!vars
    OBVIOUS
  <2>1. CASE UNCHANGED vars
    BY <2>1 DEF QS!vars, vars, clientVars, mainVars, AnsweredRight, RightBody
  <2>2. CASE Next
    <3>1. exitCode = Undecided
      BY <2>2, ServiceVariables
    <3>2. CASE UNCHANGED <<exitCode, AnsweredRight>>
      BY <3>2 DEF QS!vars
    <3>3. CASE UNCHANGED exitCode /\ \E i \in Tags : AnsweredRight' = AnsweredRight \cup {i}
      <4>1. PICK i \in Tags : AnsweredRight' = AnsweredRight \cup {i}
        BY <3>3
      <4>2. exitCode' = Undecided
        BY <3>1, <3>3
      <4>3. QS!Answer(i)
        BY <3>1, <4>1, <4>2 DEF QS!Answer, Undecided
      <4>4. QED BY <4>3 DEF QS!Next
    <3>4. CASE UNCHANGED AnsweredRight
      <4>1. CASE exitCode' = Undecided
        BY <3>1, <3>4, <4>1 DEF QS!vars
      <4>2. CASE exitCode' = 0
        <5>1. AnsweredRight = Tags
          BY <3>4, <4>2, IInvInductive, <2>2 DEF IInv, JudgedInv
        <5>2. QED
          BY <3>1, <3>4, <4>2, <5>1 DEF QS!Next, QS!Report, QS!Succeed, Undecided
      <4>3. CASE exitCode' # 0 /\ exitCode' # Undecided
        BY <3>1, <3>4, <4>3 DEF QS!Next, QS!Report, QS!GiveUp, Undecided
      <4>4. QED BY <4>1, <4>2, <4>3
    <3>5. QED BY <2>2, <3>2, <3>3, <3>4, ServiceVariables
  <2>3. QED BY <2>1, <2>2
<1>3. QED BY <1>1, <1>2, Invariant, PTL DEF Spec, ImplementsService, QS!Spec
===============================================================================
