----------------------------- MODULE TwoHubProofs -----------------------------
(***************************************************************************)
(* The lemmas the proofs about the mesh examples rest on: what taking,     *)
(* posting and cutting do to a queue and to the paths and tags in it, and  *)
(* what the main thread of the two-hub harnesses does whatever the pumps   *)
(* it waits for do.                                                        *)
(***************************************************************************)
EXTENDS TwoHubMain, SequenceTheorems, WellFoundedInduction, TLAPS

-------------------------------------------------------------------------------
(* The queues of the mesh. *)

\* Taking the head of a queue, posting to it and cutting it keep its type.
LEMMA QueueOperations ==
  ASSUME NEW S, NEW q \in Seq(S)
  PROVE  /\ q # <<>> => Head(q) \in S /\ Tail(q) \in Seq(S)
         /\ \A msgs \in Seq(S) : q \o msgs \in Seq(S)
         /\ \A e \in S : <<e>> \in Seq(S) /\ Append(q, e) \in Seq(S)
         /\ \A n \in 0..Len(q) : SubSeq(q, 1, n) \in Seq(S)
<1>1. q # <<>> => Head(q) \in S /\ Tail(q) \in Seq(S)
  BY HeadTailProperties
<1>2. \A msgs \in Seq(S) : q \o msgs \in Seq(S)
  BY ConcatProperties
<1>3. \A e \in S : <<e>> \in Seq(S) /\ Append(q, e) \in Seq(S)
  BY AppendProperties
<1>4. ASSUME NEW n \in 0..Len(q) PROVE SubSeq(q, 1, n) \in Seq(S)
  BY SubSeqProperties, LenProperties
<1>5. QED BY <1>1, <1>2, <1>3, <1>4

\* The head of a queue that repeats no path leaves with its path.
LEMMA TailPaths ==
  ASSUME NEW S, NEW q \in Seq(S), q # <<>>, NoRepeat(q)
  PROVE  /\ PathsIn(Tail(q)) \subseteq PathsIn(q)
         /\ Head(q).path \in PathsIn(q)
         /\ Head(q).path \notin PathsIn(Tail(q))
         /\ NoRepeat(Tail(q))
<1>1. /\ Len(q) \in Nat /\ Len(q) # 0 /\ Head(q) = q[1]
      /\ Len(Tail(q)) = Len(q) - 1
      /\ \A i \in 1..Len(Tail(q)) : Tail(q)[i] = q[i + 1]
  BY HeadTailProperties, LenProperties, EmptySeq
<1>2. QED BY <1>1 DEF PathsIn, NoRepeat

\* A posted message adds its path.
LEMMA PostedPaths ==
  ASSUME NEW S, NEW q \in Seq(S), NEW x \in S
  PROVE  /\ PathsIn(q \o <<x>>) = PathsIn(q) \cup {x.path}
         /\ NoRepeat(q) /\ x.path \notin PathsIn(q) => NoRepeat(q \o <<x>>)
<1>1. /\ Len(q) \in Nat /\ <<x>> \in Seq(S) /\ Len(<<x>>) = 1
      /\ Len(q \o <<x>>) = Len(q) + 1
      /\ \A i \in 1..Len(q) : (q \o <<x>>)[i] = q[i]
      /\ (q \o <<x>>)[Len(q) + 1] = x
  BY ConcatProperties, LenProperties
<1>2. QED BY <1>1 DEF PathsIn, NoRepeat

\* A queue that is cut keeps some of its paths.
LEMMA CutPaths ==
  ASSUME NEW S, NEW q \in Seq(S), NEW n \in 0..Len(q)
  PROVE  /\ PathsIn(SubSeq(q, 1, n)) \subseteq PathsIn(q)
         /\ NoRepeat(q) => NoRepeat(SubSeq(q, 1, n))
<1>1. /\ Len(q) \in Nat /\ Len(SubSeq(q, 1, n)) = n
      /\ \A i \in 1..n : SubSeq(q, 1, n)[i] = q[i]
  BY SubSeqProperties, LenProperties
<1>2. QED BY <1>1 DEF PathsIn, NoRepeat

\* A queue without paths is empty.
LEMMA EmptyPaths ==
  /\ PathsIn(<<>>) = {} /\ NoRepeat(<<>>)
  /\ \A S : \A q \in Seq(S) : PathsIn(q) = {} => q = <<>>
<1>1. PathsIn(<<>>) = {} /\ NoRepeat(<<>>)
  BY DEF PathsIn, NoRepeat
<1>2. ASSUME NEW S, NEW q \in Seq(S), q # <<>> PROVE PathsIn(q) # {}
  <2>1. Len(q) \in Nat /\ Len(q) # 0
    BY <1>2, LenProperties, EmptySeq
  <2>2. 1 \in 1..Len(q)
    BY <2>1
  <2>3. QED BY <2>2 DEF PathsIn
<1>3. QED BY <1>1, <1>2

\* The tags in a queue, as its head is taken and as others are posted to it.
LEMMA TailTags ==
  ASSUME NEW S, NEW q \in Seq(S), q # <<>>
  PROVE  /\ Len(q) \in Nat /\ Len(Tail(q)) = Len(q) - 1 /\ Len(q) > 0
         /\ TagsIn(q) = {Head(q).tag} \cup TagsIn(Tail(q))
<1>1. /\ Len(q) \in Nat /\ Len(q) # 0 /\ Head(q) = q[1]
      /\ Len(Tail(q)) = Len(q) - 1
      /\ \A i \in 1..Len(Tail(q)) : Tail(q)[i] = q[i + 1]
  BY HeadTailProperties, LenProperties, EmptySeq
<1>2. ASSUME NEW i \in 1..Len(q), i # 1 PROVE q[i].tag \in TagsIn(Tail(q))
  <2>1. i - 1 \in 1..Len(Tail(q)) /\ Tail(q)[i - 1] = q[i]
    BY <1>1, <1>2
  <2>2. QED BY <2>1 DEF TagsIn
<1>3. QED BY <1>1, <1>2 DEF TagsIn

LEMMA PostedTags ==
  ASSUME NEW S, NEW q \in Seq(S), NEW msgs \in Seq(S)
  PROVE  /\ Len(q \o msgs) = Len(q) + Len(msgs) /\ Len(q) \in Nat /\ Len(msgs) \in Nat
         /\ TagsIn(q \o msgs) = TagsIn(q) \cup TagsIn(msgs)
<1>1. /\ Len(q) \in Nat /\ Len(msgs) \in Nat
      /\ Len(q \o msgs) = Len(q) + Len(msgs)
      /\ \A i \in 1..(Len(q) + Len(msgs)) :
           (q \o msgs)[i] = IF i <= Len(q) THEN q[i] ELSE msgs[i - Len(q)]
  BY ConcatProperties, LenProperties
<1>2. ASSUME NEW i \in 1..Len(msgs) PROVE msgs[i].tag \in TagsIn(q \o msgs)
  <2>1. i + Len(q) \in 1..Len(q \o msgs) /\ (q \o msgs)[i + Len(q)] = msgs[i]
    BY <1>1
  <2>2. QED BY <2>1 DEF TagsIn
<1>3. ASSUME NEW i \in 1..Len(q) PROVE q[i].tag \in TagsIn(q \o msgs)
  <2>1. i \in 1..Len(q \o msgs) /\ (q \o msgs)[i] = q[i]
    BY <1>1
  <2>2. QED BY <2>1 DEF TagsIn
<1>4. ASSUME NEW i \in 1..Len(q \o msgs) PROVE (q \o msgs)[i].tag \in TagsIn(q) \cup TagsIn(msgs)
  <2>1. CASE i <= Len(q)
    <3>1. i \in 1..Len(q) /\ (q \o msgs)[i] = q[i]
      BY <1>1, <2>1
    <3>2. QED BY <3>1 DEF TagsIn
  <2>2. CASE i > Len(q)
    <3>1. i - Len(q) \in 1..Len(msgs) /\ (q \o msgs)[i] = msgs[i - Len(q)]
      BY <1>1, <2>2
    <3>2. QED BY <3>1 DEF TagsIn
  <2>3. QED BY <1>1, <2>1, <2>2
<1>5. TagsIn(q \o msgs) = TagsIn(q) \cup TagsIn(msgs)
  BY <1>2, <1>3, <1>4 DEF TagsIn
<1>6. QED BY <1>1, <1>5

LEMMA AppendedTags ==
  ASSUME NEW S, NEW q \in Seq(S), NEW e \in S
  PROVE  /\ Len(q) \in Nat
         /\ Append(q, e) = q \o <<e>> /\ Len(q \o <<e>>) = Len(q) + 1
         /\ TagsIn(q \o <<e>>) = TagsIn(q) \cup {e.tag}
<1>1. <<e>> \in Seq(S) /\ Len(<<e>>) = 1 /\ <<e>>[1] = e
  OBVIOUS
<1>2. TagsIn(<<e>>) = {e.tag}
  BY <1>1 DEF TagsIn
<1>3. Append(q, e) = q \o <<e>>
  BY AppendIsConcat
<1>4. Len(q) \in Nat /\ Len(q \o <<e>>) = Len(q) + 1 /\ TagsIn(q \o <<e>>) = TagsIn(q) \cup {e.tag}
  <2> DEFINE m == <<e>>
  <2>1. m \in Seq(S) /\ Len(m) = 1 /\ TagsIn(m) = {e.tag}
    BY <1>1, <1>2
  <2> HIDE DEF m
  <2>2. /\ Len(q) \in Nat /\ Len(q \o m) = Len(q) + Len(m)
        /\ TagsIn(q \o m) = TagsIn(q) \cup TagsIn(m)
    BY <2>1, PostedTags
  <2>3. QED BY <2>1, <2>2 DEF m
<1>5. QED BY <1>3, <1>4

\* A queue that is cut is no longer than before.
LEMMA CutLength ==
  ASSUME NEW S, NEW q \in Seq(S), NEW n \in 0..Len(q)
  PROVE  Len(q) \in Nat /\ Len(SubSeq(q, 1, n)) = n
BY SubSeqProperties, LenProperties

\* A tag that is in a queue is in a first place of it.
LEMMA FirstTagged ==
  ASSUME NEW S, NEW q \in Seq(S), NEW t \in TagsIn(q)
  PROVE  \E k \in 1..Len(q) : q[k].tag = t /\ \A j \in 1..(k - 1) : q[j].tag # t
<1> DEFINE T == {k \in 1..Len(q) : q[k].tag = t}
           R == OpToRel(<, Nat)
<1>1. Len(q) \in Nat /\ T \subseteq Nat /\ T # {}
  BY LenProperties DEF TagsIn
<1>2. IsWellFoundedOn(R, Nat)
  BY NatLessThanWellFounded
<1>3. \A x, y \in Nat : y < x => <<y, x>> \in R
  BY DEF OpToRel
<1> HIDE DEF R
<1>4. PICK k \in T : \A j \in T : ~(<<j, k>> \in R)
  <2> HIDE DEF T
  <2>1. QED BY <1>1, <1>2, WFMin
<1>5. \A j \in 1..(k - 1) : j \in Nat /\ k \in Nat /\ j < k /\ j \in 1..Len(q)
  BY <1>1
<1>6. \A j \in 1..(k - 1) : q[j].tag # t
  BY <1>3, <1>4, <1>5
<1>7. QED BY <1>4, <1>6
-------------------------------------------------------------------------------
(* The main thread. *)

\* Main leaves the queues and the link alone, and never counts a failure.
LEMMA MainLeavesPumps ==
  ASSUME Main PROVE UNCHANGED <<inbox, link, ack, logins, nFailed>>
BY DEF Main, MainOn, Setup, Teardown, CreateEvent, Startup, SpawnServer, PostService,
   SpawnClient, Dial, SetupFails, WaitSignalled, WaitFails, Verdict, CloseClient, CloseServer,
   JoinClient, JoinServer, Join, CloseEvent, NullEvent, DestroyHubs, Exit, SpawnHub, CloseHub,
   PostP2PeerCon, meshVars, Undecidedly

\* Main keeps its own variables and the hubs it handles within their types.
LEMMA MainType ==
  ASSUME MeshTypeOK, MainTypeOK, Main PROVE MeshTypeOK' /\ MainTypeOK'
<1>1. gDone' \in BOOLEAN
  <2>1. gDone' = gDone \/ gDone' = TRUE \/ gDone' = FALSE
    BY DEF Main, MainOn, Setup, Teardown, CreateEvent, Startup, SpawnServer, PostService,
       SpawnClient, Dial, SetupFails, WaitSignalled, WaitFails, Verdict, CloseClient,
       CloseServer, JoinClient, JoinServer, Join, CloseEvent, NullEvent, DestroyHubs, Exit
  <2>2. QED BY <2>1, Zenon DEF MainTypeOK
<1>2. MainTypeOK'
  <2>1. CASE Startup \/ Setup
    BY <1>1, <2>1 DEF MainTypeOK, Startup, Setup, CreateEvent, SpawnServer, PostService,
       SpawnClient, Dial, SetupFails, Goto, Undecidedly, Undecided
  <2>2. CASE WaitSignalled \/ WaitFails \/ Verdict
    BY <1>1, <2>2 DEF MainTypeOK, WaitSignalled, WaitFails, Verdict, Goto, Undecidedly
  <2>3. CASE Teardown \/ DestroyHubs
    BY <1>1, <2>3 DEF MainTypeOK, Teardown, CloseClient, CloseServer, JoinClient,
       JoinServer, Join, CloseEvent, NullEvent, DestroyHubs, Exit, Goto, Undecidedly, Side
  <2>4. QED BY <2>1, <2>2, <2>3 DEF Main, MainOn
<1>3. \/ UNCHANGED <<hub, con>>
      \/ \E s \in Side : SpawnHub(s) \/ PostP2PeerCon(s) \/ CloseHub(s)
  BY DEF Main, MainOn, Setup, Teardown, CreateEvent, Startup, SpawnServer, PostService,
     SpawnClient, Dial, SetupFails, WaitSignalled, WaitFails, Verdict, CloseClient, CloseServer,
     JoinClient, JoinServer, Join, CloseEvent, NullEvent, DestroyHubs, Exit, meshVars, Side
<1>4. hub' \in [Side -> HubState] /\ con' \in [Side -> BOOLEAN]
  BY <1>3 DEF MeshTypeOK, SpawnHub, PostP2PeerCon, CloseHub, HubState
<1>5. MeshTypeOK'
  BY <1>4, MainLeavesPumps DEF MeshTypeOK
<1>6. QED BY <1>2, <1>5

LEMMA MainInitType == MainInit => MeshTypeOK /\ MainTypeOK
<1>1. MainInit => link \in BOOLEAN /\ ack \in BOOLEAN /\ gDone \in BOOLEAN
  BY Zenon DEF MainInit, MeshInit
<1>2. MainInit => MeshTypeOK
  BY <1>1, MaxLoginsAssumption DEF MainInit, MeshInit, MeshTypeOK, HubState
<1>3. MainInit => MainTypeOK
  BY <1>1 DEF MainInit, MainTypeOK, Undecided
<1>4. QED BY <1>2, <1>3

\* The event is set by no step of main, and only an event that was set brings it
\* to the verdict.
LEMMA MainEvent ==
  ASSUME Main PROVE /\ doneEvent' = "set" => doneEvent = "set"
                    /\ pc' = "verdict" => doneEvent = "set"
                    /\ doneEvent' = "closed" => doneEvent = "closed" \/ pc = "closeEvent"
BY DEF Main, MainOn, Setup, CreateEvent, Startup, SpawnServer, PostService, SpawnClient,
   Dial, SetupFails, WaitSignalled, WaitFails, Verdict, Teardown, CloseClient, CloseServer,
   JoinClient, JoinServer, Join, CloseEvent, NullEvent, DestroyHubs, Exit, Goto

\* Main decides for 0 only in the verdict, and only with no failure counted.
LEMMA MainDecides ==
  ASSUME Main PROVE nExit' = nExit \/ nExit' # 0 \/ (pc = "verdict" /\ nFailed = 0)
BY DEF Main, MainOn, Setup, CreateEvent, Startup, SpawnServer, PostService, SpawnClient,
   Dial, SetupFails, WaitSignalled, WaitFails, Verdict, Teardown, CloseClient, CloseServer,
   JoinClient, JoinServer, Join, CloseEvent, NullEvent, DestroyHubs, Exit

\* A hub's thread that has ended stays ended for main, and a hub that has stopped
\* is not started again once main has left its setup.
LEMMA MainKeepsEnded ==
  ASSUME MeshTypeOK, MainTypeOK, Main, MainTeardownInv
  PROVE  /\ \A s \in Side : Ended(s) /\ pc \notin SetupPC => Ended(s)'
         /\ \A s \in Side : hub'[s] = "stopped" => hub[s] = "stopped"
         /\ con'["client"] = con["client"] \/ pc = "dial"
         /\ pc \notin SetupPC => pc' \notin SetupPC
<1>1. CASE Startup \/ Setup
  BY <1>1 DEF Startup, Setup, CreateEvent, SpawnServer, PostService, SpawnClient, Dial,
     SetupFails, SpawnHub, PostP2PeerCon, Goto, Undecidedly, SetupPC, Ended, meshVars,
     MeshTypeOK, HubState, Side
<1>2. CASE WaitSignalled \/ WaitFails \/ Verdict \/ DestroyHubs
  BY <1>2 DEF WaitSignalled, WaitFails, Verdict, DestroyHubs, Goto, Undecidedly, SetupPC,
     Ended, meshVars
<1>3. CASE Teardown
  BY <1>3 DEF Teardown, CloseClient, CloseServer, JoinClient, JoinServer, Join, CloseEvent,
     NullEvent, Exit, CloseHub, Goto, Undecidedly, SetupPC, Ended, meshVars, MeshTypeOK,
     HubState, Side
<1>4. QED BY <1>1, <1>2, <1>3 DEF Main, MainOn

\* An end of the link that was handed over is not taken back.
LEMMA MainCons == ASSUME MeshTypeOK, Main PROVE con["client"] => con'["client"]
BY DEF MeshTypeOK, Main, MainOn, Setup, CreateEvent, Startup, SpawnServer, PostService,
   SpawnClient, Dial, SetupFails, WaitSignalled, WaitFails, Verdict, Teardown, CloseClient,
   CloseServer, JoinClient, JoinServer, Join, CloseEvent, NullEvent, DestroyHubs, Exit,
   SpawnHub, PostP2PeerCon, CloseHub, meshVars, Side

\* Main tears down in the order its joins allow.
LEMMA MainTeardown ==
  ASSUME MeshTypeOK, MainTypeOK, Main, MainTeardownInv PROVE MainTeardownInv'
<1> USE DEF MeshTypeOK, MainTypeOK, Side
<1>1. CASE Startup \/ Setup
  BY <1>1 DEF Startup, Setup, CreateEvent, SpawnServer, PostService, SpawnClient, Dial,
     SetupFails, SpawnHub, PostP2PeerCon, Goto, Undecidedly, MainTeardownInv, SetupPC, Ended,
     meshVars
<1>2. CASE WaitSignalled \/ WaitFails \/ Verdict \/ DestroyHubs
  BY <1>2 DEF WaitSignalled, WaitFails, Verdict, DestroyHubs, Goto, Undecidedly,
     MainTeardownInv, SetupPC, Ended, meshVars
<1>3. CASE CloseClient \/ CloseServer
  BY <1>3 DEF CloseClient, CloseServer, CloseHub, Goto, Undecidedly, MainTeardownInv, SetupPC,
     Ended
<1>4. CASE JoinClient \/ JoinServer
  BY <1>4 DEF JoinClient, JoinServer, Join, Goto, MainTeardownInv, SetupPC, Ended, meshVars
<1>5. CASE CloseEvent \/ NullEvent \/ Exit
  BY <1>5 DEF CloseEvent, NullEvent, Exit, Goto, Undecidedly, MainTeardownInv, SetupPC, Ended,
     meshVars
<1>6. QED BY <1>1, <1>2, <1>3, <1>4, <1>5 DEF Main, MainOn, Teardown
===============================================================================
