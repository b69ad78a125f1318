------------------------- MODULE WsaStoreDirectProofs -------------------------
(***************************************************************************)
(* What holds of WsaStoreDirect for every store, every expectation, every  *)
(* size of the image and every number of logins.                           *)
(***************************************************************************)
EXTENDS WsaStoreDirect, TwoHubProofs, FiniteSetTheorems

-------------------------------------------------------------------------------
(* The operators of the model. *)

\* The failed CHECKs of an image are counted by a number, which is 0 only if none.
LEMMA WrongFinite ==
  ASSUME NEW image
  PROVE  /\ Cardinality(Wrong(image)) \in Nat
         /\ Cardinality(Wrong(image)) = 0 => Wrong(image) = {}
<1>1. Wrong(image) \subseteq DOMAIN Expect
  BY DEF Wrong
<1>2. IsFiniteSet(Wrong(image))
  BY <1>1, ExpectAssumption, FS_Subset
<1>3. QED BY <1>2, FS_CardinalityType, FS_EmptySet

\* Main's step in this example is one of the harness's.
LEMMA StoreMainIsMain ==
  ASSUME StoreMain
  PROVE  Main /\ UNCHANGED <<inbox, link, ack, logins, nFailed>> /\ UNCHANGED clientVars
              /\ UNCHANGED serverVars
BY MainLeavesPumps DEF StoreMain, Unpumped

\* The steps that are no handler's: of main, the link, a pump that ends, the hook.
Elsewhere ==
  \/ StoreMain \/ LinkUp \/ LinkDown \/ Asserts \/ UNCHANGED vars
  \/ sending = "idle" /\ PumpEnds("client") /\ Unmeshed
  \/ rebuilding = "idle" /\ PumpEnds("server") /\ Unmeshed

-------------------------------------------------------------------------------
(* Types. *)

LEMMA TypeInit == Init => TypeOK
<1>1. <<>> \in Seq(Payload)
  BY EmptySeq
<1>2. Init => inbox["server"] = <<>> /\ inbox["client"] = <<>>
  BY DEF Init, MainInit, MeshInit, Side
<1>3. Init => bSent \in BOOLEAN
  BY Zenon DEF Init
<1>4. Init => /\ sendFile \in Image \cup {None} /\ recvFile \in Image \cup {None}
              /\ sending \in {"idle", "save", "read", "post"}
              /\ vImage \in Payload
              /\ rebuilding \in {"idle", "load", "check", "signal"}
              /\ arrived \in Image \cup {None} /\ rebuilt \in Image \cup {None}
  BY DEF Init, Image, Payload
<1>5. Init => inbox \in [Side -> Seq(Payload)]
  BY <1>1 DEF Init, MainInit, MeshInit
<1>6. QED BY <1>2, <1>3, <1>4, <1>5, MainInitType DEF Init, TypeOK

\* What is in a queue of hub s after a step of the mesh was there before.
LEMMA QueueSteps ==
  ASSUME NEW S, NEW q \in Seq(S)
  PROVE  /\ q # <<>> => Head(q) \in S /\ Tail(q) \in Seq(S)
         /\ \A x \in S : q \o <<x>> \in Seq(S)
         /\ \A n \in 0..Len(q) : SubSeq(q, 1, n) \in Seq(S)
<1>1. q # <<>> => Head(q) \in S /\ Tail(q) \in Seq(S)
  BY HeadTailProperties
<1>2. ASSUME NEW x \in S PROVE q \o <<x>> \in Seq(S)
  BY ConcatProperties
<1>3. ASSUME NEW n \in 0..Len(q) PROVE SubSeq(q, 1, n) \in Seq(S)
  BY SubSeqProperties, LenProperties
<1>4. QED BY <1>1, <1>2, <1>3

\* Losing the link cuts the server's queue to one of its prefixes.
LEMMA LinkDownCuts ==
  ASSUME TypeOK, LinkDown
  PROVE  /\ \E n \in 0..Len(inbox["server"]) : inbox'["server"] = SubSeq(inbox["server"], 1, n)
         /\ inbox' \in [Side -> Seq(Payload)]
         /\ inbox'["client"] = <<>>
<1>1. PICK n \in [Side -> 0..(Len(inbox["server"]) + Len(inbox["client"]))] :
        (\A s \in Side : n[s] <= Len(inbox[s])) /\ inbox' = CutTo(n)
  BY DEF LinkDown, LinkLost
<1>2. Len(inbox["server"]) \in Nat /\ inbox["client"] = <<>> /\ Len(inbox["client"]) = 0
  BY LenProperties, EmptySeq DEF TypeOK
<1>3. n["server"] \in 0..Len(inbox["server"]) /\ n["client"] = 0
  BY <1>1, <1>2 DEF Side
<1>4. /\ inbox'["server"] = SubSeq(inbox["server"], 1, n["server"])
      /\ inbox'["client"] = SubSeq(<<>>, 1, 0)
  BY <1>1, <1>2, <1>3 DEF CutTo, Side
<1>5. SubSeq(<<>>, 1, 0) = <<>>
  OBVIOUS
<1>6. inbox' \in [Side -> Seq(Payload)]
  <2>1. /\ SubSeq(inbox["server"], 1, n["server"]) \in Seq(Payload)
        /\ SubSeq(inbox["client"], 1, n["client"]) \in Seq(Payload)
    BY <1>2, <1>3, QueueSteps DEF TypeOK, Side
  <2>2. QED BY <1>1, <2>1 DEF CutTo, Side
<1>7. QED BY <1>3, <1>4, <1>5, <1>6

\* Every step keeps every variable to its values.
LEMMA TypeInductive == ASSUME TypeOK, [Next]_vars PROVE TypeOK'
<1> USE DEF TypeOK, MeshTypeOK, MainTypeOK
<1>1. CASE On_ConLoginAck
  <2>1. ack' \in BOOLEAN
    BY <1>1, Zenon DEF On_ConLoginAck
  <2>2. QED BY <1>1, <2>1 DEF On_ConLoginAck, harnessVars, mainVars, serverVars
<1>2. CASE Save
  <2>1. bSent' = bSent \/ bSent' = TRUE
    BY <1>2 DEF Save, Return
  <2>2. bSent' \in BOOLEAN
    BY <2>1, Zenon
  <2>3. QED BY <1>2, <2>2
    DEF Save, Return, Image, meshVars, harnessVars, mainVars, serverVars
<1>3. CASE SaveThrows
  <2>1. link' \in BOOLEAN
    BY <1>3, Zenon DEF SaveThrows
  <2>2. QED BY <1>3, <2>1 DEF SaveThrows, Image, harnessVars, mainVars, serverVars
<1>4. CASE ReadBack
  <2>1. bSent' = bSent \/ bSent' = TRUE
    BY <1>4 DEF ReadBack, Return
  <2>2. bSent' \in BOOLEAN
    BY <2>1, Zenon
  <2>3. vImage' \in Payload
    BY <1>4 DEF ReadBack, Return, Payload
  <2>4. QED BY <1>4, <2>2, <2>3
    DEF ReadBack, Return, meshVars, harnessVars, mainVars, serverVars
<1>5. CASE Post
  <2>1. inbox' = inbox \/ inbox' = [inbox EXCEPT !["server"] = @ \o <<vImage>>]
    BY <1>5 DEF Post, Posted
  <2>2. inbox["server"] \o <<vImage>> \in Seq(Payload)
    BY QueueSteps DEF Side
  <2>4. inbox' \in [Side -> Seq(Payload)] /\ inbox'["client"] = <<>>
    BY <2>1, <2>2 DEF Side
  <2>5. bSent' \in BOOLEAN
    BY <1>5, Zenon DEF Post, Return
  <2>6. QED BY <1>5, <2>4, <2>5 DEF Post, Return, harnessVars, mainVars, serverVars
<1>6. CASE On_P2PeerBCast
  <2>1. Head(inbox["server"]) \in Payload /\ Tail(inbox["server"]) \in Seq(Payload)
    BY <1>6, QueueSteps DEF On_P2PeerBCast, Side
  <2>2. inbox' \in [Side -> Seq(Payload)] /\ inbox'["client"] = inbox["client"]
    BY <1>6, <2>1 DEF On_P2PeerBCast, Taken, Side
  <2>3. arrived' \in Image \cup {None}
    BY <1>6, <2>1 DEF On_P2PeerBCast, Payload
  <2>4. QED BY <1>6, <2>1, <2>2, <2>3 DEF On_P2PeerBCast, harnessVars, mainVars, clientVars
<1>7. CASE BytesToStore
  BY <1>7 DEF BytesToStore, meshVars, harnessVars, mainVars, clientVars
<1>8. CASE LoadFails
  BY <1>8 DEF LoadFails, meshVars, mainVars, clientVars
<1>9. CASE CheckStore
  <2>1. Cardinality(Wrong(recvFile)) \in Nat
    BY WrongFinite
  <2>2. nFailed' \in Nat
    BY <1>9, <2>1 DEF CheckStore
  <2>3. QED BY <1>9, <2>2 DEF CheckStore, meshVars, mainVars, clientVars
<1>10. CASE ServerSignals
  BY <1>10 DEF ServerSignals, SetDone, meshVars, mainVars, clientVars
<1>11. CASE StoreMain
  <2>1. MeshTypeOK' /\ MainTypeOK'
    BY <1>11, StoreMainIsMain, MainType
  <2>2. QED BY <1>11, <2>1, StoreMainIsMain DEF clientVars, serverVars
<1>12. ASSUME NEW s \in Side, PumpEnds(s), Unmeshed PROVE TypeOK'
  <2>1. <<>> \in Seq(Payload)
    BY EmptySeq
  <2>2. inbox' \in [Side -> Seq(Payload)] /\ inbox'["client"] = <<>>
    BY <1>12, <2>1 DEF PumpEnds, Side
  <2>3. MeshTypeOK'
    BY <1>12 DEF PumpEnds, HubState
  <2>4. QED BY <1>12, <2>1, <2>2, <2>3
    DEF Unmeshed, harnessVars, mainVars, clientVars, serverVars
<1>13. CASE LinkUp
  BY <1>13, MaxLoginsAssumption
     DEF LinkUp, Login, Unmeshed, harnessVars, mainVars, clientVars, serverVars
<1>14. CASE LinkDown
  <2>1. inbox' \in [Side -> Seq(Payload)] /\ inbox'["client"] = <<>>
    BY <1>14, LinkDownCuts
  <2>2. MeshTypeOK'
    BY <1>14 DEF LinkDown, LinkLost
  <2>3. QED BY <1>14, <2>1, <2>2
    DEF LinkDown, Unmeshed, harnessVars, mainVars, clientVars, serverVars
<1>15. CASE Asserts
  BY <1>15 DEF Asserts, AssertReportHook, Goto, Unpumped, meshVars, clientVars, serverVars
<1>16. CASE UNCHANGED vars
  BY <1>16 DEF vars, meshVars, harnessVars, mainVars, clientVars, serverVars
<1>17. QED
  BY <1>1, <1>2, <1>3, <1>4, <1>5, <1>6, <1>7, <1>8, <1>9, <1>10, <1>11, <1>12, <1>13, <1>14,
     <1>15, <1>16 DEF Next, ServerPump, ClientPump, ClientSends, Side

\* Type correctness, with the exit codes of the contract, of the whole example.
THEOREM TypeCorrect == Spec => []TypeOK
BY TypeInit, TypeInductive, PTL DEF Spec

-------------------------------------------------------------------------------
(* The inductive invariant, one conjunct at a time. *)

\* Elsewhere than in a handler, the message on the way is at most lost.
LEMMA ElsewhereKeeps ==
  ASSUME TypeOK, OncePosted, Elsewhere
  PROVE  /\ inbox'["server"] \in {<<>>, inbox["server"]}
         /\ UNCHANGED <<sendFile, sending, vImage, bSent, recvFile, rebuilding, arrived, rebuilt,
                       nFailed>>
<1>1. CASE StoreMain
  BY <1>1, StoreMainIsMain DEF clientVars, serverVars
<1>2. CASE LinkUp \/ Asserts \/ UNCHANGED vars
  BY <1>2 DEF LinkUp, Login, Asserts, AssertReportHook, Unmeshed, Unpumped, vars, meshVars,
     harnessVars, clientVars, serverVars
<1>3. CASE LinkDown
  <2> DEFINE q == inbox["server"]
  <2>1. PICK n \in 0..Len(q) : inbox'["server"] = SubSeq(q, 1, n)
    BY <1>3, LinkDownCuts
  <2>2. q \in Seq(Payload) /\ (q = <<>> \/ Len(q) = 1)
    BY DEF TypeOK, OncePosted, Side
  <2> HIDE DEF q
  <2>3. inbox'["server"] \in {<<>>, inbox["server"]}
    <3>1. CASE n = 0
      <4>1. SubSeq(q, 1, 0) = <<>>
        BY SubSeqEmpty
      <4>2. QED BY <2>1, <3>1, <4>1
    <3>2. CASE n # 0
      <4>1. q # <<>>
        <5>1. Len(<<>>) = 0
          BY EmptySeq
        <5>2. QED BY <3>2, <5>1
      <4>2. Len(q) = 1
        BY <2>2, <4>1
      <4>3. n = 1
        <5>1. n \in 0..1
          BY <2>1, <4>2
        <5>2. QED BY <5>1, <3>2
      <4>4. SubSeq(q, 1, Len(q)) = q
        BY <2>2, SubSeqFull
      <4>5. QED BY <2>1, <4>2, <4>3, <4>4 DEF q
    <3>3. QED BY <3>1, <3>2
  <2>4. QED BY <1>3, <2>3 DEF LinkDown, Unmeshed, harnessVars, clientVars, serverVars
<1>4. ASSUME NEW s \in Side, PumpEnds(s), Unmeshed
      PROVE  /\ inbox'["server"] \in {<<>>, inbox["server"]}
             /\ UNCHANGED <<sendFile, sending, vImage, bSent, recvFile, rebuilding, arrived,
                           rebuilt, nFailed>>
  BY <1>4 DEF PumpEnds, Unmeshed, harnessVars, clientVars, serverVars, TypeOK, Side
<1>5. QED BY <1>1, <1>2, <1>3, <1>4 DEF Elsewhere, Side

\* The queue is empty before a post, and holds the one image afterwards or nothing.
LEMMA PostQueue ==
  ASSUME IInv, Post
  PROVE  /\ inbox["server"] = <<>> /\ ~Spent
         /\ \/ inbox'["server"] = <<>>
            \/ inbox'["server"] = <<vImage>> /\ vImage.size < MAX_P2Psize
<1>1. inbox["server"] = <<>> /\ ~Spent
  BY DEF Post, IInv, OncePosted
<1>2. vImage \in Payload /\ inbox \in [Side -> Seq(Payload)]
  BY DEF IInv, TypeOK
<1>3. <<>> \o <<vImage>> = <<vImage>>
  <2>1. <<vImage>> \in Seq(Payload)
    BY <1>2
  <2>2. QED BY <2>1, ConcatEmptySeq
<1>4. vImage.size \in Nat /\ MAX_P2Psize \in Nat
  <2>1. vImage.size \in Sizes \cup {0}
    BY <1>2 DEF Payload
  <2>2. Sizes \cup {0} \subseteq Nat
    BY SizesAssumption
  <2>3. QED BY <2>1, <2>2, SizesAssumption
<1>5. QED BY <1>1, <1>2, <1>3, <1>4 DEF Post, Posted, Side

\* Taking the one message leaves the queue empty.
LEMMA TakeQueue ==
  ASSUME IInv, On_P2PeerBCast
  PROVE  /\ inbox["server"] # <<>> /\ ~Spent /\ sendFile = None /\ bSent
         /\ inbox'["server"] = <<>>
         /\ arrived' = Built
<1>1. inbox["server"] # <<>> /\ ~Spent /\ sendFile = None /\ bSent /\ Len(inbox["server"]) = 1
  BY DEF On_P2PeerBCast, IInv, OncePosted, TypeOK
<1>2. inbox["server"] \in Seq(Payload)
  BY DEF IInv, TypeOK, Side
<1>3. Tail(inbox["server"]) \in Seq(Payload) /\ Len(Tail(inbox["server"])) = 0
  BY <1>1, <1>2, HeadTailProperties
<1>4. Tail(inbox["server"]) = <<>>
  BY <1>3, EmptySeq
<1>5. QED BY <1>1, <1>4 DEF On_P2PeerBCast, Taken, Side, IInv, TypeOK, ImageInv

\* What a handler of the client does elsewhere than in the queue.
ClientStep == On_ConLoginAck \/ Save \/ SaveThrows \/ ReadBack

LEMMA ClientStepKeeps ==
  ASSUME ClientStep
  PROVE  UNCHANGED <<inbox, recvFile, rebuilding, arrived, rebuilt, nFailed, nExit, pc, doneEvent>>
BY DEF ClientStep, On_ConLoginAck, Save, SaveThrows, ReadBack, meshVars, harnessVars, mainVars,
   serverVars

\* The store that was built stays itself from file to file.
LEMMA ImageInductive == ASSUME IInv, [Next]_vars PROVE ImageInv'
<1> USE DEF IInv, ImageInv
<1>1. CASE ClientStep
  <2>1. EveryImageFits'
    BY <1>1, ClientStepKeeps DEF EveryImageFits
  <2>2. /\ sending' = "read" => sendFile' = Built
        /\ sending' = "post" => vImage'.image = Built /\ vImage'.size # 0
    BY <1>1 DEF ClientStep, On_ConLoginAck, Save, SaveThrows, ReadBack, Return, TypeOK
  <2>3. QED BY <1>1, <2>1, <2>2, ClientStepKeeps
<1>2. CASE Post
  <2>1. vImage.image = Built /\ vImage.size \in Nat \ {0} /\ MAX_P2Psize \in Nat
    BY <1>2, SizesAssumption DEF Post, TypeOK, Payload
  <2>2. CASE inbox'["server"] = <<>>
    BY <1>2, <2>2 DEF Post, Return, EveryImageFits, serverVars
  <2>3. CASE inbox'["server"] = <<vImage>> /\ vImage.size < MAX_P2Psize
    <3>1. EveryImageFits'
      BY <2>1, <2>3, ImagesAssumption DEF EveryImageFits
    <3>2. Head(inbox'["server"]).image = Built
      BY <2>1, <2>3
    <3>3. QED BY <1>2, <3>1, <3>2 DEF Post, Return, serverVars
  <2>4. QED BY <1>2, <2>2, <2>3, PostQueue
<1>3. CASE On_P2PeerBCast
  BY <1>3, TakeQueue DEF On_P2PeerBCast, EveryImageFits, clientVars
<1>4. CASE BytesToStore \/ LoadFails \/ CheckStore \/ ServerSignals
  <2>1. UNCHANGED inbox /\ UNCHANGED clientVars
    BY <1>4 DEF BytesToStore, LoadFails, CheckStore, ServerSignals, meshVars
  <2>2. /\ rebuilding' \in {"load", "check"} => arrived' = Built
        /\ rebuilding' = "check" => recvFile' = Built
        /\ rebuilt' \in {None, Built}
    BY <1>4 DEF BytesToStore, LoadFails, CheckStore, ServerSignals
  <2>3. QED BY <2>1, <2>2 DEF EveryImageFits, clientVars
<1>5. CASE Elsewhere
  BY <1>5, ElsewhereKeeps DEF EveryImageFits
<1>6. QED
  BY <1>1, <1>2, <1>3, <1>4, <1>5
     DEF ClientStep, Elsewhere, Next, ServerPump, ClientPump, ClientSends

\* Sent once, and checked once.
LEMMA OnceInductive == ASSUME IInv, [Next]_vars PROVE OncePosted'
<1> USE DEF IInv, OncePosted, Spent
<1>1. CASE ClientStep
  <2>1. UNCHANGED <<inbox, recvFile, rebuilding, arrived, rebuilt, nFailed>>
    BY <1>1, ClientStepKeeps
  <2>2. /\ sending' # "idle" => ~bSent'
        /\ ~bSent' => ~bSent
        /\ bSent => sendFile' = sendFile
    BY <1>1 DEF ClientStep, On_ConLoginAck, Save, SaveThrows, ReadBack, Return, TypeOK
  <2>3. QED BY <2>1, <2>2
<1>2. CASE Post
  <2>1. UNCHANGED <<rebuilding, rebuilt, nFailed>> /\ sending' = "idle" /\ bSent' /\ sendFile' = None
    BY <1>2 DEF Post, Return, harnessVars, serverVars
  <2>2. ~Spent /\ (inbox'["server"] # <<>> => Len(inbox'["server"]) = 1)
    BY <1>2, PostQueue
  <2>3. QED BY <2>1, <2>2
<1>3. CASE On_P2PeerBCast
  BY <1>3, TakeQueue DEF On_P2PeerBCast, harnessVars, clientVars
<1>4. CASE BytesToStore \/ LoadFails \/ CheckStore \/ ServerSignals
  <2>1. UNCHANGED <<inbox, sending, bSent, sendFile>>
    BY <1>4 DEF BytesToStore, LoadFails, CheckStore, ServerSignals, meshVars, clientVars
  <2>2. Spent
    BY <1>4 DEF BytesToStore, LoadFails, CheckStore, ServerSignals
  <2>3. rebuilding' \in {"load", "check"} => rebuilt' = None /\ nFailed' = 0
    BY <1>4 DEF BytesToStore, LoadFails, CheckStore, ServerSignals, harnessVars
  <2>4. QED BY <2>1, <2>2, <2>3
<1>5. CASE Elsewhere
  BY <1>5, ElsewhereKeeps
<1>6. QED
  BY <1>1, <1>2, <1>3, <1>4, <1>5
     DEF ClientStep, Elsewhere, Next, ServerPump, ClientPump, ClientSends

\* What the event and the verdict speak for is over and stays as it is.
LEMMA FinishedInductive == ASSUME IInv, [Next]_vars PROVE FinishedInv'
<1> USE DEF IInv, FinishedInv, Reported, Spent, TypeOK, MainTypeOK
<1>1. CASE ClientStep
  BY <1>1, ClientStepKeeps DEF Agrees, Missing, Wrong
<1>2. CASE Post
  BY <1>2 DEF Post, harnessVars, mainVars, serverVars, Agrees, Missing, Wrong
<1>3. CASE On_P2PeerBCast
  BY <1>3, TakeQueue DEF On_P2PeerBCast, harnessVars, mainVars, Agrees, Missing, Wrong
<1>4. CASE BytesToStore \/ LoadFails
  <2>1. ~Reported /\ rebuilding' # "idle" /\ recvFile' \in {None, arrived}
        /\ (rebuilding' = "signal" => nFailed' # 0 /\ recvFile' = None)
        /\ UNCHANGED <<doneEvent, pc, nExit>>
    BY <1>4 DEF BytesToStore, LoadFails, harnessVars, mainVars
  <2>2. QED BY <2>1
<1>5. CASE CheckStore
  <2>1. ~Reported /\ rebuilding' = "signal" /\ recvFile' = None /\ rebuilt' = Built
        /\ recvFile = Built /\ UNCHANGED <<doneEvent, pc, nExit>>
    BY <1>5 DEF CheckStore, ImageInv, mainVars
  <2>2. nFailed' = 0 => Missing(Built) = {} /\ Wrong(Built) = {}
    <3>1. Cardinality(Wrong(Built)) \in Nat /\ (Cardinality(Wrong(Built)) = 0 => Wrong(Built) = {})
      BY WrongFinite
    <3>2. Missing(Built) # {} => nFailed' # 0
      BY <1>5, <2>1, <3>1 DEF CheckStore
    <3>3. Missing(Built) = {} => nFailed' = nFailed + Cardinality(Wrong(Built))
      BY <1>5, <2>1 DEF CheckStore
    <3>4. QED BY <3>1, <3>2, <3>3
  <2>3. nFailed' = 0 => Agrees(rebuilt)'
    BY <2>1, <2>2, ImagesAssumption DEF Agrees, Missing, Wrong
  <2>4. QED BY <2>1, <2>3
<1>6. CASE ServerSignals
  BY <1>6 DEF ServerSignals, SetDone, mainVars, Agrees, Missing, Wrong
<1>7. CASE Elsewhere
  <2>1. UNCHANGED <<rebuilding, rebuilt, nFailed, recvFile>>
    BY <1>7, ElsewhereKeeps
  <2>2. CASE StoreMain
    BY <2>1, <2>2, StoreMainIsMain, MainEvent, MainDecides DEF Agrees, Missing, Wrong
  <2>3. CASE ~StoreMain
    <3>1. UNCHANGED <<doneEvent, nExit>> /\ (pc' = pc \/ pc' = "exited")
      BY <1>7, <2>3 DEF Elsewhere, LinkUp, LinkDown, Asserts, AssertReportHook, Goto, Unmeshed,
         vars, harnessVars, mainVars
    <3>2. QED BY <2>1, <3>1 DEF Agrees, Missing, Wrong
  <2>4. QED BY <2>2, <2>3
<1>8. QED
  BY <1>1, <1>2, <1>3, <1>4, <1>5, <1>6, <1>7
     DEF ClientStep, Elsewhere, Next, ServerPump, ClientPump, ClientSends

\* The server's thread has ended, or was given up, before its event is closed.
LEMMA TeardownInductive == ASSUME IInv, [Next]_vars PROVE TeardownInv'
<1> USE DEF IInv, TypeOK, MeshTypeOK, MainTypeOK, Side, TeardownInv, MainTeardownInv
<1>1. CASE ClientStep
  BY <1>1 DEF ClientStep, On_ConLoginAck, Save, SaveThrows, ReadBack, Return, Ended, SetupPC,
     meshVars, harnessVars, mainVars, serverVars
<1>2. CASE Post
  BY <1>2 DEF Post, Return, Ended, SetupPC, harnessVars, mainVars, serverVars
<1>3. CASE On_P2PeerBCast
  BY <1>3 DEF On_P2PeerBCast, Pumping, Ended, SetupPC, harnessVars, mainVars, clientVars
<1>4. CASE BytesToStore \/ LoadFails \/ CheckStore \/ ServerSignals
  BY <1>4 DEF BytesToStore, LoadFails, CheckStore, ServerSignals, SetDone, Ended, SetupPC,
     meshVars, harnessVars, mainVars, clientVars
<1>5. CASE StoreMain
  <2>1. Main /\ UNCHANGED <<rebuilding, sending, bSent, link, ack>>
    BY <1>5, StoreMainIsMain DEF clientVars, serverVars
  <2>2. MainTeardownInv' /\ (con["client"] => con'["client"])
    BY <2>1, MainTeardown, MainCons
  <2>3. /\ hub'["server"] = "stopped" => hub["server"] = "stopped"
        /\ con'["client"] = con["client"] \/ pc = "dial"
        /\ Ended("server") /\ pc \notin SetupPC => Ended("server")'
    BY <2>1, MainKeepsEnded
  <2>4. doneEvent' = "closed" => doneEvent = "closed" \/ pc = "closeEvent"
    BY <2>1, MainEvent
  <2>5. QED BY <2>1, <2>2, <2>3, <2>4 DEF SetupPC
<1>6. CASE LinkUp \/ LinkDown
  BY <1>6 DEF LinkUp, Login, LinkDown, LinkLost, Unmeshed, Ended, SetupPC, harnessVars, mainVars,
     clientVars, serverVars
<1>7. ASSUME NEW s \in Side, PumpEnds(s), Unmeshed, s = "server" => rebuilding = "idle"
      PROVE  TeardownInv'
  BY <1>7 DEF PumpEnds, Unmeshed, Ended, SetupPC, harnessVars, mainVars, clientVars, serverVars
<1>8. CASE Asserts \/ UNCHANGED vars
  BY <1>8 DEF Asserts, AssertReportHook, Goto, Unpumped, Ended, SetupPC, vars, meshVars,
     harnessVars, mainVars, clientVars, serverVars
<1>9. QED
  BY <1>1, <1>2, <1>3, <1>4, <1>5, <1>6, <1>7, <1>8
     DEF ClientStep, Next, ServerPump, ClientPump, ClientSends

-------------------------------------------------------------------------------
(* The theorems. *)

LEMMA IInvInit == Init => IInv
<1> SUFFICES ASSUME Init PROVE IInv
  OBVIOUS
<1>1. inbox["server"] = <<>>
  BY DEF Init, MainInit, MeshInit, Side
<1>2. Len(<<>>) = 0
  BY EmptySeq
<1>3. ImageInv
  BY <1>1, <1>2 DEF Init, ImageInv, EveryImageFits
<1>4. OncePosted
  BY <1>1 DEF Init, MainInit, OncePosted, Spent
<1>5. FinishedInv
  BY DEF Init, MainInit, FinishedInv, Reported, Undecided
<1>6. TeardownInv
  BY DEF Init, MainInit, MeshInit, TeardownInv, MainTeardownInv, SetupPC, Ended, Side
<1>7. QED BY <1>3, <1>4, <1>5, <1>6, TypeInit DEF IInv

LEMMA IInvInductive == IInv /\ [Next]_vars => IInv'
BY TypeInductive, ImageInductive, OnceInductive, FinishedInductive, TeardownInductive DEF IInv

\* The invariant the safety theorems rest on: the store is itself wherever it is,
\* it is sent and checked once, and the event speaks for a check that is over.
THEOREM Invariant == Spec => []IInv
BY IInvInit, IInvInductive, PTL DEF Spec

\* Exit code 0 means that the far hub rebuilt the very store that was shipped.
THEOREM SuccessCorrect == Spec => []SuccessIsIntact
<1>1. IInv => SuccessIsIntact
  BY DEF IInv, FinishedInv, Reported, ImageInv, SuccessIsIntact, Agrees
<1>2. QED BY <1>1, Invariant, PTL

\* A run that ends with 0 leaves neither scratch file behind.
THEOREM ScratchCorrect == Spec => []NoScratchLeft
<1>1. IInv => NoScratchLeft
  BY DEF IInv, FinishedInv, Reported, OncePosted, NoScratchLeft
<1>2. QED BY <1>1, Invariant, PTL

\* Whatever the size of the image, what is posted fits a message and is not empty.
THEOREM FrameCorrect == Spec => []EveryImageFits
<1>1. IInv => EveryImageFits
  BY DEF IInv, ImageInv
<1>2. QED BY <1>1, Invariant, PTL

\* The server's pump never sets an event that main closed after waiting for it.
THEOREM TeardownCorrect == Spec => []NoUseAfterTeardown
<1>1. IInv => NoUseAfterTeardown
  <2> SUFFICES ASSUME IInv, rebuilding = "signal", doneEvent = "closed"
               PROVE  "server" \in gaveUp
    BY DEF NoUseAfterTeardown
  <2>1. bSent
    BY DEF IInv, OncePosted, Spent, TypeOK
  <2>2. QED BY <2>1 DEF IInv, TeardownInv, Ended
<1>2. QED BY <1>1, Invariant, PTL

\* The event is a barrier: after it the count main reads is final.
THEOREM BarrierCorrect == Spec => DoneIsBarrier
<1>1. IInv /\ [Next]_vars => [doneEvent = "set" \/ pc = "verdict" => UNCHANGED nFailed]_vars
  <2> SUFFICES ASSUME IInv, Next, doneEvent = "set" \/ pc = "verdict"
               PROVE  UNCHANGED nFailed
    OBVIOUS
  <2>1. rebuilding = "idle"
    BY DEF IInv, FinishedInv, Reported
  <2>2. StoreMain => UNCHANGED nFailed
    BY StoreMainIsMain
  <2>3. QED
    BY <2>1, <2>2 DEF Next, ServerPump, ClientPump, ClientSends, LinkUp, LinkDown, On_ConLoginAck,
       Save, SaveThrows, ReadBack, Post, On_P2PeerBCast, BytesToStore, LoadFails, CheckStore,
       ServerSignals, Unmeshed, Unpumped, Asserts, AssertReportHook, harnessVars
<1>2. QED BY <1>1, Invariant, PTL DEF Spec, DoneIsBarrier
-------------------------------------------------------------------------------
(* The query service. *)

\* What the example has answered, as the refinement sees it.
Shipped == IF Agrees(rebuilt) THEN {"store"} ELSE {}

\* Only the check of a loaded image answers for the store, and only once; only the end
\* of main and the assert hook give the process its code.
LEMMA ServiceVariables ==
  ASSUME IInv, Next
  PROVE  /\ exitCode = Undecided
         /\ \/ UNCHANGED <<exitCode, Shipped>>
            \/ UNCHANGED exitCode /\ Shipped' = Shipped \cup {"store"}
            \/ UNCHANGED Shipped /\ exitCode' \in {nExit, 2}
<1>1. exitCode = Undecided
  BY DEF Next, Running
<1>2. CASE CheckStore
  <2>1. rebuilt = None /\ exitCode' = exitCode
    BY <1>2 DEF CheckStore, IInv, OncePosted, mainVars
  <2>2. Shipped = {} /\ Shipped' \in {{}, {"store"}}
    BY <2>1 DEF Shipped, Agrees
  <2>3. QED BY <1>1, <2>1, <2>2
<1>3. CASE ~CheckStore
  <2>1. rebuilt' = rebuilt /\ (exitCode' = exitCode \/ exitCode' \in {nExit, 2})
    <3>1. CASE StoreMain
      BY <3>1, StoreMainIsMain DEF serverVars, Main, MainOn, Startup, DestroyHubs, WaitFails,
         Setup, CreateEvent, SpawnServer, PostService, SpawnClient, Dial, SetupFails,
         WaitSignalled, Verdict, Teardown, CloseClient, CloseServer, JoinClient, JoinServer,
         Join, CloseEvent, NullEvent, Exit, Undecidedly
    <3>2. CASE ~StoreMain
      BY <1>3, <3>2 DEF Next, ServerPump, ClientPump, ClientSends, LinkUp, LinkDown, Asserts,
         AssertReportHook, On_ConLoginAck, Save, SaveThrows, ReadBack, Post, On_P2PeerBCast,
         BytesToStore, LoadFails, ServerSignals, Unmeshed, Unpumped, harnessVars, mainVars,
         clientVars, serverVars
    <3>3. QED BY <3>1, <3>2
  <2>2. Shipped' = Shipped
    BY <2>1 DEF Shipped, Agrees, Missing, Wrong
  <2>3. QED BY <1>1, <2>1, <2>2
<1>4. QED BY <1>2, <1>3

\* Whatever is lost, thrown or refused on the way, the example is a query service with
\* one thing to answer for: it reports at most once, and success only for the store.
THEOREM ServiceCorrect == Spec => ImplementsService
<1>1. Init => QS!Init
  <2> SUFFICES ASSUME Init PROVE QS!Init
    OBVIOUS
  <2>1. exitCode = Undecided /\ rebuilt = None
    BY DEF Init, MainInit
  <2>2. QED BY <2>1 DEF QS!Init, Agrees, Undecided
<1>2. IInv /\ [Next]_vars => [QS!Next]_QS!vars
  <2> SUFFICES ASSUME IInv, [Next]_vars PROVE [QS!Next]_QS!vars
    OBVIOUS
  <2>1. CASE UNCHANGED vars
    BY <2>1 DEF QS!vars, vars, serverVars, harnessVars, mainVars, Agrees, Missing, Wrong
  <2>2. CASE Next
    <3>1. exitCode = Undecided
      BY <2>2, ServiceVariables
    <3>2. CASE UNCHANGED <<exitCode, Shipped>>
      BY <3>2 DEF QS!vars, Shipped
    <3>3. CASE UNCHANGED exitCode /\ Shipped' = Shipped \cup {"store"}
      <4>1. QS!Answer("store")
        BY <3>1, <3>3 DEF QS!Answer, Shipped, Undecided
      <4>2. QED BY <4>1 DEF QS!Next
    <3>4. CASE UNCHANGED Shipped /\ exitCode' \in {nExit, 2}
      <4>1. CASE exitCode' = Undecided
        BY <3>1, <3>4, <4>1 DEF QS!vars, Shipped
      <4>2. CASE exitCode' = 0
        <5>1. Shipped = {"store"}
          BY <3>4, <4>2 DEF IInv, FinishedInv, Reported, Shipped
        <5>2. QED
          BY <3>1, <3>4, <4>2, <5>1 DEF QS!Next, QS!Report, QS!Succeed, Shipped, Undecided
      <4>3. CASE exitCode' # 0 /\ exitCode' # Undecided
        BY <3>1, <3>4, <4>3 DEF QS!Next, QS!Report, QS!GiveUp, Shipped, Undecided
      <4>4. QED BY <4>1, <4>2, <4>3
    <3>5. QED BY <2>2, <3>2, <3>3, <3>4, ServiceVariables
  <2>3. QED BY <2>1, <2>2
<1>3. QED BY <1>1, <1>2, Invariant, PTL DEF Spec, ImplementsService, QS!Spec
===============================================================================
