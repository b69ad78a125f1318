------------------------------ MODULE WsaQueryCom ------------------------------
(***************************************************************************)
(* ComExamples/WsaQueryTestCom: the query service in one apartment.  The   *)
(* client asks every question each time the peer comes up; the server      *)
(* looks the path up and answers under the question's tag; main, once the  *)
(* gate has counted as many answers as there are questions, compares them  *)
(* by tag.                                                                 *)
(***************************************************************************)
EXTENDS ComHarness

CONSTANTS
  Asks,      \* the questions in order: [path, ok, value]
  Built,     \* the store main declares: path -> value
  Rewritten, \* the path main writes to after it has compared
  NoField    \* what a path that does not resolve answers

\* What the constants are to satisfy; the module that instantiates this one assumes it.
QuestionsAreOfTheStore ==
  /\ DOMAIN Asks = 1..Len(Asks) /\ Len(Asks) \in Nat \ {0}
  /\ Built = [p \in DOMAIN Built |-> Built[p]] /\ Rewritten \in DOMAIN Built

\* The table of questions states what the store answers them.
TableIsRight ==
  \A i \in DOMAIN Asks :
    IF Asks[i].path \in DOMAIN Built
    THEN Asks[i].ok /\ Asks[i].value = Built[Asks[i].path] ELSE Asks[i].ok = FALSE

VARIABLES
  store,     \* path -> value
  nAnswered, \* what the server has counted
  replies    \* the answers listed

queryVars == <<store, nAnswered, replies>>
vars == <<meshVars, harnessVars, queryVars>>

kAsks == Len(Asks)

Init == HarnessInit /\ store = Built /\ nAnswered = 0 /\ replies = <<>>
-------------------------------------------------------------------------------
(* The handlers. *)

Lookup(path) ==
  IF path \in DOMAIN store THEN [ok |-> TRUE, value |-> store[path]]
                           ELSE [ok |-> FALSE, value |-> NoField]

\* The server counts the answer in the handler that sent it.
ServerOnAsk ==
  /\ Delivers("server") /\ inbox["server"] # <<>>
  /\ LET q == Head(inbox["server"])
         r == [tag |-> q.tag, body |-> Lookup(q.path)] IN
       inbox' = [inbox EXCEPT !["server"] = Tail(@),
                              !["client"] = IF link THEN Append(@, r) ELSE @]
  /\ nAnswered' = nAnswered + 1
  /\ UNCHANGED <<hub, con, link, ack, logins, harnessVars, store, replies>>

ClientOnPeerUp ==
  /\ Delivers("client") /\ ack
  /\ ack' = FALSE
  /\ inbox' = Posted("server", [i \in 1..kAsks |-> [path |-> Asks[i].path, tag |-> i]])
  /\ UNCHANGED <<hub, con, link, logins, harnessVars, queryVars>>

\* Mutant: the answer that says no is counted at the gate and not listed.
ListsOnlyValues ==
  /\ Delivers("client") /\ inbox["client"] # <<>>
  /\ LET r == Head(inbox["client"]) IN
       replies' = IF r.body.ok THEN Append(replies, r) ELSE replies
  /\ inbox' = Taken("client")
  /\ Bump
  /\ UNCHANGED <<hub, con, link, ack, logins, pc, clockVars, owed, errors, verdictVars,
                 store, nAnswered>>

ClientOnAnswer ==
  /\ Delivers("client") /\ inbox["client"] # <<>>
  /\ replies' = Append(replies, Head(inbox["client"]))
  /\ inbox' = Taken("client")
  /\ Bump
  /\ UNCHANGED <<hub, con, link, ack, logins, pc, clockVars, owed, errors, verdictVars,
                 store, nAnswered>>
-------------------------------------------------------------------------------
(* Main. *)

\* The store is declared in memory; each declaration is checked.
Declare == Enter("store", "network")

Setup ==
  \/ Enter("apartment", "store") \/ Declare \/ Enter("network", "hubServer")
  \/ CreateHub("server", "hubServer", "listen") \/ Arm("server", "listen", "hubClient")
  \/ CreateHub("client", "hubClient", "connect") \/ Arm("client", "connect", "wait")
  \/ SetupFailure({"apartment", "store", "network", "hubServer", "listen",
                   "hubClient", "connect"})

\* The place of the first answer with the tag of question i.
Tagged(i) == {k \in 1..Len(replies) :
                replies[k].tag = i /\ \A j \in 1..(k - 1) : replies[j].tag # i}
RightBody(i) == [ok |-> Asks[i].ok, value |-> IF Asks[i].ok THEN Asks[i].value ELSE NoField]
IsRight(i) == \E k \in Tagged(i) : replies[k].body = RightBody(i)

\* Mutant: neither the number of answers nor a question without one is looked at.
ComparesWhatCame ==
  Judge("opened", "peerClient",
    Fails("answers", \E i \in 1..kAsks : Tagged(i) # {} /\ ~IsRight(i)))

Compare ==
  Judge("opened", "peerClient",
    Fails("count", nAnswered # kAsks) \cup Fails("replies", Len(replies) # kAsks)
      \cup Fails("answers", \E i \in 1..kAsks : ~IsRight(i)))

CheckPeers ==
  \/ Judge("peerClient", "peerServer", Fails("peerClient", ~link))
  \/ Judge("peerServer", "store4", Fails("peerServer", ~link))

\* "The store never moved": it is as built, and then the owner writes to it.
CheckStore ==
  /\ Judge("store4", "errors", Fails("store", store # Built))
  /\ store' = [store EXCEPT ![Rewritten] = "1920"]
  /\ UNCHANGED <<nAnswered, replies>>

CheckErrors == Judge("errors", "verdict", Fails("errors", errors["real"] # 0))

Main ==
  \/ /\ Setup \/ Wait(kAsks) \/ Compare \/ CheckPeers \/ CheckErrors \/ Verdict
     /\ UNCHANGED queryVars
  \/ CheckStore

Handlers ==
  ServerOnAsk \/ ClientOnPeerUp \/ ClientOnAnswer
    \/ ((OnError("server") \/ OnError("client")) /\ UNCHANGED queryVars)

Mesh == (LinkUp \/ LinkDown) /\ UNCHANGED queryVars

Next == Running /\ (Main \/ Handlers \/ Mesh)

\* The thread runs on; nothing is assumed of the mesh.
Spec == Init /\ [][Next]_vars /\ WF_vars(Running /\ Main)
-------------------------------------------------------------------------------
(* Properties. *)

Tags == 1..kAsks

\* On a link that stays up nothing but the timeout fails a run: one thread runs
\* the handlers, so that main finds every answer counted by both sides, listed
\* once and right, and no error but the topology warnings.
OnlyTimeoutFails == logins = 1 /\ link => failed \subseteq {"timeout"}

\* What the example is a case of: it reports success only when each question has
\* had its right answer, also when a reconnection made it ask twice.
AnsweredRight == {i \in Tags : \E k \in 1..Len(replies) :
                     replies[k].tag = i /\ replies[k].body = RightBody(i)}
Reported == CASE exitCode = Undecided -> "none"
              [] exitCode = 0 -> "success"
              [] OTHER -> "failure"
-------------------------------------------------------------------------------
(* What makes the safety properties inductive. *)

Values == {Asks[i].value : i \in Tags} \cup {Built[p] : p \in DOMAIN Built} \cup {"1920", NoField}
Question == {[path |-> Asks[i].path, tag |-> i] : i \in Tags}
Reply == [tag : Tags, body : [ok : BOOLEAN, value : Values]]

\* Handlers run before main writes, and so every answer is the right one.
Right == {r \in Reply : r.body = RightBody(r.tag)}
AnswerInv ==
  /\ pc \notin {"errors", "verdict", "exited"} => store = Built
  /\ DOMAIN inbox = Side
  /\ inbox["server"] \in Seq(Question) /\ inbox["client"] \in Seq(Right)
  /\ replies \in Seq(Right) /\ nBumped = Len(replies) /\ nAnswered \in Nat

\* The questions of the one login, or their answers, are all somewhere.
nHeld == Len(inbox["server"]) + Len(inbox["client"]) + Len(replies)
DeliveryInv ==
  /\ logins = 0 \/ (NeverLost /\ ack) => nHeld = 0 /\ nAnswered = 0
  /\ NeverLost /\ ~ack =>
       /\ nHeld = kAsks /\ nAnswered = Len(inbox["client"]) + Len(replies)
       /\ Tags \subseteq TagsIn(inbox["server"]) \cup TagsIn(inbox["client"]) \cup TagsIn(replies)

\* Past the gate as many answers are listed as were asked for; no failure is dropped.
JudgedInv ==
  /\ pc \in Late => nBumped >= kAsks
  /\ pc \in Late \ {"opened"} /\ failed = {} => AnsweredRight = Tags
  /\ exitCode = 0 => AnsweredRight = Tags

FailedInv ==
  /\ logins = 0 => failed \subseteq {"listen", "connect", "timeout"}
  /\ OnlyTimeoutFails

IInv == AnswerInv /\ DeliveryInv /\ JudgedInv /\ FailedInv
===============================================================================
