------------------------------ MODULE P2PeerMesh ------------------------------
(***************************************************************************)
(* The messaging library under the mesh examples, as the examples use it:  *)
(* two hubs, "server" and "client", each with one pump thread, and one     *)
(* loopback link between them.  The library is not part of this            *)
(* repository; what is stated here is what the example code relies on.     *)
(*                                                                         *)
(*   - SpawnHub starts the hub's pump, CloseHub asks it to stop, and the   *)
(*     pump thread ends only between two handlers.                         *)
(*   - PostP2PeerCon hands a hub its end of the link (a service on the     *)
(*     server, a dial on the client).  Once both ends are there the link   *)
(*     may come up, and the client's pump is then owed one login ack.      *)
(*   - PostP2PeerMsg queues messages for the hub the destination names, in *)
(*     order.  A message posted while the link is down is lost.            *)
(*   - The link may be lost; each pump keeps what had already reached it,  *)
(*     a prefix of what was on the way.                                    *)
(***************************************************************************)
EXTENDS Naturals, Sequences

CONSTANTS MaxLogins   \* how often the link comes up at most (bounds the model)

ASSUME MaxLoginsAssumption == MaxLogins \in Nat \ {0}

VARIABLES
  hub,      \* hub[s]: the life of the hub's pump thread
  con,      \* con[s]: the hub has been handed its end of the link
  link,     \* is the link up
  ack,      \* the client's pump has a login ack to dispatch
  logins,   \* how often the link has come up
  inbox     \* inbox[s]: messages on the way to hub s, in pump order

meshVars == <<hub, con, link, ack, logins, inbox>>

Side == {"server", "client"}
HubState == {"none", "running", "closing", "stopped"}

\* What the queues hold is for the module that composes the mesh to say.
MeshTypeOK ==
  /\ hub \in [Side -> HubState]
  /\ con \in [Side -> BOOLEAN]
  /\ link \in BOOLEAN
  /\ ack \in BOOLEAN
  /\ logins \in 0..MaxLogins

MeshInit ==
  /\ hub = [s \in Side |-> "none"]
  /\ con = [s \in Side |-> FALSE]
  /\ link = FALSE
  /\ ack = FALSE
  /\ logins = 0
  /\ inbox = [s \in Side |-> <<>>]

\* A pump dispatches until it has stopped, also after it was asked to stop.
Pumping(s) == hub[s] \in {"running", "closing"}

SpawnHub(s) ==
  /\ hub' = [hub EXCEPT ![s] = "running"]
  /\ UNCHANGED <<con, link, ack, logins, inbox>>

PostP2PeerCon(s) ==
  /\ con' = [con EXCEPT ![s] = TRUE]
  /\ UNCHANGED <<hub, link, ack, logins, inbox>>

CloseHub(s) ==
  /\ hub' = [hub EXCEPT ![s] = IF @ = "running" THEN "closing" ELSE @]
  /\ UNCHANGED <<con, link, ack, logins, inbox>>

\* The pump thread leaves its loop: the link goes with it.
PumpEnds(s) ==
  /\ hub[s] = "closing"
  /\ hub' = [hub EXCEPT ![s] = "stopped"]
  /\ link' = FALSE
  /\ ack' = (ack /\ s # "client")
  /\ inbox' = [inbox EXCEPT ![s] = <<>>]
  /\ UNCHANGED <<con, logins>>

Login ==
  /\ \A s \in Side : hub[s] = "running" /\ con[s]
  /\ ~link
  /\ logins < MaxLogins
  /\ link' = TRUE
  /\ ack' = TRUE
  /\ logins' = logins + 1
  /\ UNCHANGED <<hub, con, inbox>>

\* The queues after the link is cut: each keeps the prefix that had arrived.
CutTo(n) == [s \in Side |-> SubSeq(inbox[s], 1, n[s])]

LinkLost ==
  /\ link
  /\ link' = FALSE
  /\ \E n \in [Side -> 0..(Len(inbox["server"]) + Len(inbox["client"]))] :
        /\ \A s \in Side : n[s] <= Len(inbox[s])
        /\ inbox' = CutTo(n)
  /\ UNCHANGED <<hub, con, ack, logins>>

\* The queue of hub s after msgs have been posted to it.
Posted(s, msgs) == IF link THEN [inbox EXCEPT ![s] = @ \o msgs] ELSE inbox

\* A pump takes the message at the head of its queue.
Taken(s) == [inbox EXCEPT ![s] = Tail(@)]
-------------------------------------------------------------------------------
(* A queue seen as the paths of the queries that are on their way in it.   *)

PathsIn(q) == {q[i].path : i \in 1..Len(q)}

NoRepeat(q) == \A i, j \in 1..Len(q) : q[i].path = q[j].path => i = j

\* The same by the tags, where questions and answers carry one.
TagsIn(q) == {q[i].tag : i \in 1..Len(q)}
===============================================================================
