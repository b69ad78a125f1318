------------------------------ MODULE MCPrograms ------------------------------
(* The store programs of the five trees: each alone, with one call that fails
   somewhere, and two side by side, one of which the runner may kill.          *)
EXTENDS TreeProgram

CONSTANTS P1, P2, MaxFaults, MaxKills

Direct == INSTANCE MgrPersistDirect
Facades == INSTANCE MgrPersistFacades
CApi == INSTANCE MgrCApiDirect
CApiFacades == INSTANCE MgrCApiFacades
LV == INSTANCE ListVect
RT == INSTANCE RecursTime

MCProgram == [none |-> <<>>, direct |-> Direct!DirectProgram, field |-> Direct!FieldProgram,
              light |-> Facades!LightProgram, com |-> Facades!ComProgram, net |-> Facades!NetProgram,
              capiDirect |-> CApi!CApiProgram, capiField |-> CApi!FieldCApiProgram,
              capiLight |-> CApiFacades!LightCApiProgram, capiCom |-> CApiFacades!ComCApiProgram,
              capiNet |-> CApiFacades!NetCApiProgram,
              lvDirect |-> LV!DirectListVectProgram, lvField |-> LV!FieldListVectProgram,
              lvLight |-> LV!LightListVectProgram, lvCom |-> LV!ComListVectProgram,
              lvNet |-> LV!NetListVectProgram,
              recDirect |-> RT!DirectRecursProgram, recField |-> RT!FieldRecursProgram,
              recLight |-> RT!LightRecursProgram, recCom |-> RT!ComRecursProgram,
              recNet |-> RT!NetRecursProgram]

Alone == {P1 :> t @@ P2 :> "none" : t \in DOMAIN MCProgram \ {"none"}}
SideBySide == {P1 :> a @@ P2 :> b : <<a, b>> \in
  {<<"direct", "direct">>, <<"direct", "field">>, <<"light", "light">>, <<"com", "com">>,
   <<"net", "net">>}}

MCInit ==
  /\ Init
  /\ \/ port \in Alone /\ budget = [faults |-> MaxFaults, kills |-> 0]
     \/ port \in SideBySide /\ budget = [faults |-> 0, kills |-> MaxKills]
  /\ steps = [p \in Process |-> MCProgram[port[p]]]

MCSpec == MCInit /\ [][TreeNext]_vars

\* What is told apart: the steps are those of the port.
MCView == <<port, me, disk, budget>>

Ended(p) == me[p].exit \notin {"idle", "running"}
-------------------------------------------------------------------------------
\* The programs are right about the library: a run that no fault, timeout, kill or
\* other run of its tree disturbs passes every check, whatever files a killed run
\* left behind, and whenever the dispatch thread gets to replay an event.
OnlyDisturbanceFails ==
  \A p \in Process :
    Running(p) \/ Ended(p) => me[p].hit # {} \/ me[p].lapped \/ ~(me[p].failed \/ me[p].thrown)

\* Exit code 0 is earned: a program does not pass when a call that changes a tree, an
\* image or a registration has failed on its way, a gate has timed out or a page was
\* refused.  Some checks come many calls later, on another store or after a reload;
\* what may fail unseen is what nothing later needs: a stray scratch file, a position
\* or a size over COM, the last events nobody waits for, what is lost in a copy, the
\* Revision that two programs of the C interface declare and never read, a cursor's
\* rewind where it stands, an element whose value is lost or not doubled, a step of a
\* walk that is broken off next, a time read as 0 and written back as 0, a lookup that
\* is to find no time, a temperature that is not read again.
Needed == {"create", "new", "load", "save", "declare", "set", "delete", "clear", "rename",
           "dirty", "setAt", "arm", "disarm", "page", "push", "pop", "wait", "kill",
           "library", "declareIn", "declareTo", "setVia", "renameIn", "moveIn", "retypeIn",
           "byPos", "byPath", "grow", "edit", "copyTo", "attribute", "kid", "fieldAt", "setField",
           "truncate", "cursorOn", "goto", "nextOf", "fieldOf", "deleteAtCursor", "walk", "snapshot",
           "mark", "dropEven", "enumeration", "descend", "drain", "compare", "stamp", "restamp", "ask",
           "enter", "rise", "break", "search", "removeKid", "pushValue", "popValue", "dropValue"}
PassIsEarned ==
  \A p \in Process :
    me[p].exit = "pass" => \/ me[p].hit \cap Needed = {}
                           \/ "Revision" \in me[p].hit /\ port[p] \in {"capiDirect", "capiLight"}
                           \/ "nextOf" \in me[p].hit /\ port[p] = "recLight"

\* The last run out cleans up: when every process has ended by itself and no
\* exception has cut a section short, no scratch file is left but those whose own
\* store still held them when they were deleted: what the COM and .NET mains saved,
\* and the facade's positions.
LastOneOutCleansUp ==
  (\A p \in Process : \/ port[p] = "none"
                      \/ me[p].exit \in {"pass", "fail"} /\ me[p].hit = {} /\ ~me[p].thrown)
    => \A f \in DOMAIN disk :
         f[1] \in {"MgrPersistTestCom.p2p", "MgrPersistTestNet.p2p", "MgrCApiTestCom.p2p",
                   "MgrCApiTestNet.p2p", "RecursTimeTestCom.p2p", "RecursTimeTestNet.p2p",
                   "mscs_light_pos"}

\* The capture a sink points at is a section's local, and outlives its use: a handler
\* runs only while that section is running, unless a call has failed (an event left in
\* the queue is not delivered after Unadvise), and a store is closed, on the way that
\* does not throw, only once its sink is off, unless taking it off has failed.
CaptureOutlivesSink ==
  [][\A p \in Process :
       /\ Len(me'[p].seen) > Len(me[p].seen) => me[p].section = "triggers" \/ me[p].hit # {}
       /\ \A h \in Handle :
            AtOp(p, "close") /\ me[p].store[h].open /\ ~me'[p].store[h].open /\ Running(p)'
              => ~me[p].store[h].sink \/ "sink" \in me[p].hit]_vars

\* Over the flat C interface no live handle is held across a write of the C++ side,
\* which moves the heap under it, or past the end of its store; also where a call in
\* between has failed and the program went on.
NoStaleHandle ==
  \A p \in Process : Running(p) /\ port[p] \in Flat /\ me[p].pc <= Len(Steps(p)) =>
    \A x \in DOMAIN me[p].held :
      me[p].held[x].live => ~me[p].held[x].moved /\ me[p].store[me[p].held[x].of].open

\* Every handle is given back: where a section ends, nothing obtained in it is still
\* held, whichever of its calls answered NULL instead.
HandlesReturned ==
  \A p \in Process :
    /\ port[p] \in Flat \cup {"capiLight"} /\ Running(p) /\ ~me[p].thrown
    /\ me[p].pc <= Len(Steps(p)) => Op(p).do = "section"
    => me[p].held = <<>>
===============================================================================
