----------------------------- MODULE StoreProgram -----------------------------
(***************************************************************************)
(* Runs of the store programs: each process of Process runs the program of *)
(* its tree, section after section, against the external library and the   *)
(* scratch files that processes of one tree share.                         *)
(*                                                                         *)
(* A call may fail once (no memory, no disk), a gate may time out, and the *)
(* suite runner may kill a process.  Where the library throws, the section *)
(* and every later one is abandoned; over COM a call answers an HRESULT    *)
(* and the program goes on.                                                *)
(***************************************************************************)
EXTENDS TreeSteps

CONSTANTS
  Process    \* the processes that may run side by side

VARIABLES
  port,      \* port[p]: the tree whose program p runs, or "none"
  steps,     \* steps[p]: the steps of that program
  me,        \* me[p]: the state of process p
  disk,      \* the scratch files there are
  budget     \* how many faults (slow dispatches too) and kills are still to come

vars == <<port, steps, me, disk, budget>>

Handle == {"a", "b", "c"}
Queued == {"com", "net"}               \* events are replayed by a dispatch thread
Flat == {"capiDirect", "capiField"}    \* over the flat C interface: no handle checks itself
NoThrow == {"com", "capiCom", "capiLight", "lvCom", "recCom"}
Throws(p) == port[p] \notin NoThrow   \* a failed call throws
OneStore == {"com", "net", "capiCom", "capiNet", "lvCom", "lvNet", "recCom", "recNet"}
                                       \* main's store serves every section
Uncaught == OneStore \cup {"capiLight"}            \* main has no catch clause

Fresh == [pc |-> 1, exit |-> "idle", store |-> [h \in Handle |-> Closed],
          note |-> [pos |-> 0, doomed |-> 0, pos2 |-> 0, zero |-> 0, stray |-> 99],
          result |-> 1, mark |-> 0, section |-> "main",
          seen |-> <<>>, bumped |-> 0, queue |-> <<>>, half |-> <<>>, hook |-> FALSE,
          reread |-> 0,
          pager |-> [on |-> FALSE, pushed |-> FALSE, answer |-> TRUE, ins |-> 0, outs |-> 0,
                     flush |-> FALSE],
          held |-> <<>>, spent |-> {}, out |-> <<>>, stops |-> <<>>, plan |-> <<>>,
          failed |-> FALSE, thrown |-> FALSE, died |-> FALSE, lapped |-> FALSE, hit |-> {}]

Init ==
  /\ me = [p \in Process |-> Fresh] /\ disk = <<>>

Running(p) == me[p].exit = "running"
Steps(p) == steps[p]
Op(p) == steps[p][me[p].pc]
\* What makes or ends a store, rather than goes through one that is there.
Makes(p) == {"create", "new", "scope", "close"} \cup IF port[p] \in OneStore THEN {} ELSE {"load"}
AtOp(p, do) ==
  /\ Running(p) /\ me[p].pc <= Len(Steps(p))
  /\ Op(p).do = do
  /\ Op(p).of \in Handle /\ do \notin Makes(p) => me[p].store[Op(p).of].open
S(p) == me[p].store[Op(p).of]

OwnNames == {"light", "capiLight", "recDirect", "recField", "recLight"}

\* MUTANT of File: every tree uses fixed names.
FileWithoutPid(p, name) == <<name, "any">>

\* Some scratch names carry the process id; the others are fixed.
File(p, name) == <<name, IF port[p] \in OwnNames THEN p ELSE "any">>
Held(f) == \E q \in Process, h \in Handle :
             me[q].store[h].open /\ me[q].store[h].holds /\ me[q].store[h].file = f
HeldByOthers(p, f) == \E q \in Process, h \in Handle :
             /\ me[q].store[h].open /\ me[q].store[h].holds /\ me[q].store[h].file = f
             /\ <<q, h>> # <<p, Op(p).of>>
-------------------------------------------------------------------------------
(* What a check says of process p in state m and of the disk d. *)

Missing(m, c) ==
  \/ c.is = "val" /\ ~(DOMAIN c.arg \subseteq DOMAIN m.store[c.of].val)
  \/ c.is = "count" /\ c.arg[1] # Root /\ c.arg[1] \notin DOMAIN m.store[c.of].val

\* What a held handle is a handle of: its store as it is now, or the copy it is.
StoreOf(m, h) == IF h.live THEN m.store[h.of] ELSE h.copy
Null(m, x) == x \notin DOMAIN m.held
Reach(m, x) ==
  /\ ~Null(m, x)
  /\ LET s == StoreOf(m, m.held[x]) IN s.open /\ m.held[x].node \in {Root} \cup DOMAIN s.val
Cell(m, x) == StoreOf(m, m.held[x]).val[m.held[x].node]
Kids(m, x) == Children(StoreOf(m, m.held[x]), m.held[x].node)

\* A strict read of a cell of another type throws; the text of no field is no text.
Mismatch(p, m, c) ==
  /\ c.is \in {"reads", "readsIf"} /\ port[p] \in Flat \cup {"capiNet"}
  /\ Reach(m, c.of) /\ Cell(m, c.of)[1] # c.arg[1]
Derefs(p, m, c) ==
  /\ c.is = "reads" /\ Null(m, c.of)
  /\ port[p] \in {"capiLight", "capiNet"} \/ (port[p] \in Flat /\ c.arg[1] = "WSTR16")

OfHandle(m, c) ==
  \/ c.is = "null" /\ Null(m, c.of) = c.arg
  \/ /\ c.is \in {"reads", "readsIf", "type", "there", "kids", "posOf", "atEnd"} /\ Reach(m, c.of)
     /\ \/ c.is \in {"reads", "readsIf"} /\ Cell(m, c.of) = c.arg
        \/ c.is = "type" /\ Cell(m, c.of)[1] = c.arg
        \/ c.is = "there" /\ c.arg \in Kids(m, c.of)
        \/ c.is = "kids" /\ Cardinality(Kids(m, c.of)) = c.arg
        \/ c.is = "posOf" /\ StoreOf(m, m.held[c.of]).pos[m.held[c.of].node] = m.note[c.arg]
        \/ c.is = "atEnd" /\ m.held[c.of].at = Cardinality(Kids(m, c.of))
  \/ c.is = "notThere" /\ ~(Reach(m, c.of) /\ c.arg \in Kids(m, c.of))

EventsAre(m, events, kinds, slot, path) ==
  events = [i \in DOMAIN kinds |-> [kind |-> kinds[i], pos |-> m.note[slot], path |-> path]]

Holds(p, m, d, c) ==
  LET s == m.store[c.of] IN
  \/ c.is = "result" /\ m.result = c.arg
  \/ c.is = "undone" /\ m.result # 1
  \/ c.is = "has" /\ c.arg \subseteq DOMAIN s.val
  \/ c.is = "lacks" /\ c.arg \cap DOMAIN s.val = {}
  \/ c.is = "val" /\ ~Missing(m, c) /\ \A n \in DOMAIN c.arg : s.val[n] = c.arg[n]
  \/ c.is = "count" /\ Cardinality(Children(s, c.arg[1])) = c.arg[2]
  \/ c.is = "dirty" /\ s.dirty = c.arg
  \/ c.is = "name" /\ s.name = c.arg
  \/ c.is = "file" /\ s.file = File(p, c.arg)
  \/ c.is = "disk" /\ File(p, c.arg) \in DOMAIN d
  \/ c.is = "grown" /\ s.size >= m.mark + c.arg
  \/ c.is = "size" /\ s.size = m.mark
  \/ c.is = "pos" /\ c.arg[1] \in DOMAIN s.pos /\ s.pos[c.arg[1]] = m.note[c.arg[2]]
  \/ c.is = "at" /\ At(s, m.note[c.arg[1]]) = c.arg[2]
  \/ c.is = "seen" /\ EventsAre(m, m.seen, c.arg[1], c.arg[2], c.arg[3])
  \/ c.is = "first" /\ m.seen # <<>>
                    /\ EventsAre(m, <<m.seen[1]>>, <<c.arg[1]>>, c.arg[2], c.arg[3])
  \/ c.is = "reread" /\ m.reread = c.arg
  \/ OfHandle(m, c)
  \/ TreeHolds(m, c)
  \/ c.is = "paged" /\ <<m.pager.ins, m.pager.outs, m.pager.flush>> = c.arg

\* The call has left p as m and the disk as d: its checks, and the next step.  A
\* check that reads a field which is not there throws as the call would.
Done(p, m, d) ==
  LET checks == Op(p).checks
      crashes == \E i \in DOMAIN checks : Derefs(p, m, checks[i])
      mismatch == \E i \in DOMAIN checks : Mismatch(p, m, checks[i])
      throws == crashes \/ mismatch \/ (Throws(p) /\ \E i \in DOMAIN checks : Missing(m, checks[i]))
      fails == \E i \in DOMAIN checks : ~Holds(p, m, d, checks[i])
  IN  /\ \E died \in IF crashes THEN {TRUE} ELSE IF mismatch THEN BOOLEAN ELSE {FALSE} :
           me' = [me EXCEPT ![p] = [m EXCEPT !.failed = @ \/ fails, !.thrown = throws, !.died = died,
                                             !.pc = IF throws THEN Len(Steps(p)) + 1 ELSE @ + 1]]
      /\ disk' = d /\ UNCHANGED <<port, steps>>

Thrown(p, m) ==
  /\ me' = [me EXCEPT ![p] = [m EXCEPT !.thrown = TRUE, !.pc = Len(Steps(p)) + 1]]
  /\ UNCHANGED <<port, steps, disk>>

\* A call that answers no handle leaves its variable NULL.
Lost(p) ==
  IF Op(p).do \in HandleOps \cup Giving
  THEN LET x == Op(p).arg.to IN
       [me[p] EXCEPT !.held = [y \in DOMAIN @ \ {x} |-> @[y]], !.spent = @ \ {x}]
  ELSE me[p]

\* A call that is refused throws, or is checked by its error.
Refused(p) ==
  IF Throws(p) /\ ~Op(p).try
  THEN Thrown(p, me[p])
  ELSE Done(p, [Lost(p) EXCEPT !.result = 0], disk)

\* A C++ write moves the heap under every live handle of the flat interface.
HeapMoves(p, m) ==
  IF Op(p).do \in {"declare", "set", "delete"}
  THEN [m EXCEPT !.held = [x \in DOMAIN @ |-> [@[x] EXCEPT !.moved = m.held[x].live]]]
  ELSE m

\* The call succeeds and leaves the store it was made on as s.
Leaves(p, s) == Done(p, HeapMoves(p, [me[p] EXCEPT !.store[Op(p).of] = s, !.result = 1]), disk)
Becomes(p, m) == Done(p, m, disk)
-------------------------------------------------------------------------------
(* Stores and files. *)

EnterSection(p) == AtOp(p, "section") /\ Becomes(p, [me[p] EXCEPT !.section = Op(p).arg])

NewStore(p) ==
  /\ AtOp(p, "create") \/ AtOp(p, "new") \/ AtOp(p, "scope")
  /\ Leaves(p, Empty(Op(p).arg))

CloseStore(p) == AtOp(p, "close") /\ Leaves(p, Closed)

\* A manager built from a missing file is an empty one in the Direct trees.
LoadStore(p) ==
  /\ AtOp(p, "load")
  /\ LET f == File(p, Op(p).arg)
         s == IF S(p).open THEN S(p) ELSE Empty(0)
     IN  \/ /\ f \in DOMAIN disk /\ disk[f].good
            /\ Leaves(p, Loaded(s, f, disk[f]))
         \/ /\ ~(f \in DOMAIN disk /\ disk[f].good)
            /\ IF port[p] \in {"direct", "field", "recDirect", "recField"} \/ (port[p] = "capiField" /\ ~Op(p).try)
               THEN Leaves(p, [s EXCEPT !.file = f])
               ELSE Refused(p)

\* A saved file stays open for the store's lifetime; others may read it only.
SaveStore(p) ==
  /\ AtOp(p, "save")
  /\ LET f == IF Op(p).arg = "" THEN S(p).file ELSE File(p, Op(p).arg)
         s == [S(p) EXCEPT !.dirty = FALSE, !.file = f, !.holds = TRUE]
     IN  IF f = NoFile \/ HeldByOthers(p, f)
         THEN Refused(p)
         ELSE Done(p, [me[p] EXCEPT !.store[Op(p).of] = s, !.result = 1],
                   (f :> Image(s)) @@ disk)

\* Its result is not looked at.
RemoveScratch(p) ==
  /\ AtOp(p, "remove")
  /\ LET f == File(p, Op(p).arg) IN
     IF Held(f) THEN Refused(p)
     ELSE Done(p, me[p], [g \in DOMAIN disk \ {f} |-> disk[g]])

MakeJunk(p) ==
  /\ AtOp(p, "junk")
  /\ Done(p, me[p], (File(p, Op(p).arg) :> Junk) @@ disk)
-------------------------------------------------------------------------------
(* The tree. *)

DeclareFields(p) == AtOp(p, "declare") /\ Leaves(p, Declared(S(p), Op(p).arg))

SetFields(p) ==
  /\ AtOp(p, "set")
  /\ IF DOMAIN Op(p).arg \subseteq DOMAIN S(p).val
     THEN Leaves(p, [S(p) EXCEPT !.val = Op(p).arg @@ @, !.dirty = TRUE])
     ELSE Refused(p)

\* A position is searched for in the live tree, and is written through.
SetByPosition(p) ==
  /\ AtOp(p, "setAt")
  /\ LET at == At(S(p), me[p].note[Op(p).arg[1]])
     IN  IF at = {} THEN Refused(p)
         ELSE Leaves(p, [S(p) EXCEPT !.dirty = TRUE,
                                     !.val = [n \in at |-> Op(p).arg[2]] @@ @])

NotePosition(p) ==
  /\ AtOp(p, "note")
  /\ IF Op(p).arg[1] \in DOMAIN S(p).pos
     THEN Becomes(p, [me[p] EXCEPT !.note[Op(p).arg[2]] = S(p).pos[Op(p).arg[1]]])
     ELSE Refused(p)

RenameRoot(p) ==
  /\ AtOp(p, "rename")
  /\ IF Op(p).arg \in {"", "has.a.dot"}
     THEN Refused(p)
     ELSE Leaves(p, [S(p) EXCEPT !.name = Op(p).arg])

MarkDirty(p) == AtOp(p, "dirty") /\ Leaves(p, [S(p) EXCEPT !.dirty = Op(p).arg])
MeasureStore(p) == AtOp(p, "measure") /\ Becomes(p, [me[p] EXCEPT !.mark = S(p).size])

\* Clear empties the store, which keeps its file name.
ClearStore(p) == AtOp(p, "clear") /\ Leaves(p, Deleted(S(p), DOMAIN S(p).val))
-------------------------------------------------------------------------------
(* Events: on the mutating thread, or queued for the dispatch thread. *)

Event(kind, pos, path) == [kind |-> kind, pos |-> pos, path |-> path]

Raised(p, m, events) ==
  IF ~S(p).sink THEN m
  ELSE IF port[p] \in Queued THEN [m EXCEPT !.queue = @ \o events]
       ELSE [m EXCEPT !.seen = @ \o events]

\* MUTANT of SetSink: a sink cannot be taken off.
SinkStays(p) == AtOp(p, "sink") /\ Leaves(p, [S(p) EXCEPT !.sink = TRUE])

SetSink(p) == AtOp(p, "sink") /\ Leaves(p, [S(p) EXCEPT !.sink = Op(p).arg])

Registrations(p) == {me[p].note[Op(p).arg[1]]} \X Op(p).arg[2]

ArmTrigger(p) ==
  /\ AtOp(p, "arm")
  /\ IF me[p].note[Op(p).arg[1]] = 0 \/ Op(p).arg[2] = {}
     THEN Refused(p)
     ELSE Leaves(p, [S(p) EXCEPT !.arms = @ \cup Registrations(p)])

DisarmTrigger(p) ==
  AtOp(p, "disarm") /\ Leaves(p, [S(p) EXCEPT !.arms = @ \ Registrations(p)])

\* FireTrigger answers how many registrations ran, whoever listens.
FireTrigger(p) ==
  /\ AtOp(p, "fire")
  /\ LET pos == me[p].note[Op(p).arg[1]]
         kind == Op(p).arg[2]
     IN  IF <<pos, kind>> \in S(p).arms
         THEN Becomes(p, Raised(p, [me[p] EXCEPT !.result = 1], <<Event(kind, pos, "")>>))
         ELSE Becomes(p, [me[p] EXCEPT !.result = 0])

\* A delete raises its own event, after the field is freed.
DeleteFields(p) ==
  /\ AtOp(p, "delete")
  /\ LET names == Op(p).arg
         told == {n \in names : <<S(p).pos[n], "DELETE">> \in S(p).arms}
         m == HeapMoves(p, [me[p] EXCEPT !.store[Op(p).of] = Deleted(S(p), names), !.result = 1])
     IN  IF ~(names \subseteq DOMAIN S(p).val) THEN Refused(p)
         ELSE IF told = {} THEN Becomes(p, m)
         ELSE \E n \in told : Becomes(p, Raised(p, m, <<Event("DELETE", S(p).pos[n], "")>>))

ClearEvents(p) == AtOp(p, "clearSeen") /\ Becomes(p, [me[p] EXCEPT !.seen = <<>>])
Reset(p) == AtOp(p, "resetGate") /\ Becomes(p, [me[p] EXCEPT !.bumped = 0])
SetHook(p) == AtOp(p, "hook") /\ Becomes(p, [me[p] EXCEPT !.hook = Op(p).arg])

\* The event as its handler gets it: the path is resolved on the dispatch thread.
Resolved(s, e) ==
  [e EXCEPT !.path = IF e.kind # "DELETE" /\ At(s, e.pos) # {}
                     THEN CHOOSE n \in At(s, e.pos) : TRUE ELSE ""]
\* The handler's read through the event's position, from inside the event.
ReadBack(m, e) ==
  IF m.hook /\ At(m.store["a"], e.pos) # {}
  THEN [m EXCEPT !.reread = m.store["a"].val[CHOOSE n \in At(m.store["a"], e.pos) : TRUE]]
  ELSE m

\* A C++ sink is called on main's thread, while main pumps.
DispatchCom(p) ==
  /\ port[p] = "com" /\ (AtOp(p, "wait") \/ AtOp(p, "pump")) /\ me[p].queue # <<>>
  /\ LET s == me[p].store["a"]
         m == [me[p] EXCEPT !.queue = Tail(@)]
         e == Resolved(s, Head(me[p].queue))
     IN  me' = [me EXCEPT ![p] =
            IF s.sink THEN [ReadBack(m, e) EXCEPT !.seen = Append(@, e), !.bumped = @ + 1]
            ELSE m]
  /\ UNCHANGED <<port, steps, disk, budget>>

\* A managed sink is agile: the dispatch thread calls it while main runs on.
OnChange(p) ==
  /\ port[p] = "net" /\ Running(p) /\ me[p].queue # <<>> /\ me[p].half = <<>>
  /\ LET s == me[p].store["a"]
         m == [me[p] EXCEPT !.queue = Tail(@)]
         e == Resolved(s, Head(me[p].queue))
     IN  me' = [me EXCEPT ![p] =
            IF s.sink THEN [m EXCEPT !.seen = Append(@, e), !.half = <<e>>] ELSE m]
  /\ UNCHANGED <<port, steps, disk, budget>>

HookThenBump(p) ==
  /\ Running(p) /\ me[p].half # <<>>
  /\ me' = [me EXCEPT ![p] = [ReadBack(me[p], me[p].half[1]) EXCEPT !.bumped = @ + 1,
                                                                   !.half = <<>>]]
  /\ UNCHANGED <<port, steps, disk, budget>>

GateOpens(p) ==
  AtOp(p, "wait") /\ me[p].bumped >= Op(p).arg /\ Becomes(p, [me[p] EXCEPT !.result = 1])
\* Nothing is on its way, or the dispatch thread is too slow for once.
GateTimesOut(p) ==
  /\ AtOp(p, "wait") /\ me[p].bumped < Op(p).arg
  /\ Becomes(p, [me[p] EXCEPT !.result = 0, !.hit = @ \cup {"wait"}])
  /\ \/ me[p].queue = <<>> /\ me[p].half = <<>> /\ UNCHANGED budget
     \/ (me[p].queue # <<>> \/ me[p].half # <<>>) /\ budget.faults > 0
        /\ budget' = [budget EXCEPT !.faults = @ - 1]
PumpEnds(p) == AtOp(p, "pump") /\ Becomes(p, me[p])
-------------------------------------------------------------------------------
(* Paging: the sink is called on the accessing thread and its answer returned. *)

SetPager(p) ==
  AtOp(p, "pager") /\ Becomes(p, [me[p] EXCEPT !.pager = Op(p).arg @@ @, !.result = 1])

Page(p) ==
  /\ AtOp(p, "page")
  /\ LET m == me[p]
         called == m.pager.on /\ ~m.pager.pushed
     IN  Becomes(p, IF ~called THEN [m EXCEPT !.result = 1]
                    ELSE [m EXCEPT !.pager[Op(p).arg[1]] = @ + 1,
                                   !.pager.flush = IF Op(p).arg[1] = "outs" THEN Op(p).arg[2] ELSE @,
                                   !.result = IF m.pager.answer THEN 1 ELSE 0])

\* The registration is saved once: a second push, or a pop of nothing, is refused.
PushOrPop(p) ==
  /\ AtOp(p, "push") \/ AtOp(p, "pop")
  /\ LET push == Op(p).do = "push" IN
     IF me[p].pager.pushed = push THEN Refused(p)
     ELSE Becomes(p, [me[p] EXCEPT !.pager.pushed = push, !.result = 1])
-------------------------------------------------------------------------------
(* The process. *)

Shares(p, q) ==
  /\ port[p] \notin OwnNames
  /\ {port[p], port[q]} \in {{"direct", "field"}, {"capiDirect", "capiField"}, {port[p]}}

Start(p) ==
  /\ me[p].exit = "idle" /\ port[p] # "none"
  /\ LET beside == {q \in Process \ {p} : Running(q) /\ Shares(p, q)}
     IN  me' = [q \in Process |->
           IF q = p THEN [me[p] EXCEPT !.exit = "running", !.lapped = beside # {}]
           ELSE [me[q] EXCEPT !.lapped = @ \/ q \in beside]]
  /\ UNCHANGED <<port, steps, disk, budget>>

Gone(m, code) == [m EXCEPT !.exit = code, !.store = [h \in Handle |-> Closed],
                           !.queue = <<>>, !.half = <<>>]

\* MUTANT of Exit: an exception is reported, but not counted.
ExitForgetsThrow(p) ==
  /\ Running(p) /\ me[p].pc > Len(Steps(p))
  /\ me' = [me EXCEPT ![p] = Gone(me[p], IF me[p].failed THEN "fail" ELSE "pass")]
  /\ UNCHANGED <<port, steps, disk>>

\* main's catch clauses count the exception; the COM and .NET mains have none, and
\* over COM the only way here early is a call through a store never created.
Exit(p) ==
  /\ Running(p) /\ me[p].pc > Len(Steps(p))
  /\ me' = [me EXCEPT ![p] = Gone(me[p],
              IF me[p].died \/ (me[p].thrown /\ port[p] \in Uncaught) THEN "crashed"
              ELSE IF me[p].failed \/ me[p].thrown THEN "fail" ELSE "pass")]
  /\ UNCHANGED <<port, steps, disk>>

\* A call through a store that could not be created; the flat interface and the
\* late-bound wrapper look at it first.
NullStore(p) ==
  /\ Running(p) /\ me[p].pc <= Len(Steps(p)) /\ Op(p).of \in Handle
  /\ Op(p).do \notin Makes(p) /\ ~S(p).open
  /\ IF port[p] \in Flat \cup {"capiCom"} /\ Op(p).try THEN Refused(p) ELSE Thrown(p, me[p])

Spared == {"section", "scope", "drop", "dropIf", "leave", "close", "clearSeen", "resetGate", "hook",
           "wait", "pump", "begin", "work", "remember", "again"}
Piecemeal == {"declareIn", "grow", "walk", "forEach", "search", "descend",
              "drain", "revisit"}   \* have faults of their own

\* The program asks for a refusal, and takes any error for it.
AsksRefusal(p) ==
  /\ \E i \in DOMAIN Op(p).checks : Op(p).checks[i].is = "undone"
  /\ Op(p).try \/ ~Throws(p)

\* A call fails.  Of a tree that is declared one field, and what is below it, is
\* then not there; main's own store is checked at once.
Fault(p) ==
  /\ Running(p) /\ me[p].pc <= Len(Steps(p)) /\ Op(p).do \notin Spared /\ ~AsksRefusal(p)
  /\ budget.faults > 0 /\ budget' = [budget EXCEPT !.faults = @ - 1]
  /\ LET m == [Lost(p) EXCEPT !.hit = @ \cup {Op(p).do}, !.result = -1]
         tree == Op(p).arg
     IN  \/ /\ Op(p).do \in {"create", "library"}
            /\ me' = [me EXCEPT ![p] = Gone(m, "setup")] /\ UNCHANGED <<port, steps, disk>>
         \/ Op(p).do \notin ({"create", "library"} \cup Piecemeal) /\ Throws(p) /\ ~Op(p).try /\ Thrown(p, m)
         \/ Op(p).do \notin ({"create", "library", "declare"} \cup Piecemeal) /\ (~Throws(p) \/ Op(p).try) /\ Done(p, m, disk)
         \/ /\ Op(p).do = "declare" /\ ~Throws(p) /\ S(p).open
            /\ \E lost \in DOMAIN tree :
                 LET rest == [n \in DOMAIN tree \ Subtree(lost) |-> tree[n]]
                 IN  Done(p, [m EXCEPT !.store[Op(p).of] = Declared(S(p), rest)], disk)

\* The runner gives up on a harness, or a debug break ends it.
Kill(p) ==
  /\ Running(p) /\ budget.kills > 0
  /\ me' = [me EXCEPT ![p] = Gone([me[p] EXCEPT !.hit = @ \cup {"kill"}], "killed")]
  /\ budget' = [budget EXCEPT !.kills = @ - 1]
  /\ UNCHANGED <<port, steps, disk>>

Call(p) ==
  \/ EnterSection(p) \/ NewStore(p) \/ CloseStore(p) \/ LoadStore(p) \/ SaveStore(p)
  \/ RemoveScratch(p) \/ MakeJunk(p) \/ DeclareFields(p) \/ SetFields(p) \/ SetByPosition(p)
  \/ NotePosition(p) \/ RenameRoot(p) \/ MarkDirty(p) \/ MeasureStore(p) \/ ClearStore(p)
  \/ SetSink(p) \/ ArmTrigger(p) \/ DisarmTrigger(p) \/ FireTrigger(p) \/ DeleteFields(p)
  \/ ClearEvents(p) \/ Reset(p) \/ SetHook(p) \/ GateOpens(p) \/ PumpEnds(p)
  \/ SetPager(p) \/ Page(p) \/ PushOrPop(p) \/ NullStore(p) \/ Exit(p)

Dispatch(p) == DispatchCom(p) \/ OnChange(p) \/ HookThenBump(p)

Next ==
  \E p \in Process :
    \/ Start(p) \/ (Call(p) /\ UNCHANGED budget) \/ GateTimesOut(p) \/ Dispatch(p)
    \/ Fault(p) \/ Kill(p)
===============================================================================
