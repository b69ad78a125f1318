------------------------------ MODULE TreeSteps ------------------------------
(***************************************************************************)
(* The calls of the programs about containers and trees.  A field is named *)
(* by its path; a list or a vect is a field whose value is a sequence of   *)
(* cells; a step works through the variable `via`, and what it obtains is  *)
(* kept in the variable `to`.  A double is counted in tenths.              *)
(***************************************************************************)
EXTENDS ProgramSteps
LOCAL INSTANCE SequencesExt
LOCAL INSTANCE FiniteSetsExt

TreeStep(do, to, via, arg) == Handled(do, "-", to, via, arg)

\* The objects of a section that has no store: each owns its heap.
Scope == Step("scope", "a", 0)

\* Fields are declared under one, the last of them is kept; one is looked up.
Grow(x, y, kids) == TreeStep("grow", x, y, kids)
One(x, y, n, v) == Grow(x, y, <<<<n, v>>>>)
FieldAt(x, h, path) == Handled("fieldAt", h, x, "-", path)
Glance(x, h, path) == Handled("glance", h, x, "-", path)      \* to see what it has not
Kid(x, y, n, kind) == TreeStep("kid", x, y, <<n, kind>>)      \* "ANY", or the kind it must be
DeleteKid(y, n) == TreeStep("removeKid", "-", y, n)
SetField(y, v) == TreeStep("setField", "-", y, v)
Truncate(y) == TreeStep("truncate", "-", y, 0)
Attribute(y, n, v) == TreeStep("attribute", "-", y, <<n, v>>)

\* A cell is added, written or taken out; an index below 0 counts from behind.
Edit(y, how, i, v) == TreeStep("edit", "-", y, [how |-> how, i |-> i, v |-> v])
AddTail(y, v) == Edit(y, "addTail", 0, v)
AddHead(y, v) == Edit(y, "addHead", 0, v)
DropTail(y) == Edit(y, "removeAt", -1, 0)
DropHead(y) == Edit(y, "removeAt", 0, 0)
SetItem(y, i, v) == Edit(y, "setAt", i, v)
RemoveItem(y, i) == Edit(y, "removeAt", i, 0)
Insert(y, i, v) == Edit(y, "insertAt", i, v)
\* A deep copy of y becomes the value of x, an element of it, or a field under it.
CopyTo(x, y) == TreeStep("copyTo", x, y, <<"value", 0>>)
CopyInto(x, y, i) == TreeStep("copyTo", x, y, <<"element", i>>)
CopyUnder(x, y, n) == TreeStep("copyTo", x, y, <<"field", n>>)

\* A cursor on the children of a field, or an element it stands on.
CursorOn(x, y) == TreeStep("cursorOn", x, y, 0)
Seek(c) == TreeStep("seek", "-", c, 0)
NextOf(c) == TreeStep("nextOf", "-", c, 0)
GotoIndex(c, i) == TreeStep("goto", "-", c, <<"index", i>>)
GotoName(c, n) == TreeStep("goto", "-", c, <<"name", n>>)
FieldOf(x, c) == TreeStep("fieldOf", x, c, "ANY")
ElementOf(x, c, kind) == TreeStep("fieldOf", x, c, kind)
DeleteAtCursor(c) == TreeStep("deleteAtCursor", "-", c, 0)

\* A walker is a cursor that goes down and comes up again.
Push(w) == TreeStep("enter", "-", w, 0)
Pop(w) == TreeStep("rise", "-", w, 0)
Break(w) == TreeStep("break", "-", w, 0)
Search(w, n) == TreeStep("search", "-", w, n)          \* along one level

\* A time is an attribute of a field, in seconds; it is given in tenths.
Stamp(y, tenths) == TreeStep("stamp", "-", y, tenths)
Restamp(y) == TreeStep("restamp", "-", y, 0)           \* with the time it has
Attributes(y) == TreeStep("ask", "-", y, <<>>)
ReadStrict(y, n, type) == TreeStep("ask", "-", y, <<n, type>>)

\* A field puts its value aside, and takes it back or drops it.
PushValue(y) == TreeStep("pushValue", "-", y, 0)
PopValue(y) == TreeStep("popValue", "-", y, 0)
DropValue(y) == TreeStep("dropValue", "-", y, 0)

\* Loops, one round at a time: along a cursor, or over a snapshot of the elements.
Begin == Step("begin", "-", 0)        \* nothing counted yet
Walk(c, reads) == TreeStep("walk", "-", c, reads)
Snapshot(y) == TreeStep("snapshot", "-", y, 0)
ForEach(body) == Step("forEach", "-", body)
Descend(w, but) == TreeStep("descend", "-", w, but)    \* into every field of another name
\* A client's own work list: what is taken from its end, and what of it is listed.
Work(path) == Step("work", "-", path)
Drain(h, rule) == Step("drain", h, rule)
\* The stops of a loop, kept for loops that come later.
Remember == Step("remember", "-", 0)
Again == Step("again", "-", 0)
Revisit(body) == Step("revisit", "a", body)

Giving == {"grow", "fieldAt", "glance", "kid", "cursorOn", "fieldOf"}
OnTree == {"grow", "kid", "removeKid", "setField", "truncate", "attribute", "edit", "copyTo",
           "cursorOn", "seek", "nextOf", "goto", "fieldOf", "deleteAtCursor", "walk", "snapshot",
           "enter", "rise", "break", "search", "descend", "stamp", "restamp", "ask", "pushValue",
           "popValue", "dropValue"}
-------------------------------------------------------------------------------
(* Values. *)

List(cells) == <<"LIST", cells>>
Vect(n, v) == <<"VECT", [i \in 1..n |-> v]>>
Nil == <<"NULL", 0>>   \* what is not there, or could not be read
Time(v) == <<"TIME64", v>>
NullTime == Time(-1)
Kind(cell) == IF cell[1] \in {"LIST", "VECT"} THEN cell[1] ELSE "ITEM"

\* A value keeps the type of the cell it is written to: a double is rounded.
Rounded(v) == (v + 5) \div 10
Kept(old, new) ==
  IF old[1] = "INT32" /\ new[1] = "DOUBLE" THEN Int32(Rounded(new[2]))
  ELSE IF old[1] = "DOUBLE" /\ new[1] = "INT32" THEN Dbl(new[2] * 10) ELSE new

Index(cells, i) == IF i < 0 THEN Len(cells) + i + 1 ELSE i + 1
Permitted(cells, e) ==
  \/ e.how \in {"addTail", "addHead"}
  \/ e.how = "insertAt" /\ e.i \in 0..Len(cells)
  \/ e.how \in {"setAt", "removeAt"} /\ Index(cells, e.i) \in DOMAIN cells

Edited(cells, e) ==
  LET at == Index(cells, e.i) IN
  CASE e.how = "addTail" -> Append(cells, e.v)
    [] e.how = "addHead" -> <<e.v>> \o cells
    [] e.how = "setAt" -> [cells EXCEPT ![at] = Kept(@, e.v)]
    [] e.how = "removeAt" -> SubSeq(cells, 1, at - 1) \o SubSeq(cells, at + 1, Len(cells))
    [] e.how = "insertAt" -> SubSeq(cells, 1, at - 1) \o <<e.v>> \o SubSeq(cells, at, Len(cells))

\* The tree of a store.
Exists(s, path) == path = <<>> \/ path \in DOMAIN s.val
Names(s, path) == IF path \in DOMAIN s.order THEN s.order[path] ELSE <<>>
AttrsOf(s, path) == IF path \in DOMAIN s.attr THEN s.attr[path] ELSE <<>>
Paths(s, path) == [i \in DOMAIN Names(s, path) |-> Append(path, Names(s, path)[i])]

\* A field that is declared again keeps its place.
Planted(s, path, kids) ==
  LET new == [q \in {Append(path, kids[i][1]) : i \in DOMAIN kids} |->
                kids[CHOOSE i \in DOMAIN kids : kids[i][1] = Last(q)][2]]
      fresh == SelectSeq([i \in DOMAIN kids |-> kids[i][1]],
                         LAMBDA n : ~Contains(Names(s, path), n))
  IN  [s EXCEPT !.val = new @@ @, !.dirty = TRUE,
                !.order = (path :> (Names(s, path) \o fresh)) @@ @]

\* A field goes with all that is below it.
Uprooted(s, path) ==
  LET stay(f) == [q \in {r \in DOMAIN f : ~IsPrefix(path, r)} |-> f[q]]
      up == Front(path)
  IN  [s EXCEPT !.val = stay(@), !.attr = stay(@), !.kept = stay(@), !.dirty = TRUE,
                !.order = (up :> SelectSeq(Names(s, up), LAMBDA n : n # Last(path))) @@ stay(@)]

\* All that is below a field goes.
Emptied(s, path) ==
  LET stay(f) == [q \in {r \in DOMAIN f : ~IsStrictPrefix(path, r)} |-> f[q]]
  IN  [s EXCEPT !.val = stay(@), !.attr = stay(@), !.kept = stay(@), !.dirty = TRUE,
                !.order = (path :> <<>>) @@ stay(@)]

\* A cursor c has left the positions c.up on the levels above it.
Level(c, l) == SubSeq(c.node, 1, Len(c.node) - Len(c.up) + l - 1)
Positions(c) == Append(c.up, c.at)
OnLevel(c, l, at) == [c EXCEPT !.node = Level(c, l), !.up = SubSeq(@, 1, l - 1), !.at = at]
AtItsEnd(s, c) == OnLevel(c, 1, Len(Names(s, Level(c, 1))))

\* The next child, of the deepest level that has one: spent levels are left.
Advanced(s, c) ==
  LET more == {l \in DOMAIN Positions(c) : Positions(c)[l] + 1 < Len(Names(s, Level(c, l)))}
  IN  IF more = {} THEN AtItsEnd(s, c) ELSE OnLevel(c, Max(more), Positions(c)[Max(more)] + 1)

\* Before the first child of the field n it stands on; and back on that field.
Entered(c, n) == [c EXCEPT !.node = Append(@, n), !.up = Append(@, c.at), !.at = -1]
Risen(c) == OnLevel(c, Len(c.up), Last(c.up))
-------------------------------------------------------------------------------
(* Checks: of the field or the cursor a variable names, and of a loop. *)

Fact(x, what, i, v) == Check("fact", x, <<what, i, v>>)
Counts(x, n) == Fact(x, "count", 0, n)
ItemIs(x, i, v) == Fact(x, "item", i, v)
TypeAt(x, i, type) == Fact(x, "type", i, type)
InnerIs(x, i, v) == Fact(x, "inner", i, v)
Sums(x, n) == Fact(x, "sum", 0, n)
KindIs(x, kind) == Fact(x, "kind", 0, kind)
ValueIs(x, v) == Fact(x, "value", 0, v)
KidIs(x, n, v) == Fact(x, "kidValue", n, v)
KidKind(x, n, kind) == Fact(x, "kidKind", n, kind)
Finds(x, n) == Fact(x, "finds", n, TRUE)
FindsNot(x, n) == Fact(x, "finds", n, FALSE)
AttributeIs(x, n, v) == Fact(x, "attribute", n, v)
AttributeCount(x, n) == Fact(x, "attributes", 0, n)
Stands(c, i) == Fact(c, "index", 0, i)        \* -1 behind the last
NotAtEnd(c) == Fact(c, "end", 0, FALSE)
Over(c) == Fact(c, "end", 0, TRUE)
NameIs(c, n) == Fact(c, "name", 0, n)
Bound(x) == Check("bound", x, TRUE)
ValueAt(x, path, v) == Fact(x, "at", path, v)
Depth(w, n) == Fact(w, "depth", 0, n)
StandsOn(w, path) == Fact(w, "stop", 0, path)
StopKind(w, kind) == Fact(w, "stopKind", 0, kind)
StampIs(x, seconds) == Fact(x, "stamp", 0, seconds)
StampKept(x) == Fact(x, "stampKept", 0, TRUE)
Stamped(x, b) == Fact(x, "attributed", 0, b)
Stacked(x, b) == Fact(x, "stacked", 0, b)

Told(what, i, v) == Check("out", "-", <<what, i, v>>)
Visits(n) == Told("count", 0, n)
Total(n) == Told("sum", 0, n)
Sequence(names) == Told("names", 0, names)
First(n) == Told("first", 0, n)
Kinds(n) == Told("kinds", 0, n)                 \* items, lists and vects
Types(type, n) == Told("types", type, n)
Met(n, v) == Told("met", n, v)                  \* the value of a stop of that name
Times(n, k) == Told("times", n, k)
StopIs(i, path) == Told("path", i, path)
KidsAt(i, k) == Told("kids", i, k)
MaxDepth(d) == Told("depth", 0, d)
NoKids(k) == Told("noKids", 0, k)
Fewer(n) == Told("fewer", n, TRUE)
Found(n, path) == Told("last", 0, <<n, path>>)

HandleIn(m, x) == IF x = "root" THEN [of |-> "a", node |-> <<>>, at |-> 0, up |-> <<>>] ELSE m.held[x]
TreeOf(m, x) == m.store[HandleIn(m, x).of]
Sees(m, x) ==
  /\ x = "root" \/ x \in DOMAIN m.held
  /\ TreeOf(m, x).open /\ Exists(TreeOf(m, x), HandleIn(m, x).node)
ValueOf(m, x) == IF HandleIn(m, x).node = <<>> THEN Nil ELSE TreeOf(m, x).val[HandleIn(m, x).node]
NamesOf(m, x) == Names(TreeOf(m, x), HandleIn(m, x).node)
KidOf(m, x, n) ==
  IF Contains(NamesOf(m, x), n) THEN TreeOf(m, x).val[Append(HandleIn(m, x).node, n)] ELSE Nil
CellAt(cells, i) == IF Index(cells, i) \in DOMAIN cells THEN cells[Index(cells, i)] ELSE Nil
Sum(cells) == FoldLeft(LAMBDA sum, cell : sum + cell[2], 0, cells)
AtEndOf(m, c) == HandleIn(m, c).at >= Len(NamesOf(m, c))
Current(m, c) ==
  IF AtEndOf(m, c) \/ HandleIn(m, c).at < 0 THEN "" ELSE NamesOf(m, c)[HandleIn(m, c).at + 1]
StopOf(m, c) == Append(HandleIn(m, c).node, Current(m, c))
CellOf(m, c) == KidOf(m, c, Current(m, c))
StampOf(m, x) ==
  LET attrs == AttrsOf(TreeOf(m, x), HandleIn(m, x).node)
  IN  IF "$TStamp$" \in DOMAIN attrs THEN attrs["$TStamp$"] ELSE 0

Answer(m, x, what, i) ==
  LET cell == ValueOf(m, x)
      attrs == AttrsOf(TreeOf(m, x), HandleIn(m, x).node)
  IN  CASE what = "count" -> IF Kind(cell) = "ITEM" THEN Len(NamesOf(m, x)) ELSE Len(cell[2])
        [] what = "item" -> CellAt(cell[2], i)
        [] what = "type" -> CellAt(cell[2], i)[1]
        [] what = "inner" -> CellAt(CellAt(cell[2], i[1])[2], i[2])
        [] what = "sum" -> Sum(cell[2])
        [] what = "kind" -> Kind(cell)
        [] what = "value" -> cell
        [] what = "kidValue" -> KidOf(m, x, i)
        [] what = "kidKind" -> Kind(KidOf(m, x, i))
        [] what = "finds" -> Contains(NamesOf(m, x), i)
        [] what = "attribute" -> IF i \in DOMAIN attrs THEN attrs[i] ELSE Nil
        [] what = "attributes" -> IF Kind(cell) = "ITEM" THEN Cardinality(DOMAIN attrs) ELSE -1
        [] what = "end" -> AtEndOf(m, x)
        [] what = "index" -> IF AtEndOf(m, x) THEN -1 ELSE HandleIn(m, x).at
        [] what = "name" -> Current(m, x)
        [] what = "at" -> LET path == HandleIn(m, x).node \o i IN
                          IF path \in DOMAIN TreeOf(m, x).val THEN TreeOf(m, x).val[path] ELSE Nil
        [] what = "depth" -> Len(HandleIn(m, x).up)
        [] what = "stop" -> StopOf(m, x)
        [] what = "stopKind" -> Kind(CellOf(m, x))
        [] what = "stamp" -> StampOf(m, x)
        [] what = "stampKept" -> StampOf(m, x) = m.mark
        [] what = "attributed" -> DOMAIN attrs # {}
        [] what = "stacked" -> HandleIn(m, x).node \in DOMAIN TreeOf(m, x).kept

OfKind(out, kind) == Cardinality({i \in DOMAIN out : Kind(out[i][2]) = kind})
Alike(out, field, v) == {k \in DOMAIN out : out[k][field] = v}
OfLoop(out, what, i) ==
  CASE what = "count" -> Len(out)
    [] what = "sum" -> Sum([k \in DOMAIN out |-> out[k][2]])
    [] what = "names" -> [k \in DOMAIN out |-> out[k][1]]
    [] what = "first" -> IF out = <<>> THEN "" ELSE out[1][1]
    [] what = "kinds" -> [k \in 1..3 |-> OfKind(out, <<"ITEM", "LIST", "VECT">>[k])]
    [] what = "types" -> Cardinality({k \in DOMAIN out : out[k][2][1] = i})
    [] what = "met" -> IF Alike(out, 1, i) = {} THEN Nil ELSE out[Max(Alike(out, 1, i))][2]
    [] what = "times" -> Cardinality(Alike(out, 1, i))
    [] what = "path" -> IF i \in DOMAIN out THEN out[i][3] ELSE <<>>
    [] what = "kids" -> IF i \in DOMAIN out THEN out[i][4] ELSE -1
    [] what = "depth" -> Max({0} \cup {Len(out[k][3]) - 1 : k \in DOMAIN out})
    [] what = "noKids" -> Cardinality(Alike(out, 4, 0))
    [] what = "fewer" -> Len(out) < i
    [] what = "last" -> IF out = <<>> THEN <<"", <<>>>> ELSE <<Last(out)[1], Last(out)[3]>>

\* What the wrappers of COM answer for NULL.
Blank(what, v) ==
  \/ what \in {"count", "index", "attributes", "stamp"} /\ v = 0
  \/ what \in {"value", "kidValue", "item"} /\ v = Int32(0)
  \/ what \in {"finds", "attributed", "stacked"} /\ v = FALSE

TreeHolds(m, c) ==
  \/ c.is = "fact" /\ ~Sees(m, c.of) /\ Blank(c.arg[1], c.arg[3])
  \/ c.is = "fact" /\ Sees(m, c.of) /\ Answer(m, c.of, c.arg[1], c.arg[2]) = c.arg[3]
  \/ c.is = "bound" /\ Sees(m, c.of)
  \/ c.is = "out" /\ OfLoop(m.out, c.arg[1], c.arg[2]) = c.arg[3]
-------------------------------------------------------------------------------
(* What the programs are put together from. *)

NewList(x, y, n) == One(x, y, n, List(<<>>))
NewVect(x, y, n, count, v) == One(x, y, n, Vect(count, v))
SetItems(x, values) == [i \in DOMAIN values |-> SetItem(x, i - 1, values[i])]
Fails(s) == Try(Then(s, <<Result(0)>>))
Removes(s, checks) == Try(Then(s, <<Result(1)>> \o checks))   \* it answers a Boolean
Loop(calls) == <<Begin>> \o calls

\* A section, with a store of its own or without; over COM what a call answers is checked,
\* and in C# it throws.
Part(title, calls) == <<Section(title)>> \o calls \o <<Leave>>
OwnStore(title, calls) == <<New("a", Large), Section(title)>> \o calls \o <<Leave, Close("a")>>
Asked == {"grow", "kid", "edit", "attribute", "truncate", "setField", "cursorOn", "fieldOf",
          "deleteAtCursor", "snapshot", "stamp", "restamp", "ask", "pushValue"}
Answered(s, net) == IF net \/ s.try \/ s.do \notin Asked THEN s ELSE Ok(s)
OverCom(title, calls, net) == Part(title, [i \in DOMAIN calls |-> Answered(calls[i], net)])
===============================================================================
