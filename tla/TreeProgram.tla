----------------------------- MODULE TreeProgram -----------------------------
(***************************************************************************)
(* The calls of the programs about containers and trees, and their loops.  *)
(* A loop whose body reads only what cannot change meanwhile is a check;   *)
(* one that moves a cursor, obtains fields or changes the tree runs one    *)
(* round at a time, and any round may fail.                                *)
(***************************************************************************)
EXTENDS HandleProgram
LOCAL INSTANCE SequencesExt

AtTree(p, do) == AtStep(p, do) /\ Sees(me[p], Op(p).arg.via)
Place(p) == HandleIn(me[p], Op(p).arg.via)
Tree(p) == TreeOf(me[p], Op(p).arg.via)
Arg(p) == Op(p).arg.arg

PutTree(p, s) == [me[p] EXCEPT !.store[Place(p).of] = s, !.result = 1]
Keeps(m, x, h, path) == IF x = "-" THEN m ELSE Given(m, x, Live(h, path))
Stays(p, m) == me' = [me EXCEPT ![p] = m] /\ UNCHANGED <<port, steps, disk>>
WithCell(p, path, cell) == [Tree(p) EXCEPT !.val[path] = cell, !.dirty = TRUE]
-------------------------------------------------------------------------------
GrowKids(p) ==
  /\ AtTree(p, "grow")
  /\ Becomes(p, Keeps(PutTree(p, Planted(Tree(p), Place(p).node, Arg(p))), Op(p).arg.to,
                      Place(p).of, Append(Place(p).node, Last(Arg(p))[1])))

\* One of several declarations fails.
GrowFault(p) ==
  /\ AtTree(p, "grow")
  /\ budget.faults > 0 /\ budget' = [budget EXCEPT !.faults = @ - 1]
  /\ \E lost \in DOMAIN Arg(p) :
       LET rest == SubSeq(Arg(p), 1, lost - 1) \o SubSeq(Arg(p), lost + 1, Len(Arg(p)))
           m == [Lost(p) EXCEPT !.hit = @ \cup {"grow"}]
           s == IF rest = <<>> THEN Tree(p) ELSE Planted(Tree(p), Place(p).node, rest)
       IN  IF Throws(p) /\ ~Op(p).try THEN Thrown(p, m)
           ELSE Done(p, [m EXCEPT !.store[Place(p).of] = s, !.result = -1], disk)

OpenAt(p) ==
  /\ AtOp(p, "fieldAt") \/ AtOp(p, "glance")
  /\ IF Exists(S(p), Arg(p)) THEN Gets(p, Live(Op(p).of, Arg(p))) ELSE Refused(p)

\* A child that is not there, or is of another kind, is refused.
LookUp(p) ==
  /\ AtTree(p, "kid")
  /\ LET n == Arg(p)[1]
         kind == Arg(p)[2]
     IN  IF /\ Contains(NamesOf(me[p], Op(p).arg.via), n)
            /\ kind \in {"ANY", Kind(KidOf(me[p], Op(p).arg.via, n))}
         THEN Gets(p, Live(Place(p).of, Append(Place(p).node, n)))
         ELSE Refused(p)

RemoveKid(p) ==
  /\ AtTree(p, "removeKid")
  /\ IF Contains(NamesOf(me[p], Op(p).arg.via), Arg(p))
     THEN Becomes(p, PutTree(p, Uprooted(Tree(p), Append(Place(p).node, Arg(p)))))
     ELSE Refused(p)

WriteField(p) ==
  AtTree(p, "setField") /\ Becomes(p, PutTree(p, WithCell(p, Place(p).node, Arg(p))))

TruncateAll(p) ==
  /\ AtTree(p, "truncate")
  /\ LET cell == ValueOf(me[p], Op(p).arg.via) IN
     Becomes(p, PutTree(p, IF Kind(cell) = "ITEM" THEN Emptied(Tree(p), Place(p).node)
                           ELSE WithCell(p, Place(p).node, <<cell[1], <<>>>>)))

\* A container has no attributes.
SetAttribute(p) ==
  /\ AtTree(p, "attribute")
  /\ LET path == Place(p).node
         attrs == (Arg(p)[1] :> Arg(p)[2]) @@ AttrsOf(Tree(p), path)
     IN  IF Kind(ValueOf(me[p], Op(p).arg.via)) # "ITEM" THEN Refused(p)
         ELSE Becomes(p, PutTree(p, [Tree(p) EXCEPT !.attr = (path :> attrs) @@ @,
                                                    !.dirty = TRUE]))

\* MsgFacade changes neither the type nor the room of a cell.
TooLong == Text("a value far longer than the cell it must fit")
Writable(p, cells, e) ==
  e.how = "setAt" /\ port[p] = "lvLight" =>
    cells[Index(cells, e.i)][1] = e.v[1] /\ e.v # TooLong

EditCells(p) ==
  /\ AtTree(p, "edit")
  /\ LET cell == ValueOf(me[p], Op(p).arg.via) IN
     IF Permitted(cell[2], Arg(p)) /\ Writable(p, cell[2], Arg(p))
     THEN Becomes(p, PutTree(p, WithCell(p, Place(p).node, <<cell[1], Edited(cell[2], Arg(p))>>)))
     ELSE Refused(p)

\* A copy shares nothing with what it was taken from.
CopyValue(p) ==
  /\ AtTree(p, "copyTo")
  /\ LET x == HandleIn(me[p], Op(p).arg.to)
         s == TreeOf(me[p], Op(p).arg.to)
         cell == ValueOf(me[p], Op(p).arg.via)
         how == Arg(p)[1]
         element == [how |-> "insertAt", i |-> Arg(p)[2], v |-> cell]
     IN  Becomes(p, [me[p] EXCEPT !.result = 1, !.store[x.of] =
           IF how = "field" THEN Planted(s, x.node, <<<<Arg(p)[2], cell>>>>)
           ELSE IF how = "value" THEN [s EXCEPT !.val[x.node] = cell]
           ELSE [s EXCEPT !.val[x.node] = <<@[1], Edited(@[2], element)>>]])
-------------------------------------------------------------------------------
(* A cursor is a field and a position among its children, not a child. *)

OpenCursorOn(p) ==
  /\ AtTree(p, "cursorOn")
  /\ Becomes(p, Given(me[p], Op(p).arg.to, Live(Place(p).of, Place(p).node)))

SeekStart(p) ==
  /\ AtTree(p, "seek")
  /\ Becomes(p, [me[p] EXCEPT !.held[Op(p).arg.via].at = 0, !.result = 1])

\* It stops behind the last child, and says when it gets there.
NextElement(p) ==
  /\ AtTree(p, "nextOf")
  /\ LET c == Op(p).arg.via
         m == [me[p] EXCEPT !.held[c] = Advanced(Tree(p), @)]
     IN  Becomes(p, [m EXCEPT !.result = IF AtEndOf(m, c) THEN 2 ELSE 1])

\* A name is found whatever its case; a miss leaves the position alone.
Stored(n) == IF n = "UPTIME" THEN "Uptime" ELSE n
GoTo(p) ==
  /\ AtTree(p, "goto")
  /\ LET names == NamesOf(me[p], Op(p).arg.via)
         found == {i \in 0..(Len(names) - 1) :
                     IF Arg(p)[1] = "index" THEN i = Arg(p)[2] ELSE names[i + 1] = Stored(Arg(p)[2])}
     IN  IF found = {} THEN Becomes(p, [me[p] EXCEPT !.result = 0])
         ELSE \E i \in found : Becomes(p, [me[p] EXCEPT !.held[Op(p).arg.via].at = i, !.result = 1])

Standing(p) == StopOf(me[p], Op(p).arg.via)
Beneath(p) == Current(me[p], Op(p).arg.via)
StopsAt(p) == CellOf(me[p], Op(p).arg.via)

\* As a field whatever it is, or as the container it must be.
FieldAtCursor(p) ==
  /\ AtTree(p, "fieldOf")
  /\ IF Beneath(p) # "" /\ Arg(p) \in {"ANY", Kind(StopsAt(p))}
     THEN Gets(p, Live(Place(p).of, Standing(p))) ELSE Refused(p)

\* What follows moves up: the position stays.
DeleteCurrent(p) ==
  /\ AtTree(p, "deleteAtCursor")
  /\ IF AtEndOf(me[p], Op(p).arg.via) THEN Refused(p)
     ELSE Becomes(p, PutTree(p, Uprooted(Tree(p), Standing(p))))
-------------------------------------------------------------------------------
(* A walker: a cursor that goes down where it is told to, and comes up by itself. *)

Turned(p, cursor, result) ==
  [me[p] EXCEPT !.held[Op(p).arg.via] = cursor, !.result = result]
HasChildren(s, path) == Names(s, path) # <<>>

\* A container cannot be entered, and what has no children is not.
EnterLevel(p) ==
  /\ AtTree(p, "enter")
  /\ IF Beneath(p) = "" \/ Kind(StopsAt(p)) # "ITEM" THEN Refused(p)
     ELSE Becomes(p, IF HasChildren(Tree(p), Standing(p))
                     THEN Turned(p, Entered(Place(p), Beneath(p)), 1) ELSE Turned(p, Place(p), 2))

RiseLevel(p) ==
  /\ AtTree(p, "rise")
  /\ IF Place(p).up = <<>> THEN Refused(p) ELSE Becomes(p, Turned(p, Risen(Place(p)), 1))

\* All levels are left; the walk is over, but over MsgFacade goes on from the outermost.
BreakOff(p) ==
  /\ AtTree(p, "break")
  /\ Becomes(p, Turned(p, IF port[p] = "recLight" THEN OnLevel(Place(p), 1, Positions(Place(p))[1])
                          ELSE AtItsEnd(Tree(p), Place(p)), 1))

\* Along one level, until the name is met.
SearchOn(p) ==
  /\ AtTree(p, "search")
  /\ IF Beneath(p) \in {"", Arg(p)} THEN Becomes(p, me[p])
     ELSE Stays(p, Turned(p, Advanced(Tree(p), Place(p)), 1))

\* The search breaks off, and the name it has is not the one that is checked.
SearchFault(p) ==
  /\ AtTree(p, "search") /\ Beneath(p) \notin {"", Arg(p)}
  /\ budget.faults > 0 /\ budget' = [budget EXCEPT !.faults = @ - 1]
  /\ LET m == [me[p] EXCEPT !.hit = @ \cup {"search"}] IN
     IF Throws(p) /\ ~Op(p).try THEN Thrown(p, m) ELSE Becomes(p, [m EXCEPT !.failed = TRUE])
-------------------------------------------------------------------------------
(* Times, strict reads, and values put aside. *)

\* A time is kept in whole seconds.
WithStamp(p, tenths) ==
  LET path == Place(p).node
      attrs == ("$TStamp$" :> Rounded(tenths)) @@ AttrsOf(Tree(p), path)
  IN  [Tree(p) EXCEPT !.attr = (path :> attrs) @@ @, !.dirty = TRUE]

SetStamp(p) == AtTree(p, "stamp") /\ Becomes(p, PutTree(p, WithStamp(p, Arg(p))))

\* The time that is read is written back.
SetStampAgain(p) ==
  /\ AtTree(p, "restamp")
  /\ LET seconds == StampOf(me[p], Op(p).arg.via) IN
     Becomes(p, [PutTree(p, WithStamp(p, 10 * seconds)) EXCEPT !.mark = seconds])

\* It cannot be read, which looks like no time.
StampFault(p) ==
  /\ AtTree(p, "restamp") /\ ~Throws(p)
  /\ budget.faults > 0 /\ budget' = [budget EXCEPT !.faults = @ - 1]
  /\ Becomes(p, [PutTree(p, WithStamp(p, 0)) EXCEPT !.mark = 0, !.hit = @ \cup {"reread"}])

\* The attributes are asked for, or a field as one of a type it must have.
Ask(p) ==
  /\ AtTree(p, "ask")
  /\ IF Arg(p) = <<>> \/ KidOf(me[p], Op(p).arg.via, Arg(p)[1])[1] = Arg(p)[2]
     THEN Becomes(p, [me[p] EXCEPT !.result = 1]) ELSE Refused(p)

\* What is put aside lies in the field itself: one value, which a second replaces.
PutAside(p) ==
  /\ AtTree(p, "pushValue")
  /\ Becomes(p, PutTree(p, [Tree(p) EXCEPT !.dirty = TRUE,
       !.kept = (Place(p).node :> ValueOf(me[p], Op(p).arg.via)) @@ @]))

\* To take back, or to drop, what is not there is no error.
TakeBack(p) ==
  /\ AtTree(p, "popValue") \/ AtTree(p, "dropValue")
  /\ LET path == Place(p).node
         kept == Tree(p).kept
         s == [Tree(p) EXCEPT !.kept = [q \in DOMAIN kept \ {path} |-> kept[q]], !.dirty = TRUE]
     IN  IF path \notin DOMAIN kept THEN Becomes(p, [me[p] EXCEPT !.result = 0])
         ELSE Becomes(p, PutTree(p, IF Op(p).do = "dropValue" THEN s
                                    ELSE [s EXCEPT !.val[path] = kept[path]]))
-------------------------------------------------------------------------------
(* Loops. *)

BeginLoop(p) == AtStep(p, "begin") /\ Becomes(p, [me[p] EXCEPT !.out = <<>>, !.stops = <<>>])
Visit(m, path, cell) == [m EXCEPT !.out = Append(@, <<Last(path), cell, path, 0>>), !.result = 1]

\* The cursor is behind the last child, or the next round begins: where it stands is
\* kept, for a loop that comes after.
WalkOn(p) ==
  /\ AtTree(p, "walk")
  /\ LET c == Op(p).arg.via IN
     IF AtEndOf(me[p], c) THEN Becomes(p, me[p])
     ELSE Stays(p, [Visit(me[p], Standing(p), Tree(p).val[Standing(p)]) EXCEPT
                      !.held[c].at = @ + 1, !.stops = Append(@, Standing(p))])

\* The cursor does not move on, or the field it stands on cannot be read.
WalkFault(p) ==
  /\ AtTree(p, "walk") /\ ~AtEndOf(me[p], Op(p).arg.via)
  /\ budget.faults > 0 /\ budget' = [budget EXCEPT !.faults = @ - 1]
  /\ LET m == [me[p] EXCEPT !.hit = @ \cup {"walk"}] IN
     IF Throws(p) THEN Thrown(p, m)
     ELSE \/ Stays(p, Visit(m, Standing(p), Tree(p).val[Standing(p)]))
          \/ Arg(p) /\ Stays(p, [Visit(m, Standing(p), Nil) EXCEPT !.held[Op(p).arg.via].at = @ + 1])

\* The elements are taken up front; those of a container are values.
TakeSnapshot(p) ==
  /\ AtTree(p, "snapshot")
  /\ LET cell == ValueOf(me[p], Op(p).arg.via) IN
     Becomes(p, IF Kind(cell) = "ITEM"
                THEN [me[p] EXCEPT !.stops = Paths(Tree(p), Place(p).node), !.result = 1]
                ELSE [me[p] EXCEPT !.out = [i \in DOMAIN cell[2] |-> <<"", cell[2][i]>>],
                                   !.result = 1])

Even(cell) == (cell[2] \div 2) % 2 = 0
\* What the body of a loop makes of the field at path.
Bodied(s, path, body) ==
  CASE body = "read" -> s
    [] body = "double" -> [s EXCEPT !.val[path] = <<@[1], 2 * @[2]>>, !.dirty = TRUE]
    [] body = "dropEven" -> IF Even(s.val[path]) THEN Uprooted(s, path) ELSE s
    [] body = "mark" -> IF Kind(s.val[path]) # "ITEM" THEN s
                        ELSE [s EXCEPT !.attr = (path :> [seen |-> Text("yes")]) @@ @]

\* The same where a call of the body fails, and what was read is 0.
Spoilt(s, path, body) ==
  CASE body = "double" -> {s, [s EXCEPT !.val[path] = Int32(0)]}
    [] body = "dropEven" -> {IF Even(s.val[path]) THEN s ELSE Uprooted(s, path)}
    [] OTHER -> {s}

RoundOf(p) ==
  /\ AtStep(p, "forEach") /\ me[p].store["a"].open
  /\ LET m == me[p]
         s == m.store["a"]
         path == Head(m.stops)
     IN  IF m.stops = <<>> THEN Becomes(p, [m EXCEPT !.result = 1])
         ELSE Stays(p, [Visit(m, path, s.val[path]) EXCEPT
                          !.stops = Tail(@), !.store["a"] = Bodied(s, path, Op(p).arg)])

\* A call of the body fails, or the enumeration does: that looks like its end.
RoundFault(p) ==
  /\ AtStep(p, "forEach") /\ me[p].stops # <<>>
  /\ budget.faults > 0 /\ budget' = [budget EXCEPT !.faults = @ - 1]
  /\ LET path == Head(me[p].stops)
         body == Op(p).arg
         s == me[p].store["a"]
         m == [me[p] EXCEPT !.hit = @ \cup {body}, !.stops = Tail(@)]
     IN  \/ Throws(p) /\ Thrown(p, m)
         \/ ~Throws(p) /\ Stays(p, [me[p] EXCEPT !.hit = @ \cup {"enumeration"}, !.stops = <<>>])
         \/ ~Throws(p) /\ \E spoilt \in Spoilt(s, path, body) :
                Stays(p, [Visit(m, path, IF body = "read" THEN Nil ELSE s.val[path])
                            EXCEPT !.store["a"] = spoilt])
         \/ body = "mark" /\ Stays(p, [Visit(m, path, s.val[path]) EXCEPT !.failed = TRUE])
-------------------------------------------------------------------------------
(* A walk down a tree: at every stop the caller enters it or does not, and moves on. *)

\* A stop's path is that of the level it is on, as the stops before it have told it.
RouteOf(m, c) ==
  Append(IF m.out = <<>> THEN <<>> ELSE SubSeq(Last(m.out)[3], 1, Len(HandleIn(m, c).up)), Current(m, c))
Enterable(p) ==
  Kind(StopsAt(p)) = "ITEM" /\ HasChildren(Tree(p), Standing(p)) /\ Beneath(p) # Arg(p)
Descended(p, m, enter) ==
  [m EXCEPT !.held[Op(p).arg.via] =
     Advanced(Tree(p), IF enter THEN Entered(@, Beneath(p)) ELSE @)]
AtStop(p, m) == Visit(m, RouteOf(m, Op(p).arg.via), StopsAt(p))

DescendOn(p) ==
  /\ AtTree(p, "descend")
  /\ IF AtEndOf(me[p], Op(p).arg.via) THEN Becomes(p, [me[p] EXCEPT !.result = 1])
     ELSE Stays(p, Descended(p, AtStop(p, me[p]), Enterable(p)))

\* It looks like the end; a stop is not entered, or, its name misread, not left out; the
\* walker does not move on.
DescendFault(p) ==
  /\ AtTree(p, "descend") /\ ~AtEndOf(me[p], Op(p).arg.via)
  /\ budget.faults > 0 /\ budget' = [budget EXCEPT !.faults = @ - 1]
  /\ LET m == [me[p] EXCEPT !.hit = @ \cup {"descend"}]
         c == Op(p).arg.via
     IN  \/ Throws(p) /\ Thrown(p, m)
         \/ ~Throws(p) /\ Stays(p, [m EXCEPT !.held[c] = AtItsEnd(Tree(p), @)])
         \/ ~Throws(p) /\ Enterable(p) /\ Stays(p, Descended(p, AtStop(p, m), FALSE))
         \/ ~Throws(p) /\ Beneath(p) = Arg(p)
            /\ Stays(p, Descended(p, Visit(m, <<"">>, StopsAt(p)), TRUE))
         \/ ~Throws(p) /\ Stays(p, [AtStop(p, m) EXCEPT !.failed = TRUE,
               !.held[c] = IF Enterable(p) THEN Entered(@, Beneath(p)) ELSE @])
-------------------------------------------------------------------------------
(* The same without a walker: a client's own list of the paths it has yet to visit. *)

StartWork(p) ==
  AtStep(p, "work") /\ Becomes(p, [me[p] EXCEPT !.out = <<>>, !.stops = <<Op(p).arg>>])

\* The path at the end of the list is listed as a stop, and gives way to its children.
GivesWay(r, m, name, count, kids) ==
  LET path == Last(m.stops)
      paths == [i \in DOMAIN kids |-> Append(path, kids[i])]
  IN  [m EXCEPT !.out = Append(@, <<name, Nil, path, count>>),
                !.stops = Front(@) \o (IF r.reversed THEN Reverse(paths) ELSE paths)]
Missed(r, m) == IF r.early THEN GivesWay(r, m, "", 0, <<>>) ELSE [m EXCEPT !.stops = Front(@)]

\* What r lists of a field it neither prunes nor looks for.
Listed(r, n) == IF r.early THEN "" ELSE n
Counted(r, kids) == IF r.early THEN 0 ELSE Len(kids)

DrainRound(r, s, m) ==
  LET path == Last(m.stops)
      n == Last(path)
      kids == Names(s, path)
  IN  IF ~Exists(s, path) THEN Missed(r, m)
      ELSE IF n = r.prune THEN GivesWay(r, m, n, 0, <<>>)
      ELSE IF r.until /\ n = "temp" /\ s.val[path][2] >= 220
           THEN [GivesWay(r, m, n, 0, <<>>) EXCEPT !.stops = <<>>]
      ELSE GivesWay(r, m, Listed(r, n), Counted(r, kids), kids)

\* The children as a cursor that fails once gives them: the last are lost, one comes twice;
\* and with a name that could not be read.
Misread(kids) ==
  {SubSeq(kids, 1, i) : i \in 0..Len(kids)} \cup
  {SubSeq(kids, 1, i) \o SubSeq(kids, i, Len(kids)) : i \in DOMAIN kids}
Misnamed(kids) == {[kids EXCEPT ![i] = "?"] : i \in DOMAIN kids}

\* The rounds where a call fails: the field is not found, its children are misread, or
\* its own name or count is.
SpoiltRounds(r, s, m, readings) ==
  LET n == Last(Last(m.stops))
      kids == Names(s, Last(m.stops))
  IN  ({Missed(r, m)} \cup
       {GivesWay(r, m, Listed(r, n), Counted(r, kids), read) : read \in readings} \cup
       (IF r.early THEN {} ELSE {GivesWay(r, m, "", Len(kids), kids), GivesWay(r, m, n, 0, kids)}))
      \ {DrainRound(r, s, m)}

DrainOn(p) ==
  /\ AtOp(p, "drain")
  /\ IF me[p].stops = <<>> THEN Becomes(p, [me[p] EXCEPT !.result = 1])
     ELSE Stays(p, DrainRound(Op(p).arg, S(p), me[p]))

\* A name no longer read is still counted, and a search need not pass the place.
DrainFault(p) ==
  /\ AtOp(p, "drain") /\ me[p].stops # <<>>
  /\ budget.faults > 0 /\ budget' = [budget EXCEPT !.faults = @ - 1]
  /\ LET r == Op(p).arg
         m == me[p]
         kids == Names(S(p), Last(m.stops))
         hit(what) == [m EXCEPT !.hit = @ \cup {what}]
     IN  \/ Throws(p) /\ Thrown(p, hit("drain"))
         \/ ~Throws(p) /\ Exists(S(p), Last(m.stops))
            /\ \/ \E spoilt \in SpoiltRounds(r, S(p), hit(IF r.until THEN "look" ELSE "drain"), Misread(kids)) :
                    Stays(p, spoilt)
               \/ \E read \in Misnamed(kids) :
                    Stays(p, GivesWay(r, hit("look"), Listed(r, Last(Last(m.stops))), Counted(r, kids), read))
-------------------------------------------------------------------------------
(* Loops over the stops of an earlier one. *)

RememberStops(p) == AtStep(p, "remember") /\ Becomes(p, [me[p] EXCEPT !.plan = me[p].out])
StartAgain(p) ==
  /\ AtStep(p, "again")
  /\ Becomes(p, [me[p] EXCEPT !.out = <<>>, !.stops = [i \in DOMAIN me[p].plan |-> me[p].plan[i][3]]])

\* What the body makes of the field at path, the i-th stop of the plan.
Touched(s, path, i, body) ==
  CASE body = "warm" -> IF s.val[path][1] # "DOUBLE" THEN s
                        ELSE [s EXCEPT !.val[path] = Dbl(@[2] + 1000), !.dirty = TRUE]
    [] body = "number" -> IF Kind(s.val[path]) # "ITEM" THEN s
                          ELSE [s EXCEPT !.attr = (path :> [depth |-> Int32(i - 1)]) @@ @]
    [] OTHER -> s

Stop(m, s, path) ==
  [Visit(m, path, s.val[path]) EXCEPT !.out[Len(m.out) + 1][4] = Len(Names(s, path))]
Differs(s, path, stop) == stop[1] # Last(path) \/ stop[4] # Len(Names(s, path))
RevisitAt(m) == Len(m.plan) - Len(m.stops) + 1

RevisitOn(p) ==
  /\ AtOp(p, "revisit")
  /\ LET m == me[p]
         path == Head(m.stops)
         body == Op(p).arg
         i == RevisitAt(m)
     IN  IF m.stops = <<>> THEN Becomes(p, [m EXCEPT !.result = 1])
         ELSE Stays(p, [Stop(m, S(p), path) EXCEPT !.stops = Tail(@),
                          !.store[Op(p).of] = Touched(@, path, i, body),
                          !.failed = @ \/ (body = "compare" /\ Differs(S(p), path, m.plan[i]))])

\* A field is not found or not what it was, cannot be read, or is read as 0.
RevisitFault(p) ==
  /\ AtOp(p, "revisit") /\ me[p].stops # <<>>
  /\ budget.faults > 0 /\ budget' = [budget EXCEPT !.faults = @ - 1]
  /\ LET body == Op(p).arg
         path == Head(me[p].stops)
         m == [me[p] EXCEPT !.hit = @ \cup {body}, !.stops = Tail(@)]
         double == body = "warm" /\ S(p).val[path][1] = "DOUBLE"
     IN  \/ Throws(p) /\ Thrown(p, m)
         \/ ~Throws(p) /\ body = "compare" /\ Stays(p, [m EXCEPT !.failed = TRUE])
         \/ ~Throws(p) /\ body = "compare" /\ Stays(p, Visit(m, path, Nil))
         \/ ~Throws(p) /\ double /\ \E failed \in BOOLEAN : Stays(p, [m EXCEPT !.failed = @ \/ failed])
         \/ ~Throws(p) /\ double /\ Stays(p, [m EXCEPT !.store[Op(p).of].val[path] = Dbl(1000)])
-------------------------------------------------------------------------------
\* Through a variable that names nothing, or nothing any more: over MsgFacade, with no
\* wrapper around it, that is a fault.
OutOfSight(p) ==
  /\ Running(p) /\ me[p].pc <= Len(Steps(p)) /\ Op(p).do \in OnTree
  /\ ~Sees(me[p], Op(p).arg.via)
  /\ IF port[p] = "recLight" THEN Thrown(p, [me[p] EXCEPT !.died = TRUE]) ELSE Refused(p)

TreeCall(p) ==
  \/ GrowKids(p) \/ OpenAt(p) \/ LookUp(p) \/ RemoveKid(p) \/ WriteField(p) \/ TruncateAll(p)
  \/ SetAttribute(p) \/ EditCells(p) \/ CopyValue(p) \/ OpenCursorOn(p) \/ SeekStart(p)
  \/ NextElement(p) \/ GoTo(p) \/ FieldAtCursor(p) \/ DeleteCurrent(p)
  \/ BeginLoop(p) \/ WalkOn(p) \/ TakeSnapshot(p) \/ RoundOf(p) \/ OutOfSight(p)
  \/ EnterLevel(p) \/ RiseLevel(p) \/ BreakOff(p) \/ SearchOn(p) \/ DescendOn(p)
  \/ StartWork(p) \/ DrainOn(p) \/ RememberStops(p) \/ StartAgain(p) \/ RevisitOn(p)
  \/ SetStamp(p) \/ SetStampAgain(p) \/ Ask(p) \/ PutAside(p) \/ TakeBack(p)

TreeFault(p) ==
  \/ GrowFault(p) \/ WalkFault(p) \/ RoundFault(p) \/ SearchFault(p) \/ StampFault(p)
  \/ DescendFault(p) \/ DrainFault(p) \/ RevisitFault(p)

TreeNext == HandleNext \/ \E p \in Process : (TreeCall(p) /\ UNCHANGED budget) \/ TreeFault(p)
==============================================================================
