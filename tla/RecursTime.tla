------------------------------ MODULE RecursTime ------------------------------
(***************************************************************************)
(* The RecursTimeTest programs of the five trees: walks down a tree, with  *)
(* a walker and without, times, and a value that is put aside.             *)
(***************************************************************************)
EXTENDS TreeSteps
LOCAL INSTANCE SequencesExt

Top == <<"Company", "Notes", "Tags", "Weekly">>
PreOrder == <<"Company", "Product", "Version", "Build", "Founded", "Notes", "Memo", "Tags", "Weekly">>
When == 17000     \* fixed times, in seconds
Later == When + 3600
Now == 20260
-------------------------------------------------------------------------------
(* DirectExamples and FieldAccessExamples: a list or a vect is built aside, and
   comes into the tree whole.                                                   *)

BuildFields == <<
  One("company", "root", "Company", Text("Ivyware")),
  One("product", "company", "Product", Text("Chartboard")),
  One("-", "product", "Version", Text("3.1")), One("-", "product", "Build", Int32(4210)),
  One("-", "company", "Founded", Int32(1996)),
  One("notes", "root", "Notes", Text("misc")), One("-", "notes", "Memo", Text("hello")) >>

DirectTree == BuildFields \o <<
  One("-", "root", "Tags", List(<<Int32(10), Int32(20)>>)),
  One("-", "root", "Weekly", <<"VECT", <<Int32(100), Int32(200), Int32(300)>>>>) >>

\* What must be refused, with whatever exception of the library.
Barred(s) == Try(Then(s, <<Undone>>))

DirectWalk(read) ==
  DirectTree \o <<CursorOn("rec", "root")>> \o
  Loop(<<Then(Descend("rec", ""), <<Visits(9), Sequence(PreOrder)>>)>>) \o
  <<CursorOn("curs", "root")>> \o
  Loop(<<Then(Walk("curs", FALSE), <<Visits(4)>> \o read)>>)

DirectPushPopBreak ==
  DirectTree \o <<CursorOn("rec", "root")>> \o
  Loop(<<Then(Walk("rec", TRUE), <<Visits(4), Sequence(Top)>>)>>) \o
  <<Then(CursorOn("rec", "root"), <<NameIs("rec", "Company"), StopKind("rec", "ITEM")>>),
    Then(Push("rec"), <<Depth("rec", 1)>>), Then(NextOf("rec"), <<NameIs("rec", "Product")>>),
    Then(Push("rec"), <<Depth("rec", 2)>>), Then(NextOf("rec"), <<NameIs("rec", "Version")>>),
    Then(Pop("rec"), <<NameIs("rec", "Product")>>),
    CursorOn("rec", "root"),
    Then(Search("rec", "Tags"), <<NameIs("rec", "Tags"), StopKind("rec", "LIST")>>),
    Barred(Push("rec")),
    CursorOn("rec", "root"), Push("rec"), NextOf("rec"), Push("rec"),
    Then(NextOf("rec"), <<NotAtEnd("rec")>>), Then(Break("rec"), <<Over("rec")>>)>>

DirectExposure(named) ==
  DirectTree \o <<CursorOn("rec", "root")>> \o
  Loop(<<Then(Descend("rec", ""),
              <<Kinds(<<7, 1, 1>>), Met("Build", Int32(4210)), Met("Version", Text("3.1"))>> \o named)>>)

\* A time has its own tag, with a value or without; a copy is independent.
DirectTime == <<
  Scope,
  Then(One("oTime", "root", "oTime", Time(When)), <<ValueIs("oTime", Time(When))>>),
  Then(One("oPlain", "root", "oPlain", Int64(When)), <<ValueIs("oPlain", Int64(When))>>),
  Then(One("oNull", "root", "oNull", NullTime), <<ValueIs("oNull", NullTime)>>),
  One("oCopy", "root", "oCopy", NullTime),
  Then(CopyTo("oCopy", "oTime"), <<ValueIs("oCopy", Time(When))>>),
  Then(SetField("oCopy", Time(Later)),
       <<ValueIs("oCopy", Time(Later)), ValueIs("oTime", Time(When))>>),
  Then(One("oAssigned", "root", "oAssigned", NullTime), <<ValueIs("oAssigned", NullTime)>>),
  Then(CopyTo("oAssigned", "oTime"), <<ValueIs("oAssigned", Time(When))>>) >>

\* The store is gone before its image is loaded.
DirectFile == "RecursTimeTest.p2p"
DirectTimeInTree(record, saved, loaded) ==
  <<Section("timeintree"), New("a", Large), One("-", "root", "Created", Time(When)),
    One("-", "root", "Label", Text("a record"))>> \o record \o
  <<Then(FieldAt("oBack", "a", <<"Created">>), <<ValueIs("oBack", Time(When))>> \o saved)>> \o
  (IF record = <<>> THEN <<>>
   ELSE <<Barred(ReadStrict("root", "Created", "INT64")), Barred(ReadStrict("root", "Stamp", "TIME64"))>>) \o
  <<Save("a", DirectFile), Leave, Close("a"), Load("a", DirectFile),
    Then(FieldAt("oBack", "a", <<"Created">>), <<ValueIs("oBack", Time(When))>> \o loaded),
    Leave, Close("a"), RemoveFile(DirectFile)>>

DirectRecursProgram ==
  OwnStore("walk", DirectWalk(<<>>)) \o OwnStore("pushpop", DirectPushPopBreak) \o
  OwnStore("exposure", DirectExposure(<<>>)) \o Part("time", DirectTime) \o
  DirectTimeInTree(<<>>, <<>>, <<>>)

\* FieldAccessExamples: fields by name, read from above the stop they are at.
Built == ValueAt("root", <<"Company", "Product", "Build">>, Int32(4210))
FieldWalk == DirectWalk(<<Built, ValueAt("root", <<"Notes", "Memo">>, Text("hello"))>>)
FieldPushPopBreak == DirectPushPopBreak
FieldExposure ==
  DirectExposure(<<Built, ValueAt("root", <<"Company", "Product", "Version">>, Text("3.1")),
                   ValueAt("root", <<"Company", "Founded">>, Int32(1996))>>)
FieldTime == DirectTime
Stamp64 == KidIs("root", "Stamp", Int64(When))
FieldTimeInTree ==
  DirectTimeInTree(<<One("-", "root", "Stamp", Int64(When))>>,
    <<Stamp64, KidIs("root", "Created", Time(When))>>,
    <<KidIs("root", "Label", Text("a record")), Stamp64, KidIs("root", "Created", Time(When))>>)

FieldRecursProgram ==
  OwnStore("walk", FieldWalk) \o OwnStore("pushpop", FieldPushPopBreak) \o
  OwnStore("exposure", FieldExposure) \o Part("time", FieldTime) \o FieldTimeInTree
-------------------------------------------------------------------------------
(* FacadeExamples: a wrapper throws; the walker itself is asked for what its
   wrapper hides, and its answers are checked or not looked at.               *)

LightTree == BuildFields \o
  <<NewList("tags", "root", "Tags"), AddTail("tags", Int32(10)), AddTail("tags", Int32(20)),
    NewVect("weekly", "root", "Weekly", 3, Int32(0))>> \o
  SetItems("weekly", <<Int32(100), Int32(200), Int32(300)>>)

LightWalk ==
  LightTree \o <<CursorOn("w", "root")>> \o
  Loop(<<Then(Descend("w", ""), <<Visits(9), Sequence(PreOrder)>>)>>) \o
  <<CursorOn("c", "root")>> \o Loop(<<Then(Walk("c", FALSE), <<Visits(4)>>)>>)

\* Push enters, or says that there is nothing below, or that it is no item; after a
\* break the walk goes on with the next sibling.
LightPushPopBreak ==
  LightTree \o <<CursorOn("w", "root")>> \o
  Loop(<<Then(Walk("w", FALSE), <<Visits(4), Sequence(Top)>>)>>) \o
  <<Ok(Then(CursorOn("w", "root"), <<NameIs("w", "Company")>>)),
    Ok(Then(Push("w"), <<Depth("w", 1)>>)), Ok(Then(NextOf("w"), <<NameIs("w", "Product")>>)),
    Ok(Then(Push("w"), <<Depth("w", 2)>>)), Ok(Then(NextOf("w"), <<NameIs("w", "Version")>>)),
    Ok(Then(Pop("w"), <<Depth("w", 1), NameIs("w", "Product")>>)),
    Ok(Then(Pop("w"), <<Depth("w", 0)>>)), Fails(Pop("w")),
    Try(CursorOn("w", "root")), Ok(Push("w")), Try(Break("w")),
    Try(Then(Search("w", "Tags"), <<NameIs("w", "Tags"), StopKind("w", "LIST")>>)),
    Try(Then(Push("w"), <<Result(0), Depth("w", 0)>>)),
    Then(FieldAt("leaf", "a", <<"Company", "Founded">>), <<Counts("leaf", 0)>>),
    Try(CursorOn("w", "root")), Try(Push("w")), Try(NextOf("w")),
    Try(Then(NextOf("w"), <<NameIs("w", "Founded")>>)), Try(Then(Push("w"), <<Result(2)>>)),
    Try(CursorOn("w", "root")), Try(Push("w")), Try(NextOf("w")), Try(Push("w")),
    Try(Then(NextOf("w"), <<Depth("w", 2)>>)), Ok(Then(Break("w"), <<Depth("w", 0)>>)),
    Ok(Then(NextOf("w"), <<NameIs("w", "Notes")>>))>>

\* The paths outlive the walk: they are read through, and then written through.
LightExposure ==
  LightTree \o <<CursorOn("w", "root")>> \o
  Loop(<<Then(Descend("w", ""),
              <<Kinds(<<7, 1, 1>>), MaxDepth(2), Visits(9),
                StopIs(3, <<"Company", "Product", "Version">>), StopIs(5, <<"Company", "Founded">>),
                StopIs(7, <<"Notes", "Memo">>)>>)>>) \o
  <<Remember, Again,
    Then(Revisit("read"), <<Met("Build", Int32(4210)), Met("Version", Text("3.1"))>>),
    Again, Revisit("number"),
    Then(FieldAt("memo", "a", <<"Notes", "Memo">>), <<AttributeIs("memo", "depth", Int32(6))>>)>>

LightTime == <<
  Then(One("created", "root", "Created", Text("a record")), <<StampIs("created", 0)>>),
  Then(Stamp("created", 10 * When),
       <<StampIs("created", When), ValueIs("created", Text("a record"))>>),
  One("count", "root", "Count", Int32(7)),
  Then(Stamp("count", 10 * Later), <<StampIs("count", Later), ValueIs("count", Int32(7))>>),
  One("touched", "root", "Touched", Text("")),
  Then(Stamp("touched", 10 * Now), <<StampIs("touched", Now)>>),
  Then(Stamp("touched", 10 * When), <<StampIs("touched", When)>>) >>

LightFile == "mscs_light_time"
LightTimeInTree == <<
  Section("timeintree"), RemoveFile(LightFile), New("a", Large),
  One("created", "root", "Created", Text("a record")), Stamp("created", 10 * When),
  Then(One("-", "root", "Label", Text("unstamped")), <<StampIs("created", When)>>),
  Save("a", LightFile), Leave, Close("a"),
  Load("a", LightFile),
  Then(FieldAt("created", "a", <<"Created">>),
       <<StampIs("created", When), ValueIs("created", Text("a record"))>>),
  Then(FieldAt("label", "a", <<"Label">>), <<StampIs("label", 0)>>),
  Leave, Close("a"), RemoveFile(LightFile) >>

LightRecursProgram ==
  OwnStore("walk", LightWalk) \o OwnStore("pushpop", LightPushPopBreak) \o
  OwnStore("exposure", LightExposure) \o OwnStore("time", LightTime) \o LightTimeInTree
-------------------------------------------------------------------------------
(* ComExamples and dotNetExamples: one store for all sections, and walks with a
   work list of the client's own before the real walker.                        *)

Floors == <<"ground", "first", "second">>
Rooms == <<"room0", "room1">>
RoomOf(f, r) == <<
  One("room", "floor", Rooms[r], Int32((f - 1) * 10 + r - 1)),
  One("-", "room", "temp", Dbl(10 * (20 + (f - 1) + (r - 1)))), One("-", "room", "name", Text("a room")) >>
ComTree == <<One("site", "root", "site", Text("melbourne"))>> \o
  FlattenSeq([f \in 1..3 |-> <<One("floor", "site", Floors[f], Int32(f - 1))>> \o RoomOf(f, 1) \o RoomOf(f, 2)])

\* A rule: whether a stop is listed before it is looked at and nothing more of it is kept,
\* whether it ends at the first temp that is warm enough, and which field is not entered.
Listing == [early |-> FALSE, reversed |-> TRUE, until |-> FALSE, prune |-> ""]
Pruning == [early |-> TRUE, reversed |-> FALSE, until |-> FALSE, prune |-> "first"]
Finding == [early |-> TRUE, reversed |-> TRUE, until |-> TRUE, prune |-> ""]
Counting == [early |-> TRUE, reversed |-> FALSE, until |-> FALSE, prune |-> ""]
Room0 == <<"site", "ground", "room0">>
LastTemp == <<"site", "second", "room1", "temp">>

ComFlatWalk == <<
  Work(<<"site">>),
  Then(Drain("a", Listing),
       <<Visits(22), StopIs(1, <<"site">>), KidsAt(1, 3), MaxDepth(3), NoKids(12),
         StopIs(2, <<"site", "ground">>), StopIs(3, Room0), StopIs(4, Append(Room0, "temp"))>>),
  Remember >>

ComDrivenDescent == <<
  Work(<<"site">>), Then(Drain("a", Pruning), <<Times("first", 1), Visits(16)>>),
  Work(<<"site">>),
  Then(Drain("a", Finding), <<Found("temp", <<"site", "first", "room1", "temp">>), Fewer(22)>>),
  FieldAt("site", "a", <<"site">>), CursorOn("c", "site")>> \o
  Loop(<<Seek("c"), Then(Walk("c", FALSE), <<Sequence(Floors)>>)>>)

ComReadAtEachStop == <<
  Again,
  Then(Revisit("compare"), <<Visits(22), Types("DOUBLE", 6), Types("WSTR16", 7), Types("INT32", 9)>>),
  Again, Revisit("warm"),
  Then(FieldAt("t", "a", Append(Room0, "temp")), <<ValueIs("t", Dbl(1200))>>),
  Then(FieldAt("t", "a", LastTemp), <<ValueIs("t", Dbl(1230))>>) >>

ComTimestamp(fraction) ==
  <<Then(FieldAt("room", "a", Room0), <<Bound("room"), StampIs("room", 0), Stamped("room", FALSE)>>),
    Then(Stamp("room", 10 * Now), <<StampIs("room", Now), Stamped("room", TRUE)>>),
    Then(Attributes("room"), <<Stamped("room", TRUE)>>),
    Then(Stamp("room", 10 * When), <<StampIs("room", When)>>)>> \o fraction \o
  [i \in 1..5 |-> Then(Restamp("room"), <<StampKept("room")>>)] \o
  <<Then(Stamp("room", 0), <<StampIs("room", 0)>>), Stamp("room", 10 * When)>>

\* main's own store still holds the file when it is to be removed.
Stamping == <<
  Then(FieldAt("room", "a", Room0), <<StampIs("room", When)>>),
  FieldAt("floor", "a", <<"site", "first">>), Stamp("floor", 10 * Now),
  FieldAt("temp", "a", LastTemp), Stamp("temp", 10 * Now)>>
StampsLoaded == <<
  Then(FieldAt("x", "b", Room0), <<StampIs("x", When)>>),
  Then(FieldAt("x", "b", <<"site", "first">>), <<StampIs("x", Now)>>),
  Then(FieldAt("x", "b", LastTemp), <<StampIs("x", Now)>>),
  Then(Glance("x", "b", <<"site", "ground", "room1">>), <<StampIs("x", 0), Stamped("x", FALSE)>>),
  Work(<<"site">>), Then(Drain("b", Counting), <<Visits(22)>>)>>

ComFile == "RecursTimeTestCom.p2p"
ComTimestampPersists ==
  Stamping \o <<RemoveFile(ComFile), Ok(Save("a", ComFile)), Ok(New("b", Large)), Ok(Load("b", ComFile))>> \o
  StampsLoaded \o <<RemoveFile(ComFile), Close("b")>>

ComRealWalker ==
  <<One("w", "root", "walk", Int32(0)), One("keep", "w", "keep", Int32(1)),
    One("-", "keep", "k1", Int32(11)), One("-", "keep", "k2", Int32(12)),
    One("skip", "w", "skip", Int32(2)), One("-", "skip", "s1", Int32(21)),
    One("-", "skip", "s2", Int32(22)), One("-", "w", "leaf", Int32(3)),
    FieldAt("at", "a", <<"walk">>), Then(CursorOn("r", "at"), <<Bound("r")>>)>> \o
  Loop(<<Then(Descend("r", ""), <<Visits(7)>>)>>) \o
  <<FieldAt("at", "a", <<"walk">>), CursorOn("r", "at")>> \o
  Loop(<<Then(Descend("r", "skip"), <<Times("skip", 1), Times("s1", 0), Visits(5)>>)>>) \o
  <<FieldAt("at", "a", <<"walk">>), Then(CursorOn("r", "at"), <<NotAtEnd("r")>>),
    Then(FieldOf("cur", "r"), <<Bound("cur"), Depth("r", 0), StandsOn("r", <<"walk", "keep">>)>>),
    One("c", "root", "wc", Int32(0)), NewList("cl", "c", "clist"), AddTail("cl", Int32(7)),
    FieldAt("at", "a", <<"wc">>),
    Then(CursorOn("r", "at"), <<NotAtEnd("r"), StopKind("r", "LIST")>>),
    Then(ElementOf("got", "r", "LIST"), <<Counts("got", 1), ItemIs("got", 0, Int32(7))>>),
    Fails(ElementOf("wrong", "r", "VECT")),
    FieldAt("at", "a", <<"walk">>), Then(CursorOn("r", "at"), <<NotAtEnd("r")>>),
    One("-", "root", "disturb", Int32(1)), One("bulk", "root", "disturbBulk", Int32(0)),
    Then(Grow("-", "bulk", [i \in 1..2 |-> <<<<"d00", "d49">>[i], Text("padding")>>]),
         <<NameIs("r", "keep")>>),
    Ok(Push("r")),
    Then(DeleteKid("root", "disturb"), <<Result(1)>>),
    Then(DeleteKid("root", "disturbBulk"), <<Result(1)>>)>>

\* What is put aside is the field's own value; whoever refers to the field sees it.
ComStack == <<
  One("s", "root", "stk", Text("original")), One("-", "s", "a", Int32(1)),
  Then(FieldAt("node", "a", <<"stk">>), <<Bound("node"), Stacked("node", FALSE)>>),
  Then(PushValue("node"), <<Stacked("node", TRUE)>>),
  Then(SetField("node", Text("speculative")), <<ValueIs("node", Text("speculative"))>>),
  Then(PopValue("node"),
       <<Result(1), ValueIs("node", Text("original")), Stacked("node", FALSE), Counts("node", 1),
         KidIs("node", "a", Int32(1))>>),
  Then(PopValue("node"), <<Undone>>),
  Kid("again", "root", "stk", "ANY"),
  Then(PushValue("node"), <<Stacked("again", TRUE)>>),
  Then(DropValue("again"),
       <<Result(1), Stacked("node", FALSE), ValueIs("node", Text("original"))>>) >>

ComRecursProgram ==
  <<Create("a")>> \o OverCom("tree", ComTree, FALSE) \o OverCom("flat", ComFlatWalk, FALSE) \o
  OverCom("driven", ComDrivenDescent, FALSE) \o OverCom("stops", ComReadAtEachStop, FALSE) \o
  OverCom("timestamp", ComTimestamp(<<>>), FALSE) \o OverCom("persists", ComTimestampPersists, FALSE) \o
  OverCom("walker", ComRealWalker, FALSE) \o OverCom("stack", ComStack, FALSE)

\* In C# a time with a fraction of a second is given too, and the second store is
\* disposed of before the file is removed.
NetTree == OverCom("tree", ComTree, TRUE)
NetFlatWalk == OverCom("flat", ComFlatWalk, TRUE)
NetDrivenDescent == OverCom("driven", ComDrivenDescent, TRUE)
NetReadAtEachStop == OverCom("stops", ComReadAtEachStop, TRUE)
NetTimestamp ==
  OverCom("timestamp", ComTimestamp(<<Stamp("room", 10 * When + 4), Stamp("room", 10 * When)>>), TRUE)
NetFile == "RecursTimeTestNet.p2p"
NetTimestampPersists == OverCom("persists",
  Stamping \o <<RemoveFile(NetFile), Save("a", NetFile), Ok(New("b", Large)), Load("b", NetFile)>> \o
  StampsLoaded \o <<Close("b"), RemoveFile(NetFile)>>, TRUE)
NetRealWalker == OverCom("walker", ComRealWalker, TRUE)
NetStack == OverCom("stack", ComStack, TRUE)

NetRecursProgram ==
  <<Create("a")>> \o NetTree \o NetFlatWalk \o NetDrivenDescent \o NetReadAtEachStop \o
  NetTimestamp \o NetTimestampPersists \o NetRealWalker \o NetStack \o <<Close("a")>>
===============================================================================
