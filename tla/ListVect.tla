------------------------------- MODULE ListVect -------------------------------
(***************************************************************************)
(* The ListVectTest programs of the five trees: lists, vects, what nests,  *)
(* and cursors.  Where a program declares many fields only to make the     *)
(* heap move, a few of them stand for all.                                 *)
(***************************************************************************)
EXTENDS TreeSteps
-------------------------------------------------------------------------------
(* DirectExamples and FieldAccessExamples: objects of the section's own, each
   with a heap of its own; a copy shares nothing with what it is taken from.   *)

DirectList == <<
  Scope, Then(NewList("oList", "root", "oList"), <<Counts("oList", 0)>>),
  AddTail("oList", Int32(10)), AddTail("oList", Int32(20)),
  Then(AddTail("oList", Int32(30)), <<Counts("oList", 3)>>),
  Then(AddTail("oList", Int32(40)),
       <<Counts("oList", 4), Sums("oList", 100), ItemIs("oList", -1, Int32(40))>>),
  Then(DropTail("oList"), <<Counts("oList", 3), ItemIs("oList", -1, Int32(30))>>),
  Then(DropHead("oList"), <<Counts("oList", 2), ItemIs("oList", 0, Int32(20))>>),
  Then(AddHead("oList", Int32(5)),
       <<Counts("oList", 3), ItemIs("oList", 0, Int32(5)), ItemIs("oList", -1, Int32(30)),
         Sums("oList", 55)>>),
  Then(DropHead("oList"), <<Counts("oList", 2)>>),
  NewList("oMixed", "root", "oMixed"), AddTail("oMixed", Int32(7)), AddTail("oMixed", Dbl(25)),
  Then(AddTail("oMixed", Text("seven and a half")),
       <<Counts("oMixed", 3), ItemIs("oMixed", 0, Int32(7)), ItemIs("oMixed", 1, Dbl(25)),
         ItemIs("oMixed", 2, Text("seven and a half"))>>),
  Then(Truncate("oMixed"), <<Counts("oMixed", 0)>>) >>

\* An index out of range is told by ItemIs(.., Nil), as Goto tells it.
DirectVect ==
  <<Scope, Then(NewVect("oVect", "root", "oVect", 3, Int32(0)), <<Counts("oVect", 3)>>)>> \o
  SetItems("oVect", <<Int32(100), Int32(200)>>) \o
  <<Then(SetItem("oVect", 2, Int32(300)),
         <<ItemIs("oVect", 0, Int32(100)), ItemIs("oVect", 2, Int32(300)), ItemIs("oVect", 3, Nil)>>),
    Then(NewVect("oGrow", "root", "oGrow", 0, Int32(0)), <<Counts("oGrow", 0)>>),
    Insert("oGrow", 0, Int32(10)), Insert("oGrow", 1, Int32(30)),
    Then(Insert("oGrow", 1, Int32(20)),
         <<Counts("oGrow", 3), ItemIs("oGrow", 0, Int32(10)), ItemIs("oGrow", 1, Int32(20)),
           ItemIs("oGrow", 2, Int32(30))>>),
    Then(RemoveItem("oGrow", 1), <<Result(1), Counts("oGrow", 2), ItemIs("oGrow", 1, Int32(30))>>),
    Fails(RemoveItem("oGrow", 9)),
    NewVect("oCopy", "root", "oCopy", 0, Int32(0)),
    Then(CopyTo("oCopy", "oVect"), <<Counts("oCopy", 3), ItemIs("oCopy", 0, Int32(100))>>),
    Then(SetItem("oCopy", 0, Int32(999)), <<ItemIs("oVect", 0, Int32(100))>>),
    Then(Truncate("oCopy"), <<Counts("oCopy", 0)>>)>>

\* The first 32 elements lie inline, the others in continuation blocks.
DirectVectSpill ==
  <<Scope, NewVect("oVect", "root", "oVect", 0, Int32(0))>> \o
  [i \in 1..69 |-> Insert("oVect", i - 1, Int32((i - 1) * 10))] \o
  <<Then(Insert("oVect", 69, Int32(690)),
         <<Counts("oVect", 70), ItemIs("oVect", 0, Int32(0)), ItemIs("oVect", 31, Int32(310)),
           ItemIs("oVect", 32, Int32(320)), ItemIs("oVect", 63, Int32(630)),
           ItemIs("oVect", 69, Int32(690))>>),
    Then(Insert("oVect", 32, Int32(9999)),
         <<Counts("oVect", 71), ItemIs("oVect", 32, Int32(9999)), ItemIs("oVect", 33, Int32(320)),
           ItemIs("oVect", 70, Int32(690))>>)>>

DirectNesting(labelled) ==
  <<Scope, NewVect("oInner", "root", "oInner", 2, Int32(0))>> \o
  SetItems("oInner", <<Int32(7), Int32(8)>>) \o
  <<NewVect("oOuter", "root", "oOuter", 0, Int32(0)), Insert("oOuter", 0, Int32(1)),
    Then(CopyInto("oOuter", "oInner", 1),
         <<Counts("oOuter", 2), TypeAt("oOuter", 0, "INT32"), TypeAt("oOuter", 1, "VECT"),
           InnerIs("oOuter", <<1, 1>>, Int32(8)), InnerIs("oOuter", <<1, 2>>, Nil)>>),
    Then(SetItem("oInner", 1, Int32(99)), <<InnerIs("oOuter", <<1, 1>>, Int32(8))>>),
    NewList("oList", "root", "oList"), AddTail("oList", Int32(11)), AddTail("oList", Int32(22)),
    NewVect("oPayload", "root", "oPayload", 3, Int32(0))>> \o
  SetItems("oPayload", <<Int32(5), Int32(6), Int32(7)>>) \o
  <<One("oHolder", "root", "oHolder", Nil),
    CopyUnder("oHolder", "oPayload", "Payload"), CopyUnder("oHolder", "oList", "Samples"),
    Then(One("-", "oHolder", "Label", Text("mixed bag")),
         <<Finds("oHolder", "Payload"), Finds("oHolder", "Samples"), Counts("oHolder", 3)>> \o labelled),
    Then(Kid("oBack", "oHolder", "Payload", "VECT"),
         <<Counts("oBack", 3), ItemIs("oBack", 0, Int32(5)), ItemIs("oBack", 2, Int32(7))>>),
    Then(Kid("oListBack", "oHolder", "Samples", "LIST"), <<Counts("oListBack", 2)>>)>>

Window == <<"VECT", <<Dbl(0), Dbl(15), Dbl(30), Dbl(45)>>>>
DirectCursor(declared, after) ==
  <<Scope, One("oRoot", "root", "Telemetry", Nil), One("-", "oRoot", "Device", Text("sensor-04")),
    Then(One("-", "oRoot", "Uptime", Int32(86400)), declared),
    NewList("oHistory", "root", "oHistory"), AddTail("oHistory", Int32(1)),
    AddTail("oHistory", Int32(2)), AddTail("oHistory", Int32(3)),
    CopyUnder("oRoot", "oHistory", "History"),
    NewVect("oWindow", "root", "oWindow", 4, Dbl(0))>> \o
  SetItems("oWindow", Window[2]) \o
  <<Then(CopyUnder("oRoot", "oWindow", "Window"), <<Counts("oRoot", 4)>>),
    CursorOn("oCurs", "oRoot"), Begin,
    Then(Walk("oCurs", TRUE), <<Kinds(<<2, 1, 1>>), Visits(4)>> \o after)>>

DirectListVectProgram ==
  Part("list", DirectList) \o Part("vect", DirectVect) \o Part("spill", DirectVectSpill) \o
  Part("nesting", DirectNesting(<<>>)) \o Part("cursor", DirectCursor(<<>>, <<>>))

\* FieldAccessExamples: the same calls on objects of its own; a view holds names, and
\* finds its fields again after the walk.
FieldList == Part("list", DirectList)
FieldVect == Part("vect", DirectVect)
FieldVectSpill == Part("spill", DirectVectSpill)
FieldNesting == Part("nesting", DirectNesting(<<KidIs("oHolder", "Label", Text("mixed bag"))>>))
FieldCursor ==
  Part("cursor", DirectCursor(<<KidIs("oRoot", "Uptime", Int32(86400))>>,
    <<KidIs("oRoot", "Device", Text("sensor-04")), KidIs("oRoot", "Uptime", Int32(86400)),
      Finds("oRoot", "History"), Finds("oRoot", "Window")>>))

FieldListVectProgram ==
  FieldList \o FieldVect \o FieldVectSpill \o FieldNesting \o FieldCursor
-------------------------------------------------------------------------------
(* FacadeExamples: handles are routes into the store of their section, a wrapper
   throws, and what must be refused is asked of the interface below it.         *)

Pads == Grow("-", "root", [i \in 1..3 |-> <<<<"pad000", "pad001", "pad199">>[i], Text("padding")>>])

LightList == <<
  Then(NewList("l", "root", "Numbers"), <<Counts("l", 0)>>),
  AddTail("l", Int32(10)), AddTail("l", Int32(20)), AddTail("l", Int32(30)),
  Then(AddTail("l", Int32(40)),
       <<Counts("l", 4), Sums("l", 100), ItemIs("l", 0, Int32(10)), ItemIs("l", -1, Int32(40))>>),
  Then(DropTail("l"), <<Counts("l", 3), ItemIs("l", 2, Int32(30))>>),
  Then(DropHead("l"), <<Counts("l", 2), ItemIs("l", 0, Int32(20))>>),
  Then(AddHead("l", Int32(5)),
       <<Counts("l", 3), ItemIs("l", 0, Int32(5)), ItemIs("l", 2, Int32(30)), Sums("l", 55)>>),
  NewList("mixed", "root", "Mixed"), AddTail("mixed", Int32(7)), AddTail("mixed", Dbl(25)),
  Then(AddTail("mixed", Text("seven and a half")),
       <<Counts("mixed", 3), ItemIs("mixed", 0, Int32(7)), ItemIs("mixed", 1, Dbl(25)),
         ItemIs("mixed", 2, Text("seven and a half")), ItemIs("mixed", 99, Nil)>>),
  Then(SetItem("mixed", 0, Int32(8)), <<ItemIs("mixed", 0, Int32(8))>>),
  Fails(SetItem("mixed", 0, Dbl(10))),
  Then(SetItem("mixed", 2, Text("shorter")), <<ItemIs("mixed", 2, Text("shorter"))>>),
  Try(Then(SetItem("mixed", 2, Text("a value far longer than the cell it must fit")),
           <<Result(0), ItemIs("mixed", 2, Text("shorter"))>>)),
  Then(RemoveItem("mixed", 1), <<Counts("mixed", 2)>>), Fails(RemoveItem("mixed", 99)),
  Then(Truncate("mixed"), <<Counts("mixed", 0)>>), Fails(DropHead("mixed")),
  Pads, Then(AddTail("l", Int32(99)), <<Counts("l", 4), ItemIs("l", 3, Int32(99))>>) >>

LightVect ==
  <<Then(NewVect("v", "root", "Reading", 3, Int32(0)), <<Counts("v", 3)>>)>> \o
  SetItems("v", <<Int32(100), Int32(200)>>) \o
  <<Then(SetItem("v", 2, Int32(300)),
         <<ItemIs("v", 0, Int32(100)), ItemIs("v", 2, Int32(300)), ItemIs("v", 3, Nil)>>),
    Fails(SetItem("v", 3, Int32(1))),
    NewVect("vr", "root", "Ratios", 2, Dbl(0)),
    Then(SetItem("vr", 1, Dbl(25)), <<ItemIs("vr", 1, Dbl(25))>>),
    Then(RemoveItem("v", 1), <<Counts("v", 2), ItemIs("v", 0, Int32(100)), ItemIs("v", 1, Int32(300))>>),
    Fails(RemoveItem("v", 9)),
    NewVect("vCopy", "root", "Copy", 2, Int32(0)),
    Then(CopyTo("vCopy", "v"), <<Counts("vCopy", 2), ItemIs("vCopy", 0, Int32(100))>>),
    Then(SetItem("vCopy", 0, Int32(999)), <<ItemIs("v", 0, Int32(100))>>),
    Then(Truncate("vCopy"), <<Counts("vCopy", 0)>>),
    Then(Pads, <<ItemIs("v", 1, Int32(300))>>)>>

LightVectSpill ==
  <<Then(NewVect("v", "root", "Elem", 70, Int32(0)), <<Counts("v", 70)>>)>> \o
  SetItems("v", [i \in 1..69 |-> Int32((i - 1) * 10)]) \o
  <<Then(SetItem("v", 69, Int32(690)),
         <<ItemIs("v", 0, Int32(0)), ItemIs("v", 31, Int32(310)), ItemIs("v", 32, Int32(320)),
           ItemIs("v", 63, Int32(630)), ItemIs("v", 69, Int32(690))>>),
    Then(RemoveItem("v", 32),
         <<Counts("v", 69), ItemIs("v", 31, Int32(310)), ItemIs("v", 32, Int32(330)),
           ItemIs("v", 68, Int32(690))>>),
    Then(RemoveItem("v", 0),
         <<Counts("v", 68), ItemIs("v", 0, Int32(10)), ItemIs("v", 31, Int32(330)),
           ItemIs("v", 67, Int32(690))>>)>>

\* What is not there, and what is there but of another kind, are both refused.
LightContainment ==
  <<One("holder", "root", "Holder", Text("")), NewList("samples", "holder", "Samples"),
    AddTail("samples", Int32(11)), AddTail("samples", Int32(22)),
    NewVect("payload", "holder", "Payload", 3, Int32(0))>> \o
  SetItems("payload", <<Int32(5), Int32(6), Int32(7)>>) \o
  <<Then(One("-", "holder", "Label", Text("mixed bag")),
         <<Finds("holder", "Samples"), Finds("holder", "Payload"), Counts("holder", 3)>>),
    FieldAt("again", "a", <<"Holder">>), Kid("backL", "again", "Samples", "LIST"),
    Then(Kid("backV", "again", "Payload", "VECT"),
         <<Counts("backL", 2), Counts("backV", 3), ItemIs("backV", 0, Int32(5)),
           ItemIs("backV", 2, Int32(7))>>),
    Fails(Kid("pL", "again", "Ghost", "LIST")), Fails(Kid("pL", "again", "Label", "LIST")),
    Fails(Kid("pV", "again", "Samples", "VECT")),
    Then(Kid("asNode", "again", "Samples", "ANY"),
         <<KindIs("asNode", "LIST"), KidKind("again", "Payload", "VECT"),
           KidKind("again", "Label", "ITEM")>>)>>

\* The walk collects paths; what they lead to is changed after it.
LightCursor ==
  <<One("tele", "root", "Telemetry", Text("")), One("-", "tele", "Device", Text("sensor-04")),
    One("-", "tele", "Uptime", Int32(86400)), NewList("hist", "tele", "History"),
    AddTail("hist", Int32(1)), AddTail("hist", Int32(2)), AddTail("hist", Int32(3)),
    NewVect("win", "tele", "Window", 4, Dbl(0))>> \o
  SetItems("win", SubSeq(Window[2], 1, 3)) \o
  <<Then(SetItem("win", 3, Dbl(45)), <<Counts("tele", 4)>>),
    CursorOn("walk", "tele"), Begin,
    Then(Walk("walk", FALSE), <<Visits(4), Kinds(<<2, 1, 1>>), First("Device")>>),
    ForEach("mark"),
    Then(FieldAt("n", "a", <<"Telemetry", "Device">>), <<AttributeIs("n", "seen", Text("yes"))>>),
    Then(FieldAt("n", "a", <<"Telemetry", "Uptime">>), <<AttributeIs("n", "seen", Text("yes"))>>),
    Then(FieldAt("n", "a", <<"Telemetry", "History">>), <<AttributeCount("n", -1)>>),
    CursorOn("c", "tele"),
    Then(GotoName("c", "UPTIME"), <<Result(1), NameIs("c", "Uptime"), Stands("c", 1)>>),
    Then(GotoName("c", "nosuch"), <<Result(0), Stands("c", 1)>>),
    Then(GotoName("c", "Device"), <<Result(1)>>),
    Then(DeleteAtCursor("c"), <<FindsNot("tele", "Device"), Counts("c", 3), NotAtEnd("c")>>)>>

LightListVectProgram ==
  OwnStore("list", LightList) \o OwnStore("vect", LightVect) \o OwnStore("spill", LightVectSpill) \o
  OwnStore("containment", LightContainment) \o OwnStore("cursor", LightCursor)
-------------------------------------------------------------------------------
(* ComExamples and dotNetExamples: one store for all sections.  The COM program
   checks what every call answers; in C# a call throws.                         *)

ComList(rounded) ==
  <<One("bag", "root", "bag", Int32(0)),
    Then(One("-", "bag", "anInt", Int32(10)), <<KidKind("bag", "anInt", "ITEM"), KindIs("root", "ITEM")>>),
    Then(NewList("l", "bag", "samples"), <<Bound("l"), Counts("l", 0)>>),
    AddTail("l", Int32(11)), AddTail("l", Int32(22)), AddTail("l", Text("tail")),
    Then(AddHead("l", Dbl(5)),
         <<Counts("l", 4), ItemIs("l", 0, Dbl(5)), ItemIs("l", 1, Int32(11)),
           ItemIs("l", 2, Int32(22)), ItemIs("l", 3, Text("tail")), TypeAt("l", 99, "NULL")>>),
    Then(SetItem("l", 1, Int32(99)), <<ItemIs("l", 1, Int32(99))>>),
    Then(SetItem("l", 1, Dbl(79)), <<TypeAt("l", 1, "INT32")>> \o rounded),
    Removes(RemoveItem("l", 1), <<Counts("l", 3)>>), Fails(RemoveItem("l", 99)),
    Then(Kid("back", "bag", "samples", "LIST"),
         <<Counts("back", 3), ItemIs("back", 0, Dbl(5)), ItemIs("back", 1, Int32(22))>>),
    Then(Kid("asNode", "bag", "samples", "ANY"), <<KindIs("asNode", "LIST")>>),
    Fails(Kid("wrongKind", "bag", "samples", "VECT")), Fails(Kid("absent", "bag", "nosuch", "LIST")),
    Fails(Kid("l2", "bag", "anInt", "LIST"))>> \o
  Loop(<<Then(Snapshot("back"), <<Visits(3)>>)>>) \o
  <<Then(Truncate("back"), <<Counts("back", 0)>>)>>

ComVect(summed) ==
  <<Kid("bag", "root", "bag", "ANY"),
    Then(NewVect("v", "bag", "payload", 3, Int32(0)), <<Bound("v"), Counts("v", 3)>>)>> \o
  SetItems("v", <<Int32(5), Int32(6)>>) \o
  <<Then(SetItem("v", 2, Int32(7)),
         <<ItemIs("v", 0, Int32(5)), ItemIs("v", 2, Int32(7)), TypeAt("v", 99, "NULL")>>),
    Fails(SetItem("v", 99, Int32(1))), NewVect("vd", "bag", "reals", 2, Dbl(0)),
    Then(SetItem("vd", 0, Dbl(15)), <<ItemIs("vd", 0, Dbl(15))>>),
    Then(NewVect("vg", "bag", "grow", 0, Int32(0)), <<Counts("vg", 0)>>),
    Then(Kid("back", "bag", "payload", "VECT"), <<Counts("back", 3), ItemIs("back", 1, Int32(6))>>),
    Fails(Kid("wrongKind", "bag", "payload", "LIST"))>> \o
  Loop(<<Then(Snapshot("back"), <<Visits(3)>> \o summed)>>) \o
  <<Then(NewVect("big", "bag", "wide", 70, Int32(0)), <<Counts("big", 70)>>),
    SetItem("big", 0, Int32(1000)), SetItem("big", 31, Int32(1031)), SetItem("big", 32, Int32(1032)),
    Then(SetItem("big", 69, Int32(1069)),
         <<ItemIs("big", 0, Int32(1000)), ItemIs("big", 31, Int32(1031)),
           ItemIs("big", 32, Int32(1032)), ItemIs("big", 69, Int32(1069))>>)>>

Levels == <<"L0", "L1", "L2", "L3", "L4", "L5", "L6", "L7", "L8", "L9">>
ComNesting ==
  <<One("cur", "root", "deep", Int32(0))>> \o
  [i \in 1..9 |-> One("cur", "cur", Levels[i], Int32((i - 1) * 100))] \o
  <<Then(One("cur", "cur", Levels[10], Int32(900)), <<ValueIs("cur", Int32(900))>>),
    Then(FieldAt("at", "a", <<"deep">> \o Levels), <<ValueIs("at", Int32(900))>>),
    Then(FieldAt("at", "a", <<"deep", "L0", "L1", "L2">>), <<ValueIs("at", Int32(200))>>),
    Then(FieldAt("l0", "a", <<"deep", "L0">>), <<ValueIs("l0", Int32(0)), Counts("l0", 1)>>),
    Then(One("-", "l0", "sibling", Text("beside L1")),
         <<Counts("l0", 2), KidIs("l0", "sibling", Text("beside L1"))>>),
    Then(Attribute("l0", "depth", Int32(0)), <<AttributeCount("l0", 1), Counts("l0", 2)>>)>>

\* A cursor is a position: what is added behind it, or cannot be found, leaves it there.
BenchNames == <<"alpha", "bravo", "charlie", "delta", "echo">>
ComCursor(behind) ==
  <<One("bench", "root", "bench", Int32(0)),
    Then(Grow("-", "bench", [i \in 1..5 |-> <<BenchNames[i], Int32(i * 10)>>]), <<Counts("bench", 5)>>),
    Then(CursorOn("c", "bench"), <<Counts("c", 5)>>)>> \o
  Loop(<<Seek("c"), Then(Walk("c", TRUE), <<Visits(5), Total(150), Sequence(BenchNames)>>)>>) \o
  <<Then(GotoIndex("c", 2), <<Result(1), Stands("c", 2), NameIs("c", "charlie"),
                              KidKind("bench", "charlie", "ITEM")>>),
    Then(GotoName("c", "echo"), <<Result(1), Stands("c", 4), KidIs("bench", "echo", Int32(50))>>),
    Then(GotoName("c", "nobody"), <<Result(0), Stands("c", 4)>>),
    Then(GotoIndex("c", 99), <<Result(0), Stands("c", 4)>>),
    Then(NextOf("c"), behind \o <<Stands("c", -1)>>),
    Then(Seek("c"), <<Result(1), NotAtEnd("c"), Stands("c", 0)>>),
    Then(GotoName("c", "bravo"), <<Result(1)>>),
    FieldOf("bravo", "c"),
    Then(SetField("bravo", Int32(999)), <<KidIs("bench", "bravo", Int32(999))>>),
    Then(GotoIndex("c", 1), <<Result(1)>>),
    Then(Grow("-", "bench", [i \in 1..3 |-> <<<<"filler00", "filler01", "filler39">>[i], Int32(i)>>]),
         <<Counts("c", 8), Stands("c", 1), NameIs("c", "bravo")>>)>>

\* A snapshot is not disturbed by what the body deletes; a cursor stays where it is.
Messages == [i \in 1..8 |-> <<<<"msg0", "msg1", "msg2", "msg3", "msg4", "msg5", "msg6", "msg7">>[i],
                              Int32(i - 1)>>]
ComForEach ==
  <<One("bin", "root", "inbox", Int32(0)), Then(Grow("-", "bin", Messages), <<Counts("bin", 8)>>)>> \o
  Loop(<<Snapshot("bin"), Then(ForEach("read"), <<Visits(8), Total(28)>>)>>) \o
  Loop(<<Snapshot("bin"), Then(ForEach("double"), <<KidIs("bin", "msg7", Int32(14))>>)>>) \o
  Loop(<<Snapshot("bin"),
         Then(ForEach("dropEven"),
              <<Visits(8), Counts("bin", 4), FindsNot("bin", "msg0"), Finds("bin", "msg1"),
                FindsNot("bin", "msg2"), Finds("bin", "msg7")>>)>>) \o
  <<CursorOn("c", "bin"), Then(Seek("c"), <<Result(1), Counts("c", 4)>>),
    Then(DeleteAtCursor("c"), <<Counts("c", 3), FindsNot("bin", "msg1"), Stands("c", 0)>>)>> \o
  Loop(<<Seek("c"), Then(Walk("c", FALSE), <<Visits(3)>>)>>) \o
  <<Then(Truncate("bin"), <<Counts("bin", 0)>>),
    Then(CursorOn("empty", "bin"), <<Counts("empty", 0), Stands("empty", -1)>>)>> \o
  Loop(<<Seek("empty"), Then(Walk("empty", FALSE), <<Visits(0)>>)>>) \o
  Loop(<<Snapshot("bin"), Then(ForEach("read"), <<Visits(0)>>)>>)

ComListVectProgram ==
  <<Create("a")>> \o
  OverCom("list", ComList(<<>>), FALSE) \o OverCom("vect", ComVect(<<>>), FALSE) \o
  OverCom("nesting", ComNesting, FALSE) \o OverCom("cursor", ComCursor(<<Result(2)>>), FALSE) \o
  OverCom("foreach", ComForEach, FALSE)

NetList == OverCom("list", ComList(<<ItemIs("l", 1, Int32(8))>>), TRUE)
NetVect == OverCom("vect", ComVect(<<Total(18)>>), TRUE)
NetNesting == OverCom("nesting", ComNesting, TRUE)
NetCursor == OverCom("cursor", ComCursor(<<>>), TRUE)
NetForEach == OverCom("foreach", ComForEach, TRUE)

NetListVectProgram ==
  <<Create("a")>> \o NetList \o NetVect \o NetNesting \o NetCursor \o NetForEach \o <<Close("a")>>
===============================================================================
