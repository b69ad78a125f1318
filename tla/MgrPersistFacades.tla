-------------------------- MODULE MgrPersistFacades ---------------------------
(* MgrPersistTest over MsgFacade, over COM and from C#. *)
EXTENDS ProgramSteps

(* FacadeExamples/MgrPersistTest: stores that close with their scope, a scratch
   name of the process's own, errors as exceptions, nodes that are routes.     *)

Daily == [i \in 1..7 |-> i * 11]

LightInventory ==
  [Warehouse |-> "Melbourne-01", Capacity |-> 50000, Utilised |-> "0.735", Stock |-> "",
   SKU1001 |-> 412, SKU1002 |-> 88, SKU1003 |-> 0, DailyOut |-> Daily]

Many == [node000 |-> 0, node150 |-> 150, node299 |-> 299]
Inventory == "mscs_light_inventory"
Position == "mscs_light_pos"

LightBuildAndInspect == <<
  Section("build"),
  Then(New("a", Large), <<IsDirty("a", TRUE)>>), Measure("a"),
  Then(Declare("a", LightInventory),
       <<NotShrunk("a"), IsDirty("a", TRUE), Has("a", {"Warehouse", "Stock"}),
         Count("a", Root, 5), Val("a", [Capacity |-> 50000]), Count("a", "Stock", 3)>>),
  New("b", Tiny), Measure("b"),
  Then(Declare("b", Many), <<Grown("b"), Count("b", Root, 3), Val("b", [node299 |-> 299])>>),
  Then(SetDirty("a", FALSE), <<IsDirty("a", FALSE)>>),
  Close("b"), Close("a") >>

\* The last store is built, and then loaded under a node that is held.
LightSaveLoad == <<
  Section("saveload"),
  RemoveFile(Inventory),
  New("a", Large), Declare("a", LightInventory),
  Then(Save("a", Inventory), <<IsDirty("a", FALSE), Filename("a", Inventory)>>),
  Measure("a"), Close("a"),
  Then(Load("a", Inventory),
       <<SameSize("a"), Has("a", {"Warehouse"}), Count("a", Root, 5),
         Val("a", [Warehouse |-> "Melbourne-01", Capacity |-> 50000, Utilised |-> "0.735",
                   SKU1002 |-> 88, DailyOut |-> Daily])>>),
  Close("a"),
  Load("a", Inventory), Declare("a", [SKU1004 |-> 7]),
  Then(Set("a", [Capacity |-> 60000]), <<IsDirty("a", TRUE)>>),
  Then(Save("a", ""), <<IsDirty("a", FALSE)>>),
  Close("a"),
  Then(Load("a", Inventory), <<Val("a", [Capacity |-> 60000]), Count("a", "Stock", 4)>>),
  Close("a"),
  Try(Then(Load("b", "no-such-file-anywhere"), <<Result(0)>>)),
  New("a", Large),
  Then(Declare("a", [Warehouse |-> "before the load"]),
       <<Val("a", [Warehouse |-> "before the load"])>>),
  Then(Load("a", Inventory), <<Val("a", [Warehouse |-> "Melbourne-01"]), Has("a", {"Stock"})>>),
  Close("a"),
  RemoveFile(Inventory) >>

\* The store that was saved is still open when its file is deleted.
LightAddressing == <<
  Section("addressing"),
  New("a", Large), Declare("a", LightInventory),
  Then(Note("a", "SKU1002", "pos"),
       <<Resolves("a", "pos", "SKU1002"), Val("a", [SKU1002 |-> 88])>>),
  Then(SetAt("a", "pos", 89), <<Val("a", [SKU1002 |-> 89])>>), SetAt("a", "pos", 88),
  Then(Declare("a", [unit |-> "cartons"]),
       <<Val("a", [SKU1002 |-> 88, unit |-> "cartons"]), PosIs("a", "SKU1002", "pos"),
         Lacks("a", {"Nothing"}), Nowhere("a", "stray"), Nowhere("a", "zero")>>),
  RemoveFile(Position),
  Save("a", Position),
  Then(Load("b", Position), <<PosIs("b", "SKU1002", "pos")>>), Close("b"),
  RemoveFile(Position),
  Close("a") >>

LightTriggers == <<
  Section("triggers"),
  New("a", Large), Declare("a", LightInventory), Note("a", "SKU1001", "pos"),
  ClearSeen, Sink("a", TRUE),
  Arm("a", "pos", {"UPDATE", "INSERT"}),
  Then(Fire("a", "pos", "UPDATE"), <<Result(1), Seen(<<"UPDATE">>, "pos", "")>>),
  Then(Fire("a", "pos", "INSERT"), <<Result(1), Seen(<<"UPDATE", "INSERT">>, "pos", "")>>),
  Then(Fire("a", "pos", "ACTIVE"), <<Result(0), Seen(<<"UPDATE", "INSERT">>, "pos", "")>>),
  Disarm("a", "pos", {"UPDATE"}),
  Then(Fire("a", "pos", "UPDATE"), <<Result(0)>>),
  Then(Fire("a", "pos", "INSERT"), <<Result(1), Seen(<<"UPDATE", "INSERT", "INSERT">>, "pos", "")>>),
  Try(Then(Arm("a", "pos", {}), <<Result(0)>>)),
  Try(Then(Arm("a", "zero", {"UPDATE"}), <<Result(0)>>)),
  Sink("a", FALSE),
  Then(Fire("a", "pos", "INSERT"), <<Result(1), Seen(<<"UPDATE", "INSERT", "INSERT">>, "pos", "")>>),
  Note("a", "SKU1003", "doomed"),
  ClearSeen, Sink("a", TRUE), Arm("a", "doomed", {"DELETE"}),
  Then(Delete("a", {"SKU1003"}), <<Seen(<<"DELETE">>, "doomed", "")>>),
  Sink("a", FALSE), Close("a") >>

LightProgram ==
  LightBuildAndInspect \o LightSaveLoad \o LightAddressing \o LightTriggers
-------------------------------------------------------------------------------
(* ComExamples/MgrPersistTestCom: main's one store serves every section, so it is
   still open, and holds the file it was saved to, until the process ends.     *)

Window == [window |-> 0, width |-> 1024, height |-> 768, title |-> "Ivyware Chartboard"]
Network == [network |-> 0, host |-> "127.0.0.1", port |-> 7788]
Bulk == [bulk |-> 0, b0 |-> "text", b1 |-> "text", b2 |-> "text"]
AllKinds == {"INSERT", "UPDATE", "DELETE"}
DefaultName == "P2PmsgMgr name"
ComFile == "MgrPersistTestCom.p2p"
ComJunk == "MgrPersistTestCom.junk"

ComStore == <<
  Create("a"),
  Then(Section("store"), <<Count("a", Root, 0), Named("a", DefaultName)>>),
  Ok(Then(Rename("a", "Settings"), <<Named("a", "Settings")>>)),
  Try(Then(Rename("a", ""), <<Result(0)>>)),
  Try(Then(Rename("a", "has.a.dot"), <<Result(0), Named("a", "Settings")>>)),
  Ok(Rename("a", DefaultName)),
  Ok(Declare("a", Window)),
  Ok(Then(Declare("a", Network),
          <<Count("a", Root, 2), Val("a", [width |-> 1024, port |-> 7788])>>)),
  Measure("a"), Ok(Then(Declare("a", Bulk), <<NotShrunk("a")>>)),
  Ok(Then(Delete("a", {"b0", "b1", "b2"}), <<Count("a", "bulk", 0)>>)),
  Ok(Delete("a", {"bulk"})) >>

ComSaveLoad == <<
  Section("saveload"),
  RemoveFile(ComFile),
  Ok(Then(SetDirty("a", TRUE), <<IsDirty("a", TRUE)>>)),
  Try(Then(Save("a", ""), <<Result(0)>>)),
  Ok(Then(Save("a", ComFile), <<Filename("a", ComFile), OnDisk(ComFile)>>)),
  Ok(Set("a", [width |-> 1280])), Ok(Save("a", "")),
  Ok(Then(New("b", Large), <<Count("b", Root, 0)>>)),
  Ok(Then(Load("b", ComFile),
          <<Named("b", DefaultName), Count("b", Root, 2),
            Val("b", [width |-> 1280, title |-> "Ivyware Chartboard", host |-> "127.0.0.1",
                      port |-> 7788])>>)),
  Ok(Then(Set("b", [width |-> 640]), <<Val("b", [width |-> 640]), Val("a", [width |-> 1280])>>)),
  Note("b", "width", "pos2"),
  Ok(Then(Clear("b"), <<Count("b", Root, 0), Filename("b", ComFile), Nowhere("b", "pos2")>>)),
  Ok(Then(Declare("b", [afterClear |-> 1]), <<Count("b", Root, 1)>>)),
  WriteJunk(ComJunk),
  Ok(New("c", Large)), Try(Then(Load("c", ComJunk), <<Result(0)>>)),
  RemoveFile(ComJunk), Close("c"),
  New("c", Large), Try(Then(Load("c", "nothing.p2p"), <<Result(0)>>)),
  RemoveFile(ComFile),
  Close("c"), Close("b") >>

ComP2Pos == <<
  Section("p2pos"),
  Note("a", "width", "pos"),
  Ok(Then(Declare("a", [unrelated |-> 1]),
          <<PosIs("a", "width", "pos"), Resolves("a", "pos", "width")>>)),
  Ok(Then(Set("a", [width |-> 1600]), <<Val("a", [width |-> 1600])>>)),
  Ok(Then(SetAt("a", "pos", 1920), <<Val("a", [width |-> 1920]), Nowhere("a", "stray")>>)),
  Ok(Declare("a", [doomed |-> 1])), Note("a", "doomed", "doomed"),
  Ok(Then(Delete("a", {"doomed"}), <<Nowhere("a", "doomed"), Lacks("a", {"depth"})>>)),
  Ok(Delete("a", {"unrelated"})) >>

\* seen, gate and errors are locals which the handlers capture.
ComTriggers == <<
  Section("triggers"),
  Ok(Sink("a", TRUE)),
  Ok(Declare("a", [watched |-> 100])), Note("a", "watched", "pos"),
  Ok(Arm("a", "pos", AllKinds)),
  Ok(Set("a", [watched |-> 200])), Then(Pump, <<Seen(<<>>, "pos", "")>>),
  Then(Fire("a", "pos", "UPDATE"), <<Result(1)>>),
  Then(Wait(1), <<Result(1), Seen(<<"UPDATE">>, "pos", "watched")>>),
  ClearSeen, ResetGate, Hook(TRUE),
  Then(Fire("a", "pos", "INSERT"), <<Result(1)>>),
  Then(Wait(1), <<Result(1), Seen(<<"INSERT">>, "pos", "watched"), Reread(200)>>),
  ClearSeen, ResetGate, Hook(FALSE),
  Ok(Delete("a", {"watched"})),
  Then(Wait(1), <<Result(1), SeenFirst("DELETE", "pos", ""), Lacks("a", {"watched"})>>),
  Ok(Declare("a", [watched2 |-> 1])), Note("a", "watched2", "pos2"),
  Ok(Arm("a", "pos2", {"UPDATE"})), Ok(Disarm("a", "pos2", {"UPDATE"})),
  ClearSeen, ResetGate, Fire("a", "pos2", "UPDATE"),
  Then(Pump, <<Seen(<<>>, "pos2", "")>>),
  Sink("a", FALSE),
  Ok(Arm("a", "pos2", {"UPDATE"})), ClearSeen, Fire("a", "pos2", "UPDATE"),
  Then(Pump, <<Seen(<<>>, "pos2", "")>>) >>

\* The sink has answered before the call that needed it returns.
ComPaging == <<
  Section("paging"),
  Ok(Declare("a", [paged |-> 0])),
  Ok(PageIn("a")),
  Ok(Pager("a", [on |-> TRUE])),
  Ok(Then(PageIn("a"), <<Paged(<<1, 0, FALSE>>)>>)),
  Ok(Then(PageOut("a", TRUE), <<Paged(<<1, 1, TRUE>>)>>)),
  Ok(Then(PageOut("a", FALSE), <<Paged(<<1, 2, FALSE>>)>>)),
  Pager("a", [answer |-> FALSE]),
  Try(Then(PageIn("a"), <<Result(0)>>)),
  Pager("a", [answer |-> TRUE]), Pager("a", [ins |-> 0, outs |-> 0, flush |-> FALSE]),
  Ok(PushPaging("a")), Then(PushPaging("a"), <<Result(0)>>),
  Ok(PopPaging("a")), Then(PopPaging("a"), <<Result(0)>>),
  Ok(Pager("a", [on |-> FALSE])), Pager("a", [ins |-> 0, outs |-> 0, flush |-> FALSE]),
  Ok(Then(PageIn("a"), <<Paged(<<0, 0, FALSE>>)>>)) >>

ComProgram == ComStore \o ComSaveLoad \o ComP2Pos \o ComTriggers \o ComPaging
-------------------------------------------------------------------------------
(* dotNetExamples/MgrPersistTest: the COM program from C#.  A failed call is an
   exception, which Api.Call turns into a code and nothing else catches; the
   scratch files lie beside the executable.                                    *)

NetFile == "MgrPersistTestNet.p2p"
NetJunk == "MgrPersistTestNet.junk"

\* Dispose closes a store that was created.
Using(h, steps) == <<Try(Then(New(h, Large), <<Result(1)>>))>> \o steps \o <<Close(h)>>

NetStore == <<
  Create("a"),
  Then(Section("store"), <<Count("a", Root, 0), Named("a", DefaultName)>>),
  Then(Rename("a", "Settings"), <<Named("a", "Settings")>>),
  Try(Then(Rename("a", "has.a.dot"), <<Result(0), Named("a", "Settings")>>)),
  Rename("a", DefaultName),
  Declare("a", Window),
  Then(Declare("a", Network),
       <<Count("a", Root, 2), Val("a", [width |-> 1024, port |-> 7788])>>),
  Measure("a"), Then(Declare("a", Bulk), <<NotShrunk("a")>>),
  Then(Delete("a", {"b0", "b1", "b2"}), <<Count("a", "bulk", 0)>>),
  Then(Delete("a", {"bulk"}), <<Result(1)>>) >>

NetSaveLoad == <<
  Section("saveload"),
  RemoveFile(NetFile),
  Then(SetDirty("a", TRUE), <<IsDirty("a", TRUE)>>),
  Try(Then(Save("a", ""), <<Result(0)>>)),
  Then(Save("a", NetFile), <<Filename("a", NetFile), OnDisk(NetFile)>>),
  Set("a", [width |-> 1280]), Save("a", "") >>
  \o Using("b", <<
    Then(Load("b", NetFile),
         <<Named("b", DefaultName), Count("b", Root, 2),
           Val("b", [width |-> 1280, title |-> "Ivyware Chartboard", host |-> "127.0.0.1",
                     port |-> 7788])>>),
    Then(Set("b", [width |-> 640]), <<Val("b", [width |-> 640]), Val("a", [width |-> 1280])>>),
    Note("b", "width", "pos2"),
    Then(Clear("b"), <<Count("b", Root, 0), Filename("b", NetFile), Nowhere("b", "pos2")>>),
    Then(Declare("b", [afterClear |-> 1]), <<Count("b", Root, 1)>>) >>)
  \o <<Step("junk", "-", NetJunk)>>
  \o Using("c", <<Try(Then(Load("c", NetJunk), <<Result(0)>>))>>)
  \o <<RemoveFile(NetJunk)>>
  \o Using("c", <<Try(Then(Load("c", "nothing.p2p"), <<Result(0)>>))>>)
  \o <<RemoveFile(NetFile)>>

NetP2Pos == <<
  Section("p2pos"),
  Note("a", "width", "pos"),
  Then(Declare("a", [unrelated |-> 1]),
       <<PosIs("a", "width", "pos"), Resolves("a", "pos", "width")>>),
  Then(Set("a", [width |-> 1600]), <<Val("a", [width |-> 1600])>>),
  Then(SetAt("a", "pos", 1920),
       <<Val("a", [width |-> 1920]), Nowhere("a", "stray"), Lacks("a", {"depth"})>>),
  Declare("a", [doomed |-> 1]), Note("a", "doomed", "doomed"),
  Then(Delete("a", {"doomed"}), <<Result(1), Nowhere("a", "doomed")>>),
  Then(Delete("a", {"unrelated"}), <<Result(1)>>) >>

\* The sink runs on the dispatch thread: what it lists, reads and counts races main.
NetTriggers == <<
  Section("triggers"),
  Sink("a", TRUE),
  Declare("a", [watched |-> 100]), Note("a", "watched", "pos"),
  Arm("a", "pos", AllKinds),
  Set("a", [watched |-> 200]), Then(Pump, <<Seen(<<>>, "pos", "")>>),
  Then(Fire("a", "pos", "UPDATE"), <<Result(1)>>),
  Then(Wait(1), <<Result(1), Seen(<<"UPDATE">>, "pos", "watched")>>),
  ClearSeen, ResetGate, Hook(TRUE),
  Then(Fire("a", "pos", "INSERT"), <<Result(1)>>),
  Then(Wait(1), <<Result(1), Seen(<<"INSERT">>, "pos", "watched"), Reread(200)>>),
  Hook(FALSE), ClearSeen, ResetGate,
  Then(Delete("a", {"watched"}), <<Result(1)>>),
  Then(Wait(1), <<Result(1), SeenFirst("DELETE", "pos", ""), Lacks("a", {"watched"})>>),
  Declare("a", [watched2 |-> 1]), Note("a", "watched2", "pos2"),
  Arm("a", "pos2", {"UPDATE"}), Disarm("a", "pos2", {"UPDATE"}),
  ClearSeen, ResetGate, Fire("a", "pos2", "UPDATE"),
  Then(Pump, <<Seen(<<>>, "pos2", "")>>),
  Try(Sink("a", FALSE)),
  Arm("a", "pos2", {"UPDATE"}), ClearSeen, ResetGate, Fire("a", "pos2", "UPDATE"),
  Then(Pump, <<Seen(<<>>, "pos2", "")>>) >>

NetPaging == <<
  Section("paging"),
  Declare("a", [paged |-> 0]),
  Try(Then(PageIn("a"), <<Result(1)>>)),
  Pager("a", [on |-> TRUE]),
  Then(PageIn("a"), <<Result(1), Paged(<<1, 0, FALSE>>)>>),
  Then(PageOut("a", TRUE), <<Result(1), Paged(<<1, 1, TRUE>>)>>),
  Then(PageOut("a", FALSE), <<Paged(<<1, 2, FALSE>>)>>),
  Pager("a", [answer |-> FALSE]),
  Then(PageIn("a"), <<Result(0)>>),
  Pager("a", [answer |-> TRUE]), Pager("a", [ins |-> 0, outs |-> 0, flush |-> FALSE]),
  Step("push", "a", 0), Then(PushPaging("a"), <<Result(0)>>),
  Step("pop", "a", 0), Then(PopPaging("a"), <<Result(0)>>),
  Pager("a", [on |-> FALSE]), Pager("a", [ins |-> 0, outs |-> 0, flush |-> FALSE]),
  Then(PageIn("a"), <<Paged(<<0, 0, FALSE>>)>>) >>

NetProgram == NetStore \o NetSaveLoad \o NetP2Pos \o NetTriggers \o NetPaging
===============================================================================
