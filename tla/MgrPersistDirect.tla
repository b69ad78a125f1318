--------------------------- MODULE MgrPersistDirect ---------------------------
(* DirectExamples/MgrPersistTest: each section has managers of its own, and the
   capture of the triggers is a local of its section.                          *)
EXTENDS ProgramSteps

\* (i + 1) * 11
Daily == [i \in 1..7 |-> i * 11]

DirectInventory ==
  [Warehouse |-> "Melbourne-01", Capacity |-> 50000, Utilised |-> "0.735",
   Stock |-> "", SKU1001 |-> 412, SKU1002 |-> 88, SKU1003 |-> 0, DailyOut |-> Daily]

\* The 300 nodes that outgrow the small heap stand as three.
Many == [node000 |-> 0, node150 |-> 150, node299 |-> 299]
DirectFile == "mscs_example_inventory.p2p"

DirectBuildAndInspect == <<
  Section("build"),
  New("a", Large), Measure("a"),
  Then(Declare("a", DirectInventory),
       <<NotShrunk("a"), IsDirty("a", TRUE), Has("a", {"Warehouse", "Stock"}),
         Count("a", Root, 5), Val("a", [Capacity |-> 50000]), Count("a", "Stock", 3)>>),
  New("b", Tiny), Measure("b"),
  Then(Declare("b", Many), <<Grown("b"), Count("b", Root, 3), Val("b", [node299 |-> 299])>>),
  Close("b"), Close("a") >>

DirectSaveLoad == <<
  Section("saveload"),
  RemoveFile(DirectFile),
  New("a", Large), Declare("a", DirectInventory),
  Ok(Then(Save("a", DirectFile), <<IsDirty("a", FALSE), Filename("a", DirectFile)>>)),
  Measure("a"), Then(Close("a"), <<OnDisk(DirectFile)>>),
  Then(Load("a", DirectFile),
       <<SameSize("a"), Has("a", {"Warehouse"}), Count("a", Root, 5),
         Val("a", [Warehouse |-> "Melbourne-01", Capacity |-> 50000, Utilised |-> "0.735",
                   SKU1002 |-> 88, DailyOut |-> Daily])>>),
  Close("a"),
  Load("a", DirectFile), Declare("a", [SKU1004 |-> 7]),
  Then(Set("a", [Capacity |-> 60000]), <<IsDirty("a", TRUE)>>),
  Ok(Then(Save("a", ""), <<IsDirty("a", FALSE)>>)),
  Close("a"),
  Then(Load("a", DirectFile), <<Val("a", [Capacity |-> 60000]), Count("a", "Stock", 4)>>),
  Close("a"),
  RemoveFile(DirectFile) >>

\* Position to field, to path and back: all name one node.
DirectAddressing == <<
  Section("addressing"),
  New("a", Large), Declare("a", DirectInventory),
  Then(Note("a", "SKU1002", "pos"),
       <<Resolves("a", "pos", "SKU1002"), Val("a", [SKU1002 |-> 88])>>),
  Close("a") >>

DirectTriggers == <<
  Section("triggers"),
  New("a", Large), Declare("a", DirectInventory), Note("a", "SKU1001", "pos"),
  ClearSeen, Sink("a", TRUE),
  Arm("a", "pos", {"UPDATE", "INSERT"}),
  Then(Fire("a", "pos", "UPDATE"), <<Result(1), Seen(<<"UPDATE">>, "pos", "")>>),
  Then(Fire("a", "pos", "INSERT"), <<Result(1), Seen(<<"UPDATE", "INSERT">>, "pos", "")>>),
  Then(Fire("a", "pos", "ACTIVE"), <<Result(0), Seen(<<"UPDATE", "INSERT">>, "pos", "")>>),
  Disarm("a", "pos", {"UPDATE"}),
  Then(Fire("a", "pos", "UPDATE"), <<Result(0)>>),
  Then(Fire("a", "pos", "INSERT"), <<Result(1), Seen(<<"UPDATE", "INSERT", "INSERT">>, "pos", "")>>),
  Sink("a", FALSE),
  Then(Fire("a", "pos", "INSERT"), <<Result(1), Seen(<<"UPDATE", "INSERT", "INSERT">>, "pos", "")>>),
  Note("a", "SKU1003", "doomed"),
  ClearSeen, Sink("a", TRUE), Arm("a", "doomed", {"DELETE"}),
  Then(Delete("a", {"SKU1003"}), <<Result(1), Seen(<<"DELETE">>, "doomed", "")>>),
  Sink("a", FALSE), Close("a") >>

DirectProgram ==
  DirectBuildAndInspect \o DirectSaveLoad \o DirectAddressing \o DirectTriggers
-------------------------------------------------------------------------------
(* FieldAccessExamples/MgrPersistTest: the Direct program through typed views.
   A view writes by declaring, and reads what the long hand reads.             *)

FieldInventory ==
  [Warehouse |-> "Melbourne-01", Capacity |-> 50000, Utilised |-> "0.735"] @@
  [Stock |-> "", SKU1001 |-> 412, SKU1002 |-> 88, SKU1003 |-> 0] @@ [DailyOut |-> Daily]

FieldFile == "mscs_example_inventory.p2p"

FieldBuildAndInspect == <<
  Section("build"),
  New("a", Large), Measure("a"),
  Then(Declare("a", FieldInventory),
       <<NotShrunk("a"), IsDirty("a", TRUE), Has("a", {"Warehouse", "Stock"}),
         Count("a", Root, 5), Count("a", "Stock", 3),
         Val("a", [Capacity |-> 50000, Utilised |-> "0.735", SKU1001 |-> 412])>>),
  New("b", Tiny), Measure("b"),
  Then(Declare("b", Many),
       <<Grown("b"), Count("b", Root, 3), Val("b", [node299 |-> 299, node000 |-> 0])>>),
  Close("b"), Close("a") >>

FieldSaveLoad == <<
  Section("saveload"),
  RemoveFile(FieldFile),
  New("a", Large), Declare("a", FieldInventory),
  Ok(Then(Save("a", FieldFile), <<IsDirty("a", FALSE), Filename("a", FieldFile)>>)),
  Measure("a"), Then(Close("a"), <<OnDisk(FieldFile)>>),
  Then(Load("a", FieldFile),
       <<SameSize("a"), Has("a", {"Warehouse", "SKU1002"}), Count("a", Root, 5),
         Val("a", [Warehouse |-> "Melbourne-01", Capacity |-> 50000, Utilised |-> "0.735",
                   SKU1002 |-> 88, DailyOut |-> Daily])>>),
  Close("a"),
  Load("a", FieldFile),
  Then(Declare("a", [SKU1004 |-> 7, Capacity |-> 60000]), <<IsDirty("a", TRUE)>>),
  Ok(Then(Save("a", ""), <<IsDirty("a", FALSE)>>)),
  Close("a"),
  Then(Load("a", FieldFile),
       <<Val("a", [Capacity |-> 60000, SKU1004 |-> 7]), Count("a", "Stock", 4)>>),
  Close("a"),
  RemoveFile(FieldFile) >>

FieldAddressing == <<
  Section("addressing"),
  New("a", Large), Declare("a", FieldInventory),
  Then(Note("a", "SKU1002", "pos"),
       <<Resolves("a", "pos", "SKU1002"), Val("a", [SKU1002 |-> 88])>>),
  Close("a") >>

FieldTriggers == <<
  Section("triggers"),
  New("a", Large), Declare("a", FieldInventory), Note("a", "SKU1001", "pos"),
  ClearSeen, Sink("a", TRUE),
  Arm("a", "pos", {"UPDATE", "INSERT"}),
  Then(Fire("a", "pos", "UPDATE"), <<Result(1), Seen(<<"UPDATE">>, "pos", "")>>),
  Then(Fire("a", "pos", "INSERT"), <<Result(1), Seen(<<"UPDATE", "INSERT">>, "pos", "")>>),
  Then(Fire("a", "pos", "ACTIVE"), <<Result(0), Seen(<<"UPDATE", "INSERT">>, "pos", "")>>),
  Disarm("a", "pos", {"UPDATE"}),
  Then(Fire("a", "pos", "UPDATE"), <<Result(0)>>),
  Then(Fire("a", "pos", "INSERT"), <<Result(1), Seen(<<"UPDATE", "INSERT", "INSERT">>, "pos", "")>>),
  Sink("a", FALSE),
  Then(Fire("a", "pos", "INSERT"), <<Result(1), Seen(<<"UPDATE", "INSERT", "INSERT">>, "pos", "")>>),
  Note("a", "SKU1003", "doomed"),
  ClearSeen, Sink("a", TRUE), Arm("a", "doomed", {"DELETE"}),
  Then(Delete("a", {"SKU1003"}),
       <<Result(1), Lacks("a", {"SKU1003"}), Seen(<<"DELETE">>, "doomed", "")>>),
  Sink("a", FALSE), Close("a") >>

FieldProgram ==
  FieldBuildAndInspect \o FieldSaveLoad \o FieldAddressing \o FieldTriggers
===============================================================================
