---------------------------- MODULE MgrCApiDirect ----------------------------
(* DirectExamples/MgrCApiTest: the flat C interface, where every handle that is
   given is destroyed, the unwanted ones too.                                  *)
EXTENDS ProgramSteps

CApiFile == "mscs_example_capi.p2p"
NewMgr == Then(New("a", Large), <<Result(1)>>)

CApiLiveVsDetached == C(<<
  Section("live"), NewMgr,
  Then(CopyOf("det", "a"), <<NotNull("det")>>), DeclareIn("det", [Ghost |-> Text("x")]),
  Drop("det"),
  Then(RootOf("live", "a"), <<NotThere("live", "Ghost")>>), Drop("live"),
  Then(RootOf("live", "a"), <<NotNull("live")>>), DeclareIn("live", [Real |-> Text("kept")]),
  Drop("live"),
  Then(RootOf("live", "a"), <<There("live", "Real")>>)>> \o
  Look("kid", "live", "Real", <<NotNull("kid"), Reads("kid", Text("kept"))>>) \o
  <<Drop("live")>>)

Cells == [Count |-> Int32(42), Bytes |-> Int64("2^40"), Ratio |-> Dbl("0.625"),
          Enabled |-> Bool(1), Label |-> Text("widget"), Raw |-> Blob("9, 1.25")]
CellNames == <<"Count", "Bytes", "Ratio", "Enabled", "Label", "Raw">>
CellTypes == <<"INT32", "INT64", "DOUBLE", "BOOL", "WSTR16", "BLOB16">>

\* The cell that may not be read as an int is asked for its type, and read tolerantly.
CApiTypedValues == C(<<
  Section("typed"), New("a", Large), RootOf("root", "a"), DeclareIn("root", Cells)>> \o
  LookEach("root", CellNames, CellTypes, DropIf("h")) \o
  <<Then(Child("h", "root", "Count"), <<Reads("h", Int32(42))>>), SetVia("h", Int32(43)), Drop("h")>> \o
  Look("h", "root", "Count", <<Reads("h", Int32(43))>>) \o
  <<Then(Child("h", "root", "Bytes"), <<Reads("h", Int64("2^40")), TypeIs("h", "INT64")>>),
    Then(ReadAs("h", AnyInt), <<Result(1)>>), Drop("h")>> \o
  Look("h", "root", "Ratio", <<Reads("h", Dbl("0.625"))>>) \o
  Look("h", "root", "Enabled", <<Reads("h", Bool(1))>>) \o
  Look("h", "root", "Raw", <<Reads("h", Blob("9, 1.25"))>>) \o
  <<Drop("root")>>)

CApiNavigate == C(<<
  Section("navigate"), New("a", Large), RootOf("root", "a"),
  DeclareIn("root", [Config |-> Text("")]), Child("cfg", "root", "Config"),
  DeclareIn("cfg", [Network |-> Text("")]), Child("net", "cfg", "Network"),
  DeclareIn("net", [Host |-> Text("127.0.0.1"), Port |-> Int32(7801)]),
  Drop("net"), Drop("cfg"), Drop("root"),
  RootOf("root", "a"), Child("cfg", "root", "Config"), Child("net", "cfg", "Network"),
  Child("host", "net", "Host"),
  Then(Child("port", "net", "Port"),
       <<NotNull("host"), NotNull("port"), Reads("host", Text("127.0.0.1")),
         Reads("port", Int32(7801))>>),
  Then(Child("nope", "net", "Nope"), <<IsNull("nope")>>),
  Then(CursorOf("curs", "net"), <<NotNull("curs"), HasKids("curs", 2)>>), Drop("curs"),
  Drop("port"), Drop("host"), Drop("net"), Drop("cfg"), Drop("root")>>)

\* What the position resolves to is a copy, which is only read.
CApiPosAndPersist == C(<<
  Section("persist"), RemoveFile(CApiFile),
  New("a", Large), RootOf("root", "a"), DeclareIn("root", [Device |-> Text("")]),
  Child("dev", "root", "Device"),
  DeclareIn("dev", [Serial |-> Text("SN-000123"), Revision |-> Int32(4)]),
  Child("serial", "dev", "Serial"),
  Then(NoteVia("serial", "pos"), <<Resolves("a", "pos", "Serial")>>),
  Then(ByPos("byPos", "a", "pos"),
       <<NotNull("byPos"), Reads("byPos", Text("SN-000123")), PosOf("byPos", "pos")>>),
  Drop("byPos"),
  Ok(Then(Save("a", CApiFile), <<IsDirty("a", FALSE)>>)),
  Drop("serial"), Drop("dev"), Drop("root"), Close("a"),
  Then(Load("a", CApiFile), <<Result(1)>>),
  RootOf("root", "a"), Child("dev", "root", "Device"),
  Then(Child("ser", "dev", "Serial"),
       <<NotNull("ser"), Reads("ser", Text("SN-000123")), PosOf("ser", "pos")>>),
  Drop("ser"), Drop("dev"), Drop("root"), Close("a")>>)

CApiStructuralEdits == C(<<
  Section("edits"), New("a", Large), RootOf("root", "a"),
  DeclareIn("root", [Inbox |-> Text(""), Outbox |-> Text("")]),
  Child("in", "root", "Inbox"), Child("out", "root", "Outbox"),
  DeclareIn("in", [draft |-> Text("hello")]),
  Then(RenameIn("in", "draft", "letter"),
       <<Result(1), NotThere("in", "draft"), There("in", "letter")>>)>> \o
  Look("h", "in", "letter", <<Reads("h", Text("hello"))>>) \o
  <<Then(MoveIn("in", "out", "letter", "sent"),
         <<Result(1), NotThere("in", "letter"), There("out", "sent")>>)>> \o
  Look("h", "out", "sent", <<Reads("h", Text("hello"))>>) \o
  <<Then(RetypeIn("out", "sent", Int32(99)), <<Result(1)>>)>> \o
  Look("h", "out", "sent", <<TypeIs("h", "INT32"), Reads("h", Int32(99))>>))

CApiWatched == C(<<
  Section("triggers"), New("a", Large), RootOf("root", "a"),
  DeclareIn("root", [Watched |-> Text("v")]), Child("live", "root", "Watched"),
  NoteVia("live", "pos"), Drop("live"),
  Then(Drop("root"), <<Resolves("a", "pos", "Watched")>>)>>)

CApiTriggers == C(<<
  ClearSeen, Sink("a", TRUE), Arm("a", "pos", {"UPDATE", "INSERT"}),
  Then(Fire("a", "pos", "UPDATE"), <<Result(1), Seen(<<"UPDATE">>, "pos", "")>>),
  Then(Fire("a", "pos", "INSERT"), <<Result(1), Seen(<<"UPDATE", "INSERT">>, "pos", "")>>),
  Disarm("a", "pos", {"UPDATE"}),
  Then(Fire("a", "pos", "UPDATE"), <<Result(0), Seen(<<"UPDATE", "INSERT">>, "pos", "")>>),
  Sink("a", FALSE)>>)

DropEdits == C(<<Drop("out"), Drop("in"), Drop("root")>>)

CApiProgram ==
  CApiLiveVsDetached \o <<Close("a")>> \o CApiTypedValues \o <<Close("a")>> \o
  CApiNavigate \o <<Close("a")>> \o CApiPosAndPersist \o <<RemoveFile(CApiFile)>> \o
  CApiStructuralEdits \o DropEdits \o <<Close("a")>> \o CApiWatched \o CApiTriggers \o <<Close("a")>>
-------------------------------------------------------------------------------
(* FieldAccessExamples/MgrCApiTest: every C call of the Direct program, and a C++
   side that meets it on the same manager, between the handles it holds.       *)

FieldLiveVsDetached ==
  CApiLiveVsDetached \o
  <<Then(Declare("a", [FromCpp |-> Text("seen")]),
         <<Val("a", [Real |-> Text("kept")]), Lacks("a", {"Ghost"})>>)>> \o
  C(<<Then(RootOf("live", "a"), <<There("live", "FromCpp")>>)>> \o
    Look("kid", "live", "FromCpp", <<NotNull("kid"), ReadsIf("kid", Text("seen"))>>) \o
    <<Drop("live"), Close("a")>>)

\* The view writes; C asks each cell for its type before it reads it.
FieldTypedValues ==
  CApiTypedValues \o
  <<Then(Measure("a"), <<Val("a", [Cells EXCEPT !.Count = Int32(43)])>>),
    Set("a", [Count |-> Int32(44)]), Set("a", [Label |-> Text("gadget")]),
    Set("a", [Ratio |-> Dbl("0.5")])>> \o
  C(<<RootOf("root", "a")>> \o
    Look("h", "root", "Count", <<TypeIs("h", "INT32"), Reads("h", Int32(44))>>) \o
    Look("h", "root", "Label", <<TypeIs("h", "WSTR16"), Reads("h", Text("gadget"))>>) \o
    Look("h", "root", "Ratio", <<Reads("h", Dbl("0.5"))>>) \o
    <<Drop("root")>>) \o
  <<Declare("a", [Wire |-> Blob("7")])>> \o
  C(<<RootOf("root", "a")>> \o
    Look("h", "root", "Wire", <<TypeIs("h", "BLOB16"), ReadsIf("h", Blob("7"))>>) \o
    <<Drop("root")>>) \o
  <<Then(Measure("a"), <<Val("a", [Wire |-> Blob("7"), Bytes |-> Int64("2^40")])>>),
    Close("a")>>

FieldNavigate ==
  CApiNavigate \o
  <<Then(Measure("a"), <<Val("a", [Host |-> Text("127.0.0.1"), Port |-> Int32(7801)]),
                         Lacks("a", {"Proxy", "ProxyHost"})>>),
    Declare("a", [Proxy |-> Text(""), ProxyHost |-> Text("proxy.local")])>> \o
  C(<<RootOf("root", "a"), Child("cfg", "root", "Config"), Child("proxy", "cfg", "Proxy"),
      Then(Child("host", "proxy", "ProxyHost"),
           <<NotNull("proxy"), NotNull("host"), ReadsIf("host", Text("proxy.local"))>>),
      Drop("host"), Drop("proxy"), Drop("cfg"), Drop("root"), Close("a")>>)

\* The file is the bridge that needs no cast.
FieldPosAndPersist ==
  CApiPosAndPersist \o
  <<Then(Load("a", CApiFile),
         <<Val("a", [Serial |-> Text("SN-000123"), Revision |-> Int32(4)]),
           PosIs("a", "Serial", "pos")>>),
    Set("a", [Revision |-> Int32(5)]), Ok(Save("a", "")), Close("a")>> \o
  C(<<Load("a", CApiFile), RootOf("root", "a"), Child("dev", "root", "Device"),
      Then(Child("rev", "dev", "Revision"),
           <<NotNull("rev"), TypeIs("rev", "INT32"), ReadsIf("rev", Int32(5))>>),
      Drop("rev"), Drop("dev"), Drop("root"), Close("a"), RemoveFile(CApiFile)>>)

\* MUTANT of Bye: the write is moved up, under the handles that are still held.
ByeUnderHandles == <<Set("a", [sent |-> Text("bye")])>> \o DropEdits

\* Reads only while the handles are held; the write comes after they are destroyed.
Bye == DropEdits \o <<Set("a", [sent |-> Text("bye")])>>

FieldStructuralEdits ==
  CApiStructuralEdits \o
  <<Then(Measure("a"), <<Lacks("a", {"draft", "letter"}), Val("a", [sent |-> Int32(99)])>>)>> \o
  Bye \o
  C(<<RootOf("root", "a"), Child("out", "root", "Outbox")>> \o
    Look("h", "out", "sent", <<NotNull("h"), TypeIs("h", "WSTR16"), ReadsIf("h", Text("bye"))>>) \o
    <<Drop("out"), Drop("root"), Close("a")>>)

\* A DELETE that C arms, and a C++ erase raises.
FieldTriggers ==
  CApiWatched \o CApiTriggers \o
  <<Then(Measure("a"), <<Val("a", [Watched |-> Text("v")])>>)>> \o
  C(<<ClearSeen, Sink("a", TRUE), Arm("a", "pos", {"DELETE"})>>) \o
  <<Then(Delete("a", {"Watched"}), <<Result(1), Seen(<<"DELETE">>, "pos", "")>>)>> \o
  C(<<Then(RootOf("root", "a"), <<NotThere("root", "Watched")>>), Drop("root"),
      Sink("a", FALSE), Close("a")>>)

FieldCApiProgram ==
  FieldLiveVsDetached \o FieldTypedValues \o FieldNavigate \o FieldPosAndPersist \o
  FieldStructuralEdits \o FieldTriggers
===============================================================================
