---------------------------- MODULE MgrCApiFacades ----------------------------
(* MgrCApiTest over the vtables of MsgFacade, over IDispatch and from C#. *)
EXTENDS ProgramSteps

(* FacadeExamples/MgrCApiTest: the vtables of MsgFacade without their wrappers.
   Each call answers a code, every node is a route, and whatever is handed out
   is released, in any order.                                                  *)

LightFile == "mscs_light_capi"
NewStore == New("a", Large)

\* A node outlives the release of its store, and says so.
LightOneKindOfHandle == <<
  Section("one kind"), NewStore, Ok(RootOf("root", "a")),
  Ok(Then(DeclareIn("root", [Real |-> Text("kept")]), <<Result(1), There("root", "Real")>>)),
  Ok(Child("byName", "root", "Real")), Ok(ByPath("byPath", "a", "Real")),
  Ok(NoteVia("byName", "pos")), Ok(ByPos("byPos", "a", "pos")),
  Ok(Then(SetVia("byPath", Text("written by path")),
          <<Reads("byName", Text("written by path"))>>)),
  Ok(Then(SetVia("byPos", Text("written by position")),
          <<Reads("byName", Text("written by position"))>>)),
  Drop("byPos"), Drop("byPath"), Drop("byName"),
  Child("keep", "root", "Real"), Close("a"),
  Then(ReadAs("keep", {"WSTR16"}), <<Result(0)>>),
  Then(DeclareIn("root", [n |-> Int32(1)]), <<Result(0)>>),
  Drop("keep"), Drop("root") >>

Cells == [Count |-> Int32(42), Bytes |-> Int64("2^40"), Ratio |-> Dbl("0.625"),
          Enabled |-> Bool(1), Label |-> Text("widget"), Raw |-> Blob("9, 1.25")]
CellNames == <<"Count", "Bytes", "Ratio", "Enabled", "Label", "Raw">>
CellTypes == <<"INT32", "INT64", "DOUBLE", "BOOL", "WSTR16", "BLOB16">>

\* The read at the wrong type is made here, and is an answer.
LightTypedValues == <<
  Section("typed"), NewStore, RootOf("root", "a"), Ok(DeclareIn("root", Cells))>> \o
  LookEach("root", CellNames, CellTypes, DropIf("h")) \o <<
  Then(Child("count", "root", "Count"), <<Reads("count", Int32(42))>>),
  Ok(Then(SetVia("count", Int32(43)), <<Reads("count", Int32(43))>>)),
  Then(Child("bytes", "root", "Bytes"), <<Reads("bytes", Int64("2^40"))>>),
  Child("label", "root", "Label"),
  Then(ReadAs("label", AnyInt), <<Result(0)>>), Then(ReadAs("label", {"DOUBLE"}), <<Result(0)>>),
  Then(SetVia("bytes", Text("nope")), <<Result(0), Reads("label", Text("widget"))>>),
  Then(Child("raw", "root", "Raw"), <<Reads("raw", Blob("9, 1.25"))>>),
  Drop("raw"), Drop("label"), Drop("bytes"), Drop("count"), Drop("root"), Close("a") >>

\* Stepping off the end is a success of its own, and stays there.
LightNavigate == <<
  Section("navigate"), NewStore, RootOf("root", "a"),
  Ok(DeclareTo("cfg", "root", [Config |-> Text("")])),
  Ok(DeclareTo("net", "cfg", [Network |-> Text("")])),
  Ok(DeclareIn("net", [Host |-> Text("127.0.0.1"), Port |-> Int32(7801)])),
  Ok(Child("host", "net", "Host")),
  Ok(Then(Child("port", "net", "Port"),
          <<Reads("host", Text("127.0.0.1")), Reads("port", Int32(7801))>>)),
  Then(Child("nope", "net", "Nope"), <<Result(0), IsNull("nope")>>),
  Ok(Then(CursorOf("curs", "net"), <<HasKids("curs", 2)>>)),
  Then(Advance("curs", 2), <<AtEnd("curs")>>), Then(Advance("curs", 1), <<Result(2)>>),
  Drop("curs"),
  Ok(Child("at", "net", "Host")), DropIf("at"), Ok(Child("at", "net", "Port")), DropIf("at"),
  Then(Child("past", "net", "a ninth"), <<Result(0)>>),
  Drop("port"), Drop("host"), Drop("net"), Drop("cfg"), Drop("root"), Close("a") >>

LightPosAndPersist == <<
  Section("persist"), RemoveFile(LightFile),
  NewStore, RootOf("root", "a"), DeclareTo("dev", "root", [Device |-> Text("")]),
  DeclareIn("dev", [Serial |-> Text("SN-000123"), Revision |-> Int32(4)]),
  Child("serial", "dev", "Serial"),
  Ok(Then(NoteVia("serial", "pos"), <<Resolves("a", "pos", "Serial")>>)),
  Ok(Then(ByPos("byPos", "a", "pos"), <<PosOf("byPos", "pos")>>)), Drop("byPos"),
  Ok(Then(Save("a", LightFile), <<IsDirty("a", FALSE)>>)),
  Drop("serial"), Drop("dev"), Drop("root"), Close("a"),
  Ok(Load("a", LightFile)),
  Ok(Then(ByPath("ser", "a", "Serial"), <<Reads("ser", Text("SN-000123")), PosOf("ser", "pos")>>)),
  Drop("ser"), Close("a"), RemoveFile(LightFile) >>

\* A retype seeds a zero; what goes wrong is named.
LightStructuralEdits == <<
  Section("edits"), NewStore, RootOf("root", "a"),
  DeclareTo("in", "root", [Inbox |-> Text("")]), DeclareTo("out", "root", [Outbox |-> Text("")]),
  DeclareIn("in", [draft |-> Text("hello")]),
  Ok(Then(RenameIn("in", "draft", "letter"), <<NotThere("in", "draft"), There("in", "letter")>>))>> \o
  Look("n", "in", "letter", <<Reads("n", Text("hello"))>>) \o
  <<Ok(Then(MoveIn("in", "out", "letter", "sent"), <<NotThere("in", "letter"), There("out", "sent")>>))>> \o
  Look("n", "out", "sent", <<Reads("n", Text("hello"))>>) \o
  <<Ok(RetypeIn("out", "sent", Int32(0))),
    Then(Child("n", "out", "sent"), <<TypeIs("n", "INT32"), Reads("n", Int32(0))>>),
    Ok(SetVia("n", Int32(99))), Drop("n"),
    Then(RenameIn("out", "ghost", "x"), <<Result(0)>>),
    Then(RenameIn("out", "sent", "a.b"), <<Result(0)>>),
    Then(RetypeIn("out", "ghost", Int32(0)), <<Result(0)>>),
    Then(MoveIn("out", "in", "ghost", "ghost"), <<Result(0)>>),
    Then(MoveIn("out", "no node", "sent", "letter"), <<Result(0)>>),
    Drop("out"), Drop("in"), Drop("root"), Close("a") >>

LightTriggers == <<
  Section("triggers"), NewStore, RootOf("root", "a"),
  DeclareTo("watched", "root", [Watched |-> Text("v")]),
  Ok(Then(NoteVia("watched", "pos"), <<Resolves("a", "pos", "Watched")>>)),
  ClearSeen, Ok(Sink("a", TRUE)), Ok(Arm("a", "pos", {"UPDATE", "INSERT"})),
  Then(Fire("a", "pos", "UPDATE"), <<Result(1), Seen(<<"UPDATE">>, "pos", "")>>),
  Then(Fire("a", "pos", "INSERT"), <<Result(1), Seen(<<"UPDATE", "INSERT">>, "pos", "")>>),
  Ok(Disarm("a", "pos", {"UPDATE"})),
  Then(Fire("a", "pos", "UPDATE"), <<Result(0), Seen(<<"UPDATE", "INSERT">>, "pos", "")>>),
  Ok(Sink("a", FALSE)), Drop("watched"), Drop("root"), Close("a") >>

LightCApiProgram ==
  <<Library>> \o LightOneKindOfHandle \o LightTypedValues \o LightNavigate \o
  LightPosAndPersist \o LightStructuralEdits \o LightTriggers
-------------------------------------------------------------------------------
(* ComExamples/MgrCApiTestCom: the store by IDispatch, where every member is
   looked up by its name and every node is a route.  Nothing throws, and what a
   section obtained is released where the section ends.                        *)

ComFile == "MgrCApiTestCom.p2p"

Leaves == [width |-> Int32(1024), scale |-> Dbl("1.5"), title |-> Text("Chartboard"),
           visible |-> Bool(1), big |-> Int64("5000000000")]
LeafNames == <<"width", "scale", "title", "visible", "big">>
LeafTypes == <<"INT32", "DOUBLE", "WSTR16", "BOOL", "INT64">>

Resolved(name) == Ok(Resolve(name))
ResolvedNot(name) == Then(Resolve(name), <<Result(0)>>)

ComLateBinding ==
  <<Section("late binding"), Resolved("Root"), Resolved("Save"), Resolved("FieldAt"),
    Resolved("Clear"), Resolved("RenameRoot"), Resolved("RootName"), ResolvedNot("RootNmae"),
    Resolved("VersionString"), Resolved("IsValid")>>

ComBuildLateBound ==
  <<Section("build"), Ok(RootOf("root", "a")),
    Ok(DeclareTo("cfg", "root", [cfg |-> Int32(0)])), Ok(DeclareIn("cfg", Leaves))>> \o
  LookEach("cfg", LeafNames, LeafTypes, Drop("h")) \o
  <<Ok(DeclareIn("cfg", [tiny |-> UInt08(250)])),
    Ok(Then(Child("tiny", "cfg", "tiny"), <<TypeIs("tiny", "UINT08"), HasKids("cfg", 6)>>)),
    Leave>>

\* The default member reads and writes the value; the enumerator walks the children.
ComDefaultMemberAndForEach ==
  <<Section("default member"),
    Ok(Then(ByPath("width", "a", "width"), <<Reads("width", Int32(1024))>>)),
    Ok(Then(SetVia("width", Int32(1600)), <<Reads("width", Int32(1600))>>)),
    Ok(ByPath("cfg", "a", "cfg")), Ok(Then(CursorOf("enum", "cfg"), <<HasKids("enum", 6)>>)),
    Leave>>

\* Two routes to one node; the members that copied it are gone.
ComNoDetachedNodes ==
  <<Section("no detached"), Ok(ByPath("cfg", "a", "cfg")), Ok(Child("byChild", "cfg", "title")),
    ResolvedNot("Item"), ResolvedNot("IsLive"),
    Ok(Then(SetVia("byChild", Text("II")), <<Reads("byChild", Text("II"))>>)),
    Ok(Then(Child("viaColl", "cfg", "title"), <<Reads("viaColl", Text("II"))>>)),
    Ok(SetVia("viaColl", Text("III"))),
    Ok(Then(Child("reread", "cfg", "title"), <<Reads("reread", Text("III"))>>))>> \o
  <<Then(RenameIn("cfg", "-", "-"), <<Result(0)>>), Leave>>

\* The file is removed while the store it was saved from still holds it.
ComPathsAndPersistence ==
  <<Section("paths"), Ok(ByPath("width", "a", "width")),
    Ok(Then(NoteVia("width", "pos"), <<Resolves("a", "pos", "width")>>)),
    Ok(Then(ByPos("byPos", "a", "pos"), <<PosOf("byPos", "pos")>>)),
    Ok(SetVia("byPos", Int32(1600))),
    RemoveFile(ComFile), Ok(Then(Save("a", ComFile), <<Filename("a", ComFile)>>)),
    Ok(New("b", Large)), Ok(Load("b", ComFile)),
    Ok(Then(ByPath("w2", "b", "width"), <<Reads("w2", Int32(1600))>>)),
    Ok(Then(ByPath("tiny2", "b", "tiny"), <<TypeIs("tiny2", "UINT08")>>)),
    Ok(ByPath("cfg2", "b", "cfg")),
    Ok(Then(RenameIn("cfg2", "title", "caption"), <<There("cfg2", "caption")>>)),
    Ok(RetypeIn("cfg2", "width", Text(""))),
    Ok(Then(Child("w3", "cfg2", "width"), <<TypeIs("w3", "WSTR16")>>)),
    Ok(Close("b")), RemoveFile(ComFile), Leave>>

\* A name that is not there, one too long, an Empty value, a node that is no list.
Refusals ==
  <<Ok(RootOf("root", "a")),
    Then(Child("nosuch", "root", "nosuch"), <<Result(0)>>),
    Then(DeclareIn("root", "a name of 64 characters" :> Int32(1)), <<Result(0)>>),
    Then(DeclareIn("root", [nothing |-> <<"EMPTY", "">>]), <<Result(0)>>),
    Then(ReadAs("root", {"LIST"}), <<Result(0)>>)>>

\* The step past the last child answers S_FALSE, and Invoke makes S_OK of it.
ComErrorsThroughInvoke ==
  <<Section("errors")>> \o Refusals \o
  <<Ok(ByPath("cfg", "a", "cfg")), Ok(Then(CursorOf("curs", "cfg"), <<HasKids("curs", 6)>>)),
    Then(Advance("curs", 6), <<Result(1), AtEnd("curs")>>), Leave>>

ComCApiProgram ==
  <<Create("a")>> \o
  C(ComLateBinding \o ComBuildLateBound \o ComDefaultMemberAndForEach \o
    ComNoDetachedNodes \o
    ComPathsAndPersistence \o ComErrorsThroughInvoke)
-------------------------------------------------------------------------------
(* dotNetExamples/MgrCApiTest: the COM program over InvokeMember.  A failure is
   an exception; only the calls under Err are caught, and main catches none.   *)

NetFile == "MgrCApiTestNet.p2p"


Err(step) == Ok(step)
Fails(step) == Try(Then(step, <<Result(0)>>))

NetLateBinding ==
  <<Section("late binding"), Err(Resolve("RootName")), Err(Resolve("Filename")),
    Err(Resolve("Size")), Err(Resolve("IsValid")), Err(Resolve("VersionString")),
    Fails(Resolve("RootNmae")), Resolve("VersionString"), Resolve("IsValid")>>

NetBuildLateBound ==
  <<Section("build"), Then(RootOf("root", "a"), <<NotNull("root")>>),
    Then(DeclareTo("cfg", "root", [cfg |-> Int32(0)]), <<NotNull("cfg")>>),
    Err(DeclareIn("cfg", Leaves))>> \o
  LookEach("cfg", LeafNames, LeafTypes, Drop("h")) \o
  <<DeclareIn("cfg", [tiny |-> UInt08(250)]),
    Then(Child("tiny", "cfg", "tiny"), <<TypeIs("tiny", "UINT08"), HasKids("cfg", 6)>>), Leave>>

NetDefaultMemberAndForEach ==
  <<Section("default member"),
    Then(ByPath("width", "a", "width"), <<Reads("width", Int32(1024))>>),
    Then(SetVia("width", Int32(1600)), <<Reads("width", Int32(1600))>>),
    ByPath("cfg", "a", "cfg"),
    Then(CursorOf("newEnum", "cfg"), <<NotNull("newEnum"), HasKids("newEnum", 6)>>), Leave>>

NetNoDetachedNodes ==
  <<Section("no detached"), ByPath("cfg", "a", "cfg"), Child("byChild", "cfg", "title"),
    Fails(Resolve("Item")), Fails(Resolve("IsLive")),
    Then(SetVia("byChild", Text("II")), <<Reads("byChild", Text("II"))>>),
    Then(Child("viaColl", "cfg", "title"), <<Reads("viaColl", Text("II"))>>),
    SetVia("viaColl", Text("III")),
    Then(Child("reread", "cfg", "title"), <<Reads("reread", Text("III"))>>), Leave>>

NetPathsAndPersistence ==
  <<Section("paths"), ByPath("width", "a", "width"),
    Then(NoteVia("width", "pos"), <<Resolves("a", "pos", "width")>>),
    Then(ByPos("byPos", "a", "pos"), <<PosOf("byPos", "pos")>>),
    Then(SetVia("byPos", Int32(1600)), <<Reads("width", Int32(1600))>>),
    RemoveFile(NetFile), Then(Save("a", NetFile), <<Filename("a", NetFile)>>),
    New("b", Large), Load("b", NetFile),
    Then(ByPath("w2", "b", "width"), <<Reads("w2", Int32(1600))>>),
    Then(ByPath("tiny2", "b", "tiny"), <<TypeIs("tiny2", "UINT08")>>),
    ByPath("cfg2", "b", "cfg"),
    Then(RenameIn("cfg2", "title", "caption"), <<Result(1), There("cfg2", "caption")>>),
    Then(RetypeIn("cfg2", "width", Text("")), <<Result(1)>>),
    Then(Child("w3", "cfg2", "width"), <<TypeIs("w3", "WSTR16")>>),
    Close("b"), RemoveFile(NetFile), Leave>>

NetErrorsThroughInvoke ==
  <<Section("errors"), RootOf("root", "a"),
    Fails(Child("nosuch", "root", "nosuch")),
    Fails(DeclareIn("root", "a name of 64 characters" :> Int32(1))),
    Fails(DeclareIn("root", [nothing |-> <<"EMPTY", "">>])), Fails(ReadAs("root", {"LIST"})),
    Fails(Child("nosuch", "root", "nosuch")),
    DeclareTo("bench", "root", [bench |-> Int32(0)]), DeclareIn("bench", [only |-> Int32(1)]),
    CursorOf("cur", "bench"), Err(Then(Advance("cur", 1), <<AtEnd("cur")>>)), Leave>>

NetCApiProgram ==
  <<Create("a")>> \o NetLateBinding \o NetBuildLateBound \o NetDefaultMemberAndForEach \o
  NetNoDetachedNodes \o NetPathsAndPersistence \o NetErrorsThroughInvoke \o <<Close("a")>>
===============================================================================
