----------------------------- MODULE ProgramSteps -----------------------------
(***************************************************************************)
(* The calls the store programs of the five trees are made of, and what    *)
(* the programs check after them.  A step is a call on a store the program *)
(* holds under a name, with the checks that follow before the next call.   *)
(* A step that is tried answers an error; any other throws, in the trees   *)
(* whose library throws.                                                   *)
(***************************************************************************)
EXTENDS MsgcoreStore, Integers

Step(do, of, arg) == [do |-> do, of |-> of, arg |-> arg, checks |-> <<>>, try |-> FALSE]
Then(s, checks) == [s EXCEPT !.checks = checks]
Try(s) == [s EXCEPT !.try = TRUE]

Large == 20   \* a heap of 4 KB has room for every tree of the programs
Tiny == 1     \* one of 512 bytes has to grow

\* Sections, stores and files.
Section(title) == Step("section", "-", title)
Create(h) == Step("create", h, Large)        \* main's own store: a failure is SETUP
New(h, bytes) == Step("new", h, bytes)
Close(h) == Step("close", h, 0)
Load(h, path) == Step("load", h, path)
Save(h, path) == Step("save", h, path)
\* MUTANT of RemoveFile: the name is taken in another directory.
RemoveElsewhere(path) == Try(Step("remove", "-", "a name elsewhere"))
RemoveFile(path) == Try(Step("remove", "-", path))
WriteJunk(path) == Try(Step("junk", "-", path))

\* The tree.
Declare(h, tree) == Step("declare", h, tree)
Set(h, tree) == Step("set", h, tree)
Delete(h, names) == Step("delete", h, names)
Clear(h) == Step("clear", h, 0)
Rename(h, name) == Step("rename", h, name)
SetDirty(h, b) == Step("dirty", h, b)
Measure(h) == Step("measure", h, 0)

\* Positions, kept in slots, and registrations on them.
Note(h, n, slot) == Step("note", h, <<n, slot>>)
SetAt(h, slot, v) == Step("setAt", h, <<slot, v>>)
Sink(h, on) == Step("sink", h, on)
Arm(h, slot, mask) == Step("arm", h, <<slot, mask>>)
Disarm(h, slot, mask) == Step("disarm", h, <<slot, mask>>)
Fire(h, slot, kind) == Step("fire", h, <<slot, kind>>)
ClearSeen == Step("clearSeen", "-", 0)
ResetGate == Step("resetGate", "-", 0)
Hook(on) == Step("hook", "-", on)
Wait(n) == Step("wait", "-", n)
Pump == Step("pump", "-", 0)

\* Paging.
Pager(h, change) == Step("pager", h, change)
PageIn(h) == Step("page", h, <<"ins", FALSE>>)
PageOut(h, flush) == Step("page", h, <<"outs", flush>>)
PushPaging(h) == Try(Step("push", h, 0))
PopPaging(h) == Try(Step("pop", h, 0))
-------------------------------------------------------------------------------
(* What is checked: of a store, of the last call's result, of the events.  *)

Check(is, of, arg) == [is |-> is, of |-> of, arg |-> arg]

Result(n) == Check("result", "-", n)      \* 1 done, 0 refused as documented
Undone == Check("undone", "-", 0)         \* refused, for whatever reason
Has(h, names) == Check("has", h, names)
Lacks(h, names) == Check("lacks", h, names)
Val(h, tree) == Check("val", h, tree)
Count(h, n, k) == Check("count", h, <<n, k>>)
IsDirty(h, b) == Check("dirty", h, b)
Named(h, name) == Check("name", h, name)
Filename(h, path) == Check("file", h, path)
OnDisk(path) == Check("disk", "-", path)
Grown(h) == Check("grown", h, 1)          \* larger than measured
NotShrunk(h) == Check("grown", h, 0)
SameSize(h) == Check("size", h, 0)
PosIs(h, n, slot) == Check("pos", h, <<n, slot>>)
Resolves(h, slot, n) == Check("at", h, <<slot, {n}>>)
Nowhere(h, slot) == Check("at", h, <<slot, {}>>)
Seen(kinds, slot, path) == Check("seen", "-", <<kinds, slot, path>>)
SeenFirst(kind, slot, path) == Check("first", "-", <<kind, slot, path>>)
Reread(v) == Check("reread", "-", v)
Paged(counts) == Check("paged", "-", counts)

Ok(s) == Try([s EXCEPT !.checks = <<Result(1)>> \o @])   \* CHECK ( SUCCEEDED ( .. ) )
-------------------------------------------------------------------------------
(* The calls that go through handles: the flat C interface, the vtables of *)
(* MsgFacade, and IDispatch, where a handle is an object.  A step obtains  *)
(* the handle `to`, or works through the handle `via`; a value carries its *)
(* type.                                                                   *)

Handled(do, of, to, via, arg) == Step(do, of, [to |-> to, via |-> via, arg |-> arg])

\* Handles are obtained from a store or from another handle.
RootOf(x, h) == Handled("root", h, x, "-", 0)
CopyOf(x, h) == Handled("copy", h, x, "-", 0)            \* detached
ByPos(x, h, slot) == Handled("byPos", h, x, "-", slot)
ByPath(x, h, n) == Handled("byPath", h, x, "-", n)
Child(x, y, n) == Handled("child", "-", x, y, n)
CursorOf(x, y) == Handled("cursor", "-", x, y, 0)
DeclareTo(x, y, tree) == Handled("declareTo", "-", x, y, tree)

\* What the call answers is destroyed at once, or was not asked for.
DeclareIn(y, tree) == Handled("declareIn", "-", "-", y, tree)
SetVia(y, v) == Handled("setVia", "-", "-", y, v)
RenameIn(y, from, to) == Handled("renameIn", "-", "-", y, <<from, to>>)
MoveIn(y, z, from, to) == Handled("moveIn", "-", z, y, <<from, to>>)
RetypeIn(y, n, v) == Handled("retypeIn", "-", "-", y, <<n, v>>)
NoteVia(y, slot) == Handled("noteVia", "-", "-", y, slot)
ReadAs(y, types) == Handled("readAs", "-", "-", y, types)
Advance(y, k) == Handled("advance", "-", "-", y, k)

Gives == {"root", "copy", "byPos", "byPath", "child", "cursor", "declareTo"}
Via == {"child", "cursor", "declareTo", "declareIn", "setVia", "renameIn", "moveIn", "retypeIn",
        "noteVia", "readAs", "advance"}
HandleOps == Gives \cup (Via \ {"moveIn"})

Drop(x) == Step("drop", "-", x)
DropIf(x) == Step("dropIf", "-", x)     \* unless it is NULL
Leave == Step("leave", "-", 0)          \* the section's objects go out of scope

Library == Step("library", "-", 0)
Resolve(name) == Step("resolve", "-", name)

\* Typed values.
Int32(v) == <<"INT32", v>>
Int64(v) == <<"INT64", v>>
Dbl(v) == <<"DOUBLE", v>>
Bool(v) == <<"BOOL", v>>
Text(v) == <<"WSTR16", v>>
Blob(v) == <<"BLOB16", v>>
UInt08(v) == <<"UINT08", v>>
AnyInt == {"INT32", "INT64", "BOOL", "UINT08"}

NotNull(x) == Check("null", x, FALSE)
IsNull(x) == Check("null", x, TRUE)
Reads(x, v) == Check("reads", x, v)
ReadsIf(x, v) == Check("readsIf", x, v)   \* CHECK ( h && .. )
TypeIs(x, type) == Check("type", x, type)
There(x, n) == Check("there", x, n)
NotThere(x, n) == Check("notThere", x, n)
HasKids(x, k) == Check("kids", x, k)
PosOf(x, slot) == Check("posOf", x, slot)
AtEnd(x) == Check("atEnd", x, 0)

\* A child is looked up, looked at, and given back.
Look(x, y, n, checks) == <<Then(Child(x, y, n), checks), Drop(x)>>

\* Each child of `types` is looked up, and its type checked.
LookEach(y, names, types, drop) ==
  [i \in 1..(2 * Len(names)) |->
     LET k == (i + 1) \div 2 IN
     IF i % 2 = 1 THEN Then(Child("h", y, names[k]), <<NotNull("h"), TypeIs("h", types[k])>>)
     ELSE drop]

\* Calls of the flat interface answer NULL or 0; they do not throw.
C(steps) == [i \in DOMAIN steps |-> Try(steps[i])]
===============================================================================
