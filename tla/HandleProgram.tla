---------------------------- MODULE HandleProgram ----------------------------
(***************************************************************************)
(* The calls that go through handles.  Over the flat C interface a handle  *)
(* is an alias of a heap node, or a copy that is connected to nothing, and *)
(* must be destroyed; over MsgFacade and COM it is a route that every call *)
(* follows again.                                                          *)
(***************************************************************************)
EXTENDS StoreProgram

\* The last is of the names a script asks for and no longer finds.
Member == {"Root", "Open", "Save", "Close", "FieldAt", "RootName", "Filename", "Dirty", "Size",
           "IsValid", "PathOf", "CreateNew", "TypeName", "VersionString", "Clear", "RenameRoot",
           "IsValidName"}
BadName == {"a.b", "a name of 64 characters", "-"}

AtStep(p, do) == Running(p) /\ me[p].pc <= Len(Steps(p)) /\ Op(p).do = do
AtVia(p, do) == AtStep(p, do) /\ Reach(me[p], Op(p).arg.via)
ViaHandle(p) == me[p].held[Op(p).arg.via]
ViaStore(p) == StoreOf(me[p], ViaHandle(p))

Live(h, n) == [of |-> h, node |-> n, live |-> TRUE, copy |-> Closed, moved |-> FALSE, at |-> 0,
               up |-> <<>>]
Detached(h, n, s) == [Live(h, n) EXCEPT !.live = FALSE, !.copy = s]

\* The call answers a handle, in a variable that may have named another.
Given(m, x, handle) ==
  [m EXCEPT !.held = (x :> handle) @@ @, !.spent = @ \ {x}, !.result = 1]
Gets(p, handle) == Becomes(p, Given(me[p], Op(p).arg.to, handle))

GetRoot(p) == AtOp(p, "root") /\ Gets(p, Live(Op(p).of, Root))
AsField(p) == AtOp(p, "copy") /\ Gets(p, Detached(Op(p).of, Root, S(p)))

\* Over the flat interface, what is found by its position is a copy.
FieldByPos(p) ==
  /\ AtOp(p, "byPos")
  /\ LET at == At(S(p), me[p].note[Op(p).arg.arg]) IN
     IF at = {} THEN Refused(p)
     ELSE \E n \in at : Gets(p, IF port[p] \in Flat THEN Detached(Op(p).of, n, S(p))
                                ELSE Live(Op(p).of, n))

FieldByPath(p) ==
  /\ AtOp(p, "byPath")
  /\ IF Op(p).arg.arg \in DOMAIN S(p).val THEN Gets(p, Live(Op(p).of, Op(p).arg.arg))
     ELSE Refused(p)

GetChild(p) ==
  /\ AtVia(p, "child")
  /\ IF Op(p).arg.arg \in Kids(me[p], Op(p).arg.via)
     THEN Gets(p, [ViaHandle(p) EXCEPT !.node = Op(p).arg.arg])
     ELSE Refused(p)

OpenCursor(p) == AtVia(p, "cursor") /\ Gets(p, [ViaHandle(p) EXCEPT !.at = 0])

\* The cursor stops behind the last child; IDispatch makes a success of S_FALSE.
NextChild(p) ==
  /\ AtVia(p, "advance")
  /\ LET y == Op(p).arg.via
         end == Cardinality(Kids(me[p], y))
         to == ViaHandle(p).at + Op(p).arg.arg
     IN  Becomes(p, [me[p] EXCEPT !.held[y].at = IF to < end THEN to ELSE end,
                                  !.result = IF to >= end /\ port[p] = "capiLight" THEN 2 ELSE 1])

\* MUTANT of Written: a write through a copy reaches the store it was taken from.
WrittenAnyway(p, m, s) ==
  IF ViaHandle(p).live THEN [m EXCEPT !.store[ViaHandle(p).of] = s, !.result = 1]
  ELSE [m EXCEPT !.store[ViaHandle(p).of].val = s.val, !.store[ViaHandle(p).of].pos = s.pos]

\* A write through a live handle lands in the store, one through a copy in the copy.
Written(p, m, s) ==
  IF ViaHandle(p).live THEN [m EXCEPT !.store[ViaHandle(p).of] = s, !.result = 1]
  ELSE [m EXCEPT !.held[Op(p).arg.via].copy = s, !.result = 1]

Declarable(tree) == \A n \in DOMAIN tree : n \notin BadName /\ tree[n][1] # "EMPTY"

DeclareChild(p) ==
  /\ AtVia(p, "declareIn") \/ AtVia(p, "declareTo")
  /\ LET tree == Op(p).arg.arg
         m == Written(p, me[p], Declared(ViaStore(p), tree))
     IN  IF ~Declarable(tree) THEN Refused(p)
         ELSE IF Op(p).do = "declareIn" THEN Becomes(p, m)
         ELSE \E n \in DOMAIN tree :
                Becomes(p, Given(m, Op(p).arg.to, [ViaHandle(p) EXCEPT !.node = n]))

SetValue(p) ==
  /\ AtVia(p, "setVia")
  /\ LET n == ViaHandle(p).node
         s == ViaStore(p)
     IN  IF Op(p).arg.arg[1] = "WSTR16" /\ s.val[n][1] # "WSTR16" THEN Refused(p)
         ELSE Becomes(p, Written(p, me[p], [s EXCEPT !.val[n] = Op(p).arg.arg, !.dirty = TRUE]))

\* A child by its name: renamed, moved to the node of another handle, or retyped.
RenameOrMove(p) ==
  /\ AtVia(p, "renameIn") \/ AtVia(p, "moveIn")
  /\ LET names == Op(p).arg.arg
         allowed == /\ names[1] \in Kids(me[p], Op(p).arg.via) /\ names[2] \notin BadName
                    /\ Op(p).do = "moveIn" => Reach(me[p], Op(p).arg.to)
     IN  IF allowed THEN Becomes(p, Written(p, me[p], Renamed(ViaStore(p), names[1], names[2])))
         ELSE Refused(p)

RetypeChild(p) ==
  /\ AtVia(p, "retypeIn")
  /\ LET n == Op(p).arg.arg[1] IN
     IF n \in Kids(me[p], Op(p).arg.via)
     THEN Becomes(p, Written(p, me[p], [ViaStore(p) EXCEPT !.val[n] = Op(p).arg.arg[2],
                                                           !.dirty = TRUE]))
     ELSE Refused(p)

GetPos(p) ==
  /\ AtVia(p, "noteVia")
  /\ Becomes(p, [me[p] EXCEPT !.note[Op(p).arg.arg] = ViaStore(p).pos[ViaHandle(p).node],
                              !.result = 1])

\* A tolerant read: of a cell of another family it answers an error.
TolerantRead(p) ==
  /\ AtVia(p, "readAs")
  /\ IF ViaHandle(p).node # Root /\ Cell(me[p], Op(p).arg.via)[1] \in Op(p).arg.arg
     THEN Becomes(p, [me[p] EXCEPT !.result = 1])
     ELSE Refused(p)

\* A member is looked up by its name when it is called.
ResolveMember(p) ==
  /\ AtStep(p, "resolve")
  /\ IF Op(p).arg \in Member THEN Becomes(p, [me[p] EXCEPT !.result = 1]) ELSE Refused(p)

CreateLibrary(p) == AtStep(p, "library") /\ Becomes(p, [me[p] EXCEPT !.result = 1])

\* MUTANT of DropHandle: the handle is not given back.
DropNothing(p) ==
  (AtStep(p, "drop") \/ AtStep(p, "dropIf")) /\ Becomes(p, me[p])

\* NULL may be destroyed, but not released through.
DropHandle(p) ==
  /\ AtStep(p, "drop") \/ AtStep(p, "dropIf")
  /\ LET x == Op(p).arg IN
     IF ~Null(me[p], x)
     THEN Becomes(p, [me[p] EXCEPT !.held = [y \in DOMAIN @ \ {x} |-> @[y]],
                                   !.spent = @ \cup {x}])
     ELSE IF port[p] = "capiLight" /\ Op(p).do = "drop" THEN Thrown(p, me[p])
     ELSE Becomes(p, me[p])

LeaveScope(p) == AtStep(p, "leave") /\ Becomes(p, [me[p] EXCEPT !.held = <<>>, !.spent = {}])

\* Through NULL, a closed store or a field that is gone: an error, where it is looked
\* at, and a fault where it is not.
OutOfReach(p) ==
  /\ Running(p) /\ me[p].pc <= Len(Steps(p)) /\ Op(p).do \in Via
  /\ ~Reach(me[p], Op(p).arg.via)
  /\ IF port[p] = "capiLight" /\ Null(me[p], Op(p).arg.via) THEN Thrown(p, me[p]) ELSE Refused(p)

\* One of several declarations fails.
DeclareFault(p) ==
  /\ AtVia(p, "declareIn")
  /\ budget.faults > 0 /\ budget' = [budget EXCEPT !.faults = @ - 1]
  /\ LET tree == Op(p).arg.arg
         kind == IF ViaHandle(p).live THEN "declareIn" ELSE "declareCopy"
     IN  \E lost \in DOMAIN tree :
           LET m == [me[p] EXCEPT !.hit = @ \cup {kind, lost}]
               rest == Declared(ViaStore(p), [n \in DOMAIN tree \ {lost} |-> tree[n]])
           IN  IF Throws(p) /\ ~Op(p).try THEN Thrown(p, m)
               ELSE Done(p, [Written(p, m, rest) EXCEPT !.result = -1], disk)

HandleCall(p) ==
  \/ GetRoot(p) \/ AsField(p) \/ FieldByPos(p) \/ FieldByPath(p) \/ GetChild(p)
  \/ OpenCursor(p) \/ NextChild(p) \/ DeclareChild(p) \/ SetValue(p) \/ RenameOrMove(p)
  \/ RetypeChild(p) \/ GetPos(p) \/ TolerantRead(p) \/ ResolveMember(p) \/ CreateLibrary(p)
  \/ DropHandle(p) \/ LeaveScope(p) \/ OutOfReach(p)

HandleNext ==
  \/ Next
  \/ \E p \in Process : (HandleCall(p) /\ UNCHANGED budget) \/ DeclareFault(p)
===============================================================================
