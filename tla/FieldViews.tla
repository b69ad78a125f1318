------------------------------ MODULE FieldViews ------------------------------
(***************************************************************************)
(* Writing a store through typed views, as the FieldAccess examples do.  A *)
(* view is bound to the store's root or to a named child, which is found   *)
(* afresh on every access and created by the first write.  Each access     *)
(* retargets the store's cursor, so that a view bound to what SelectItem   *)
(* returned would follow the cursor instead.                               *)
(***************************************************************************)
EXTENDS Naturals, Sequences

CONSTANTS
  Writes,   \* what is written, in order: [view, name, type, value]
  Anchor    \* the child each view is bound to, "" for the root

Root == "."
Below(at, name) == at \o "." \o name

\* Mutant: the view holds the cursor item.
HeldItem(st, view) == IF Anchor[view] = "" THEN Root ELSE st.cursor

Resolve(st, view) == IF Anchor[view] = "" THEN Root ELSE Below(Root, Anchor[view])

\* The item, and the child it is under, exist after the write.
Write(st, w) ==
  LET at == Resolve(st, w.view)
      item == Below(at, w.name)
      holder == [type |-> "WSTR16", value |-> ""]
      old == [p \in DOMAIN st.fields \cup ({at} \ {Root}) |->
                IF p \in DOMAIN st.fields THEN st.fields[p] ELSE holder] IN
    [fields |-> [p \in DOMAIN old \cup {item} |->
                   IF p = item THEN [type |-> w.type, value |-> w.value] ELSE old[p]],
     cursor |-> item]

After[n \in 0..Len(Writes)] ==
  IF n = 0 THEN [fields |-> [p \in {} |-> ""], cursor |-> Root]
           ELSE Write(After[n - 1], Writes[n])

Built == After[Len(Writes)].fields

\* The CHECKs beside the writes: the long-hand call finds what a view wrote.
LongHand(w) == Below(IF Anchor[w.view] = "" THEN Root ELSE Below(Root, Anchor[w.view]), w.name)
Disagreeing ==
  {i \in 1..Len(Writes) :
     \/ LongHand(Writes[i]) \notin DOMAIN Built
     \/ Built[LongHand(Writes[i])] # [type |-> Writes[i].type, value |-> Writes[i].value]}
===============================================================================
