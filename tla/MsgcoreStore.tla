----------------------------- MODULE MsgcoreStore -----------------------------
(***************************************************************************)
(* A Msgcore store, external to the repository, as its example programs    *)
(* use it: one heap that owns a tree of named fields, gives every field a  *)
(* position, counts registrations on positions, and is saved as an image.  *)
(*                                                                         *)
(* In most of these programs a name occurs in one place of a tree, so a    *)
(* field is its name, and Under says what lies under it; in those about    *)
(* trees a field is its path, order has its children in their order, and   *)
(* kept the values it has put aside.                                       *)
(* A position is free again once its field is deleted.  A heap's size is   *)
(* its allocation: how many fields it has had room for.                    *)
(***************************************************************************)
EXTENDS Naturals, FiniteSets, Sequences, TLC
LOCAL INSTANCE FiniteSetsExt

Root == ""
NoFile == <<"", "">>   \* no file has been named

Under == [Stock |-> {"SKU1001", "SKU1002", "SKU1003", "SKU1004"}, SKU1002 |-> {"unit"},
          window |-> {"width", "height", "title"}, network |-> {"host", "port"},
          bulk |-> {"b0", "b1", "b2"},
          Config |-> {"Network", "Proxy"}, Network |-> {"Host", "Port"}, Proxy |-> {"ProxyHost"},
          Device |-> {"Serial", "Revision"}, Inbox |-> {"draft", "letter"}, Outbox |-> {"sent"},
          cfg |-> {"width", "scale", "title", "caption", "visible", "big", "tiny"},
          bench |-> {"only"}]

Below(n) == IF n \in DOMAIN Under THEN Under[n] ELSE {}
Nested == UNION {Under[n] : n \in DOMAIN Under}
Children(s, n) ==
  DOMAIN s.val \cap (IF n = Root THEN DOMAIN s.val \ Nested ELSE Below(n))
Subtree(n) == {n} \cup Below(n) \cup UNION {Below(c) : c \in Below(n)}

Larger(a, b) == IF a < b THEN b ELSE a

\* New fields, in any fixed order, take the lowest positions that are free.
FreePos(pos) == Min((1..(Cardinality(DOMAIN pos) + 1)) \ {pos[n] : n \in DOMAIN pos})
Allocated(pos, new) == FoldSet(LAMBDA n, held : (n :> FreePos(held)) @@ held, pos, new)

Empty(bytes) ==
  [open |-> TRUE, val |-> <<>>, pos |-> <<>>, size |-> bytes, dirty |-> TRUE,
   file |-> NoFile, holds |-> FALSE, name |-> "P2PmsgMgr name", arms |-> {}, sink |-> FALSE,
   order |-> <<>>, attr |-> <<>>, kept |-> <<>>]
Closed == [Empty(0) EXCEPT !.open = FALSE]

\* A declared field replaces the value of one that is there.
Declared(s, tree) ==
  [s EXCEPT !.val = tree @@ @, !.dirty = TRUE,
            !.pos = Allocated(@, DOMAIN tree \ DOMAIN s.val),
            !.size = Larger(@, Cardinality(DOMAIN s.val \cup DOMAIN tree))]

\* Deleting frees the positions and drops every registration on them.
Deleted(s, names) ==
  LET gone == UNION {Subtree(n) : n \in names}
      stay == DOMAIN s.val \ gone
  IN  [s EXCEPT !.val = [n \in stay |-> s.val[n]], !.pos = [n \in stay |-> s.pos[n]],
                !.arms = {a \in @ : ~ \E n \in gone \cap DOMAIN s.pos : a[1] = s.pos[n]},
                !.dirty = TRUE]

\* A field that is renamed or moved keeps its value and its position.
Renamed(s, from, to) ==
  LET new(f) == [n \in (DOMAIN f \ {from}) \cup {to} |-> IF n = to THEN f[from] ELSE f[n]]
  IN  [s EXCEPT !.val = new(@), !.pos = new(@), !.dirty = TRUE]

At(s, pos) == {n \in DOMAIN s.pos : s.pos[n] = pos}

\* What a save writes, a file that is no image, and what a load makes of an image.
Image(s) == [val |-> s.val, pos |-> s.pos, size |-> s.size, name |-> s.name,
             order |-> s.order, attr |-> s.attr, kept |-> s.kept, good |-> TRUE]
Junk == [Image(Closed) EXCEPT !.good = FALSE]
Loaded(s, path, image) ==
  [s EXCEPT !.val = image.val, !.pos = image.pos, !.size = image.size, !.name = image.name,
            !.order = image.order, !.attr = image.attr, !.kept = image.kept,
            !.dirty = FALSE, !.file = path, !.arms = {}]
===============================================================================
