----------------------------- MODULE EditorLabels -----------------------------
(***************************************************************************)
(* The labels of an open chapter and the segment manager that shows them:   *)
(* the chapter's data manager applies an edit to its labels, and the editor  *)
(* manager (frontend/src/edit/managers/editorManager.ts) applies the event    *)
(* that tells of it to the segment manager.                                 *)
(***************************************************************************)
EXTENDS SegmentManager, TextOps

VARIABLE chapter        \* the labels of the chapter's data manager

OpenChapter == Init /\ chapter = Shown

InsertTyped(pos, piece) ==
  /\ insertTextAt(pos, piece)
  /\ chapter' = ApplyTextOp(chapter, [op |-> "insert", at |-> pos, text |-> piece])

DeleteTyped(pos, n) ==
  /\ deleteTextAt(pos, n)
  /\ chapter' = ApplyTextOp(chapter, [op |-> "delete", at |-> pos, text |-> SubSeq(text, pos + 1, pos + n)])

LabelAdded(l) ==
  /\ \A k \in chapter : k.id # l.id
  /\ chapter' = chapter \cup {l}
  /\ addLabel(l.id, l.lo, l.hi)

LabelDeleted(l) == chapter' = chapter \ {l} /\ removeLabel(l.id)

LabelUpdated(k, l) ==
  /\ k.id = l.id
  /\ chapter' = (chapter \ {k}) \cup {l}
  /\ updateLabel(l.id, l.lo, l.hi)

Positions == {l \in [id : Label, lo : 0..Len(text), hi : 0..Len(text)] : l.lo < l.hi}

Edit ==
  \/ \E pos \in 0..Len(text), piece \in Piece : InsertTyped(pos, piece)
  \/ \E pos \in 0..Len(text) : \E n \in 1..Len(text) - pos : DeleteTyped(pos, n)
  \/ \E l \in Positions : LabelAdded(l)
  \/ \E l \in chapter : LabelDeleted(l)
  \/ \E k \in chapter, l \in Positions : LabelUpdated(k, l)

EditorSpec == OpenChapter /\ [][Edit]_<<vars, chapter>>

(* docs/editor/managers.md: the manager "applies the controller's            *)
(* textChanged/labelChanged triggers to the segment manager", so that the    *)
(* labels the editor shows are those of the chapter.                        *)
LabelsShown == Shown = chapter
=============================================================================
