------------------------------ MODULE FlatLabels ------------------------------
(***************************************************************************)
(* What the editor's segment manager promises (the interface comments of    *)
(* frontend/src/edit/lib/text-model/core/segmentManager.ts): one text and    *)
(* labels at absolute positions that follow its edits.  It keeps the promise  *)
(* but for two cases, which are spelled out in HeldBack and MayThrow.        *)
(***************************************************************************)
EXTENDS TextOps

CONSTANTS Label,        \* label ids
          Piece         \* pieces of text that are typed

VARIABLES text,
          labels,       \* records [id, lo, hi]
          threw         \* the last operation ended in an exception

flat == <<text, labels, threw>>

(* The labels that stay in place when text is typed at pos, though they     *)
(* start there or behind: none, unless one of them starts exactly at pos.   *)
HeldBack(pos) ==
  {stay \in SUBSET {l \in labels : l.lo >= pos /\ pos > 0} :
     stay = {} \/ \E l \in stay : l.lo = pos}

(* A label x may not be removed cleanly if another one ends inside it and   *)
(* starts there too, or a third one covers that end.                        *)
MayThrow(x) ==
  \E k \in labels \ {x} :
    /\ x.lo < k.hi /\ k.hi < x.hi
    /\ x.lo < k.lo \/ \E j \in labels \ {k, x} : j.lo < k.hi /\ k.hi < j.hi

Insert(pos, piece) ==
  LET op == [op |-> "insert", at |-> pos, text |-> piece]
  IN  /\ text' = Edited(text, op)
      /\ \E stay \in HeldBack(pos) : labels' = ApplyTextOp(labels \ stay, op) \cup stay
      /\ threw' = FALSE

Delete(pos, n) ==
  LET op == [op |-> "delete", at |-> pos, text |-> SubSeq(text, pos + 1, pos + n)]
  IN  /\ text' = Edited(text, op)
      /\ labels' = ApplyTextOp(labels, op)
      /\ threw' = FALSE

Add(l) ==
  /\ labels' = labels \cup {l} /\ threw' = FALSE /\ UNCHANGED text

Remove(x) ==
  /\ labels' = labels \ {x}
  /\ threw' => MayThrow(x)
  /\ threw' \in BOOLEAN /\ UNCHANGED text

(* An update that throws has lost the label.                                *)
Update(x, l) ==
  /\ \/ labels' = (labels \ {x}) \cup {l} /\ threw' = FALSE
     \/ labels' = labels \ {x} /\ threw' = TRUE /\ MayThrow(x)
  /\ UNCHANGED text

LabelsOver(t) == {l \in [id : Label, lo : 0..Len(t), hi : 0..Len(t)] : l.lo < l.hi}
Ids == {l.id : l \in labels}

Init ==
  /\ labels \subseteq LabelsOver(text) /\ \A l, k \in labels : l.id = k.id => l = k
  /\ threw = FALSE

Next ==
  \/ \E pos \in 0..Len(text), piece \in Piece : Insert(pos, piece)
  \/ \E pos \in 0..Len(text) : \E n \in 1..Len(text) - pos : Delete(pos, n)
  \/ \E l \in LabelsOver(text) : l.id \notin Ids /\ Add(l)
  \/ \E x \in labels : Remove(x)
  \/ \E x \in labels, l \in LabelsOver(text) : l.id = x.id /\ Update(x, l)

Spec == Init /\ [][Next]_flat
=============================================================================
