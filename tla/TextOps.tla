------------------------------- MODULE TextOps --------------------------------
(***************************************************************************)
(* Text operations on a chapter and what they do to its labels              *)
(* (backend/src/novels/utils.py).  An insertion at [at, at) and a deletion   *)
(* of [at, at + Len(text)) remove the labels they cut and move those behind. *)
(* A label covers [lo, hi); text is a sequence of characters, never empty in  *)
(* an operation: an empty one would change nothing.                         *)
(***************************************************************************)
EXTENDS Integers, Sequences

End(op) == IF op.op = "insert" THEN op.at ELSE op.at + Len(op.text)
Delta(op) == IF op.op = "insert" THEN Len(op.text) ELSE 0 - Len(op.text)
Moved(l, op) == [l EXCEPT !.lo = @ + Delta(op), !.hi = @ + Delta(op)]

Valid(t, op) ==
    IF op.op = "insert" THEN op.at <= Len(t)
    ELSE End(op) <= Len(t) /\ SubSeq(t, op.at + 1, End(op)) = op.text

Edited(t, op) ==
    IF op.op = "insert" THEN SubSeq(t, 1, op.at) \o op.text \o SubSeq(t, op.at + 1, Len(t))
                        ELSE SubSeq(t, 1, op.at) \o SubSeq(t, End(op) + 1, Len(t))

\* Mutant: labels that the operation cuts are kept.
ApplyTextOpCut(ls, op) == {Moved(l, op) : l \in {x \in ls : x.lo >= End(op)}}
                            \cup {l \in ls : l.lo < End(op)}

ApplyTextOp(ls, op) == {Moved(l, op) : l \in {x \in ls : x.lo >= End(op)}}
                         \cup {l \in ls : l.hi <= op.at}

Overlaps(ls, lo, hi) == \E l \in ls : l.lo < hi /\ lo < l.hi
=============================================================================
