--------------------------- MODULE MCSegmentManager ---------------------------
(* Chapters of three characters with up to two labels, and the empty chapter. *)
EXTENDS SegmentManager

CONSTANT MaxPiece       \* bound: length of a piece that is typed

Pieces == UNION {[1..n -> Char] : n \in 1..MaxPiece}

Texts == [1..3 -> Char]
Over == {l \in [id : Label, lo : 0..3, hi : 0..3] : l.lo < l.hi}
Rows == {<<>>} \cup {<<l>> : l \in Over} \cup {<<l, k>> : l, k \in Over}
Chapters ==
  {[text |-> <<>>, labels |-> <<>>]}
    \cup {[text |-> t, labels |-> ls] : t \in Texts, ls \in {r \in Rows : Cardinality(IdsOf(r)) = Len(r)}}

Interchangeable == Permutations(Label) \cup Permutations(Char)
=============================================================================
