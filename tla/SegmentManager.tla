---------------------------- MODULE SegmentManager ----------------------------
(***************************************************************************)
(* The editor's model of one chapter's text and labels                      *)
(* (frontend/src/edit/lib/text-model/core/segmentManager.ts, with gap = 0 as *)
(* the editor builds it): a row of segments that tile the text.  A label     *)
(* lies in one segment, at an offset from its start, and a second copy of    *)
(* that offset is kept in labelsById.  A segment is named by its place in    *)
(* the row, so segmentIdsByLabelId is the place of the segment that lists    *)
(* the label.  The branches for a text gap that is too short to split are    *)
(* left out: no gap is shorter than 0.                                      *)
(***************************************************************************)
EXTENDS Integers, SequencesExt

CONSTANTS Label,        \* label ids
          Char,         \* characters
          Piece,        \* pieces of text that are typed
          Chapter,      \* what may be opened: records [text, labels], labels a sequence
          MaxLength     \* bound: length of the text

(* Nothing typed is empty (insertTextAt returns at once), and a chapter's    *)
(* labels have ids of their own and cover some of its text.                 *)
LabelRecord == [id : Label, lo : Nat, hi : Nat]
ChapterAssumption ==
  /\ Piece \subseteq Seq(Char) \ {<<>>}
  /\ Chapter \subseteq [text : Seq(Char), labels : Seq(LabelRecord)]
  /\ \A c \in Chapter : \A m, n \in DOMAIN c.labels :
       /\ c.labels[n].lo < c.labels[n].hi /\ c.labels[n].hi <= Len(c.text)
       /\ c.labels[m].id = c.labels[n].id => m = n
ASSUME ChapterAssumption

VARIABLES text,
          segments,     \* records [start, end, text, labels], labels a sequence
          labelsById,   \* records [id, lo, hi], offsets in the label's segment
          threw         \* the last operation ended in an exception

vars == <<text, segments, labelsById, threw>>

------------------------------------------------------------------------------
(* Values of the variables during an operation.                              *)
Now == [text |-> text, segments |-> segments, labelsById |-> labelsById, threw |-> FALSE]
Becomes(s) ==
  /\ text' = s.text /\ segments' = s.segments
  /\ labelsById' = s.labelsById /\ threw' = s.threw

By(l, d) == [l EXCEPT !.lo = @ + d, !.hi = @ + d]
AllBy(ls, d) == [i \in DOMAIN ls |-> By(ls[i], d)]
IdsOf(ls) == {ls[i].id : i \in DOMAIN ls}

(* A set in the order that a set of pairs puts its members in, and the       *)
(* members of a row that stand at some places.                              *)
Ordered(D, R) ==
  CHOOSE q \in [1..Cardinality(D) -> D] : \A n \in DOMAIN q : \A m \in 1..n - 1 : <<q[m], q[n]>> \in R
Those(ls, D) ==
  LET q == Ordered(D, {p \in D \X D : p[1] < p[2]}) IN [n \in 1..Cardinality(D) |-> ls[q[n]]]
LeftOf(ls, pos)  == Those(ls, {n \in DOMAIN ls : ls[n].hi <= pos})
RightOf(ls, pos) == Those(ls, {n \in DOMAIN ls : ls[n].lo >= pos})
LastEnd(ls)        == Max({0} \cup {l.hi : l \in ToSet(ls)})
FirstStart(ls, end) == Min({end} \cup {l.lo : l \in ToSet(ls)})

Without(index, ids) == {l \in index : l.id \notin ids}

\* Mutant: the offsets in labelsById are left as they were.
ResetNothing(index, ls) == index

Reset(index, ls) == Without(index, IdsOf(ls)) \cup ToSet(ls)

Segment(start, t, ls) == [start |-> start, end |-> start + Len(t), text |-> t, labels |-> ls]

Shifted(g, d) == [g EXCEPT !.start = @ + d, !.end = @ + d]

\* Mutant: the segment right behind an edit is not moved.
MovedBehind(row, i, d) ==
  [k \in DOMAIN row |-> IF k <= i THEN row[k] ELSE Shifted(row[k], d)]

MovedFrom(row, i, d) ==
  [k \in DOMAIN row |-> IF k < i THEN row[k] ELSE Shifted(row[k], d)]
Resized(row, k, t, d) == MovedFrom([row EXCEPT ![k].text = t, ![k].end = @ + d], k + 1, d)
Splice(row, i, j, new) == SubSeq(row, 1, i - 1) \o new \o SubSeq(row, j, Len(row))
Spliced(row, i, j, new, d) == MovedFrom(Splice(row, i, j, new), i + Len(new), d)
Cut(t, a, b) == SubSeq(t, 1, a) \o SubSeq(t, b + 1, Len(t))
Paste(t, pos, piece) == SubSeq(t, 1, pos) \o piece \o SubSeq(t, pos + 1, Len(t))

\* The segment that contains a position, and the segments i..j-1 that a range touches.
querySegment(row, pos) == CHOOSE i \in DOMAIN row : row[i].start <= pos /\ pos < row[i].end
First(row, a) == CHOOSE i \in DOMAIN row : row[i].end > a /\ \A k \in 1..i - 1 : row[k].end <= a
Behind(row, b) ==
  CHOOSE j \in 1..Len(row) + 1 : /\ j \in DOMAIN row => row[j].start >= b
                                 /\ \A k \in 1..j - 1 : row[k].start < b

validateSplit(g, pos) == \A i \in DOMAIN g.labels : ~(g.labels[i].lo < pos /\ pos < g.labels[i].hi)

\* What a segment shows before an offset, and from there.
LeftPart(g, pos) == Segment(g.start, SubSeq(g.text, 1, pos), LeftOf(g.labels, pos))
RightPart(g, pos) ==
  Segment(g.start + pos, SubSeq(g.text, pos + 1, Len(g.text)), AllBy(RightOf(g.labels, pos), 0 - pos))

(* Segment i is split at an offset; an exception ends the operation.          *)
splitSegment(s, i, pos) ==
  LET g == s.segments[i]
  IN  IF s.threw \/ pos \in {0, Len(g.text)} THEN s
      ELSE IF ~validateSplit(g, pos) \/ pos > Len(g.text) \/ g.start >= Len(s.text)
      THEN [s EXCEPT !.threw = TRUE]
      ELSE [s EXCEPT !.labelsById = Reset(@, RightPart(g, pos).labels),
                     !.segments = Splice(@, i, i + 1, <<LeftPart(g, pos), RightPart(g, pos)>>)]

mergeSegments(s, i, j) ==
  LET all[n \in i - 1..j - 1] ==
        IF n = i - 1 THEN [text |-> <<>>, labels |-> <<>>]
        ELSE LET acc == all[n - 1]
                 g   == s.segments[n]
             IN  [text   |-> acc.text \o g.text,
                  labels |-> acc.labels \o AllBy(g.labels, Len(acc.text))]
      one == all[j - 1]
  IN  [s EXCEPT !.labelsById = Reset(@, one.labels),
                !.segments = Splice(@, i, j, <<Segment(s.segments[i].start, one.text, one.labels)>>)]

(* What labels cover of label x, from the label that starts last to the first, *)
(* and the parts that they leave free, as their starts in ascending order.  A *)
(* label that reaches over a later one is not looked at again.               *)
Clip(x, l) == [lo |-> IF l.lo > x.lo THEN l.lo ELSE x.lo, hi |-> IF l.hi < x.hi THEN l.hi ELSE x.hi]
Covered(x, ls) ==
  LET part   == [i \in DOMAIN ls |-> Clip(x, ls[i])]
      inside == {i \in DOMAIN ls : part[i].lo < part[i].hi}
      order  == Ordered(inside, {p \in inside \X inside :
                                   \/ part[p[1]].lo > part[p[2]].lo
                                   \/ part[p[1]].lo = part[p[2]].lo /\ p[1] < p[2]})
  IN  [n \in 1..Cardinality(inside) |-> part[order[n]]]
Walked(acc, l) ==
  IF l.lo >= acc.cursor THEN acc
  ELSE [cursor |-> l.lo, free |-> IF l.hi < acc.cursor THEN <<l.hi>> \o acc.free ELSE acc.free]
getUncoveredSubintervals(x, ls) ==
  LET parts == Covered(x, ls)
      walk[n \in 0..Len(parts)] ==
        IF n = 0 THEN [cursor |-> x.hi, free |-> <<>>] ELSE Walked(walk[n - 1], parts[n])
      last == walk[Len(parts)]
  IN  IF x.lo < last.cursor THEN <<x.lo>> \o last.free ELSE last.free

\* Segment i keeps these of its labels.
Keep(s, i, ls) ==
  [s EXCEPT !.labelsById = Without(@, IdsOf(s.segments[i].labels) \ IdsOf(ls)), !.segments[i].labels = ls]

------------------------------------------------------------------------------
(* A label is stored in the segment made of those it touches.                *)
Added(s, id, lo, hi) ==
  LET i   == First(s.segments, lo)
      one == mergeSegments(s, i, Behind(s.segments, hi))
      l   == By([id |-> id, lo |-> lo, hi |-> hi], 0 - one.segments[i].start)
  IN  [one EXCEPT !.labelsById = @ \cup {l}, !.segments[i].labels = Append(@, l)]

(* The segment is split where the label leaves text uncovered.  Each split   *)
(* is applied to the first half that the one before it left.                 *)
Removed(s, id) ==
  LET i    == CHOOSE k \in DOMAIN s.segments : id \in IdsOf(s.segments[k].labels)
      x    == CHOOSE l \in s.labelsById : l.id = id
      ls   == s.segments[i].labels
      rest == Those(ls, {n \in DOMAIN ls : ls[n].id # id})
      free == getUncoveredSubintervals(x, rest)
      cut[n \in 0..Len(free)] ==
        IF n = 0 THEN Keep(s, i, rest)
        ELSE splitSegment(cut[n - 1], i, free[n])
  IN  cut[Len(free)]

(* Text between labels gets a segment of its own; labels it falls into go.   *)
InsertedWithin(s, pos, piece) ==
  LET i    == querySegment(s.segments, pos)
      g    == s.segments[i]
      rel  == pos - g.start
      keep == Those(g.labels, {n \in DOMAIN g.labels : ~(g.labels[n].lo < rel /\ rel < g.labels[n].hi)})
      lo   == LastEnd(LeftOf(keep, rel))
      two  == splitSegment(splitSegment(Keep(s, i, keep), i, FirstStart(RightOf(keep, rel), Len(g.text))), i, lo)
      k    == IF lo > 0 THEN i + 1 ELSE i
      t    == Paste(two.segments[k].text, rel - lo, piece)
  IN  [two EXCEPT !.text = Paste(@, pos, piece), !.segments = Resized(@, k, t, Len(piece))]

\* At either end of the text it gets a segment of its own, too.
Inserted(s, pos, piece) ==
  LET i == IF pos = 0 THEN 1 ELSE Len(s.segments) + 1
  IN  IF pos \notin {0, Len(s.text)} THEN InsertedWithin(s, pos, piece)
      ELSE [s EXCEPT !.text = Paste(@, pos, piece),
                     !.segments = Spliced(@, i, i, <<Segment(pos, piece, <<>>)>>, Len(piece))]

(* Within one segment: its labels that touch [a, b) go, and what lies        *)
(* between those left of it and those right of it is split off and shortened. *)
DeletedWithin(s, i, a, b) ==
  LET g     == s.segments[i]
      from  == a - g.start
      to    == b - g.start
      left  == LeftOf(g.labels, from)
      right == RightOf(g.labels, to)
      lo    == LastEnd(left)
      two   == splitSegment(splitSegment(Keep(s, i, left \o right), i, FirstStart(right, Len(g.text))), i, lo)
      k     == IF lo > 0 THEN i + 1 ELSE i
      rest  == Cut(two.segments[k].text, from - lo, to - lo)
  IN  [two EXCEPT !.segments = IF rest = <<>> THEN Spliced(@, k, k + 1, <<>>, a - b)
                               ELSE Resized(@, k, rest, a - b)]

(* Across segments i..j-1: the first keeps its head, the last its tail.      *)
DeletedAcross(s, i, j, a, b) ==
  LET g    == s.segments[i]
      h    == s.segments[j - 1]
      tail == RightPart(h, b - h.start)
      kept == (IF a = g.start THEN <<>> ELSE <<LeftPart(g, a - g.start)>>)
           \o (IF b = h.end THEN <<>> ELSE <<Shifted(tail, a - b)>>)
      gone == (UNION {IdsOf(s.segments[k].labels) : k \in i..j - 1})
                \ (UNION {IdsOf(kept[k].labels) : k \in DOMAIN kept})
  IN  [s EXCEPT !.labelsById = Reset(Without(@, gone), tail.labels),
                !.segments = Spliced(@, i, j, kept, a - b)]

Deleted(s, a, b) ==
  LET i  == First(s.segments, a)
      j  == Behind(s.segments, b)
      s1 == [s EXCEPT !.text = Cut(@, a, b)]
  IN  IF j = i + 1 THEN DeletedWithin(s1, i, a, b) ELSE DeletedAcross(s1, i, j, a, b)

------------------------------------------------------------------------------
(* A chapter is opened: segments grow while labels, by their starts, overlap. *)
ByStart(ls) ==
  LET order == Ordered(DOMAIN ls, {p \in (DOMAIN ls) \X (DOMAIN ls) :
                                     \/ ls[p[1]].lo < ls[p[2]].lo
                                     \/ ls[p[1]].lo = ls[p[2]].lo /\ p[1] < p[2]})
  IN  [n \in DOMAIN ls |-> ls[order[n]]]
Stretch(t, a, b, inside) == IF a < b THEN <<Segment(a, SubSeq(t, a + 1, b), inside)>> ELSE <<>>
Closed(t, acc) == acc.row \o Stretch(t, acc.lo, acc.hi, acc.inside)
Grown(t, acc, l) ==
  IF l.lo < acc.hi
  THEN [acc EXCEPT !.hi = Max({@, l.hi}), !.inside = Append(@, By(l, 0 - acc.lo))]
  ELSE [row |-> Closed(t, acc) \o Stretch(t, acc.hi, l.lo, <<>>),
        lo |-> l.lo, hi |-> l.hi, inside |-> <<By(l, 0 - l.lo)>>]
makeBasicSegmenter(t, ls) ==
  LET sorted == ByStart(ls)
      grown[n \in 0..Len(ls)] ==
        IF n = 0 THEN [row |-> <<>>, lo |-> 0, hi |-> 0, inside |-> <<>>] ELSE Grown(t, grown[n - 1], sorted[n])
      last == grown[Len(ls)]
  IN  Closed(t, last) \o Stretch(t, last.hi, Len(t), <<>>)

Init ==
  \E c \in Chapter :
    /\ text = c.text
    /\ segments = makeBasicSegmenter(c.text, c.labels)
    /\ labelsById = UNION {ToSet(segments[i].labels) : i \in DOMAIN segments}
    /\ threw = FALSE

Ids == {l.id : l \in labelsById}

addLabel(id, lo, hi) == id \notin Ids /\ Becomes(Added(Now, id, lo, hi))
removeLabel(id) == id \in Ids /\ Becomes(Removed(Now, id))
updateLabel(id, lo, hi) ==
  LET s == Removed(Now, id)
  IN  id \in Ids /\ Becomes(IF s.threw THEN s ELSE Added(s, id, lo, hi))
insertTextAt(pos, piece) ==
  Len(text) + Len(piece) <= MaxLength /\ Becomes(Inserted(Now, pos, piece))
deleteTextAt(pos, n) == Becomes(Deleted(Now, pos, pos + n))

Next ==
  \/ \E id \in Label, hi \in 1..Len(text) : \E lo \in 0..hi - 1 :
        addLabel(id, lo, hi) \/ updateLabel(id, lo, hi)
  \/ \E id \in Label : removeLabel(id)
  \/ \E pos \in 0..Len(text), piece \in Piece : insertTextAt(pos, piece)
  \/ \E pos \in 0..Len(text) : \E n \in 1..Len(text) - pos : deleteTextAt(pos, n)

Spec == Init /\ [][Next]_vars

------------------------------------------------------------------------------
(* Labels as getLabel returns them, from either copy of their offsets.       *)
Shown ==
  UNION {{By(l, segments[i].start) : l \in ToSet(segments[i].labels)} : i \in DOMAIN segments}

(* The invariants of segmentManager.ts:92-98, and the agreement of the two   *)
(* copies: whatever the edits, splits and merges, and whatever throws, the    *)
(* segments cover the text without gaps or overlaps, none is empty, and each  *)
(* label has one place, within its segment and over at least one character.  *)
Tiles ==
  /\ FlattenSeq([i \in DOMAIN segments |-> segments[i].text]) = text
  /\ \A i \in DOMAIN segments :
       LET g == segments[i]
       IN  /\ g.text # <<>> /\ g.end = g.start + Len(g.text)
           /\ g.start = (IF i = 1 THEN 0 ELSE segments[i - 1].end)
           /\ \A n \in DOMAIN g.labels :
                0 <= g.labels[n].lo /\ g.labels[n].lo < g.labels[n].hi /\ g.labels[n].hi <= Len(g.text)
  /\ labelsById = UNION {ToSet(segments[i].labels) : i \in DOMAIN segments}
  /\ \A l, k \in Shown : l.id = k.id => l = k

(* The manager implements one text with labels that follow its edits, but    *)
(* for the two cases that FlatLabels names.                                 *)
Document == INSTANCE FlatLabels WITH labels <- Shown
ImplementsFlatLabels == Document!Spec
=============================================================================
