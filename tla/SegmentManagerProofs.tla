------------------------- MODULE SegmentManagerProofs -------------------------
(***************************************************************************)
(* Proofs about SegmentManager: whatever is typed, deleted, labelled or      *)
(* unlabelled, the segments tile the text, a label lies in one of them, both *)
(* copies of its offsets agree, and what is shown is the document that       *)
(* FlatLabels promises.                                                     *)
(***************************************************************************)
EXTENDS SegmentManager, FiniteSetTheorems, WellFoundedInduction, TLAPS

Part == [start : Nat, end : Nat, text : Seq(Char), labels : Seq(LabelRecord)]
State == [text : Seq(Char), segments : Seq(Part), labelsById : SUBSET LabelRecord, threw : BOOLEAN]

\* A segment is not empty, and its labels cover some of its text.
Whole(g) ==
  /\ g.text # <<>> /\ g.end = g.start + Len(g.text)
  /\ \A l \in ToSet(g.labels) : l.lo < l.hi /\ l.hi <= Len(g.text)

\* Where segment i of a row starts, or the row ends.
Edge(row, i) == IF i = 1 THEN 0 ELSE row[i - 1].end

Shows(g, t) == \A x \in 1..Len(g.text) : g.text[x] = t[g.start + x]

\* The first i - 1 segments of a row cover t from its start.
Tiled(row, t) ==
  /\ row \in Seq(Part)
  /\ Len(t) = Edge(row, Len(row) + 1)
  /\ \A i \in DOMAIN row : Whole(row[i]) /\ row[i].start = Edge(row, i) /\ Shows(row[i], t)

\* A label has one place in a row.
Placed(row) ==
  \A i, j \in DOMAIN row : \A l \in ToSet(row[i].labels), k \in ToSet(row[j].labels) :
    l.id = k.id => (i = j /\ l = k)

LabelsOf(row, D) == UNION {ToSet(row[i].labels) : i \in D}

Held(s, t) ==
  /\ Tiled(s.segments, t) /\ Placed(s.segments)
  /\ s.labelsById = LabelsOf(s.segments, DOMAIN s.segments)

LEMMA LeastNat ==
  ASSUME NEW T \in SUBSET Nat, T # {}
  PROVE  \E n \in T : \A m \in T : n <= m
<1> DEFINE R == OpToRel(<, Nat)
<1>1. IsWellFoundedOn(R, Nat)
  BY NatLessThanWellFounded
<1>2. \A x, y \in Nat : y < x => <<y, x>> \in R
  BY DEF OpToRel
<1> HIDE DEF R
<1>3. PICK n \in T : \A y \in T : ~(<<y, n>> \in R)
  BY <1>1, WFMin
<1>4. ASSUME NEW m \in T PROVE n <= m
  <2>1. ~(m < n)
    BY <1>2, <1>3
  <2> QED BY <2>1
<1> QED BY <1>4

------------------------------------------------------------------------------
(* A stretch of a row is replaced, and the rest is moved.                   *)

LEMMA ConcatParts ==
  \A a, b \in Seq(Part) :
    /\ (a \o b) \in Seq(Part) /\ Len(a \o b) = Len(a) + Len(b)
    /\ \A k \in 1..Len(a) : (a \o b)[k] = a[k]
    /\ \A k \in 1..Len(b) : (a \o b)[Len(a) + k] = b[k]
<1> TAKE a, b \in Seq(Part)
<1>1. (a \o b) \in Seq(Part) /\ Len(a \o b) = Len(a) + Len(b)
  OBVIOUS
<1>2. \A k \in 1..Len(a) : (a \o b)[k] = a[k]
  OBVIOUS
<1>3. \A k \in 1..Len(b) : (a \o b)[Len(a) + k] = b[k]
  OBVIOUS
<1> QED BY <1>1, <1>2, <1>3

LEMMA ConcatChars ==
  \A a, b \in Seq(Char) :
    /\ (a \o b) \in Seq(Char) /\ Len(a \o b) = Len(a) + Len(b)
    /\ \A k \in 1..Len(a) : (a \o b)[k] = a[k]
    /\ \A k \in 1..Len(b) : (a \o b)[Len(a) + k] = b[k]
<1> TAKE a, b \in Seq(Char)
<1>1. (a \o b) \in Seq(Char) /\ Len(a \o b) = Len(a) + Len(b)
  OBVIOUS
<1>2. \A k \in 1..Len(a) : (a \o b)[k] = a[k]
  OBVIOUS
<1>3. \A k \in 1..Len(b) : (a \o b)[Len(a) + k] = b[k]
  OBVIOUS
<1> QED BY <1>1, <1>2, <1>3

LEMMA ConcatLabels ==
  \A a, b \in Seq(LabelRecord) :
    /\ (a \o b) \in Seq(LabelRecord) /\ Len(a \o b) = Len(a) + Len(b)
    /\ \A k \in 1..Len(a) : (a \o b)[k] = a[k]
    /\ \A k \in 1..Len(b) : (a \o b)[Len(a) + k] = b[k]
<1> TAKE a, b \in Seq(LabelRecord)
<1>1. (a \o b) \in Seq(LabelRecord) /\ Len(a \o b) = Len(a) + Len(b)
  OBVIOUS
<1>2. \A k \in 1..Len(a) : (a \o b)[k] = a[k]
  OBVIOUS
<1>3. \A k \in 1..Len(b) : (a \o b)[Len(a) + k] = b[k]
  OBVIOUS
<1> QED BY <1>1, <1>2, <1>3

LEMMA SpliceAt ==
  ASSUME NEW row \in Seq(Part), NEW new \in Seq(Part),
         NEW i \in 1..Len(row) + 1, NEW j \in i..Len(row) + 1
  PROVE  LET r == Splice(row, i, j, new)
         IN  /\ r \in Seq(Part) /\ Len(r) = Len(row) + Len(new) - (j - i)
             /\ \A k \in 1..i - 1 : r[k] = row[k]
             /\ \A m \in 1..Len(new) : r[i - 1 + m] = new[m]
             /\ \A k \in j..Len(row) : r[k + Len(new) - (j - i)] = row[k]
<1> DEFINE A == SubSeq(row, 1, i - 1)
           C == SubSeq(row, j, Len(row))
<1>1. A \in Seq(Part) /\ Len(A) = i - 1 /\ \A k \in 1..i - 1 : A[k] = row[k]
  OBVIOUS
<1>2. C \in Seq(Part) /\ Len(C) = Len(row) - j + 1 /\ \A k \in 1..Len(row) - j + 1 : C[k] = row[k + j - 1]
  OBVIOUS
<1>3. Splice(row, i, j, new) = A \o new \o C
  BY DEF Splice
<1> HIDE DEF A, C
<1>4. (A \o new) \in Seq(Part) /\ Len(A \o new) = i - 1 + Len(new)
      /\ (\A k \in 1..i - 1 : (A \o new)[k] = row[k])
      /\ (\A m \in 1..Len(new) : (A \o new)[i - 1 + m] = new[m])
  <2>1. (A \o new) \in Seq(Part) /\ Len(A \o new) = Len(A) + Len(new)
        /\ (\A k \in 1..Len(A) : (A \o new)[k] = A[k])
        /\ (\A m \in 1..Len(new) : (A \o new)[Len(A) + m] = new[m])
    BY <1>1, ConcatParts
  <2> QED BY <1>1, <2>1
<1> DEFINE B == A \o new
<1> HIDE DEF B
<1>5. B \in Seq(Part) /\ Len(B) = i - 1 + Len(new)
      /\ (\A k \in 1..i - 1 : B[k] = row[k])
      /\ (\A m \in 1..Len(new) : B[i - 1 + m] = new[m])
  BY <1>4 DEF B
<1>6. (B \o C) \in Seq(Part) /\ Len(B \o C) = Len(row) + Len(new) - (j - i)
      /\ (\A k \in 1..Len(B) : (B \o C)[k] = B[k])
      /\ (\A k \in 1..Len(C) : (B \o C)[Len(B) + k] = C[k])
  <2>1. (B \o C) \in Seq(Part) /\ Len(B \o C) = Len(B) + Len(C)
        /\ (\A k \in 1..Len(B) : (B \o C)[k] = B[k])
        /\ (\A k \in 1..Len(C) : (B \o C)[Len(B) + k] = C[k])
    BY <1>2, <1>5, ConcatParts
  <2> QED BY <1>2, <1>5, <2>1, SMTT(30)
<1>7. ASSUME NEW k \in j..Len(row) PROVE (B \o C)[k + Len(new) - (j - i)] = row[k]
  <2>1. k - j + 1 \in 1..Len(C) /\ Len(B) + (k - j + 1) = k + Len(new) - (j - i)
    BY <1>2, <1>5, Len(row) \in Nat, Len(new) \in Nat
  <2>2. C[k - j + 1] = row[k]
    BY <1>2
  <2> QED BY <2>1, <2>2, <1>6
<1>8. \A k \in 1..i - 1 : (B \o C)[k] = row[k]
  BY <1>5, <1>6
<1>9. \A m \in 1..Len(new) : (B \o C)[i - 1 + m] = new[m]
  BY <1>5, <1>6
<1> QED BY <1>3, <1>6, <1>7, <1>8, <1>9 DEF B

LEMMA SplicedAt ==
  ASSUME NEW row \in Seq(Part), NEW new \in Seq(Part), NEW d \in Int,
         NEW i \in 1..Len(row) + 1, NEW j \in i..Len(row) + 1
  PROVE  LET r == Spliced(row, i, j, new, d)
             n == Len(row) + Len(new) - (j - i)
         IN  /\ DOMAIN r = 1..n /\ n \in Nat
             /\ r = [k \in 1..n |-> r[k]]
             /\ \A k \in 1..i - 1 : r[k] = row[k]
             /\ \A m \in 1..Len(new) : r[i - 1 + m] = new[m]
             /\ \A k \in j..Len(row) : r[k + Len(new) - (j - i)] = Shifted(row[k], d)
<1> DEFINE q == Splice(row, i, j, new)
           r == Spliced(row, i, j, new, d)
           n == Len(row) + Len(new) - (j - i)
<1>1. /\ q \in Seq(Part) /\ Len(q) = n
      /\ \A k \in 1..i - 1 : q[k] = row[k]
      /\ \A m \in 1..Len(new) : q[i - 1 + m] = new[m]
      /\ \A k \in j..Len(row) : q[k + Len(new) - (j - i)] = row[k]
  BY SpliceAt
<1>2. r = [k \in DOMAIN q |-> IF k < i + Len(new) THEN q[k] ELSE Shifted(q[k], d)]
  BY DEF Spliced, MovedFrom, Shifted
<1> HIDE DEF q, r
<1>3. n \in Nat /\ DOMAIN q = 1..n
  BY <1>1
<1>4. DOMAIN r = 1..n /\ r = [k \in 1..n |-> r[k]]
  BY <1>2, <1>3
<1>5. ASSUME NEW k \in 1..i - 1 PROVE r[k] = row[k]
  BY <1>1, <1>2, <1>3
<1>6. ASSUME NEW m \in 1..Len(new) PROVE r[i - 1 + m] = new[m]
  BY <1>1, <1>2, <1>3
<1>7. ASSUME NEW k \in j..Len(row) PROVE r[k + Len(new) - (j - i)] = Shifted(row[k], d)
  <2>1. k + Len(new) - (j - i) \in 1..n /\ ~(k + Len(new) - (j - i) < i + Len(new))
    OBVIOUS
  <2> QED BY <2>1, <1>1, <1>2, <1>3
<1> QED BY <1>3, <1>4, <1>5, <1>6, <1>7 DEF r

LEMMA EdgeNat ==
  ASSUME NEW row \in Seq(Part), NEW i \in 1..Len(row) + 1
  PROVE  Edge(row, i) \in Nat
<1>1. CASE i = 1
  BY <1>1 DEF Edge
<1>2. CASE i # 1
  <2>1. row[i - 1] \in Part
    BY <1>2
  <2> QED BY <1>2, <2>1 DEF Edge, Part
<1> QED BY <1>1, <1>2

\* What a segment of a tiled row is.
LEMMA Tile ==
  ASSUME NEW row, NEW t, Tiled(row, t), NEW i \in DOMAIN row
  PROVE  /\ row[i] \in Part /\ row[i].start \in Nat /\ row[i].end \in Nat
         /\ row[i].text \in Seq(Char) /\ row[i].labels \in Seq(LabelRecord)
         /\ Len(row[i].text) \in Nat \ {0} /\ row[i].end = row[i].start + Len(row[i].text)
         /\ Edge(row, i) = row[i].start /\ Edge(row, i + 1) = row[i].end
         /\ Whole(row[i]) /\ Shows(row[i], t)
<1>1. row \in Seq(Part) /\ Whole(row[i]) /\ row[i].start = Edge(row, i) /\ Shows(row[i], t)
  BY DEF Tiled
<1>2. row[i] \in Part /\ i \in 1..Len(row)
  BY <1>1
<1>3. row[i].start \in Nat /\ row[i].end \in Nat
      /\ row[i].text \in Seq(Char) /\ row[i].labels \in Seq(LabelRecord)
  BY <1>2 DEF Part
<1>4. row[i].text # <<>> /\ row[i].end = row[i].start + Len(row[i].text)
  BY <1>1 DEF Whole
<1>5. Len(row[i].text) \in Nat \ {0}
  BY <1>3, <1>4
<1>6. Edge(row, i + 1) = row[i].end
  BY <1>2 DEF Edge
<1> QED BY <1>1, <1>2, <1>3, <1>4, <1>5, <1>6

\* The edges of a tiled row ascend to the end of the text.
LEMMA EdgesAscend ==
  ASSUME NEW row, NEW t \in Seq(Char), Tiled(row, t),
         NEW i \in 1..Len(row) + 1, NEW j \in i..Len(row) + 1
  PROVE  Edge(row, i) <= Edge(row, j) /\ (i < j => Edge(row, i) < Edge(row, j)) /\ Edge(row, j) <= Len(t)
<1>0. row \in Seq(Part) /\ Len(row) \in Nat /\ DOMAIN row = 1..Len(row)
  BY DEF Tiled
<1>1. ASSUME NEW k \in 1..Len(row) PROVE Edge(row, k) < Edge(row, k + 1)
  <2>1. k \in DOMAIN row
    BY <1>0
  <2> QED BY <2>1, Tile
<1>2. \A k \in 1..Len(row) + 1 : Edge(row, k) \in Nat
  BY <1>0, EdgeNat
<1>3. ASSUME NEW m \in 1..Len(row) + 1
      PROVE  \A n \in m..Len(row) + 1 : Edge(row, m) <= Edge(row, n) /\ (m < n => Edge(row, m) < Edge(row, n))
  <2> DEFINE Bad == {n \in m..Len(row) + 1 : ~(Edge(row, m) <= Edge(row, n) /\ (m < n => Edge(row, m) < Edge(row, n)))}
  <2> SUFFICES ASSUME Bad # {} PROVE FALSE
    OBVIOUS
  <2>1. Bad \in SUBSET Nat
    BY <1>0
  <2>2. PICK n \in Bad : \A k \in Bad : n <= k
    BY <2>1, LeastNat
  <2>3. n # m
    BY <2>2, <1>2
  <2>4. n - 1 \in m..Len(row) + 1 /\ n - 1 \notin Bad /\ n - 1 \in 1..Len(row)
    BY <2>2, <2>3, <1>0
  <2>5. Edge(row, m) <= Edge(row, n - 1)
    BY <2>4
  <2>6. Edge(row, n - 1) < Edge(row, n)
    <3>1. (n - 1) + 1 = n
      BY <2>2, <1>0
    <3> QED BY <3>1, <2>4, <1>1
  <2>7. Edge(row, n) \in Nat /\ Edge(row, n - 1) \in Nat /\ Edge(row, m) \in Nat
    BY <1>2, <2>2, <2>4, <1>0
  <2> QED BY <2>2, <2>5, <2>6, <2>7
<1>4. Len(t) = Edge(row, Len(row) + 1)
  BY DEF Tiled
<1>5. j \in 1..Len(row) + 1 /\ Len(row) + 1 \in j..Len(row) + 1
  BY <1>0
<1> QED BY <1>3, <1>4, <1>5

LEMMA PlaceWithin ==
  ASSUME NEW s \in Nat, NEW l \in Nat, NEW e \in Nat, s + l <= e
  PROVE  \A x \in 1..l : s + x \in 1..e
OBVIOUS

LEMMA PlaceMoved ==
  ASSUME NEW e \in Nat, NEW d \in Int, e + d \in Nat, NEW s \in Nat, NEW l \in Nat, e <= s
  PROVE  s + d \in Nat /\ (s + l) + d \in Nat /\ (s + l) + d = (s + d) + l
OBVIOUS

\* Segments that cover a text from a to b, and a text that differs from another between a and b.
Fits(new, t, a, b) ==
  /\ \A m \in DOMAIN new : /\ Whole(new[m]) /\ Shows(new[m], t)
                           /\ new[m].start = IF m = 1 THEN a ELSE new[m - 1].end
  /\ b = IF new = <<>> THEN a ELSE new[Len(new)].end
SameBut(t, t2, a, b, d) ==
  /\ Len(t2) = Len(t) + d
  /\ \A x \in 1..a : t2[x] = t[x]
  /\ \A x \in b + 1..Len(t) : t2[x + d] = t[x]

\* Replacing segments i..j-1 of a tiled row by others that cover the new text there.
LEMMA Retiled ==
  ASSUME NEW row, NEW t \in Seq(Char), Tiled(row, t), NEW new \in Seq(Part), NEW t2 \in Seq(Char),
         NEW i \in 1..Len(row) + 1, NEW j \in i..Len(row) + 1, NEW d \in Int,
         Fits(new, t2, Edge(row, i), Edge(row, j) + d), SameBut(t, t2, Edge(row, i), Edge(row, j), d)
  PROVE  Tiled(Spliced(row, i, j, new, d), t2)
<1> DEFINE r == Spliced(row, i, j, new, d)
           p == Len(new)
           n == Len(row) + p - (j - i)
<1>0. row \in Seq(Part) /\ Len(row) \in Nat /\ DOMAIN row = 1..Len(row) /\ p \in Nat /\ DOMAIN new = 1..p
  BY DEF Tiled
<1>1. /\ DOMAIN r = 1..n /\ n \in Nat
      /\ r = [k \in 1..n |-> r[k]]
      /\ \A k \in 1..i - 1 : r[k] = row[k]
      /\ \A m \in 1..p : r[i - 1 + m] = new[m]
      /\ \A k \in j..Len(row) : r[k + p - (j - i)] = Shifted(row[k], d)
  BY <1>0, SplicedAt, ZenonT(60)
<1> HIDE DEF r
<1>2. ASSUME NEW k \in 1..Len(row) + 1 PROVE Edge(row, k) \in Nat /\ Edge(row, k) <= Len(t)
  <2>1. k \in k..Len(row) + 1
    BY <1>0
  <2> QED BY <1>0, EdgeNat, EdgesAscend, <2>1
<1>3. \A k \in j..Len(row) + 1 : Edge(row, j) <= Edge(row, k)
  BY <1>0, EdgesAscend
<1>20. /\ Edge(row, i) \in Nat /\ Edge(row, j) \in Nat /\ Edge(row, i) <= Len(t) /\ Edge(row, j) <= Len(t)
       /\ Len(t) \in Nat /\ j \in 1..Len(row) + 1
  <2>1. j \in 1..Len(row) + 1
    BY <1>0
  <2> QED BY <2>1, <1>2
<1>4. Edge(row, j) + d \in Nat
  <2>1. CASE new = <<>>
    BY <2>1, <1>2 DEF Fits
  <2>2. CASE new # <<>>
    <3>1. p \in 1..p
      BY <2>2, <1>0
    <3>2. new[p] \in Part
      BY <3>1, <1>0
    <3>3. new[p].end \in Nat
      BY <3>2 DEF Part
    <3> QED BY <2>2, <3>3 DEF Fits
  <2> QED BY <2>1, <2>2
<1>5. ASSUME NEW k \in 1..i - 1
      PROVE  r[k] \in Part /\ Whole(r[k]) /\ r[k].start = Edge(r, k) /\ Shows(r[k], t2)
             /\ Edge(r, k + 1) = Edge(row, k + 1)
  <2>1. k \in DOMAIN row /\ k \in 1..Len(row) + 1 /\ k + 1 \in 1..Len(row) + 1 /\ i \in k + 1..Len(row) + 1
    BY <1>0
  <2>2. r[k] = row[k] /\ row[k] \in Part /\ Whole(row[k]) /\ Shows(row[k], t) /\ Edge(row, k) = row[k].start
        /\ Edge(row, k + 1) = row[k].end /\ row[k].end = row[k].start + Len(row[k].text)
        /\ row[k].start \in Nat /\ Len(row[k].text) \in Nat
    BY <2>1, <1>1, Tile
  <2>3. Edge(r, k) = Edge(row, k)
    <3>1. CASE k = 1
      BY <3>1 DEF Edge
    <3>2. CASE k # 1
      <4>1. k - 1 \in 1..i - 1
        BY <3>2
      <4> QED BY <3>2, <4>1, <1>1 DEF Edge
    <3> QED BY <3>1, <3>2
  <2>4. Edge(row, k + 1) <= Edge(row, i)
    BY <2>1, EdgesAscend
  <2>5. Shows(row[k], t2)
    <3> SUFFICES ASSUME NEW x \in 1..Len(row[k].text) PROVE row[k].text[x] = t2[row[k].start + x]
      BY DEF Shows
    <3>1. row[k].text[x] = t[row[k].start + x]
      BY <2>2 DEF Shows
    <3>2. row[k].start + x \in 1..Edge(row, i)
      <4>1. row[k].start + Len(row[k].text) <= Edge(row, i)
        BY <2>2, <2>4
      <4>2. row[k].start \in Nat /\ Len(row[k].text) \in Nat
        BY <2>2
      <4> QED BY <4>1, <4>2, <1>20, PlaceWithin
    <3> QED BY <3>1, <3>2 DEF SameBut
  <2>6. Edge(r, k + 1) = Edge(row, k + 1)
    <3>1. (k + 1) - 1 = k /\ k + 1 # 1
      OBVIOUS
    <3> QED BY <3>1, <2>2 DEF Edge
  <2> QED BY <2>2, <2>3, <2>5, <2>6
<1>6. Edge(r, i) = Edge(row, i)
  <2>1. CASE i = 1
    BY <2>1 DEF Edge
  <2>2. CASE i # 1
    <3>1. i - 1 \in 1..i - 1 /\ (i - 1) + 1 = i
      BY <2>2
    <3> QED BY <3>1, <1>5
  <2> QED BY <2>1, <2>2
<1>7. ASSUME NEW m \in 1..p
      PROVE  r[i - 1 + m] \in Part /\ Whole(r[i - 1 + m]) /\ r[i - 1 + m].start = Edge(r, i - 1 + m)
             /\ Shows(r[i - 1 + m], t2) /\ Edge(r, i + m) = new[m].end
  <2>0. new[m] \in Part
    BY <1>0
  <2>1. r[i - 1 + m] = new[m] /\ new[m] \in Part
    BY <2>0, <1>1
  <2>2. Edge(r, i + m) = new[m].end
    <3>1. (i + m) - 1 = i - 1 + m /\ i + m # 1
      BY <1>0
    <3> QED BY <3>1, <2>1 DEF Edge
  <2>3. new[m].start = Edge(r, i - 1 + m)
    <3>1. CASE m = 1
      <4>1. i - 1 + m = i
        BY <3>1
      <4> QED BY <4>1, <3>1, <1>6, <1>0 DEF Fits
    <3>2. CASE m # 1
      <4>1. m - 1 \in 1..p /\ i - 1 + m # 1 /\ (i - 1 + m) - 1 = i - 1 + (m - 1)
        BY <3>2, <1>0
      <4>2. r[i - 1 + (m - 1)] = new[m - 1]
        BY <4>1, <1>1
      <4> QED BY <4>1, <4>2, <3>2, <1>0 DEF Edge, Fits
    <3> QED BY <3>1, <3>2
  <2> QED BY <2>1, <2>2, <2>3, <1>0 DEF Fits
<1>8. Edge(r, i + p) = Edge(row, j) + d
  <2>1. CASE new = <<>>
    <3>1. p = 0 /\ i + p = i
      BY <2>1, <1>0
    <3> QED BY <2>1, <3>1, <1>6 DEF Fits
  <2>2. CASE new # <<>>
    <3>1. p \in 1..p
      BY <2>2, <1>0
    <3> QED BY <3>1, <2>2, <1>7 DEF Fits
  <2> QED BY <2>1, <2>2
<1>9. ASSUME NEW k \in j..Len(row)
      PROVE  LET q == k + p - (j - i)
             IN  /\ r[q] \in Part /\ Whole(r[q]) /\ r[q].start = Edge(r, q) /\ Shows(r[q], t2)
                 /\ Edge(r, q + 1) = Edge(row, k + 1) + d
  <2> DEFINE q == k + p - (j - i)
             g == row[k]
  <2>0. k \in DOMAIN row /\ k \in j..Len(row) + 1 /\ k + 1 \in j..Len(row) + 1 /\ k + 1 \in 1..Len(row) + 1
    BY <1>0
  <2>1. q \in 1..n /\ q \in Nat
    BY <1>0
  <2>2. g \in Part /\ Whole(g) /\ Shows(g, t) /\ Edge(row, k) = g.start
        /\ Edge(row, k + 1) = g.end /\ g.end = g.start + Len(g.text)
        /\ g.start \in Nat /\ g.end \in Nat /\ Len(g.text) \in Nat
    BY <2>0, Tile
  <2>3. r[q] = Shifted(g, d)
    BY <1>1
  <2> HIDE DEF q
  <2>4. g.start + d \in Nat /\ g.end + d \in Nat
    <3>1. Edge(row, j) <= g.start
      BY <2>0, <2>2, <1>3
    <3>2. g.start \in Nat /\ Len(g.text) \in Nat /\ g.end = g.start + Len(g.text)
      BY <2>2
    <3> HIDE DEF g
    <3>3. g.start + d \in Nat /\ (g.start + Len(g.text)) + d \in Nat
      BY <3>1, <3>2, <1>4, <1>20, PlaceMoved
    <3> QED BY <3>2, <3>3
  <2>5. r[q] \in Part /\ r[q].start = g.start + d /\ r[q].end = g.end + d /\ r[q].text = g.text /\ r[q].labels = g.labels
    BY <2>2, <2>3, <2>4 DEF Shifted, Part
  <2>6. Whole(r[q])
    <3>1. g.end + d = (g.start + d) + Len(g.text)
      <4>1. g.start \in Nat /\ Len(g.text) \in Nat /\ g.end = g.start + Len(g.text)
        BY <2>2
      <4> HIDE DEF g
      <4> QED BY <4>1
    <3> HIDE DEF g
    <3> QED BY <3>1, <2>5, <2>2 DEF Whole
  <2>7. Shows(r[q], t2)
    <3> SUFFICES ASSUME NEW x \in 1..Len(g.text) PROVE g.text[x] = t2[(g.start + d) + x]
      BY <2>5 DEF Shows
    <3>1. g.text[x] = t[g.start + x]
      BY <2>2 DEF Shows
    <3>2. g.start + x \in Edge(row, j) + 1..Len(t) /\ (g.start + x) + d = (g.start + d) + x
      <4>1. Edge(row, j) <= g.start /\ g.end <= Len(t)
        BY <2>0, <2>2, <1>2, <1>3
      <4>2. g.start \in Nat /\ Len(g.text) \in Nat /\ g.end = g.start + Len(g.text)
        BY <2>2
      <4> HIDE DEF g
      <4>3. g.start + Len(g.text) <= Len(t)
        BY <4>1, <4>2
      <4>4. /\ Edge(row, j) \in Nat /\ g.start \in Nat /\ Len(g.text) \in Nat /\ Len(t) \in Nat
            /\ Edge(row, j) <= g.start /\ g.start + Len(g.text) <= Len(t)
        BY <4>1, <4>2, <4>3, <1>20
      <4>5. x \in Nat /\ 1 <= x /\ x <= Len(g.text)
        BY <4>2
      <4> DEFINE a == g.start
                 m == Len(g.text)
                 e == Edge(row, j)
                 z == Len(t)
      <4>6. /\ a \in Nat /\ m \in Nat /\ e \in Nat /\ z \in Nat /\ d \in Int
            /\ e <= a /\ a + m <= z /\ x \in Nat /\ 1 <= x /\ x <= m
        BY <4>4, <4>5
      <4> HIDE DEF a, m, e, z
      <4>7. a + x >= e + 1
        BY <4>6
      <4>8. a + x <= z
        BY <4>6
      <4>9. (a + x) + d = (a + d) + x
        BY <4>6
      <4>10. a + x \in e + 1..z
        BY <4>6, <4>7, <4>8
      <4> QED BY <4>9, <4>10 DEF a, e, z
    <3> QED BY <3>1, <3>2 DEF SameBut
  <2>8. r[q].start = Edge(r, q)
    <3>1. CASE k = j
      <4>1. q = i + p
        BY <3>1, <1>0 DEF q
      <4> QED BY <4>1, <1>8, <2>5, <2>2, <3>1
    <3>2. CASE k # j
      <4>1. k - 1 \in j..Len(row) /\ k - 1 \in DOMAIN row /\ q - 1 = (k - 1) + p - (j - i) /\ q # 1 /\ k # 1
        <5>1. k - 1 \in j..Len(row) /\ k - 1 \in DOMAIN row /\ k # 1
          BY <3>2, <1>0
        <5>2. k > i
          BY <3>2, <1>0
        <5> QED BY <5>1, <5>2, <1>0 DEF q
      <4>2. r[q - 1] = Shifted(row[k - 1], d)
        BY <4>1, <1>1
      <4>3. row[k - 1] \in Part
        BY <4>1, <1>0
      <4>4. r[q - 1].end = row[k - 1].end + d
        BY <4>2, <4>3 DEF Shifted, Part
      <4> QED BY <4>1, <4>4, <2>5, <2>2 DEF Edge
    <3> QED BY <3>1, <3>2
  <2>9. Edge(r, q + 1) = Edge(row, k + 1) + d
    <3>1. (q + 1) - 1 = q /\ q + 1 # 1
      BY <2>1
    <3> QED BY <3>1, <2>5, <2>2 DEF Edge
  <2>10. r[q] \in Part /\ Whole(r[q]) /\ r[q].start = Edge(r, q) /\ Shows(r[q], t2)
         /\ Edge(r, q + 1) = Edge(row, k + 1) + d
    BY <2>5, <2>6, <2>7, <2>8, <2>9
  <2> QED BY <2>10 DEF q
<1>10. ASSUME NEW k \in 1..n
       PROVE  r[k] \in Part /\ Whole(r[k]) /\ r[k].start = Edge(r, k) /\ Shows(r[k], t2)
  <2>1. CASE k < i
    BY <2>1, <1>5
  <2>2. CASE i <= k /\ k < i + p
    <3>1. k - (i - 1) \in 1..p /\ i - 1 + (k - (i - 1)) = k
      BY <2>2, <1>0
    <3>2. r[i - 1 + (k - (i - 1))] \in Part /\ Whole(r[i - 1 + (k - (i - 1))])
          /\ r[i - 1 + (k - (i - 1))].start = Edge(r, i - 1 + (k - (i - 1))) /\ Shows(r[i - 1 + (k - (i - 1))], t2)
      BY <3>1, <1>7
    <3> QED BY <3>1, <3>2
  <2>3. CASE i + p <= k
    <3>1. k - p + (j - i) >= j /\ k - p + (j - i) <= Len(row) /\ k - p + (j - i) \in Int
      BY <2>3, <1>0, k \in Int, k <= n
    <3>3. (k - p + (j - i)) \in j..Len(row) /\ (k - p + (j - i)) + p - (j - i) = k
      BY <3>1, <1>0, k \in Int
    <3> QED BY <3>3, <1>9
  <2> QED BY <2>1, <2>2, <2>3, <1>0
<1>11. r \in Seq(Part) /\ Len(r) = n
  <2>1. \A k \in 1..n : r[k] \in Part
    BY <1>10
  <2> HIDE DEF n
  <2>2. [k \in 1..n |-> r[k]] \in Seq(Part) /\ Len([k \in 1..n |-> r[k]]) = n
    <3>1. n \in Nat
      BY <1>1
    <3> QED BY <2>1, <3>1
  <2> QED BY <2>2, <1>1
<1>12. Edge(r, n + 1) = Edge(row, Len(row) + 1) + d
  <2>1. CASE j = Len(row) + 1
    <3>1. n + 1 = i + p
      BY <2>1, <1>0
    <3> QED BY <3>1, <2>1, <1>8
  <2>2. CASE j # Len(row) + 1
    <3>1. Len(row) \in j..Len(row) /\ Len(row) + p - (j - i) = n
      BY <2>2, <1>0
    <3> QED BY <3>1, <1>9
  <2> QED BY <2>1, <2>2
<1>13. Len(t2) = Edge(r, Len(r) + 1)
  BY <1>11, <1>12 DEF Tiled, SameBut
<1>14. Tiled(r, t2)
  BY <1>1, <1>10, <1>11, <1>13 DEF Tiled
<1> QED BY <1>14 DEF r

LEMMA NotMoved ==
  ASSUME NEW row \in Seq(Part), NEW new \in Seq(Part), NEW i \in 1..Len(row) + 1, NEW j \in i..Len(row) + 1
  PROVE  Spliced(row, i, j, new, 0) = Splice(row, i, j, new)
<1> DEFINE q == Splice(row, i, j, new)
<1>1. q \in Seq(Part)
  BY SpliceAt
<1>2. Spliced(row, i, j, new, 0) =
        [k \in DOMAIN q |-> IF k < i + Len(new) THEN q[k] ELSE [q[k] EXCEPT !.start = @ + 0, !.end = @ + 0]]
  BY DEF Spliced, MovedFrom, Shifted
<1> HIDE DEF q
<1>3. ASSUME NEW k \in DOMAIN q PROVE [q[k] EXCEPT !.start = @ + 0, !.end = @ + 0] = q[k]
  <2>1. q[k] \in Part
    BY <1>1
  <2>2. q[k].start + 0 = q[k].start /\ q[k].end + 0 = q[k].end
    BY <2>1 DEF Part
  <2> QED BY <2>1, <2>2 DEF Part
<1>4. Spliced(row, i, j, new, 0) = [k \in DOMAIN q |-> q[k]]
  BY <1>2, <1>3
<1>5. q = [k \in DOMAIN q |-> q[k]]
  BY <1>1
<1> QED BY <1>4, <1>5 DEF q

\* The labels of a row whose segments i..j-1 are replaced.
Outside(row, i, j) == (DOMAIN row) \ (i..j - 1)
Fresh(row, i, j, new) ==
  /\ Placed(new)
  /\ \A m \in DOMAIN new, k \in Outside(row, i, j) :
       \A l \in ToSet(new[m].labels), o \in ToSet(row[k].labels) : l.id # o.id

LEMMA Relabelled ==
  ASSUME NEW row \in Seq(Part), Placed(row), NEW new \in Seq(Part), NEW d \in Int,
         NEW i \in 1..Len(row) + 1, NEW j \in i..Len(row) + 1, Fresh(row, i, j, new)
  PROVE  LET r == Spliced(row, i, j, new, d)
         IN  /\ Placed(r)
             /\ LabelsOf(r, DOMAIN r) = LabelsOf(row, Outside(row, i, j)) \cup LabelsOf(new, DOMAIN new)
<1> DEFINE r == Spliced(row, i, j, new, d)
           p == Len(new)
           n == Len(row) + p - (j - i)
           Ls(g) == ToSet(g.labels)
<1>0. Len(row) \in Nat /\ DOMAIN row = 1..Len(row) /\ p \in Nat /\ DOMAIN new = 1..p
  OBVIOUS
<1>1. /\ DOMAIN r = 1..n /\ n \in Nat
      /\ r = [k \in 1..n |-> r[k]]
      /\ \A k \in 1..i - 1 : r[k] = row[k]
      /\ \A m \in 1..p : r[i - 1 + m] = new[m]
      /\ \A k \in j..Len(row) : r[k + p - (j - i)] = Shifted(row[k], d)
  BY <1>0, SplicedAt
<1> HIDE DEF r
<1>2. ASSUME NEW g \in Part PROVE Ls(Shifted(g, d)) = Ls(g)
  BY DEF Shifted, Part
\* Where each segment of r comes from.
<1> DEFINE Old(q, k) == (q < i /\ k = q) \/ (q >= i + p /\ k = q - p + (j - i))
<1>3. ASSUME NEW q \in 1..n, q < i PROVE q \in Outside(row, i, j) /\ Ls(r[q]) = Ls(row[q])
  <2>1. q \in 1..i - 1 /\ q \in DOMAIN row /\ q \notin i..j - 1
    BY <1>3, <1>0
  <2> QED BY <2>1, <1>1 DEF Outside
<1>4. ASSUME NEW q \in 1..n, q >= i, q < i + p
      PROVE  q - (i - 1) \in DOMAIN new /\ Ls(r[q]) = Ls(new[q - (i - 1)])
  <2>1. q - (i - 1) \in 1..p /\ i - 1 + (q - (i - 1)) = q
    BY <1>4, <1>0
  <2>2. r[i - 1 + (q - (i - 1))] = new[q - (i - 1)]
    BY <2>1, <1>1
  <2> QED BY <2>1, <2>2, <1>0
<1>5. ASSUME NEW q \in 1..n, q >= i + p
      PROVE  q - p + (j - i) \in Outside(row, i, j) /\ Ls(r[q]) = Ls(row[q - p + (j - i)])
  <2> DEFINE k == q - p + (j - i)
  <2>1. k >= j
    BY <1>5, <1>0
  <2>2. k <= Len(row)
    BY <1>5, <1>0
  <2>3. k + p - (j - i) = q /\ k \in Int
    BY <1>5, <1>0
  <2> HIDE DEF k
  <2>4. k \in j..Len(row) /\ k \in DOMAIN row /\ k \notin i..j - 1
    BY <2>1, <2>2, <2>3, <1>0
  <2>0. row[k] \in Part
    BY <2>4
  <2>5. r[q] = Shifted(row[k], d) /\ row[k] \in Part
    BY <2>0, <2>3, <2>4, <1>1
  <2>6. Ls(r[q]) = Ls(row[k]) /\ k \in Outside(row, i, j)
    BY <2>4, <2>5, <1>2 DEF Outside
  <2> QED BY <2>6 DEF k
<1>6. \A q \in 1..n : (q < i \/ (q >= i /\ q < i + p) \/ q >= i + p) /\ q \in Int
  BY <1>0
<1>7. Placed(r)
  <2> SUFFICES ASSUME NEW q \in 1..n, NEW u \in 1..n, NEW l \in Ls(r[q]), NEW o \in Ls(r[u]), l.id = o.id
               PROVE  q = u /\ l = o
    BY <1>1 DEF Placed
  <2>1. \A a, b \in DOMAIN row : \A x \in Ls(row[a]), y \in Ls(row[b]) : x.id = y.id => (a = b /\ x = y)
    BY DEF Placed
  <2>2. \A a, b \in DOMAIN new : \A x \in Ls(new[a]), y \in Ls(new[b]) : x.id = y.id => (a = b /\ x = y)
    BY DEF Placed, Fresh
  <2>3. \A a \in DOMAIN new, b \in Outside(row, i, j) : \A x \in Ls(new[a]), y \in Ls(row[b]) : x.id # y.id
    BY DEF Fresh
  <2>4. Outside(row, i, j) \subseteq DOMAIN row /\ \A k \in Outside(row, i, j) : k \notin i..j - 1
    BY DEF Outside
  <2> HIDE DEF Ls
  <2>5. CASE q < i
    <3>1. q \in Outside(row, i, j) /\ Ls(r[q]) = Ls(row[q])
      BY <2>5, <1>3
    <3>2. CASE u < i
      <4>1. u \in Outside(row, i, j) /\ Ls(r[u]) = Ls(row[u])
        BY <3>2, <1>3
      <4> QED BY <3>1, <4>1, <2>1, <2>4
    <3>3. CASE u >= i /\ u < i + p
      <4>1. u - (i - 1) \in DOMAIN new /\ Ls(r[u]) = Ls(new[u - (i - 1)])
        BY <3>3, <1>4
      <4> QED BY <3>1, <4>1, <2>3
    <3>4. CASE u >= i + p
      <4>1. u - p + (j - i) \in Outside(row, i, j) /\ Ls(r[u]) = Ls(row[u - p + (j - i)])
        BY <3>4, <1>5
      <4>2. q = u - p + (j - i)
        BY <3>1, <4>1, <2>1, <2>4, SMTT(30)
      <4> QED BY <4>2, <3>4, <2>5, <1>0, <1>6
    <3> QED BY <3>2, <3>3, <3>4, <1>6
  <2>6. CASE q >= i /\ q < i + p
    <3>1. q - (i - 1) \in DOMAIN new /\ Ls(r[q]) = Ls(new[q - (i - 1)])
      BY <2>6, <1>4
    <3>2. CASE u < i
      <4>1. u \in Outside(row, i, j) /\ Ls(r[u]) = Ls(row[u])
        BY <3>2, <1>3
      <4> QED BY <3>1, <4>1, <2>3
    <3>3. CASE u >= i /\ u < i + p
      <4>1. u - (i - 1) \in DOMAIN new /\ Ls(r[u]) = Ls(new[u - (i - 1)])
        BY <3>3, <1>4
      <4>2. q - (i - 1) = u - (i - 1) /\ l = o
        BY <3>1, <4>1, <2>2
      <4> QED BY <4>2, <1>6
    <3>4. CASE u >= i + p
      <4>1. u - p + (j - i) \in Outside(row, i, j) /\ Ls(r[u]) = Ls(row[u - p + (j - i)])
        BY <3>4, <1>5
      <4> QED BY <3>1, <4>1, <2>3
    <3> QED BY <3>2, <3>3, <3>4, <1>6
  <2>7. CASE q >= i + p
    <3>1. q - p + (j - i) \in Outside(row, i, j) /\ Ls(r[q]) = Ls(row[q - p + (j - i)])
      BY <2>7, <1>5
    <3>2. CASE u < i
      <4>1. u \in Outside(row, i, j) /\ Ls(r[u]) = Ls(row[u])
        BY <3>2, <1>3
      <4>2. u = q - p + (j - i)
        BY <3>1, <4>1, <2>1, <2>4, SMTT(30)
      <4> QED BY <4>2, <3>2, <2>7, <1>0, <1>6
    <3>3. CASE u >= i /\ u < i + p
      <4>1. u - (i - 1) \in DOMAIN new /\ Ls(r[u]) = Ls(new[u - (i - 1)])
        BY <3>3, <1>4
      <4> QED BY <3>1, <4>1, <2>3
    <3>4. CASE u >= i + p
      <4>1. u - p + (j - i) \in Outside(row, i, j) /\ Ls(r[u]) = Ls(row[u - p + (j - i)])
        BY <3>4, <1>5
      <4>2. q - p + (j - i) = u - p + (j - i) /\ l = o
        BY <3>1, <4>1, <2>1, <2>4
      <4> QED BY <4>2, <1>6, <1>0
    <3> QED BY <3>2, <3>3, <3>4, <1>6
  <2> QED BY <2>5, <2>6, <2>7, <1>6
<1>8. LabelsOf(r, DOMAIN r) = LabelsOf(row, Outside(row, i, j)) \cup LabelsOf(new, DOMAIN new)
  <2>1. ASSUME NEW l \in LabelsOf(r, DOMAIN r)
        PROVE  l \in LabelsOf(row, Outside(row, i, j)) \cup LabelsOf(new, DOMAIN new)
    <3>1. PICK q \in 1..n : l \in Ls(r[q])
      BY <1>1 DEF LabelsOf
    <3>2. (\E k \in Outside(row, i, j) : l \in Ls(row[k])) \/ (\E m \in DOMAIN new : l \in Ls(new[m]))
      <4> HIDE DEF Ls
      <4>1. CASE q < i
        BY <4>1, <3>1, <1>3
      <4>2. CASE q >= i /\ q < i + p
        BY <4>2, <3>1, <1>4
      <4>3. CASE q >= i + p
        BY <4>3, <3>1, <1>5
      <4> QED BY <4>1, <4>2, <4>3, <1>6
    <3> QED BY <3>2 DEF LabelsOf
  <2>2. ASSUME NEW l, NEW k \in Outside(row, i, j), l \in Ls(row[k])
        PROVE  l \in LabelsOf(r, DOMAIN r)
    <3>0. k \in 1..Len(row) /\ k \notin i..j - 1 /\ k \in Int
      BY <1>0 DEF Outside
    <3>1. CASE k < i
      <4>1. k \in 1..i - 1 /\ k \in 1..n
        BY <3>1, <3>0, <1>0
      <4> QED BY <4>1, <2>2, <1>1 DEF LabelsOf
    <3>2. CASE k >= j
      <4>1. k + p - (j - i) \in 1..n
        BY <3>2, <3>0, <1>0
      <4>2. r[k + p - (j - i)] = Shifted(row[k], d)
        <5>1. k \in j..Len(row)
          BY <3>2, <3>0
        <5> QED BY <5>1, <1>1
      <4>3. row[k] \in Part
        BY <3>0
      <4>4. l \in Ls(r[k + p - (j - i)])
        BY <4>2, <4>3, <2>2, <1>2
      <4> QED BY <4>1, <4>4, <1>1 DEF LabelsOf
    <3> QED BY <3>0, <3>1, <3>2
  <2>3. ASSUME NEW l, NEW m \in DOMAIN new, l \in Ls(new[m])
        PROVE  l \in LabelsOf(r, DOMAIN r)
    <3>1. i - 1 + m \in 1..n
      BY <1>0
    <3>2. r[i - 1 + m] = new[m]
      BY <1>0, <1>1
    <3> QED BY <3>1, <3>2, <2>3, <1>1 DEF LabelsOf
  <2> QED BY <2>1, <2>2, <2>3 DEF LabelsOf
<1> QED BY <1>7, <1>8 DEF r

\* Dropping the ids of some segments' labels leaves the labels of the others.
LEMMA IndexWithout ==
  ASSUME NEW row \in Seq(Part), Placed(row), NEW D \in SUBSET DOMAIN row, NEW ids,
         \A k \in D : \A l \in ToSet(row[k].labels) : l.id \in ids,
         \A k \in (DOMAIN row) \ D : \A l \in ToSet(row[k].labels) : l.id \notin ids
  PROVE  Without(LabelsOf(row, DOMAIN row), ids) = LabelsOf(row, (DOMAIN row) \ D)
BY DEF Without, LabelsOf

------------------------------------------------------------------------------
(* A set that a relation orders has an enumeration in that order.           *)
Orders(R, D) ==
  /\ IsFiniteSet(D)
  /\ \A x, y \in D : x = y \/ <<x, y>> \in R \/ <<y, x>> \in R
  /\ \A x, y, z \in D : <<x, y>> \in R /\ <<y, z>> \in R => <<x, z>> \in R
  /\ \A x \in D : <<x, x>> \notin R

LEMMA OrderedIs ==
  ASSUME NEW D, NEW R, Orders(R, D)
  PROVE  LET q == Ordered(D, R)
             c == Cardinality(D)
         IN  /\ c \in Nat /\ q \in [1..c -> D]
             /\ \A n \in 1..c : \A m \in 1..n - 1 : <<q[m], q[n]>> \in R
             /\ \A m, n \in 1..c : q[m] = q[n] => m = n
             /\ \A x \in D : \E n \in 1..c : q[n] = x
<1> DEFINE c == Cardinality(D)
           below(x) == {y \in D : <<y, x>> \in R}
           rank == [x \in D |-> Cardinality(below(x)) + 1]
<1>1. IsFiniteSet(D) /\ c \in Nat /\ IsFiniteSet(1..c) /\ Cardinality(1..c) = c
  <2>1. IsFiniteSet(D)
    BY DEF Orders
  <2>2. c \in Nat
    BY <2>1, FS_CardinalityType
  <2>3. IsFiniteSet(1..c) /\ Cardinality(1..c) = IF 1 > c THEN 0 ELSE c - 1 + 1
    BY <2>2, FS_Interval
  <2> QED BY <2>1, <2>2, <2>3
<1>2. ASSUME NEW x \in D
      PROVE  IsFiniteSet(below(x)) /\ Cardinality(below(x)) \in Nat /\ Cardinality(below(x)) < c
  <2>1. below(x) \in SUBSET D /\ x \notin below(x)
    BY DEF Orders
  <2> HIDE DEF below
  <2>2. IsFiniteSet(below(x)) /\ Cardinality(below(x)) <= c /\ (c = Cardinality(below(x)) => D = below(x))
    BY <2>1, <1>1, FS_Subset
  <2>3. Cardinality(below(x)) \in Nat
    BY <2>2, FS_CardinalityType
  <2> QED BY <2>1, <2>2, <2>3, <1>1
<1>3. ASSUME NEW x \in D, NEW y \in D, <<x, y>> \in R
      PROVE  Cardinality(below(x)) < Cardinality(below(y))
  <2>1. below(x) \in SUBSET below(y) /\ x \in below(y) /\ x \notin below(x)
    BY <1>3 DEF Orders
  <2>2. IsFiniteSet(below(y)) /\ Cardinality(below(x)) \in Nat /\ Cardinality(below(y)) \in Nat
    BY <1>2
  <2> HIDE DEF below
  <2>3. Cardinality(below(x)) <= Cardinality(below(y))
        /\ (Cardinality(below(y)) = Cardinality(below(x)) => below(y) = below(x))
    BY <2>1, <2>2, FS_Subset
  <2> QED BY <2>1, <2>2, <2>3
<1>4. rank \in Injection(D, 1..c)
  <2>1. \A x \in D : rank[x] = Cardinality(below(x)) + 1
    OBVIOUS
  <2>2. \A x \in D : rank[x] \in 1..c
    <3> SUFFICES ASSUME NEW x \in D PROVE Cardinality(below(x)) + 1 \in 1..c
      BY <2>1
    <3>1. Cardinality(below(x)) \in Nat /\ Cardinality(below(x)) < c
      BY <1>2
    <3> HIDE DEF below, c
    <3> QED BY <3>1, <1>1
  <2>3. rank \in [D -> 1..c]
    BY <2>2
  <2>4. ASSUME NEW x \in D, NEW y \in D, rank[x] = rank[y] PROVE x = y
    <3>1. x = y \/ <<x, y>> \in R \/ <<y, x>> \in R
      BY DEF Orders
    <3>2. Cardinality(below(x)) = Cardinality(below(y)) /\ Cardinality(below(x)) \in Nat
      <4>1. Cardinality(below(x)) \in Nat /\ Cardinality(below(y)) \in Nat
        BY <1>2
      <4>2. rank[x] = Cardinality(below(x)) + 1 /\ rank[y] = Cardinality(below(y)) + 1
        BY <2>1
      <4> HIDE DEF below, rank
      <4> QED BY <4>1, <4>2, <2>4
    <3> HIDE DEF below
    <3> QED BY <3>1, <3>2, <1>3
  <2> HIDE DEF rank
  <2> QED BY <2>3, <2>4 DEF Injection, IsInjective
<1>5. \A n \in 1..c : \E x \in D : rank[x] = n
  <2> HIDE DEF rank
  <2>1. Cardinality(D) = Cardinality(1..c) <=> rank \in Surjection(D, 1..c)
    BY <1>1, <1>4, FS_Injection
  <2>2. rank \in Surjection(D, 1..c)
    BY <2>1, <1>1
  <2> QED BY <2>2 DEF Surjection
<1> DEFINE p == [n \in 1..c |-> CHOOSE x \in D : rank[x] = n]
<1>6. p \in [1..c -> D] /\ \A n \in 1..c : rank[p[n]] = n
  <2> HIDE DEF rank
  <2> QED BY <1>5
<1>7. \A n \in 1..c : \A m \in 1..n - 1 : <<p[m], p[n]>> \in R
  <2> SUFFICES ASSUME NEW n \in 1..c, NEW m \in 1..n - 1 PROVE <<p[m], p[n]>> \in R
    OBVIOUS
  <2>1. m \in 1..c /\ m < n /\ n \in Nat /\ m \in Nat
    BY <1>1
  <2> HIDE DEF p
  <2>2. p[m] \in D /\ p[n] \in D /\ rank[p[m]] = m /\ rank[p[n]] = n
    BY <1>6, <2>1
  <2>3. rank[p[m]] = Cardinality(below(p[m])) + 1 /\ rank[p[n]] = Cardinality(below(p[n])) + 1
        /\ Cardinality(below(p[m])) \in Nat /\ Cardinality(below(p[n])) \in Nat
    BY <2>2, <1>2
  <2> HIDE DEF rank, below
  <2>4. p[m] # p[n]
    BY <2>1, <2>2
  <2>5. ~(<<p[n], p[m]>> \in R)
    <3> SUFFICES ASSUME <<p[n], p[m]>> \in R PROVE FALSE
      OBVIOUS
    <3>1. Cardinality(below(p[n])) < Cardinality(below(p[m]))
      BY <2>2, <1>3
    <3> QED BY <3>1, <2>1, <2>2, <2>3
  <2> QED BY <2>2, <2>4, <2>5 DEF Orders
<1> DEFINE q == Ordered(D, R)
           Good(f) == f \in [1..c -> D] /\ \A n \in DOMAIN f : \A m \in 1..n - 1 : <<f[m], f[n]>> \in R
<1>8. q \in [1..c -> D] /\ \A n \in DOMAIN q : \A m \in 1..n - 1 : <<q[m], q[n]>> \in R
  <2>1. DOMAIN p = 1..c
    OBVIOUS
  <2> HIDE DEF p, c
  <2>2. \E f \in [1..c -> D] : \A n \in DOMAIN f : \A m \in 1..n - 1 : <<f[m], f[n]>> \in R
    BY <2>1, <1>6, <1>7
  <2>3. q = CHOOSE f \in [1..c -> D] : \A n \in DOMAIN f : \A m \in 1..n - 1 : <<f[m], f[n]>> \in R
    BY DEF Ordered, c
  <2> QED BY <2>2, <2>3
<1>9. DOMAIN q = 1..c
  BY <1>8
<1> HIDE DEF q, p, rank
<1>10. ASSUME NEW m \in 1..c, NEW n \in 1..c, q[m] = q[n] PROVE m = n
  <2>1. q[m] \in D /\ q[n] \in D /\ <<q[m], q[n]>> \notin R /\ <<q[n], q[m]>> \notin R
    BY <1>8, <1>10 DEF Orders
  <2>2. ~(m < n) /\ ~(n < m)
    BY <2>1, <1>8, <1>9, <1>1
  <2> QED BY <2>2, <1>1
<1>11. q \in Injection(1..c, D)
  BY <1>8, <1>10 DEF Injection, IsInjective
<1>12. q \in Surjection(1..c, D)
  <2>1. Cardinality(1..c) = Cardinality(D) <=> q \in Surjection(1..c, D)
    BY <1>1, <1>11, FS_Injection
  <2> QED BY <2>1, <1>1
<1>13. \A x \in D : \E n \in 1..c : q[n] = x
  BY <1>12 DEF Surjection
<1>14. \A n \in 1..c : \A m \in 1..n - 1 : <<q[m], q[n]>> \in R
  BY <1>8, <1>9
<1>15. /\ c \in Nat /\ q \in [1..c -> D]
       /\ \A n \in 1..c : \A m \in 1..n - 1 : <<q[m], q[n]>> \in R
       /\ \A m, n \in 1..c : q[m] = q[n] => m = n
       /\ \A x \in D : \E n \in 1..c : q[n] = x
  BY <1>1, <1>8, <1>10, <1>13, <1>14
<1> QED BY <1>15 DEF q

\* The members of a list of labels at some places.
LEMMA ThoseAre ==
  ASSUME NEW ls \in Seq(LabelRecord), NEW D \in SUBSET DOMAIN ls
  PROVE  Those(ls, D) \in Seq(LabelRecord) /\ ToSet(Those(ls, D)) = {ls[n] : n \in D}
<1> DEFINE R == {p \in D \X D : p[1] < p[2]}
           c == Cardinality(D)
           q == Ordered(D, R)
<1>1. Orders(R, D)
  <2>1. D \subseteq 1..Len(ls) /\ D \subseteq Int
    OBVIOUS
  <2>2. IsFiniteSet(D)
    <3>1. IsFiniteSet(1..Len(ls))
      BY FS_Interval
    <3> QED BY <2>1, <3>1, FS_Subset
  <2>3. \A x, y \in D : <<x, y>> \in R <=> x < y
    OBVIOUS
  <2>7. \A x \in D : <<x, x>> \in R => x < x
    OBVIOUS
  <2> HIDE DEF R
  <2>4. \A x, y \in D : x = y \/ <<x, y>> \in R \/ <<y, x>> \in R
    <3>1. \A x, y \in D : x = y \/ x < y \/ y < x
      BY <2>1
    <3> QED BY <3>1, <2>3
  <2>5. \A x, y, z \in D : <<x, y>> \in R /\ <<y, z>> \in R => <<x, z>> \in R
    BY <2>1, <2>3
  <2>6. \A x \in D : <<x, x>> \notin R
    <3> SUFFICES ASSUME NEW x \in D, <<x, x>> \in R PROVE FALSE
      OBVIOUS
    <3>1. x < x
      BY <2>7
    <3>2. x \in Int
      BY <2>1
    <3> QED BY <3>1, <3>2
  <2> QED BY <2>2, <2>4, <2>5, <2>6 DEF Orders
<1>2. c \in Nat /\ q \in [1..c -> D] /\ \A x \in D : \E n \in 1..c : q[n] = x
  <2> HIDE DEF R
  <2> QED BY <1>1, OrderedIs
<1>3. Those(ls, D) = [n \in 1..c |-> ls[q[n]]]
  BY DEF Those
<1> HIDE DEF q, c
<1>4. \A n \in 1..c : ls[q[n]] \in LabelRecord /\ q[n] \in D
  BY <1>2
<1>5. Those(ls, D) \in Seq(LabelRecord) /\ DOMAIN Those(ls, D) = 1..c
  BY <1>2, <1>3, <1>4
<1>6. ToSet(Those(ls, D)) = {Those(ls, D)[n] : n \in 1..c}
  BY <1>5 DEF ToSet
<1>7. ToSet(Those(ls, D)) = {ls[q[n]] : n \in 1..c}
  BY <1>3, <1>6
<1>8. {ls[q[n]] : n \in 1..c} = {ls[n] : n \in D}
  BY <1>2
<1> QED BY <1>5, <1>7, <1>8

LEMMA LeftAre ==
  ASSUME NEW ls \in Seq(LabelRecord), NEW pos \in Int
  PROVE  LeftOf(ls, pos) \in Seq(LabelRecord) /\ ToSet(LeftOf(ls, pos)) = {l \in ToSet(ls) : l.hi <= pos}
<1> DEFINE D == {n \in DOMAIN ls : ls[n].hi <= pos}
<1>1. LeftOf(ls, pos) = Those(ls, D)
  BY DEF LeftOf
<1>2. D \in SUBSET DOMAIN ls /\ {ls[n] : n \in D} = {l \in ToSet(ls) : l.hi <= pos}
  BY DEF ToSet
<1> HIDE DEF D
<1> QED BY <1>1, <1>2, ThoseAre

LEMMA RightAre ==
  ASSUME NEW ls \in Seq(LabelRecord), NEW pos \in Int
  PROVE  RightOf(ls, pos) \in Seq(LabelRecord) /\ ToSet(RightOf(ls, pos)) = {l \in ToSet(ls) : l.lo >= pos}
<1> DEFINE D == {n \in DOMAIN ls : ls[n].lo >= pos}
<1>1. RightOf(ls, pos) = Those(ls, D)
  BY DEF RightOf
<1>2. D \in SUBSET DOMAIN ls /\ {ls[n] : n \in D} = {l \in ToSet(ls) : l.lo >= pos}
  BY DEF ToSet
<1> HIDE DEF D
<1> QED BY <1>1, <1>2, ThoseAre

LEMMA ByIs ==
  ASSUME NEW l \in LabelRecord, NEW d \in Int
  PROVE  /\ By(l, d).id = l.id /\ By(l, d).lo = l.lo + d /\ By(l, d).hi = l.hi + d
         /\ l.lo + d \in Nat /\ l.hi + d \in Nat => By(l, d) \in LabelRecord
BY DEF By, LabelRecord

LEMMA AllByAre ==
  ASSUME NEW ls \in Seq(LabelRecord), NEW d \in Int,
         \A l \in ToSet(ls) : l.lo + d \in Nat /\ l.hi + d \in Nat
  PROVE  AllBy(ls, d) \in Seq(LabelRecord) /\ ToSet(AllBy(ls, d)) = {By(l, d) : l \in ToSet(ls)}
<1>1. \A n \in DOMAIN ls : ls[n] \in LabelRecord /\ ls[n] \in ToSet(ls)
  BY DEF ToSet
<1>2. \A n \in DOMAIN ls : By(ls[n], d) \in LabelRecord
  BY <1>1, ByIs
<1>3. AllBy(ls, d) = [n \in 1..Len(ls) |-> By(ls[n], d)]
  BY DEF AllBy
<1>4. AllBy(ls, d) \in Seq(LabelRecord)
  BY <1>2, <1>3
<1>5. ToSet(AllBy(ls, d)) = {AllBy(ls, d)[n] : n \in 1..Len(ls)}
  BY <1>3 DEF ToSet
<1>6. ToSet(AllBy(ls, d)) = {By(ls[n], d) : n \in DOMAIN ls}
  BY <1>3, <1>5
<1> QED BY <1>4, <1>6 DEF ToSet

LEMMA IdsAre ==
  ASSUME NEW ls \in Seq(LabelRecord)
  PROVE  IdsOf(ls) = {l.id : l \in ToSet(ls)}
BY DEF IdsOf, ToSet

LEMMA BothAre ==
  ASSUME NEW a \in Seq(LabelRecord), NEW b \in Seq(LabelRecord)
  PROVE  ToSet(a \o b) = ToSet(a) \cup ToSet(b)
<1> DEFINE c == a \o b
<1>1. c \in Seq(LabelRecord) /\ Len(c) = Len(a) + Len(b)
      /\ (\A k \in 1..Len(a) : c[k] = a[k]) /\ (\A k \in 1..Len(b) : c[Len(a) + k] = b[k])
  BY ConcatLabels
<1> HIDE DEF c
<1>2. ASSUME NEW k \in DOMAIN c PROVE c[k] \in ToSet(a) \cup ToSet(b)
  <2>1. CASE k <= Len(a)
    BY <2>1, <1>1 DEF ToSet
  <2>2. CASE k > Len(a)
    <3>1. k - Len(a) \in 1..Len(b) /\ Len(a) + (k - Len(a)) = k
      BY <2>2, <1>1
    <3> QED BY <3>1, <1>1 DEF ToSet
  <2> QED BY <2>1, <2>2, <1>1
<1>3. ASSUME NEW k \in DOMAIN a PROVE a[k] \in ToSet(c)
  BY <1>1 DEF ToSet
<1>4. ASSUME NEW k \in DOMAIN b PROVE b[k] \in ToSet(c)
  <2>1. Len(a) + k \in DOMAIN c
    BY <1>1
  <2> QED BY <2>1, <1>1 DEF ToSet
<1>5. ToSet(c) = ToSet(a) \cup ToSet(b)
  BY <1>2, <1>3, <1>4 DEF ToSet
<1> QED BY <1>5 DEF c

LEMMA AppendedAre ==
  ASSUME NEW a \in Seq(LabelRecord), NEW l \in LabelRecord
  PROVE  Append(a, l) \in Seq(LabelRecord) /\ ToSet(Append(a, l)) = ToSet(a) \cup {l}
<1> DEFINE c == Append(a, l)
<1>1. c \in Seq(LabelRecord) /\ Len(c) = Len(a) + 1 /\ (\A k \in 1..Len(a) : c[k] = a[k]) /\ c[Len(a) + 1] = l
  OBVIOUS
<1> HIDE DEF c
<1>2. ASSUME NEW k \in DOMAIN c PROVE c[k] \in ToSet(a) \cup {l}
  BY <1>1 DEF ToSet
<1>3. ASSUME NEW k \in DOMAIN a PROVE a[k] \in ToSet(c)
  BY <1>1 DEF ToSet
<1>4. l \in ToSet(c)
  <2>1. Len(a) + 1 \in DOMAIN c
    BY <1>1
  <2> QED BY <2>1, <1>1 DEF ToSet
<1>5. ToSet(c) = ToSet(a) \cup {l}
  BY <1>2, <1>3, <1>4 DEF ToSet
<1> QED BY <1>1, <1>5 DEF c

LEMMA MembersAre ==
  ASSUME NEW ls \in Seq(LabelRecord)
  PROVE  ToSet(ls) \subseteq LabelRecord /\ \A l \in ToSet(ls) : l.id \in Label /\ l.lo \in Nat /\ l.hi \in Nat
<1>1. ToSet(ls) \subseteq LabelRecord
  BY DEF ToSet
<1>2. \A l \in LabelRecord : l.id \in Label /\ l.lo \in Nat /\ l.hi \in Nat
  BY DEF LabelRecord
<1> QED BY <1>1, <1>2

LEMMA StretchIs ==
  ASSUME NEW t \in Seq(Char), NEW a \in Nat, NEW b \in Nat, a <= b, b <= Len(t)
  PROVE  /\ SubSeq(t, a + 1, b) \in Seq(Char) /\ Len(SubSeq(t, a + 1, b)) = b - a
         /\ \A x \in 1..b - a : SubSeq(t, a + 1, b)[x] = t[a + x]
<1>1. SubSeq(t, a + 1, b) \in Seq(Char)
  OBVIOUS
<1>2. Len(SubSeq(t, a + 1, b)) = b - a
  OBVIOUS
<1>3. ASSUME NEW x \in 1..b - a PROVE SubSeq(t, a + 1, b)[x] = t[a + x]
  OBVIOUS
<1> QED BY <1>1, <1>2, <1>3

LEMMA HeadIs ==
  ASSUME NEW t \in Seq(Char), NEW b \in Nat, b <= Len(t)
  PROVE  /\ SubSeq(t, 1, b) \in Seq(Char) /\ Len(SubSeq(t, 1, b)) = b
         /\ \A x \in 1..b : SubSeq(t, 1, b)[x] = t[x]
<1>1. SubSeq(t, 1, b) \in Seq(Char)
  OBVIOUS
<1>2. Len(SubSeq(t, 1, b)) = b
  OBVIOUS
<1>3. ASSUME NEW x \in 1..b PROVE SubSeq(t, 1, b)[x] = t[x]
  OBVIOUS
<1> QED BY <1>1, <1>2, <1>3

LEMMA SegmentIs ==
  ASSUME NEW a \in Nat, NEW t \in Seq(Char), NEW ls \in Seq(LabelRecord)
  PROVE  /\ Segment(a, t, ls) \in Part
         /\ Segment(a, t, ls).start = a /\ Segment(a, t, ls).end = a + Len(t)
         /\ Segment(a, t, ls).text = t /\ Segment(a, t, ls).labels = ls
BY DEF Segment, Part

LEMMA WholeSegment ==
  ASSUME NEW a \in Nat, NEW t \in Seq(Char), NEW ls \in Seq(LabelRecord), Len(t) > 0,
         \A l \in ToSet(ls) : l.lo < l.hi /\ l.hi <= Len(t)
  PROVE  Whole(Segment(a, t, ls))
<1>1. t # <<>>
  OBVIOUS
<1> QED BY <1>1, SegmentIs DEF Whole

\* What is left of the index without some ids, none of them outside segments i..j-1.
LEMMA IndexIs ==
  ASSUME NEW row \in Seq(Part), NEW i \in 1..Len(row) + 1, NEW j \in i..Len(row) + 1, NEW ids,
         \A k \in Outside(row, i, j) : \A l \in ToSet(row[k].labels) : l.id \notin ids
  PROVE  Without(LabelsOf(row, DOMAIN row), ids) =
           LabelsOf(row, Outside(row, i, j)) \cup {l \in LabelsOf(row, i..j - 1) : l.id \notin ids}
<1>1. i..j - 1 \subseteq DOMAIN row
  OBVIOUS
<1>2. DOMAIN row = Outside(row, i, j) \cup (i..j - 1)
  BY <1>1 DEF Outside
<1> QED BY <1>2 DEF Without, LabelsOf

LEMMA OneInside ==
  ASSUME NEW row, NEW i \in Nat
  PROVE  i..(i + 1) - 1 = {i} /\ LabelsOf(row, i..(i + 1) - 1) = ToSet(row[i].labels)
<1>1. i..(i + 1) - 1 = {i}
  OBVIOUS
<1> QED BY <1>1 DEF LabelsOf

\* Labels with the ids of segments i..j-1 do not clash with the others.
LEMMA FreshFrom ==
  ASSUME NEW row \in Seq(Part), Placed(row), NEW i \in 1..Len(row) + 1, NEW j \in i..Len(row) + 1,
         NEW l, NEW o \in LabelsOf(row, i..j - 1), l.id = o.id
  PROVE  \A k \in Outside(row, i, j) : \A x \in ToSet(row[k].labels) : l.id # x.id
<1>1. i..j - 1 \subseteq DOMAIN row
  OBVIOUS
<1>2. PICK m \in i..j - 1 : o \in ToSet(row[m].labels)
  BY DEF LabelsOf
<1> SUFFICES ASSUME NEW k \in Outside(row, i, j), NEW x \in ToSet(row[k].labels), l.id = x.id PROVE FALSE
  OBVIOUS
<1>3. k \in DOMAIN row /\ k # m
  BY DEF Outside
<1>4. m \in DOMAIN row /\ o.id = x.id
  BY <1>1, <1>2
<1> QED BY <1>2, <1>3, <1>4 DEF Placed

\* The labels of some segments are told apart by their ids.
LEMMA InsideDistinct ==
  ASSUME NEW row, Placed(row), NEW D \in SUBSET DOMAIN row
  PROVE  \A l, o \in LabelsOf(row, D) : l.id = o.id => l = o
BY DEF Placed, LabelsOf

\* Everything about a replacement at once.
LEMMA Replaced ==
  ASSUME NEW row, NEW t \in Seq(Char), Tiled(row, t), Placed(row), NEW new \in Seq(Part), NEW t2 \in Seq(Char),
         NEW i \in 1..Len(row) + 1, NEW j \in i..Len(row) + 1, NEW d \in Int,
         Fits(new, t2, Edge(row, i), Edge(row, j) + d), SameBut(t, t2, Edge(row, i), Edge(row, j), d),
         Fresh(row, i, j, new)
  PROVE  LET r == Spliced(row, i, j, new, d)
         IN  /\ Tiled(r, t2) /\ Placed(r)
             /\ LabelsOf(r, DOMAIN r) = LabelsOf(row, Outside(row, i, j)) \cup LabelsOf(new, DOMAIN new)
<1>1. row \in Seq(Part)
  BY DEF Tiled
<1>2. Tiled(Spliced(row, i, j, new, d), t2)
  BY Retiled
<1> QED BY <1>1, <1>2, Relabelled

LEMMA ReplacedInPlace ==
  ASSUME NEW row, NEW t \in Seq(Char), Tiled(row, t), Placed(row), NEW new \in Seq(Part),
         NEW i \in 1..Len(row) + 1, NEW j \in i..Len(row) + 1,
         Fits(new, t, Edge(row, i), Edge(row, j)), Fresh(row, i, j, new)
  PROVE  LET r == Splice(row, i, j, new)
         IN  /\ Tiled(r, t) /\ Placed(r)
             /\ LabelsOf(r, DOMAIN r) = LabelsOf(row, Outside(row, i, j)) \cup LabelsOf(new, DOMAIN new)
<1>1. row \in Seq(Part) /\ Edge(row, j) \in Nat /\ j \in 1..Len(row) + 1
  <2>1. row \in Seq(Part) /\ j \in 1..Len(row) + 1
    BY DEF Tiled
  <2> QED BY <2>1, EdgeNat
<1>2. SameBut(t, t, Edge(row, i), Edge(row, j), 0)
  <2>1. \A x \in Edge(row, j) + 1..Len(t) : x + 0 = x
    OBVIOUS
  <2>2. Len(t) = Len(t) + 0
    OBVIOUS
  <2> QED BY <2>1, <2>2 DEF SameBut
<1>3. Fits(new, t, Edge(row, i), Edge(row, j) + 0)
  BY <1>1
<1>4. LET r == Spliced(row, i, j, new, 0)
      IN  /\ Tiled(r, t) /\ Placed(r)
          /\ LabelsOf(r, DOMAIN r) = LabelsOf(row, Outside(row, i, j)) \cup LabelsOf(new, DOMAIN new)
  BY <1>2, <1>3, Replaced
<1>5. Spliced(row, i, j, new, 0) = Splice(row, i, j, new)
  BY <1>1, NotMoved
<1> QED BY <1>4, <1>5

LEMMA StateIs ==
  ASSUME NEW s \in State
  PROVE  /\ s.text \in Seq(Char) /\ s.segments \in Seq(Part) /\ s.labelsById \in SUBSET LabelRecord
         /\ s.threw \in BOOLEAN
BY DEF State

LEMMA LabelsWithin ==
  ASSUME NEW row \in Seq(Part), NEW D \in SUBSET DOMAIN row
  PROVE  LabelsOf(row, D) \in SUBSET LabelRecord
<1> SUFFICES ASSUME NEW k \in D, NEW l \in ToSet(row[k].labels) PROVE l \in LabelRecord
  BY DEF LabelsOf
<1>1. row[k] \in Part
  OBVIOUS
<1>2. row[k].labels \in Seq(LabelRecord)
  BY <1>1 DEF Part
<1> QED BY <1>2, MembersAre

LEMMA SpliceOne ==
  ASSUME NEW row \in Seq(Part), NEW new \in Seq(Part), NEW i \in 1..Len(row)
  PROVE  LET r == Splice(row, i, i + 1, new)
         IN  /\ r \in Seq(Part) /\ Len(r) = Len(row) + Len(new) - 1
             /\ \A k \in 1..i - 1 : r[k] = row[k]
             /\ \A m \in 1..Len(new) : r[i - 1 + m] = new[m]
             /\ \A k \in i + 1..Len(row) : r[k + Len(new) - 1] = row[k]
<1> DEFINE j == i + 1
           r == Splice(row, i, j, new)
<1>1. i \in 1..Len(row) + 1 /\ j \in i..Len(row) + 1 /\ i \in Int /\ j = i + 1
  OBVIOUS
<1> HIDE DEF j
<1>2. /\ r \in Seq(Part) /\ Len(r) = Len(row) + Len(new) - (j - i)
      /\ \A k \in 1..i - 1 : r[k] = row[k]
      /\ \A m \in 1..Len(new) : r[i - 1 + m] = new[m]
      /\ \A k \in j..Len(row) : r[k + Len(new) - (j - i)] = row[k]
  BY <1>1, SpliceAt
<1> HIDE DEF r
<1>3. j - i = 1
  BY <1>1
<1>4. /\ r \in Seq(Part) /\ Len(r) = Len(row) + Len(new) - 1
      /\ \A k \in 1..i - 1 : r[k] = row[k]
      /\ \A m \in 1..Len(new) : r[i - 1 + m] = new[m]
      /\ \A k \in j..Len(row) : r[k + Len(new) - 1] = row[k]
  BY <1>2, <1>3
<1> QED BY <1>4 DEF r, j

LEMMA PairIs ==
  ASSUME NEW a \in Part, NEW b \in Part
  PROVE  /\ <<a, b>> \in Seq(Part) /\ Len(<<a, b>>) = 2 /\ DOMAIN <<a, b>> = 1..2
         /\ <<a, b>>[1] = a /\ <<a, b>>[2] = b /\ <<a, b>> # <<>>
         /\ LabelsOf(<<a, b>>, DOMAIN <<a, b>>) = ToSet(a.labels) \cup ToSet(b.labels)
<1>1. <<a, b>> \in Seq(Part) /\ Len(<<a, b>>) = 2 /\ DOMAIN <<a, b>> = 1..2
  OBVIOUS
<1>2. <<a, b>>[1] = a /\ <<a, b>>[2] = b /\ <<a, b>> # <<>>
  OBVIOUS
<1>3. 1..2 = {1, 2}
  OBVIOUS
<1>4. LabelsOf(<<a, b>>, {1, 2}) = ToSet(<<a, b>>[1].labels) \cup ToSet(<<a, b>>[2].labels)
  BY Zenon DEF LabelsOf
<1> QED BY <1>1, <1>2, <1>3, <1>4

LEMMA SingleIs ==
  ASSUME NEW a \in Part
  PROVE  /\ <<a>> \in Seq(Part) /\ Len(<<a>>) = 1 /\ DOMAIN <<a>> = 1..1 /\ <<a>>[1] = a /\ <<a>> # <<>>
         /\ LabelsOf(<<a>>, DOMAIN <<a>>) = ToSet(a.labels)
<1>1. <<a>> \in Seq(Part) /\ Len(<<a>>) = 1 /\ DOMAIN <<a>> = 1..1 /\ <<a>>[1] = a /\ <<a>> # <<>>
  OBVIOUS
<1>3. 1..1 = {1}
  OBVIOUS
<1>4. LabelsOf(<<a>>, {1}) = ToSet(<<a>>[1].labels)
  BY Zenon DEF LabelsOf
<1> QED BY <1>1, <1>3, <1>4


\* The two halves of a segment.
LEMMA LeftPartIs ==
  ASSUME NEW g \in Part, Whole(g), NEW pos \in Nat, 0 < pos, pos <= Len(g.text)
  PROVE  LET a == LeftPart(g, pos)
         IN  /\ a \in Part /\ a.start = g.start /\ a.end = g.start + pos /\ Len(a.text) = pos
             /\ \A x \in 1..pos : a.text[x] = g.text[x]
             /\ ToSet(a.labels) = {l \in ToSet(g.labels) : l.hi <= pos}
             /\ Whole(a)
<1> DEFINE tx == SubSeq(g.text, 1, pos)
           ls == LeftOf(g.labels, pos)
           a == LeftPart(g, pos)
<1>1. g.start \in Nat /\ g.text \in Seq(Char) /\ g.labels \in Seq(LabelRecord)
  BY DEF Part
<1>2. tx \in Seq(Char) /\ Len(tx) = pos /\ \A x \in 1..pos : tx[x] = g.text[x]
  BY <1>1, HeadIs
<1>3. ls \in Seq(LabelRecord) /\ ToSet(ls) = {l \in ToSet(g.labels) : l.hi <= pos}
  <2>1. pos \in Int
    OBVIOUS
  <2> QED BY <1>1, <2>1, LeftAre
<1>4. a = [start |-> g.start, end |-> g.start + Len(tx), text |-> tx, labels |-> ls]
  BY DEF LeftPart, Segment
<1> HIDE DEF tx, ls, a
<1>5. g.start + Len(tx) \in Nat
  BY <1>1, <1>2
<1>6. a \in Part
  BY <1>1, <1>2, <1>3, <1>4, <1>5 DEF Part
<1>7. a.start = g.start /\ a.end = g.start + pos /\ a.text = tx /\ a.labels = ls
  BY <1>2, <1>4
<1>8. \A l \in ToSet(ls) : l.lo < l.hi /\ l.hi <= pos
  BY <1>3 DEF Whole
<1>9. tx # <<>>
  BY <1>2
<1>10. Whole(a)
  BY <1>2, <1>7, <1>8, <1>9 DEF Whole
<1>11. /\ a \in Part /\ a.start = g.start /\ a.end = g.start + pos /\ Len(a.text) = pos
       /\ \A x \in 1..pos : a.text[x] = g.text[x]
       /\ ToSet(a.labels) = {l \in ToSet(g.labels) : l.hi <= pos}
       /\ Whole(a)
  BY <1>2, <1>3, <1>6, <1>7, <1>10
<1> QED BY <1>11 DEF a

LEMMA RightPartIs ==
  ASSUME NEW g \in Part, Whole(g), NEW pos \in Nat, pos < Len(g.text)
  PROVE  LET a == RightPart(g, pos)
         IN  /\ a \in Part /\ a.start = g.start + pos /\ a.end = g.end /\ Len(a.text) = Len(g.text) - pos
             /\ \A x \in 1..Len(g.text) - pos : a.text[x] = g.text[pos + x]
             /\ ToSet(a.labels) = {By(l, 0 - pos) : l \in {x \in ToSet(g.labels) : x.lo >= pos}}
             /\ Whole(a)
<1> DEFINE tx == SubSeq(g.text, pos + 1, Len(g.text))
           ls == AllBy(RightOf(g.labels, pos), 0 - pos)
           a == RightPart(g, pos)
<1>1. g.start \in Nat /\ g.text \in Seq(Char) /\ g.labels \in Seq(LabelRecord) /\ Len(g.text) \in Nat
      /\ g.end = g.start + Len(g.text)
  BY DEF Part, Whole
<1>2. tx \in Seq(Char) /\ Len(tx) = Len(g.text) - pos /\ \A x \in 1..Len(g.text) - pos : tx[x] = g.text[pos + x]
  <2>1. pos <= Len(g.text) /\ Len(g.text) <= Len(g.text)
    BY <1>1
  <2> QED BY <1>1, <2>1, StretchIs
<1>3. \A l \in ToSet(g.labels) : l \in LabelRecord /\ l.lo \in Nat /\ l.hi \in Nat /\ l.lo < l.hi /\ l.hi <= Len(g.text)
  BY <1>1, MembersAre DEF Whole
<1>4. RightOf(g.labels, pos) \in Seq(LabelRecord)
      /\ ToSet(RightOf(g.labels, pos)) = {x \in ToSet(g.labels) : x.lo >= pos}
  <2>1. pos \in Int
    OBVIOUS
  <2> QED BY <1>1, <2>1, RightAre
<1>5. ls \in Seq(LabelRecord) /\ ToSet(ls) = {By(l, 0 - pos) : l \in {x \in ToSet(g.labels) : x.lo >= pos}}
  <2>1. 0 - pos \in Int
    OBVIOUS
  <2>2. \A l \in ToSet(RightOf(g.labels, pos)) : l.lo + (0 - pos) \in Nat /\ l.hi + (0 - pos) \in Nat
    BY <1>3, <1>4
  <2>3. ls \in Seq(LabelRecord) /\ ToSet(ls) = {By(l, 0 - pos) : l \in ToSet(RightOf(g.labels, pos))}
    BY <1>4, <2>1, <2>2, AllByAre
  <2> QED BY <2>3, <1>4
<1>6. a = [start |-> g.start + pos, end |-> (g.start + pos) + Len(tx), text |-> tx, labels |-> ls]
  BY DEF RightPart, Segment
<1> HIDE DEF tx, ls, a
<1>7. g.start + pos \in Nat /\ (g.start + pos) + Len(tx) \in Nat /\ (g.start + pos) + Len(tx) = g.end
  BY <1>1, <1>2, SMTT(30)
<1>8. a \in Part
  BY <1>2, <1>5, <1>6, <1>7 DEF Part
<1>9. a.start = g.start + pos /\ a.end = g.end /\ a.text = tx /\ a.labels = ls
  BY <1>6, <1>7
<1>10. ASSUME NEW l \in ToSet(ls) PROVE l.lo < l.hi /\ l.hi <= Len(g.text) - pos
  <2>1. PICK o \in ToSet(g.labels) : l = By(o, 0 - pos) /\ o.lo >= pos
    BY <1>5
  <2>2. o \in LabelRecord /\ 0 - pos \in Int /\ o.lo \in Nat /\ o.hi \in Nat /\ o.lo < o.hi /\ o.hi <= Len(g.text)
    BY <1>3
  <2>3. l.lo = o.lo + (0 - pos) /\ l.hi = o.hi + (0 - pos)
    BY <2>1, <2>2, ByIs
  <2> QED BY <2>2, <2>3, <1>1
<1>11. tx # <<>>
  BY <1>1, <1>2
<1>12. Whole(a)
  <2>1. a.end = a.start + Len(a.text)
    BY <1>6, <1>9
  <2> QED BY <2>1, <1>2, <1>9, <1>10, <1>11 DEF Whole
<1>13. /\ a \in Part /\ a.start = g.start + pos /\ a.end = g.end /\ Len(a.text) = Len(g.text) - pos
       /\ \A x \in 1..Len(g.text) - pos : a.text[x] = g.text[pos + x]
       /\ ToSet(a.labels) = {By(l, 0 - pos) : l \in {x \in ToSet(g.labels) : x.lo >= pos}}
       /\ Whole(a)
  BY <1>2, <1>5, <1>8, <1>9, <1>12
<1> QED BY <1>13 DEF a

\* The labels of a segment moved by d keep their ids.
LEMMA ByIds ==
  ASSUME NEW L \in SUBSET LabelRecord, NEW d \in Int, NEW l \in {By(x, d) : x \in L}
  PROVE  \E o \in L : l = By(o, d) /\ l.id = o.id /\ l.lo = o.lo + d /\ l.hi = o.hi + d
<1>1. PICK o \in L : l = By(o, d)
  OBVIOUS
<1>2. o \in LabelRecord
  OBVIOUS
<1> QED BY <1>1, <1>2, ByIs

\* Segment i is split in two: both halves, and everything else as it was.
LEMMA SplitIs ==
  ASSUME NEW s \in State, NEW t \in Seq(Char), Held(s, t), NEW i \in DOMAIN s.segments, NEW pos \in Nat,
         ~s.threw, 0 < pos, pos < Len(s.segments[i].text), validateSplit(s.segments[i], pos),
         s.segments[i].start < Len(s.text)
  PROVE  LET u == splitSegment(s, i, pos)
             g == s.segments[i]
         IN  /\ u \in State /\ Held(u, t) /\ u.text = s.text /\ ~u.threw
             /\ Len(u.segments) = Len(s.segments) + 1
             /\ \A l \in u.labelsById : \E o \in s.labelsById : o.id = l.id
             /\ u.segments[i] = LeftPart(g, pos) /\ u.segments[i + 1] = RightPart(g, pos)
<1> DEFINE u == splitSegment(s, i, pos)
           row == s.segments
           g == row[i]
           a == LeftPart(g, pos)
           b == RightPart(g, pos)
<1>0. row = s.segments /\ g = row[i] /\ i \in DOMAIN row /\ ~s.threw
      /\ pos < Len(g.text) /\ validateSplit(g, pos) /\ g.start < Len(s.text) /\ pos \in Int
  OBVIOUS
<1>1. Tiled(row, t) /\ Placed(row) /\ s.labelsById = LabelsOf(row, DOMAIN row) /\ row \in Seq(Part)
  BY StateIs DEF Held
<1>2. /\ g \in Part /\ g.start \in Nat /\ g.end \in Nat
      /\ g.text \in Seq(Char) /\ g.labels \in Seq(LabelRecord)
      /\ Len(g.text) \in Nat \ {0} /\ g.end = g.start + Len(g.text)
      /\ Edge(row, i) = g.start /\ Edge(row, i + 1) = g.end
      /\ Whole(g) /\ Shows(g, t)
  BY <1>1, Tile
<1>3. u = [s EXCEPT !.labelsById = Reset(s.labelsById, b.labels), !.segments = Splice(row, i, i + 1, <<a, b>>)]
  <2>1. ~(s.threw \/ pos \in {0, Len(g.text)})
    BY <1>2
  <2>2. ~(~validateSplit(g, pos) \/ pos > Len(g.text) \/ g.start >= Len(s.text))
    <3>1. Len(s.text) \in Nat
      BY StateIs
    <3> QED BY <1>0, <1>2, <3>1
  <2>3. u = IF s.threw \/ pos \in {0, Len(g.text)} THEN s
            ELSE IF ~validateSplit(g, pos) \/ pos > Len(g.text) \/ g.start >= Len(s.text)
            THEN [s EXCEPT !.threw = TRUE]
            ELSE [s EXCEPT !.labelsById = Reset(s.labelsById, b.labels),
                           !.segments = Splice(row, i, i + 1, <<a, b>>)]
    BY DEF splitSegment
  <2> HIDE DEF u, g, row, a, b
  <2> QED BY <2>1, <2>2, <2>3
<1> HIDE DEF u, g, row
<1>4. i \in 1..Len(row) + 1 /\ i + 1 \in i..Len(row) + 1 /\ i \in Nat /\ i \in 1..Len(row) /\ Len(row) \in Nat
  BY <1>0, <1>1
<1>5. \A l \in ToSet(g.labels) : l \in LabelRecord /\ l.lo \in Nat /\ l.hi \in Nat /\ l.lo < l.hi /\ l.hi <= Len(g.text)
                                /\ (l.hi <= pos \/ l.lo >= pos)
  <2>1. \A l \in ToSet(g.labels) : l \in LabelRecord /\ l.lo \in Nat /\ l.hi \in Nat
    BY <1>2, MembersAre
  <2>2. \A l \in ToSet(g.labels) : l.lo < l.hi /\ l.hi <= Len(g.text)
    BY <1>2 DEF Whole
  <2>3. \A l \in ToSet(g.labels) : ~(l.lo < pos /\ pos < l.hi)
    BY <1>0 DEF validateSplit, ToSet
  <2> QED BY <2>1, <2>2, <2>3
<1> DEFINE L == ToSet(a.labels)
           R == ToSet(b.labels)
<1>6. /\ a \in Part /\ a.start = g.start /\ a.end = g.start + pos /\ Len(a.text) = pos
      /\ \A x \in 1..pos : a.text[x] = g.text[x]
      /\ L = {l \in ToSet(g.labels) : l.hi <= pos}
      /\ Whole(a)
  <2>1. pos <= Len(g.text)
    BY <1>0, <1>2
  <2> QED BY <2>1, <1>2, LeftPartIs
<1>7. /\ b \in Part /\ b.start = g.start + pos /\ b.end = g.end /\ Len(b.text) = Len(g.text) - pos
      /\ \A x \in 1..Len(g.text) - pos : b.text[x] = g.text[pos + x]
      /\ R = {By(l, 0 - pos) : l \in {x \in ToSet(g.labels) : x.lo >= pos}}
      /\ Whole(b)
  BY <1>0, <1>2, RightPartIs, ZenonT(60)
<1> HIDE DEF a, b
<1>8. \A l \in R : \E o \in ToSet(g.labels) : l = By(o, 0 - pos) /\ l.id = o.id /\ o.lo >= pos
  <2> SUFFICES ASSUME NEW o \in ToSet(g.labels), o.lo >= pos PROVE By(o, 0 - pos).id = o.id
    BY <1>7
  <2>1. o \in LabelRecord /\ 0 - pos \in Int
    BY <1>5
  <2> QED BY <2>1, ByIs
<1>9. a.labels \in Seq(LabelRecord) /\ b.labels \in Seq(LabelRecord)
  BY <1>6, <1>7 DEF Part
<1>12. Shows(a, t)
  <2> SUFFICES ASSUME NEW x \in 1..pos PROVE a.text[x] = t[a.start + x]
    BY <1>6 DEF Shows
  <2>1. x \in 1..Len(g.text)
    BY <1>0, <1>2
  <2> QED BY <2>1, <1>2, <1>6 DEF Shows
<1>13. Shows(b, t)
  <2> SUFFICES ASSUME NEW x \in 1..Len(g.text) - pos PROVE b.text[x] = t[b.start + x]
    BY <1>7 DEF Shows
  <2>1. pos + x \in 1..Len(g.text) /\ (g.start + pos) + x = g.start + (pos + x)
    BY <1>2, SMTT(30)
  <2>2. b.text[x] = g.text[pos + x]
    BY <1>7
  <2> QED BY <2>1, <2>2, <1>2, <1>7 DEF Shows
<1> DEFINE new == <<a, b>>
<1>14. new \in Seq(Part) /\ Len(new) = 2 /\ DOMAIN new = 1..2 /\ new[1] = a /\ new[2] = b /\ new # <<>>
       /\ LabelsOf(new, DOMAIN new) = L \cup R
  BY <1>6, <1>7, PairIs
<1> HIDE DEF new, L, R
<1>15. Fits(new, t, Edge(row, i), Edge(row, i + 1))
  <2>1. \A m \in DOMAIN new : m = 1 \/ m = 2
    BY <1>14
  <2> QED BY <2>1, <1>2, <1>6, <1>7, <1>12, <1>13, <1>14 DEF Fits
<1>16. i..(i + 1) - 1 = {i} /\ LabelsOf(row, i..(i + 1) - 1) = ToSet(g.labels)
  BY <1>0, <1>4, OneInside
<1>17. \A l \in L \cup R : \E o \in ToSet(g.labels) : l.id = o.id
  BY <1>6, <1>8
<1>18. \A l, o \in ToSet(g.labels) : l.id = o.id => l = o
  BY <1>0, <1>1 DEF Placed
<1>19. Fresh(row, i, i + 1, new)
  <2>1. Placed(new)
    <3> SUFFICES ASSUME NEW m \in 1..2, NEW n \in 1..2, NEW l \in ToSet(new[m].labels), NEW k \in ToSet(new[n].labels),
                        l.id = k.id
                 PROVE  m = n /\ l = k
      BY <1>14 DEF Placed
    <3>1. CASE m = 1 /\ n = 1
      BY <3>1, <1>6, <1>14, <1>18 DEF L
    <3>2. ASSUME NEW x \in L, NEW y \in R, x.id = y.id PROVE FALSE
      <4>1. PICK o \in ToSet(g.labels) : y.id = o.id /\ o.lo >= pos
        BY <1>8
      <4>2. x = o /\ x.hi <= pos
        BY <4>1, <3>2, <1>6, <1>18
      <4> QED BY <4>1, <4>2, <1>5
    <3>3. CASE m = 1 /\ n = 2
      BY <3>3, <3>2, <1>14 DEF L, R
    <3>4. CASE m = 2 /\ n = 1
      BY <3>4, <3>2, <1>14 DEF L, R
    <3>5. CASE m = 2 /\ n = 2
      <4>1. l \in R /\ k \in R
        BY <3>5, <1>14 DEF R
      <4>2. PICK o \in ToSet(g.labels) : l = By(o, 0 - pos) /\ l.id = o.id
        BY <4>1, <1>8
      <4>3. PICK p \in ToSet(g.labels) : k = By(p, 0 - pos) /\ k.id = p.id
        BY <4>1, <1>8
      <4> QED BY <4>2, <4>3, <3>5, <1>18
    <3> QED BY <3>1, <3>3, <3>4, <3>5
  <2>2. ASSUME NEW m \in DOMAIN new, NEW k \in Outside(row, i, i + 1),
               NEW l \in ToSet(new[m].labels), NEW x \in ToSet(row[k].labels)
        PROVE  l.id # x.id
    <3>0. m = 1 \/ m = 2
      BY <1>14
    <3>1. l \in L \cup R
      BY <3>0, <1>14 DEF L, R
    <3>2. PICK o \in ToSet(g.labels) : l.id = o.id
      BY <3>1, <1>17
    <3> QED BY <3>2, <1>1, <1>4, <1>16, FreshFrom
  <2> QED BY <2>1, <2>2 DEF Fresh
<1> DEFINE r == Splice(row, i, i + 1, new)
<1>20. Tiled(r, t) /\ Placed(r)
       /\ LabelsOf(r, DOMAIN r) = LabelsOf(row, Outside(row, i, i + 1)) \cup LabelsOf(new, DOMAIN new)
  BY <1>1, <1>4, <1>14, <1>15, <1>19, ReplacedInPlace
<1>21. /\ r \in Seq(Part) /\ Len(r) = Len(row) + 1 /\ r[i] = a /\ r[i + 1] = b
  <2>1. /\ r \in Seq(Part) /\ Len(r) = Len(row) + Len(new) - 1
        /\ \A m \in 1..Len(new) : r[i - 1 + m] = new[m]
    BY <1>1, <1>4, <1>14, SpliceOne, ZenonT(60)
  <2> HIDE DEF r
  <2>2. i - 1 + 1 = i /\ i - 1 + 2 = i + 1 /\ Len(row) + 2 - 1 = Len(row) + 1
    BY <1>4
  <2>3. r[i - 1 + 1] = new[1] /\ r[i - 1 + 2] = new[2]
    <3>1. 1 \in 1..Len(new) /\ 2 \in 1..Len(new)
      BY <1>14
    <3> QED BY <2>1, <3>1
  <2> QED BY <2>1, <2>2, <2>3, <1>14
<1> HIDE DEF r
<1>22. Reset(s.labelsById, b.labels) = LabelsOf(row, Outside(row, i, i + 1)) \cup L \cup R
  <2> DEFINE ids == IdsOf(b.labels)
  <2>1. ids = {l.id : l \in R}
    BY <1>9, IdsAre DEF R
  <2>2. \A x \in ToSet(g.labels) : x.id \in ids <=> x.lo >= pos
    <3> SUFFICES ASSUME NEW x \in ToSet(g.labels) PROVE x.id \in ids <=> x.lo >= pos
      OBVIOUS
    <3> HIDE DEF ids
    <3>1. ASSUME x.id \in ids PROVE x.lo >= pos
      <4>1. PICK l \in R : x.id = l.id
        BY <3>1, <2>1
      <4> QED BY <4>1, <1>8, <1>18
    <3>2. ASSUME x.lo >= pos PROVE x.id \in ids
      <4>1. By(x, 0 - pos) \in R
        BY <3>2, <1>7
      <4>2. By(x, 0 - pos).id = x.id
        BY <1>5, ByIs
      <4> QED BY <4>1, <4>2, <2>1
    <3> QED BY <3>1, <3>2
  <2>3. \A k \in Outside(row, i, i + 1) : \A x \in ToSet(row[k].labels) : x.id \notin ids
    <3> SUFFICES ASSUME NEW k \in Outside(row, i, i + 1), NEW x \in ToSet(row[k].labels), NEW l \in R
                 PROVE  x.id # l.id
      BY <2>1
    <3>1. PICK o \in ToSet(g.labels) : l.id = o.id
      BY <1>8
    <3> QED BY <3>1, <1>1, <1>4, <1>16, FreshFrom
  <2> HIDE DEF ids
  <2>4. Without(s.labelsById, ids) =
          LabelsOf(row, Outside(row, i, i + 1)) \cup {x \in LabelsOf(row, i..(i + 1) - 1) : x.id \notin ids}
    <3>1. Without(LabelsOf(row, DOMAIN row), ids) =
            LabelsOf(row, Outside(row, i, i + 1)) \cup {x \in LabelsOf(row, i..(i + 1) - 1) : x.id \notin ids}
      BY <2>3, <1>1, <1>4, IndexIs
    <3> QED BY <3>1, <1>1
  <2>5. {x \in ToSet(g.labels) : x.id \notin ids} = L
    BY <2>2, <1>5, <1>6
  <2>6. Reset(s.labelsById, b.labels) = Without(s.labelsById, ids) \cup R
    BY DEF Reset, ids, R
  <2> QED BY <2>4, <2>5, <2>6, <1>16
<1>23. /\ u.segments = r /\ u.labelsById = Reset(s.labelsById, b.labels) /\ u.text = s.text /\ u.threw = s.threw
  BY <1>3 DEF State, r, new
<1>24. u.labelsById = LabelsOf(r, DOMAIN r)
  BY <1>14, <1>20, <1>22, <1>23
<1>25. Held(u, t)
  BY <1>20, <1>23, <1>24 DEF Held
<1>26. u \in State
  <2>1. LabelsOf(r, DOMAIN r) \in SUBSET LabelRecord
    BY <1>21, LabelsWithin
  <2>2. u = [s EXCEPT !.labelsById = u.labelsById, !.segments = r]
    BY <1>3, <1>23 DEF r, new
  <2> QED BY <2>1, <2>2, <1>21, <1>24 DEF State
<1>27. \A l \in u.labelsById : \E o \in s.labelsById : o.id = l.id
  <2>1. \A l \in LabelsOf(row, Outside(row, i, i + 1)) : l \in s.labelsById
    BY <1>1 DEF LabelsOf, Outside
  <2>2. \A o \in ToSet(g.labels) : o \in s.labelsById
    BY <1>0, <1>1 DEF LabelsOf
  <2> QED BY <2>1, <2>2, <1>17, <1>22, <1>23
<1>28. /\ u \in State /\ Held(u, t) /\ u.text = s.text /\ ~u.threw
       /\ Len(u.segments) = Len(row) + 1
       /\ \A l \in u.labelsById : \E o \in s.labelsById : o.id = l.id
       /\ u.segments[i] = a /\ u.segments[i + 1] = b
  BY <1>0, <1>21, <1>23, <1>25, <1>26, <1>27
<1> QED BY <1>28 DEF u, g, row, a, b

\* A split at any offset keeps the tiling, whether or not it throws.
LEMMA SplitHeld ==
  ASSUME NEW s \in State, NEW t \in Seq(Char), Held(s, t), NEW i \in DOMAIN s.segments, NEW pos \in Nat
  PROVE  LET u == splitSegment(s, i, pos)
         IN  /\ u \in State /\ Held(u, t) /\ u.text = s.text /\ i \in DOMAIN u.segments
             /\ \A l \in u.labelsById : \E o \in s.labelsById : o.id = l.id
<1> DEFINE u == splitSegment(s, i, pos)
           g == s.segments[i]
           Kept == /\ u \in State /\ Held(u, t) /\ u.text = s.text /\ i \in DOMAIN u.segments
                   /\ \A l \in u.labelsById : \E o \in s.labelsById : o.id = l.id
<1>1. CASE s.threw \/ pos \in {0, Len(g.text)}
  <2>1. u = s
    BY <1>1 DEF splitSegment
  <2> HIDE DEF u
  <2>2. Kept
    BY <2>1
  <2> QED BY <2>2 DEF u
<1>2. CASE ~(s.threw \/ pos \in {0, Len(g.text)}) /\ (~validateSplit(g, pos) \/ pos > Len(g.text) \/ g.start >= Len(s.text))
  <2>1. u = [s EXCEPT !.threw = TRUE]
    BY <1>2 DEF splitSegment
  <2> HIDE DEF u
  <2>2. u.text = s.text /\ u.segments = s.segments /\ u.labelsById = s.labelsById /\ u \in State
    BY <2>1 DEF State
  <2>3. Held(u, t)
    BY <2>2 DEF Held
  <2>4. Kept
    BY <2>2, <2>3
  <2> QED BY <2>4 DEF u
<1>3. CASE ~(s.threw \/ pos \in {0, Len(g.text)}) /\ ~(~validateSplit(g, pos) \/ pos > Len(g.text) \/ g.start >= Len(s.text))
  <2>1. g \in Part /\ Len(g.text) \in Nat /\ g.start \in Nat /\ Len(s.text) \in Nat
    <3>1. Tiled(s.segments, t)
      BY DEF Held
    <3> QED BY <3>1, Tile, StateIs
  <2> HIDE DEF g
  <2>2. ~s.threw /\ 0 < pos /\ pos < Len(g.text) /\ validateSplit(g, pos) /\ g.start < Len(s.text)
    BY <1>3, <2>1
  <2>3. /\ u \in State /\ Held(u, t) /\ u.text = s.text /\ Len(u.segments) = Len(s.segments) + 1
        /\ \A l \in u.labelsById : \E o \in s.labelsById : o.id = l.id
    BY <2>2, SplitIs DEF g
  <2> HIDE DEF u
  <2>4. i \in DOMAIN u.segments
    <3>1. u.segments \in Seq(Part) /\ s.segments \in Seq(Part)
      BY <2>3, StateIs
    <3> QED BY <3>1, <2>3
  <2>5. Kept
    BY <2>3, <2>4
  <2> QED BY <2>5 DEF u
<1> QED BY <1>1, <1>2, <1>3

------------------------------------------------------------------------------
(* Labels at their place in the text, as the segments at places D of a row   *)
(* show them, and labels that are moved.                                    *)
SeenIn(row, D) == UNION {{By(l, row[i].start) : l \in ToSet(row[i].labels)} : i \in D}
Seen(s) == SeenIn(s.segments, DOMAIN s.segments)
AllMoved(S, d) == {By(l, d) : l \in S}

LEMMA ByTwice ==
  ASSUME NEW l \in LabelRecord, NEW a \in Int, NEW b \in Int
  PROVE  By(By(l, a), b) = By(l, a + b) /\ By(l, 0) = l
<1> DEFINE R == [id : Label, lo : Int, hi : Int]
<1>1. \A x \in R, n \in Int : By(x, n) \in R /\ By(x, n).id = x.id /\ By(x, n).lo = x.lo + n /\ By(x, n).hi = x.hi + n
  <2> SUFFICES ASSUME NEW x \in R, NEW n \in Int
               PROVE  By(x, n) \in R /\ By(x, n).id = x.id /\ By(x, n).lo = x.lo + n /\ By(x, n).hi = x.hi + n
    OBVIOUS
  <2>1. x.lo + n \in Int /\ x.hi + n \in Int
    OBVIOUS
  <2>2. By(x, n) = [x EXCEPT !.lo = x.lo + n, !.hi = x.hi + n]
    BY DEF By
  <2> QED BY <2>1, <2>2
<1>2. \A x, y \in R : x.id = y.id /\ x.lo = y.lo /\ x.hi = y.hi => x = y
  OBVIOUS
<1>3. \A x \in R : x.lo \in Int /\ x.hi \in Int
  OBVIOUS
<1>4. l \in R
  BY DEF LabelRecord
<1> HIDE DEF R
<1> DEFINE p == By(l, a)
           q == By(p, b)
           r == By(l, a + b)
           z == By(l, 0)
<1>5. p \in R /\ p.id = l.id /\ p.lo = l.lo + a /\ p.hi = l.hi + a
  BY <1>1, <1>4
<1> HIDE DEF p
<1>6. q \in R /\ q.id = p.id /\ q.lo = p.lo + b /\ q.hi = p.hi + b
  BY <1>1, <1>5
<1>7. r \in R /\ r.id = l.id /\ r.lo = l.lo + (a + b) /\ r.hi = l.hi + (a + b)
  <2>1. a + b \in Int
    OBVIOUS
  <2> QED BY <2>1, <1>1, <1>4
<1>8. z \in R /\ z.id = l.id /\ z.lo = l.lo + 0 /\ z.hi = l.hi + 0
  BY <1>1, <1>4
<1> HIDE DEF q, r, z
<1>9. l.lo \in Int /\ l.hi \in Int
  BY <1>3, <1>4
<1>10. q.lo = r.lo /\ q.hi = r.hi /\ z.lo = l.lo /\ z.hi = l.hi
  BY <1>5, <1>6, <1>7, <1>8, <1>9
<1>11. q = r
  BY <1>2, <1>5, <1>6, <1>7, <1>10
<1>12. z = l
  BY <1>2, <1>4, <1>8, <1>10
<1> QED BY <1>11, <1>12 DEF p, q, r, z

\* What a label of a segment shows lies within it.
LEMMA SeenAt ==
  ASSUME NEW row, NEW t, Tiled(row, t), NEW k \in DOMAIN row, NEW l \in ToSet(row[k].labels)
  PROVE  LET x == By(l, row[k].start)
         IN  /\ l \in LabelRecord /\ x \in LabelRecord /\ x.id = l.id
             /\ x.lo = row[k].start + l.lo /\ x.hi = row[k].start + l.hi
             /\ x.lo \in Nat /\ x.hi \in Nat /\ x.lo < x.hi
             /\ row[k].start <= x.lo /\ x.hi <= row[k].end
<1> DEFINE g == row[k]
           n == g.start
           m == Len(g.text)
           x == By(l, n)
<1>1. n \in Nat /\ m \in Nat /\ g.end = n + m /\ g.labels \in Seq(LabelRecord) /\ Whole(g)
  BY Tile
<1>2. l \in LabelRecord /\ l.lo \in Nat /\ l.hi \in Nat /\ l.lo < l.hi /\ l.hi <= m
  BY <1>1, MembersAre DEF Whole
<1> HIDE DEF m
<1>3. n \in Int /\ l.lo + n \in Nat /\ l.hi + n \in Nat
  BY <1>1, <1>2
<1> HIDE DEF n
<1>4. x.id = l.id /\ x.lo = l.lo + n /\ x.hi = l.hi + n /\ x \in LabelRecord
  BY <1>2, <1>3, ByIs
<1>5. n <= l.lo + n /\ l.hi + n <= n + m /\ l.lo + n = n + l.lo /\ l.hi + n = n + l.hi /\ l.lo + n < l.hi + n
  BY <1>1, <1>2
<1> QED BY <1>1, <1>2, <1>3, <1>4, <1>5 DEF n

LEMMA SeenWithin ==
  ASSUME NEW row, NEW t \in Seq(Char), Tiled(row, t), NEW i \in 1..Len(row) + 1, NEW j \in i..Len(row) + 1,
         NEW x \in SeenIn(row, i..j - 1)
  PROVE  /\ x \in LabelRecord /\ x.id \in Label /\ x.lo \in Nat /\ x.hi \in Nat /\ x.lo < x.hi
         /\ Edge(row, i) <= x.lo /\ x.hi <= Edge(row, j) /\ x.hi <= Len(t)
<1>1. row \in Seq(Part) /\ Len(row) \in Nat /\ DOMAIN row = 1..Len(row)
  BY DEF Tiled
<1>2. PICK k \in i..j - 1 : \E l \in ToSet(row[k].labels) : x = By(l, row[k].start)
  BY DEF SeenIn
<1>3. k \in DOMAIN row /\ k \in i..Len(row) + 1 /\ k + 1 \in 1..Len(row) + 1 /\ j \in k + 1..Len(row) + 1
      /\ k \in 1..Len(row) + 1 /\ j \in 1..Len(row) + 1
  BY <1>1
<1>4. /\ x \in LabelRecord /\ x.lo \in Nat /\ x.hi \in Nat /\ x.lo < x.hi
      /\ row[k].start <= x.lo /\ x.hi <= row[k].end
  BY <1>2, <1>3, SeenAt
<1>5. /\ row[k].start \in Nat /\ row[k].end \in Nat /\ Edge(row, k) = row[k].start /\ Edge(row, k + 1) = row[k].end
  BY <1>3, Tile
<1>6. Edge(row, i) \in Nat /\ Edge(row, j) \in Nat /\ Len(t) \in Nat
  BY <1>1, <1>3, EdgeNat
<1>7. Edge(row, i) <= Edge(row, k)
  BY <1>3, EdgesAscend
<1>8. Edge(row, k + 1) <= Edge(row, j) /\ Edge(row, j) <= Len(t)
  BY <1>3, EdgesAscend
<1>9. x.id \in Label
  BY <1>4 DEF LabelRecord
<1> QED BY <1>4, <1>5, <1>6, <1>7, <1>8, <1>9

LEMMA SeenUnion ==
  ASSUME NEW row, NEW C, NEW D
  PROVE  SeenIn(row, C \cup D) = SeenIn(row, C) \cup SeenIn(row, D)
BY DEF SeenIn

\* A row shows what its three stretches show.
LEMMA SeenParts ==
  ASSUME NEW row \in Seq(Part), NEW i \in 1..Len(row) + 1, NEW j \in i..Len(row) + 1
  PROVE  SeenIn(row, DOMAIN row) =
           SeenIn(row, 1..i - 1) \cup SeenIn(row, i..j - 1) \cup SeenIn(row, j..Len(row))
<1> DEFINE B == 1..i - 1
           M == i..j - 1
           A == j..Len(row)
<1>1. DOMAIN row = (B \cup M) \cup A
  <2>1. DOMAIN row = 1..Len(row) /\ Len(row) \in Nat
    OBVIOUS
  <2> QED BY <2>1
<1> HIDE DEF B, M, A
<1>2. SeenIn(row, (B \cup M) \cup A) = SeenIn(row, B \cup M) \cup SeenIn(row, A)
  BY SeenUnion
<1>3. SeenIn(row, B \cup M) = SeenIn(row, B) \cup SeenIn(row, M)
  BY SeenUnion
<1> QED BY <1>1, <1>2, <1>3 DEF B, M, A

\* A row in which a stretch is replaced and the rest is moved.
LEMMA SeenSpliced ==
  ASSUME NEW row, NEW t \in Seq(Char), Tiled(row, t), NEW new \in Seq(Part), NEW d \in Int,
         NEW i \in 1..Len(row) + 1, NEW j \in i..Len(row) + 1
  PROVE  LET r == Spliced(row, i, j, new, d)
         IN  SeenIn(r, DOMAIN r) =
               SeenIn(row, 1..i - 1) \cup SeenIn(new, DOMAIN new) \cup AllMoved(SeenIn(row, j..Len(row)), d)
<1> DEFINE r == Spliced(row, i, j, new, d)
           n == Len(row) + Len(new) - (j - i)
           w == Len(new)
           z == Len(row)
           e == w - (j - i)
           P(q, k) == {By(l, q[k].start) : l \in ToSet(q[k].labels)}
<1>0. row \in Seq(Part) /\ DOMAIN row = 1..z /\ z \in Nat /\ w \in Nat /\ DOMAIN new = 1..w
  BY DEF Tiled
<1>1. /\ DOMAIN r = 1..n /\ n \in Nat
      /\ \A k \in 1..i - 1 : r[k] = row[k]
      /\ \A m \in 1..Len(new) : r[i - 1 + m] = new[m]
      /\ \A k \in j..Len(row) : r[k + Len(new) - (j - i)] = Shifted(row[k], d)
  <2>1. LET q == Spliced(row, i, j, new, d)
            c == Len(row) + Len(new) - (j - i)
        IN  /\ DOMAIN q = 1..c /\ c \in Nat
            /\ q = [k \in 1..c |-> q[k]]
            /\ \A k \in 1..i - 1 : q[k] = row[k]
            /\ \A m \in 1..Len(new) : q[i - 1 + m] = new[m]
            /\ \A k \in j..Len(row) : q[k + Len(new) - (j - i)] = Shifted(row[k], d)
    <3>1. row \in Seq(Part)
      BY <1>0
    <3> QED BY <3>1, SplicedAt
  <2> QED BY <2>1
<1> HIDE DEF r
<1>2. DOMAIN r = 1..n /\ n = z + e /\ e = w - (j - i) /\ i \in 1..z + 1 /\ j \in i..z + 1
      /\ (\A k \in 1..i - 1 : r[k] = row[k])
      /\ (\A m \in 1..w : r[i - 1 + m] = new[m])
      /\ \A k \in j..z : r[k + e] = Shifted(row[k], d)
  <2>1. \A k \in j..z : k + w - (j - i) = k + e
    BY <1>0
  <2>2. n = z + e /\ i \in 1..z + 1 /\ j \in i..z + 1
    BY <1>0
  <2>3. \A k \in j..z : r[k + w - (j - i)] = Shifted(row[k], d)
    BY <1>1
  <2> QED BY <1>1, <2>1, <2>2, <2>3
<1> HIDE DEF n, w, z, e
<1>3. \A k \in 1..i - 1 : k \in 1..n /\ P(r, k) = P(row, k)
  <2>1. \A k \in 1..i - 1 : k \in 1..n
    BY <1>0, <1>2
  <2> QED BY <2>1, <1>2
<1>4. \A m \in 1..w : i - 1 + m \in 1..n /\ P(r, i - 1 + m) = P(new, m)
  <2>1. \A m \in 1..w : i - 1 + m \in 1..n
    BY <1>0, <1>2
  <2> QED BY <2>1, <1>2
<1>5. ASSUME NEW k \in j..z PROVE k + e \in 1..n /\ P(r, k + e) = AllMoved(P(row, k), d)
  <2>1. k + e \in 1..n /\ k \in DOMAIN row
    BY <1>0, <1>2
  <2>2. r[k + e] = Shifted(row[k], d)
    BY <1>2
  <2>3. row[k] \in Part /\ row[k].start \in Nat /\ row[k].labels \in Seq(LabelRecord)
    BY <2>1, Tile
  <2>4. r[k + e].start = row[k].start + d /\ r[k + e].labels = row[k].labels
    BY <2>2, <2>3 DEF Shifted, Part
  <2>5. \A l \in ToSet(row[k].labels) : By(By(l, row[k].start), d) = By(l, row[k].start + d)
    BY <2>3, MembersAre, ByTwice
  <2> QED BY <2>1, <2>4, <2>5 DEF AllMoved
<1>6. \A k \in 1..n : k \in 1..i - 1 \/ (\E m \in 1..w : k = i - 1 + m) \/ (\E m \in j..z : k = m + e)
  <2> SUFFICES ASSUME NEW k \in 1..n, ~(k \in 1..i - 1), ~(\E m \in 1..w : k = i - 1 + m)
               PROVE  \E m \in j..z : k = m + e
    OBVIOUS
  <2>1. i \in Int /\ j \in Int /\ e \in Int /\ n \in Int /\ k \in Int
    BY <1>0, <1>2
  <2>2. k > i - 1 + w
    <3>1. k >= i
      BY <2>1
    <3>2. CASE k - (i - 1) <= w
      <4>1. k - (i - 1) \in 1..w /\ k = i - 1 + (k - (i - 1))
        BY <3>1, <3>2, <2>1, <1>0
      <4> QED BY <4>1
    <3> QED BY <3>2, <2>1, <1>0
  <2>3. k - e \in j..z /\ k = (k - e) + e
    BY <2>1, <2>2, <1>0, <1>2
  <2> QED BY <2>3
<1> DEFINE X == SeenIn(r, DOMAIN r)
           B == SeenIn(row, 1..i - 1)
           M == SeenIn(new, DOMAIN new)
           A == SeenIn(row, j..z)
<1>7. /\ X = UNION {P(r, k) : k \in 1..n} /\ B = UNION {P(row, k) : k \in 1..i - 1}
      /\ M = UNION {P(new, k) : k \in 1..w} /\ A = UNION {P(row, k) : k \in j..z}
  BY <1>0, <1>2 DEF SeenIn
<1> HIDE DEF P, X, B, M, A
<1>8. AllMoved(A, d) = UNION {AllMoved(P(row, k), d) : k \in j..z}
  BY <1>7 DEF AllMoved
<1>9. X \subseteq B \cup M \cup AllMoved(A, d)
  <2> SUFFICES ASSUME NEW x \in X PROVE x \in B \cup M \cup AllMoved(A, d)
    OBVIOUS
  <2>1. PICK k \in 1..n : x \in P(r, k)
    BY <1>7
  <2>2. CASE k \in 1..i - 1
    BY <2>1, <2>2, <1>3, <1>7
  <2>3. CASE \E m \in 1..w : k = i - 1 + m
    BY <2>1, <2>3, <1>4, <1>7
  <2>4. CASE \E m \in j..z : k = m + e
    BY <2>1, <2>4, <1>5, <1>8
  <2> QED BY <2>2, <2>3, <2>4, <1>6
<1>10. B \subseteq X
  BY <1>3, <1>7
<1>11. M \subseteq X
  BY <1>4, <1>7
<1>12. AllMoved(A, d) \subseteq X
  BY <1>5, <1>7, <1>8
<1>13. X = B \cup M \cup AllMoved(A, d)
  BY <1>9, <1>10, <1>11, <1>12
<1> QED BY <1>13 DEF X, B, M, A, r, z

LEMMA NoneMoved ==
  ASSUME NEW S \in SUBSET LabelRecord
  PROVE  AllMoved(S, 0) = S
<1>1. \A l \in S : By(l, 0) = l
  BY ByTwice
<1> QED BY <1>1 DEF AllMoved

LEMMA SeenSplice ==
  ASSUME NEW row, NEW t \in Seq(Char), Tiled(row, t), NEW new \in Seq(Part),
         NEW i \in 1..Len(row) + 1, NEW j \in i..Len(row) + 1
  PROVE  LET r == Splice(row, i, j, new)
         IN  SeenIn(r, DOMAIN r) =
               SeenIn(row, 1..i - 1) \cup SeenIn(new, DOMAIN new) \cup SeenIn(row, j..Len(row))
<1> DEFINE A == SeenIn(row, j..Len(row))
           r == Splice(row, i, j, new)
<1>1. row \in Seq(Part) /\ r = Spliced(row, i, j, new, 0)
  BY NotMoved DEF Tiled
<1>2. AllMoved(A, 0) = A
  <2> DEFINE n == Len(row) + 1
  <2>1. n \in j..Len(row) + 1 /\ j..n - 1 = j..Len(row) /\ j \in 1..Len(row) + 1
    BY <1>1
  <2> HIDE DEF n
  <2>2. \A x \in A : x \in LabelRecord
    BY <2>1, SeenWithin
  <2> QED BY <2>2, NoneMoved
<1> HIDE DEF A, r
<1>3. SeenIn(r, DOMAIN r) = SeenIn(row, 1..i - 1) \cup SeenIn(new, DOMAIN new) \cup AllMoved(A, 0)
  <2>1. LET q == Spliced(row, i, j, new, 0)
        IN  SeenIn(q, DOMAIN q) =
               SeenIn(row, 1..i - 1) \cup SeenIn(new, DOMAIN new) \cup AllMoved(SeenIn(row, j..Len(row)), 0)
    BY SeenSpliced
  <2> QED BY <2>1, <1>1 DEF A
<1> QED BY <1>2, <1>3 DEF A, r

LEMMA SeenOne ==
  ASSUME NEW row, NEW k \in Int
  PROVE  SeenIn(row, k..k) = AllMoved(ToSet(row[k].labels), row[k].start)
<1>1. k..k = {k}
  OBVIOUS
<1> QED BY <1>1 DEF SeenIn, AllMoved

\* A row shows the labels of segment k and those of the others.
LEMMA SeenAround ==
  ASSUME NEW row, NEW t, Tiled(row, t), NEW k \in DOMAIN row
  PROVE  /\ k \in 1..Len(row) + 1 /\ k + 1 \in k..Len(row) + 1 /\ (k + 1) - 1 = k
         /\ SeenIn(row, DOMAIN row) =
              SeenIn(row, 1..k - 1) \cup AllMoved(ToSet(row[k].labels), row[k].start) \cup SeenIn(row, k + 1..Len(row))
<1>1. row \in Seq(Part)
  BY DEF Tiled
<1>2. k \in 1..Len(row) + 1 /\ k + 1 \in k..Len(row) + 1 /\ (k + 1) - 1 = k /\ k \in Int
  BY <1>1
<1>3. SeenIn(row, DOMAIN row) = SeenIn(row, 1..k - 1) \cup SeenIn(row, k..(k + 1) - 1) \cup SeenIn(row, k + 1..Len(row))
  BY <1>1, <1>2, SeenParts
<1> QED BY <1>2, <1>3, SeenOne

LEMMA MovedTwice ==
  ASSUME NEW S \in SUBSET LabelRecord, NEW a \in Int, NEW b \in Int
  PROVE  AllMoved(AllMoved(S, a), b) = AllMoved(S, a + b)
<1>1. \A l \in S : By(By(l, a), b) = By(l, a + b)
  BY ByTwice
<1> QED BY <1>1 DEF AllMoved

LEMMA SeenPair ==
  ASSUME NEW a \in Part, NEW b \in Part
  PROVE  SeenIn(<<a, b>>, DOMAIN <<a, b>>) = AllMoved(ToSet(a.labels), a.start) \cup AllMoved(ToSet(b.labels), b.start)
<1> DEFINE q == <<a, b>>
<1>1. DOMAIN q = {1, 2} /\ q[1] = a /\ q[2] = b
  OBVIOUS
<1> HIDE DEF q
<1>2. SeenIn(q, DOMAIN q) = AllMoved(ToSet(a.labels), a.start) \cup AllMoved(ToSet(b.labels), b.start)
  BY <1>1 DEF SeenIn, AllMoved
<1> QED BY <1>2 DEF q

LEMMA SeenSingle ==
  ASSUME NEW a \in Part
  PROVE  SeenIn(<<a>>, DOMAIN <<a>>) = AllMoved(ToSet(a.labels), a.start)
<1> DEFINE q == <<a>>
<1>1. DOMAIN q = {1} /\ q[1] = a
  OBVIOUS
<1> HIDE DEF q
<1>2. SeenIn(q, DOMAIN q) = AllMoved(ToSet(a.labels), a.start)
  BY <1>1 DEF SeenIn, AllMoved
<1> QED BY <1>2 DEF q

\* A row whose segment i has other labels.
LEMMA SeenRelabelled ==
  ASSUME NEW row, NEW t, Tiled(row, t), NEW i \in DOMAIN row, NEW ls
  PROVE  LET r == [row EXCEPT ![i].labels = ls]
         IN  SeenIn(r, DOMAIN r) =
               SeenIn(row, 1..i - 1) \cup AllMoved(ToSet(ls), row[i].start) \cup SeenIn(row, i + 1..Len(row))
<1> DEFINE r == [row EXCEPT ![i].labels = ls]
           B == 1..i - 1
           A == i + 1..Len(row)
<1>1. row \in Seq(Part) /\ row[i] \in Part
  BY Tile DEF Tiled
<1>2. DOMAIN r = DOMAIN row /\ r[i].start = row[i].start /\ r[i].labels = ls /\ \A k \in DOMAIN row : k # i => r[k] = row[k]
  BY <1>1 DEF Part
<1> HIDE DEF r
<1>3. DOMAIN row = B \cup {i} \cup A /\ i \notin B /\ i \notin A
  <2>1. DOMAIN row = 1..Len(row) /\ Len(row) \in Nat
    BY <1>1
  <2> QED BY <2>1
<1> HIDE DEF B, A
<1> DEFINE P(q, k) == {By(l, q[k].start) : l \in ToSet(q[k].labels)}
<1>7. \A q, D : SeenIn(q, D) = UNION {P(q, k) : k \in D}
  BY DEF SeenIn
<1>8. \A k \in B \cup A : P(r, k) = P(row, k)
  BY <1>2, <1>3
<1> HIDE DEF P
<1>4. SeenIn(r, DOMAIN r) = SeenIn(r, B) \cup {By(l, r[i].start) : l \in ToSet(r[i].labels)} \cup SeenIn(r, A)
  <2>1. SeenIn(r, (B \cup {i}) \cup A) = SeenIn(r, B \cup {i}) \cup SeenIn(r, A)
    BY SeenUnion
  <2>2. SeenIn(r, B \cup {i}) = SeenIn(r, B) \cup SeenIn(r, {i})
    BY SeenUnion
  <2>3. SeenIn(r, {i}) = {By(l, r[i].start) : l \in ToSet(r[i].labels)}
    BY DEF SeenIn
  <2> QED BY <2>1, <2>2, <2>3, <1>2, <1>3
<1>5. SeenIn(r, B) = SeenIn(row, B) /\ SeenIn(r, A) = SeenIn(row, A)
  <2>1. UNION {P(r, k) : k \in B} = UNION {P(row, k) : k \in B}
    BY <1>8
  <2>2. UNION {P(r, k) : k \in A} = UNION {P(row, k) : k \in A}
    BY <1>8
  <2> QED BY <2>1, <2>2, <1>7
<1>6. {By(l, r[i].start) : l \in ToSet(r[i].labels)} = AllMoved(ToSet(ls), row[i].start)
  BY <1>2 DEF AllMoved
<1> QED BY <1>4, <1>5, <1>6 DEF r, B, A

\* Splitting a segment leaves every label in its place.
LEMMA SplitSeen ==
  ASSUME NEW s \in State, NEW t \in Seq(Char), Held(s, t), NEW i \in DOMAIN s.segments, NEW pos \in Nat
  PROVE  Seen(splitSegment(s, i, pos)) = Seen(s)
<1> DEFINE u   == splitSegment(s, i, pos)
           row == s.segments
           g   == row[i]
           L   == LeftPart(g, pos)
           R   == RightPart(g, pos)
           new == <<L, R>>
           r   == Splice(row, i, i + 1, new)
           n   == g.start
           G   == ToSet(g.labels)
<1>1. row \in Seq(Part) /\ Tiled(row, t)
  BY StateIs DEF Held
<1>2. /\ g \in Part /\ Whole(g) /\ n \in Nat /\ Len(g.text) \in Nat /\ g.labels \in Seq(LabelRecord)
  BY <1>1, Tile
<1>3. CASE s.threw \/ pos \in {0, Len(g.text)}
  BY <1>3 DEF splitSegment
<1>4. CASE /\ ~(s.threw \/ pos \in {0, Len(g.text)})
           /\ ~validateSplit(g, pos) \/ pos > Len(g.text) \/ g.start >= Len(s.text)
  <2>1. u = [s EXCEPT !.threw = TRUE]
    BY <1>4 DEF splitSegment
  <2>2. u.segments = row
    BY <2>1 DEF State
  <2> QED BY <2>2 DEF Seen
<1>5. CASE /\ ~(s.threw \/ pos \in {0, Len(g.text)})
           /\ ~(~validateSplit(g, pos) \/ pos > Len(g.text) \/ g.start >= Len(s.text))
  <2>1. u = [s EXCEPT !.labelsById = Reset(s.labelsById, R.labels), !.segments = r]
    BY <1>5 DEF splitSegment
  <2>2. u.segments = r
    BY <2>1 DEF State
  <2>3. 0 < pos /\ pos < Len(g.text) /\ pos <= Len(g.text) /\ validateSplit(g, pos)
    BY <1>2, <1>5
  <2>4. g = row[i] /\ n = g.start /\ G = ToSet(g.labels) /\ r = Splice(row, i, i + 1, new) /\ row = s.segments
    OBVIOUS
  <2> HIDE DEF g, u, row, G, n
  <2>5. L \in Part /\ L.start = n /\ ToSet(L.labels) = {l \in G : l.hi <= pos}
    BY <2>3, <2>4, <1>2, LeftPartIs
  <2>6. R \in Part /\ R.start = n + pos /\ ToSet(R.labels) = AllMoved({x \in G : x.lo >= pos}, 0 - pos)
    BY <2>3, <2>4, <1>2, RightPartIs DEF AllMoved
  <2> HIDE DEF L, R
  <2>7. SeenIn(new, DOMAIN new) = AllMoved({l \in G : l.hi <= pos}, n) \cup AllMoved(AllMoved({x \in G : x.lo >= pos}, 0 - pos), n + pos)
    BY <2>5, <2>6, SeenPair
  <2>8. AllMoved(AllMoved({x \in G : x.lo >= pos}, 0 - pos), n + pos) = AllMoved({x \in G : x.lo >= pos}, n)
    <3> DEFINE S == {x \in G : x.lo >= pos}
               a == 0 - pos
               b == n + pos
    <3>1. S \in SUBSET LabelRecord
      BY <1>2, <2>4, MembersAre
    <3>2. a \in Int /\ b \in Int /\ a + b = n
      BY <1>2
    <3> HIDE DEF S, a, b
    <3>3. AllMoved(AllMoved(S, a), b) = AllMoved(S, a + b)
      BY <3>1, <3>2, MovedTwice
    <3> QED BY <3>2, <3>3 DEF S, a, b
  <2>9. \A l \in G : l.hi <= pos \/ l.lo >= pos
    <3> SUFFICES ASSUME NEW l \in G PROVE l.hi <= pos \/ l.lo >= pos
      OBVIOUS
    <3> DEFINE ls == g.labels
    <3>1. PICK m \in DOMAIN ls : ls[m] = l
      BY <2>4 DEF ToSet
    <3>2. ~(l.lo < pos /\ pos < l.hi)
      BY <2>3, <3>1 DEF validateSplit
    <3>3. l.lo \in Nat /\ l.hi \in Nat
      BY <1>2, <2>4, MembersAre
    <3> QED BY <3>2, <3>3
  <2>10. AllMoved({l \in G : l.hi <= pos}, n) \cup AllMoved({x \in G : x.lo >= pos}, n) = AllMoved(G, n)
    BY <2>9 DEF AllMoved
  <2>11. SeenIn(new, DOMAIN new) = AllMoved(G, n)
    BY <2>7, <2>8, <2>10
  <2>12. i \in DOMAIN row
    BY <2>4
  <2>13. i \in 1..Len(row) + 1 /\ i + 1 \in i..Len(row) + 1
    BY <1>1, <2>12, SeenAround
  <2>14. new \in Seq(Part)
    BY <2>5, <2>6, PairIs
  <2>15. SeenIn(r, DOMAIN r) = SeenIn(row, 1..i - 1) \cup SeenIn(new, DOMAIN new) \cup SeenIn(row, i + 1..Len(row))
    <3> HIDE DEF new
    <3> QED BY <1>1, <2>4, <2>13, <2>14, SeenSplice
  <2>16. SeenIn(row, DOMAIN row) = SeenIn(row, 1..i - 1) \cup AllMoved(G, n) \cup SeenIn(row, i + 1..Len(row))
    BY <1>1, <2>4, <2>12, SeenAround
  <2>17. SeenIn(r, DOMAIN r) = SeenIn(row, DOMAIN row)
    BY <2>11, <2>15, <2>16
  <2>18. Seen(u) = Seen(s)
    BY <2>2, <2>4, <2>17 DEF Seen
  <2> QED BY <2>18 DEF u
<1> QED BY <1>3, <1>4, <1>5

LEMMA CarveSeen ==
  ASSUME NEW s \in State, NEW t \in Seq(Char), Held(s, t), NEW i \in DOMAIN s.segments,
         NEW lo \in Nat, NEW hi \in Nat
  PROVE  Seen(splitSegment(splitSegment(s, i, hi), i, lo)) = Seen(s)
<1> DEFINE v == splitSegment(s, i, hi)
<1>1. v \in State /\ Held(v, t) /\ i \in DOMAIN v.segments
  BY SplitHeld
<1>2. Seen(v) = Seen(s)
  BY SplitSeen
<1> HIDE DEF v
<1>3. Seen(splitSegment(v, i, lo)) = Seen(v)
  BY <1>1, SplitSeen
<1> QED BY <1>2, <1>3 DEF v

\* The labels that a segment keeps stay in their place.
LEMMA KeepSeen ==
  ASSUME NEW s \in State, NEW t, Held(s, t), NEW i \in DOMAIN s.segments, NEW ls
  PROVE  LET row == s.segments
         IN  Seen(Keep(s, i, ls)) =
               SeenIn(row, 1..i - 1) \cup AllMoved(ToSet(ls), row[i].start) \cup SeenIn(row, i + 1..Len(row))
<1> DEFINE row == s.segments
           r   == [row EXCEPT ![i].labels = ls]
           u   == Keep(s, i, ls)
<1>1. u.segments = r
  BY DEF Keep, State
<1>2. Tiled(row, t)
  BY DEF Held
<1>3. SeenIn(r, DOMAIN r) =
        SeenIn(row, 1..i - 1) \cup AllMoved(ToSet(ls), row[i].start) \cup SeenIn(row, i + 1..Len(row))
  BY <1>2, SeenRelabelled
<1> QED BY <1>1, <1>3 DEF Seen

LEMMA SeenAll ==
  ASSUME NEW row, NEW t \in Seq(Char), Tiled(row, t), NEW x \in SeenIn(row, DOMAIN row)
  PROVE  x \in LabelRecord /\ x.id \in Label /\ x.lo \in Nat /\ x.hi \in Nat /\ x.lo < x.hi /\ x.hi <= Len(t)
<1> DEFINE i == 1
           j == Len(row) + 1
<1>1. row \in Seq(Part)
  BY DEF Tiled
<1>2. i \in 1..Len(row) + 1 /\ j \in i..Len(row) + 1 /\ DOMAIN row = i..j - 1
  BY <1>1
<1> HIDE DEF i, j
<1>3. x \in SeenIn(row, i..j - 1)
  BY <1>2
<1> QED BY <1>2, <1>3, SeenWithin

\* Left of segment k, in it, and right of it.
LEMMA SeenSides ==
  ASSUME NEW row, NEW t \in Seq(Char), Tiled(row, t), NEW k \in DOMAIN row
  PROVE  LET g == row[k]
         IN  /\ \A x \in SeenIn(row, 1..k - 1) : x.hi <= g.start
             /\ \A x \in AllMoved(ToSet(g.labels), g.start) : g.start <= x.lo /\ x.hi <= g.end
             /\ \A x \in SeenIn(row, k + 1..Len(row)) : x.lo >= g.end
<1> DEFINE g == row[k]
           o == 1
           z == Len(row) + 1
           m == k + 1
<1>1. row \in Seq(Part)
  BY DEF Tiled
<1>2. k \in o..Len(row) + 1 /\ o \in 1..Len(row) + 1 /\ z \in m..Len(row) + 1 /\ m \in 1..Len(row) + 1
      /\ z - 1 = Len(row)
  BY <1>1
<1>3. Edge(row, k) = g.start /\ Edge(row, m) = g.end
  BY Tile
<1> HIDE DEF o, z, m, g
<1>4. \A x \in SeenIn(row, o..k - 1) : x.hi <= Edge(row, k)
  BY <1>2, SeenWithin
<1>5. \A x \in SeenIn(row, m..z - 1) : Edge(row, m) <= x.lo /\ x.lo \in Nat
  BY <1>2, SeenWithin
<1>6. g.end \in Nat
  BY Tile DEF g
<1>7. \A x \in SeenIn(row, m..z - 1) : x.lo >= g.end
  BY <1>3, <1>5, <1>6
<1>8. \A x \in AllMoved(ToSet(g.labels), g.start) : g.start <= x.lo /\ x.hi <= g.end
  BY SeenAt DEF AllMoved, g
<1> QED BY <1>2, <1>3, <1>4, <1>7, <1>8 DEF o, z, m, g

\* Segment i keeps the labels that do not touch what lies between two offsets.
LEMMA KeptSeen ==
  ASSUME NEW s \in State, NEW t \in Seq(Char), Held(s, t), NEW i \in DOMAIN s.segments, NEW keep,
         NEW from \in Nat, NEW to \in Nat, from <= to, to <= Len(s.segments[i].text),
         ToSet(keep) = {l \in ToSet(s.segments[i].labels) : l.hi <= from \/ l.lo >= to}
  PROVE  LET n == s.segments[i].start
         IN  Seen(Keep(s, i, keep)) = {x \in Seen(s) : x.hi <= n + from \/ x.lo >= n + to}
<1> DEFINE row == s.segments
           g   == row[i]
           n   == g.start
           G   == ToSet(g.labels)
           B   == SeenIn(row, 1..i - 1)
           A   == SeenIn(row, i + 1..Len(row))
           P(x) == x.hi <= n + from \/ x.lo >= n + to
           w   == Len(g.text)
<1>1. Tiled(row, t)
  BY DEF Held
<1>2. Seen(Keep(s, i, keep)) = B \cup AllMoved(ToSet(keep), n) \cup A
  BY KeepSeen
<1>3. Seen(s) = B \cup AllMoved(G, n) \cup A
  BY <1>1, SeenAround DEF Seen
<1>4. n \in Nat /\ w \in Nat /\ g.end = n + w /\ to <= w
  BY <1>1, Tile
<1>5. (\A x \in B : x.hi <= n) /\ (\A x \in A : x.lo >= g.end)
  BY <1>1, SeenSides
<1>6. \A x \in Seen(s) : x.lo \in Nat /\ x.hi \in Nat
  BY <1>1, SeenAll DEF Seen
<1>7. \A l \in G : By(l, n).lo = n + l.lo /\ By(l, n).hi = n + l.hi /\ l.lo \in Nat /\ l.hi \in Nat
  <2>1. \A l \in G : By(l, n).lo = n + l.lo /\ By(l, n).hi = n + l.hi /\ l \in LabelRecord
    BY <1>1, SeenAt
  <2> QED BY <2>1 DEF LabelRecord
<1>8. ToSet(keep) = {l \in G : l.hi <= from \/ l.lo >= to}
  OBVIOUS
<1> HIDE DEF n, G, B, A, w, g
<1>9. \A x \in B : P(x)
  BY <1>3, <1>4, <1>5, <1>6
<1>10. \A x \in A : P(x)
  <2> SUFFICES ASSUME NEW x \in A PROVE x.lo >= n + to
    OBVIOUS
  <2>1. x.lo \in Nat /\ x.lo >= n + w
    BY <1>3, <1>4, <1>5, <1>6
  <2> QED BY <2>1, <1>4
<1>11. \A l \in G : P(By(l, n)) <=> (l.hi <= from \/ l.lo >= to)
  <2> SUFFICES ASSUME NEW l \in G PROVE P(By(l, n)) <=> (l.hi <= from \/ l.lo >= to)
    OBVIOUS
  <2>1. n + l.hi <= n + from <=> l.hi <= from
    BY <1>4, <1>7
  <2>2. n + l.lo >= n + to <=> l.lo >= to
    BY <1>4, <1>7
  <2> QED BY <2>1, <2>2, <1>7
<1> HIDE DEF P
<1>12. AllMoved(ToSet(keep), n) = {x \in AllMoved(G, n) : P(x)}
  BY <1>8, <1>11 DEF AllMoved
<1>13. Seen(Keep(s, i, keep)) = {x \in Seen(s) : P(x)}
  BY <1>2, <1>3, <1>9, <1>10, <1>12
<1> QED BY <1>13 DEF P, n, g

------------------------------------------------------------------------------
(* One segment is exchanged for another.                                    *)
LEMMA InPlace ==
  ASSUME NEW row \in Seq(Part), NEW i \in 1..Len(row), NEW g \in Part
  PROVE  Splice(row, i, i + 1, <<g>>) = [row EXCEPT ![i] = g]
<1> DEFINE r == Splice(row, i, i + 1, <<g>>)
<1>1. <<g>> \in Seq(Part) /\ Len(<<g>>) = 1 /\ <<g>>[1] = g
  BY SingleIs
<1>2. /\ r \in Seq(Part) /\ Len(r) = Len(row) + 1 - 1
      /\ \A k \in 1..i - 1 : r[k] = row[k]
      /\ \A m \in 1..1 : r[i - 1 + m] = <<g>>[m]
      /\ \A k \in i + 1..Len(row) : r[k + 1 - 1] = row[k]
  BY <1>1, SpliceOne
<1> HIDE DEF r
<1>3. r[i] = g
  <2>1. 1 \in 1..1 /\ i - 1 + 1 = i
    OBVIOUS
  <2>2. r[i - 1 + 1] = <<g>>[1]
    BY <2>1, <1>2
  <2> QED BY <2>1, <2>2, <1>1
<1>4. \A k \in i + 1..Len(row) : r[k] = row[k]
  <2>1. \A k \in i + 1..Len(row) : k + 1 - 1 = k
    OBVIOUS
  <2> QED BY <2>1, <1>2
<1>5. Len(r) = Len(row)
  BY <1>2
<1>6. r = [k \in 1..Len(row) |-> r[k]]
  BY <1>2, <1>5
<1>7. [row EXCEPT ![i] = g] = [k \in 1..Len(row) |-> IF k = i THEN g ELSE row[k]]
  OBVIOUS
<1>8. \A k \in 1..Len(row) : r[k] = IF k = i THEN g ELSE row[k]
  BY <1>2, <1>3, <1>4
<1>9. r = [row EXCEPT ![i] = g]
  BY <1>6, <1>7, <1>8
<1> QED BY <1>9 DEF r

\* Segment i gets other labels.
LEMMA Relabelling ==
  ASSUME NEW row, NEW t \in Seq(Char), Tiled(row, t), Placed(row), NEW i \in DOMAIN row, NEW ls \in Seq(LabelRecord),
         \A l \in ToSet(ls) : l.lo < l.hi /\ l.hi <= Len(row[i].text),
         \A l, o \in ToSet(ls) : l.id = o.id => l = o,
         \A k \in Outside(row, i, i + 1) : \A l \in ToSet(ls), x \in ToSet(row[k].labels) : l.id # x.id
  PROVE  LET r == [row EXCEPT ![i].labels = ls]
         IN  /\ r \in Seq(Part) /\ DOMAIN r = DOMAIN row /\ Tiled(r, t) /\ Placed(r)
             /\ r[i] = [row[i] EXCEPT !.labels = ls]
             /\ LabelsOf(r, DOMAIN r) = LabelsOf(row, Outside(row, i, i + 1)) \cup ToSet(ls)
<1> DEFINE g == row[i]
           h == [g EXCEPT !.labels = ls]
           r == [row EXCEPT ![i].labels = ls]
<1>1. row \in Seq(Part) /\ i \in 1..Len(row) /\ i \in 1..Len(row) + 1 /\ i + 1 \in i..Len(row) + 1
  BY DEF Tiled
<1>2. /\ g \in Part /\ g.start \in Nat /\ Len(g.text) \in Nat \ {0} /\ g.end = g.start + Len(g.text)
      /\ Edge(row, i) = g.start /\ Edge(row, i + 1) = g.end /\ Whole(g) /\ Shows(g, t)
  BY Tile
<1>3. r = [row EXCEPT ![i] = h]
  OBVIOUS
<1>4. h \in Part /\ h.start = g.start /\ h.end = g.end /\ h.text = g.text /\ h.labels = ls
  <2> HIDE DEF g
  <2> QED BY <1>2 DEF Part
<1>5. g = row[i] /\ \A l \in ToSet(ls) : l.lo < l.hi /\ l.hi <= Len(g.text)
  OBVIOUS
<1> HIDE DEF g, h, r
<1>6. Whole(h) /\ Shows(h, t)
  BY <1>2, <1>4, <1>5 DEF Whole, Shows
<1> DEFINE new == <<h>>
<1>7. new \in Seq(Part) /\ Len(new) = 1 /\ DOMAIN new = 1..1 /\ new[1] = h /\ new # <<>>
      /\ LabelsOf(new, DOMAIN new) = ToSet(ls)
  BY <1>4, SingleIs
<1>8. r = Splice(row, i, i + 1, new)
  BY <1>1, <1>3, <1>4, InPlace
<1> HIDE DEF new
<1>9. Fits(new, t, Edge(row, i), Edge(row, i + 1))
  <2>1. \A m \in DOMAIN new : m = 1
    BY <1>7
  <2> QED BY <2>1, <1>2, <1>4, <1>6, <1>7 DEF Fits
<1>10. Fresh(row, i, i + 1, new)
  <2>1. \A m \in DOMAIN new : m = 1
    BY <1>7
  <2> QED BY <2>1, <1>4, <1>7 DEF Fresh, Placed
<1>11. /\ Tiled(r, t) /\ Placed(r)
       /\ LabelsOf(r, DOMAIN r) = LabelsOf(row, Outside(row, i, i + 1)) \cup LabelsOf(new, DOMAIN new)
  BY <1>1, <1>7, <1>8, <1>9, <1>10, ReplacedInPlace
<1>12. r \in Seq(Part) /\ DOMAIN r = DOMAIN row /\ r[i] = h
  BY <1>1, <1>3, <1>4
<1>13. /\ r \in Seq(Part) /\ DOMAIN r = DOMAIN row /\ Tiled(r, t) /\ Placed(r)
       /\ r[i] = h
       /\ LabelsOf(r, DOMAIN r) = LabelsOf(row, Outside(row, i, i + 1)) \cup ToSet(ls)
  BY <1>7, <1>11, <1>12
<1> QED BY <1>13 DEF r, h, g

\* Segment i keeps some of its labels.
LEMMA Kept ==
  ASSUME NEW s \in State, NEW t \in Seq(Char), Held(s, t), NEW i \in DOMAIN s.segments,
         NEW ls \in Seq(LabelRecord), ToSet(ls) \subseteq ToSet(s.segments[i].labels)
  PROVE  LET u == Keep(s, i, ls)
         IN  /\ u \in State /\ Held(u, t) /\ u.text = s.text /\ u.threw = s.threw
             /\ DOMAIN u.segments = DOMAIN s.segments
             /\ u.segments[i].start = s.segments[i].start /\ u.segments[i].text = s.segments[i].text
             /\ u.segments[i].labels = ls
             /\ \A l \in u.labelsById : l \in s.labelsById /\ l.id \notin IdsOf(s.segments[i].labels) \ IdsOf(ls)
<1> DEFINE row == s.segments
           g == row[i]
           r == [row EXCEPT ![i].labels = ls]
           ids == IdsOf(g.labels) \ IdsOf(ls)
           u == Keep(s, i, ls)
<1>1. Tiled(row, t) /\ Placed(row) /\ s.labelsById = LabelsOf(row, DOMAIN row) /\ row \in Seq(Part)
  BY StateIs DEF Held
<1>2. g \in Part /\ Whole(g) /\ g.labels \in Seq(LabelRecord)
  BY <1>1, Tile
<1>3. u = [s EXCEPT !.labelsById = Without(s.labelsById, ids), !.segments = r]
  BY DEF Keep
<1>4. row = s.segments /\ g = row[i] /\ i \in DOMAIN row /\ ToSet(ls) \subseteq ToSet(g.labels)
      /\ ids = IdsOf(g.labels) \ IdsOf(ls)
  OBVIOUS
<1> HIDE DEF row, g, r, u, ids
<1>5. i \in 1..Len(row) + 1 /\ i + 1 \in i..Len(row) + 1 /\ i \in Nat /\ i \in 1..Len(row)
  BY <1>1, <1>4
<1>6. i..(i + 1) - 1 = {i} /\ LabelsOf(row, i..(i + 1) - 1) = ToSet(g.labels)
  BY <1>4, <1>5, OneInside
<1>7. \A l \in ToSet(ls) : l.lo < l.hi /\ l.hi <= Len(row[i].text)
  BY <1>2, <1>4 DEF Whole
<1>8. \A l, o \in ToSet(ls) : l.id = o.id => l = o
  BY <1>1, <1>4 DEF Placed
<1>9. \A k \in Outside(row, i, i + 1) : \A l \in ToSet(ls), x \in ToSet(row[k].labels) : l.id # x.id
  <2> SUFFICES ASSUME NEW k \in Outside(row, i, i + 1), NEW l \in ToSet(ls), NEW x \in ToSet(row[k].labels)
               PROVE  l.id # x.id
    OBVIOUS
  <2>1. l \in LabelsOf(row, i..(i + 1) - 1)
    BY <1>4, <1>6
  <2> QED BY <2>1, <1>1, <1>5, FreshFrom
<1>10. IdsOf(g.labels) = {l.id : l \in ToSet(g.labels)} /\ IdsOf(ls) = {l.id : l \in ToSet(ls)}
  BY <1>2, IdsAre
<1>11. \A l \in ToSet(g.labels) : l.id \in ids <=> l \notin ToSet(ls)
  <2>1. \A l, o \in ToSet(g.labels) : l.id = o.id => l = o
    BY <1>1, <1>4 DEF Placed
  <2> QED BY <2>1, <1>4, <1>10
<1>12. \A k \in Outside(row, i, i + 1) : \A x \in ToSet(row[k].labels) : x.id \notin ids
  <2>1. \A k \in Outside(row, i, i + 1) : k \in DOMAIN row /\ k # i
    BY <1>5 DEF Outside
  <2> QED BY <2>1, <1>1, <1>4, <1>10 DEF Placed
<1>13. /\ r \in Seq(Part) /\ DOMAIN r = DOMAIN row /\ Tiled(r, t) /\ Placed(r)
       /\ r[i] = [row[i] EXCEPT !.labels = ls]
       /\ LabelsOf(r, DOMAIN r) = LabelsOf(row, Outside(row, i, i + 1)) \cup ToSet(ls)
  <2>1. i \in DOMAIN row
    BY <1>4
  <2> QED BY <2>1, <1>1, <1>7, <1>8, <1>9, Relabelling, Zenon DEF r
<1>14. Without(s.labelsById, ids) = LabelsOf(row, Outside(row, i, i + 1)) \cup ToSet(ls)
  <2>1. Without(LabelsOf(row, DOMAIN row), ids) =
          LabelsOf(row, Outside(row, i, i + 1)) \cup {x \in LabelsOf(row, i..(i + 1) - 1) : x.id \notin ids}
    <3>1. i..(i + 1) - 1 \subseteq DOMAIN row
      BY <1>1, <1>5
    <3>2. DOMAIN row = Outside(row, i, i + 1) \cup (i..(i + 1) - 1)
      BY <3>1 DEF Outside
    <3> QED BY <1>12, <3>2 DEF Without, LabelsOf
  <2>2. {x \in ToSet(g.labels) : x.id \notin ids} = ToSet(ls)
    BY <1>4, <1>11
  <2> QED BY <2>1, <2>2, <1>1, <1>6
<1>15. u.segments = r /\ u.labelsById = Without(s.labelsById, ids) /\ u.text = s.text /\ u.threw = s.threw
  BY <1>3 DEF State
<1>16. Held(u, t)
  BY <1>13, <1>14, <1>15 DEF Held
<1>17. u \in State
  <2>1. Without(s.labelsById, ids) \in SUBSET LabelRecord
    BY StateIs DEF Without
  <2> QED BY <2>1, <1>3, <1>13 DEF State
<1>18. u.segments[i].start = g.start /\ u.segments[i].text = g.text /\ u.segments[i].labels = ls
  <2>1. u.segments[i] = [g EXCEPT !.labels = ls]
    BY <1>4, <1>13, <1>15
  <2> QED BY <2>1, <1>2 DEF Part
<1>19. \A l \in u.labelsById : l \in s.labelsById /\ l.id \notin ids
  BY <1>15 DEF Without
<1>20. /\ u \in State /\ Held(u, t) /\ u.text = s.text /\ u.threw = s.threw
       /\ DOMAIN u.segments = DOMAIN row
       /\ u.segments[i].start = g.start /\ u.segments[i].text = g.text /\ u.segments[i].labels = ls
       /\ \A l \in u.labelsById : l \in s.labelsById /\ l.id \notin ids
  BY <1>13, <1>15, <1>16, <1>17, <1>18, <1>19
<1> QED BY <1>20 DEF u, row, g, ids

LEMMA Validates ==
  ASSUME NEW g \in Part, NEW lo \in Nat, NEW hi \in Nat, NEW pos \in Nat, lo <= hi, pos = lo \/ pos = hi,
         \A l \in ToSet(g.labels) : l.hi <= lo \/ l.lo >= hi
  PROVE  validateSplit(g, pos)
<1> DEFINE ls == g.labels
<1>1. ls = g.labels /\ ls \in Seq(LabelRecord)
  BY DEF Part
<1> HIDE DEF ls
<1> SUFFICES ASSUME NEW n \in DOMAIN ls PROVE ~(ls[n].lo < pos /\ pos < ls[n].hi)
  BY <1>1 DEF validateSplit
<1>2. ls[n] \in ToSet(ls) /\ ls[n] \in LabelRecord
  BY <1>1 DEF ToSet
<1>3. ls[n].lo \in Nat /\ ls[n].hi \in Nat
  BY <1>2 DEF LabelRecord
<1> QED BY <1>1, <1>2, <1>3

LEMMA NothingBetween ==
  ASSUME NEW L \in SUBSET LabelRecord, NEW lo \in Nat, NEW hi \in Nat,
         \A l \in L : /\ l.lo < l.hi /\ l.lo >= lo /\ l.hi <= hi
                      /\ l.hi <= lo \/ l.lo >= hi
  PROVE  L = {}
<1> SUFFICES ASSUME NEW l \in L PROVE FALSE
  OBVIOUS
<1>1. l.lo \in Nat /\ l.hi \in Nat
  BY DEF LabelRecord
<1> QED BY <1>1

\* No label of segment i reaches between two offsets, where a split is possible.
Free(s, i, lo, hi) ==
  /\ hi <= Len(s.segments[i].text) /\ lo < Len(s.segments[i].text)
  /\ \A l \in ToSet(s.segments[i].labels) : l.hi <= lo \/ l.lo >= hi
  /\ s.segments[i].start < Len(s.text) \/ (lo = 0 /\ hi = Len(s.segments[i].text))

\* Segment i is split at one offset and its first half at an offset before it.
LEMMA Carve ==
  ASSUME NEW s \in State, NEW t \in Seq(Char), Held(s, t), NEW i \in DOMAIN s.segments, ~s.threw,
         NEW lo \in Nat, NEW hi \in Nat, lo <= hi, Free(s, i, lo, hi)
  PROVE  LET u == splitSegment(splitSegment(s, i, hi), i, lo)
             k == IF lo > 0 THEN i + 1 ELSE i
         IN  /\ u \in State /\ Held(u, t) /\ u.text = s.text /\ ~u.threw
             /\ k \in DOMAIN u.segments /\ u.segments[k].start = s.segments[i].start + lo
             /\ Len(u.segments[k].text) >= hi - lo
             /\ lo < hi => Len(u.segments[k].text) = hi - lo /\ ToSet(u.segments[k].labels) = {}
<1> DEFINE g == s.segments[i]
           v == splitSegment(s, i, hi)
           h == v.segments[i]
           u == splitSegment(v, i, lo)
           k == IF lo > 0 THEN i + 1 ELSE i
<1>1. /\ g = s.segments[i] /\ hi <= Len(g.text) /\ lo < Len(g.text)
      /\ (\A l \in ToSet(g.labels) : l.hi <= lo \/ l.lo >= hi)
      /\ (g.start < Len(s.text) \/ (lo = 0 /\ hi = Len(g.text)))
  BY DEF Free
<1>2. /\ g \in Part /\ g.start \in Nat /\ Len(g.text) \in Nat /\ Whole(g) /\ g.labels \in Seq(LabelRecord)
      /\ s.segments \in Seq(Part)
  BY StateIs, Tile DEF Held
<1>3. \A l \in ToSet(g.labels) : l \in LabelRecord /\ l.lo \in Nat /\ l.hi \in Nat /\ l.lo < l.hi /\ l.hi <= Len(g.text)
  BY <1>2, MembersAre DEF Whole
<1>4. validateSplit(g, hi)
  BY <1>1, <1>2, Validates
<1>5. /\ v \in State /\ Held(v, t) /\ v.text = s.text /\ i \in DOMAIN v.segments
  BY SplitHeld
<1>6. /\ ~v.threw /\ h.start = g.start
      /\ hi > 0 => /\ Len(h.text) = hi
                   /\ \A l \in ToSet(h.labels) : l \in ToSet(g.labels) /\ l.hi <= hi
      /\ (0 < hi /\ hi < Len(g.text)) => i + 1 \in DOMAIN v.segments /\ v.segments[i + 1].start = g.start + hi
  <2>1. CASE hi = 0 \/ hi = Len(g.text)
    <3>1. v = s
      BY <2>1 DEF splitSegment
    <3>2. h = g
      BY <3>1
    <3> HIDE DEF g, h, v
    <3> QED BY <2>1, <3>1, <3>2, <1>2, <1>3
  <2>2. CASE ~(hi = 0 \/ hi = Len(g.text))
    <3>1. 0 < hi /\ hi < Len(g.text) /\ g.start < Len(s.text)
      BY <2>2, <1>1, <1>2
    <3>2. /\ ~v.threw /\ Len(v.segments) = Len(s.segments) + 1
          /\ h = LeftPart(g, hi) /\ v.segments[i + 1] = RightPart(g, hi)
      BY <3>1, <1>4, SplitIs
    <3> DEFINE w == v.segments
    <3>3. w \in Seq(Part) /\ w = v.segments
      BY <1>5, StateIs
    <3>4. i + 1 \in DOMAIN v.segments
      <4> HIDE DEF w
      <4>1. i \in 1..Len(s.segments)
        BY <1>2
      <4> QED BY <4>1, <3>2, <3>3
    <3> HIDE DEF g, h, v, w
    <3>5. /\ h.start = g.start /\ Len(h.text) = hi
          /\ ToSet(h.labels) = {l \in ToSet(g.labels) : l.hi <= hi}
      BY <3>1, <3>2, <1>1, <1>2, LeftPartIs
    <3>6. v.segments[i + 1].start = g.start + hi
      BY <3>1, <3>2, <1>2, RightPartIs
    <3> QED BY <3>2, <3>4, <3>5, <3>6
  <2> QED BY <2>1, <2>2
<1>7. h = v.segments[i] /\ u = splitSegment(v, i, lo)
  OBVIOUS
<1>8. /\ h \in Part /\ h.start \in Nat /\ Len(h.text) \in Nat \ {0} /\ Whole(h) /\ h.labels \in Seq(LabelRecord)
      /\ v.segments \in Seq(Part)
  BY <1>5, StateIs, Tile DEF Held
<1> SUFFICES /\ u \in State /\ Held(u, t) /\ u.text = s.text /\ ~u.threw
             /\ k \in DOMAIN u.segments /\ u.segments[k].start = g.start + lo
             /\ Len(u.segments[k].text) >= hi - lo
             /\ lo < hi => Len(u.segments[k].text) = hi - lo /\ ToSet(u.segments[k].labels) = {}
  OBVIOUS
<1> HIDE DEF g, h, v, u
<1>9. \A l \in ToSet(h.labels) : l \in LabelRecord /\ l.lo \in Nat /\ l.hi \in Nat /\ l.lo < l.hi
  BY <1>8, MembersAre DEF Whole
<1>10. CASE lo = 0 \/ lo = Len(h.text)
  <2>1. u = v
    BY <1>10, <1>7 DEF splitSegment
  <2>2. CASE lo = 0
    <3>1. k = i /\ u.segments[k] = h
      BY <2>1, <2>2, <1>7
    <3>2. CASE lo < hi
      <4>1. Len(h.text) = hi /\ \A l \in ToSet(h.labels) : l \in ToSet(g.labels) /\ l.hi <= hi
        BY <1>6, <2>2, <3>2
      <4>2. ToSet(h.labels) = {}
        <5>1. ToSet(h.labels) \in SUBSET LabelRecord
          BY <1>9
        <5>2. \A l \in ToSet(h.labels) : l.lo < l.hi /\ l.lo >= lo /\ l.hi <= hi /\ (l.hi <= lo \/ l.lo >= hi)
          BY <1>1, <1>9, <2>2, <4>1
        <5> QED BY <5>1, <5>2, NothingBetween
      <4> QED BY <4>1, <4>2, <3>1, <2>1, <2>2, <1>2, <1>5, <1>6
    <3>3. CASE ~(lo < hi)
      BY <3>1, <3>3, <2>1, <2>2, <1>2, <1>5, <1>6, <1>8
    <3> QED BY <3>2, <3>3
  <2>3. CASE lo # 0
    <3>1. lo = hi /\ 0 < hi /\ hi < Len(g.text)
      BY <2>3, <1>1, <1>6, <1>10
    <3>2. k = i + 1 /\ k \in DOMAIN u.segments /\ u.segments[k].start = g.start + lo
      BY <3>1, <2>1, <2>3, <1>6
    <3>3. Len(u.segments[k].text) \in Nat
      BY <3>2, <2>1, <1>5, Tile DEF Held
    <3>4. Len(u.segments[k].text) >= hi - lo /\ ~(lo < hi)
      BY <3>1, <3>3
    <3> QED BY <3>2, <3>4, <2>1, <1>5, <1>6
  <2> QED BY <2>2, <2>3
<1>11. CASE ~(lo = 0 \/ lo = Len(h.text))
  <2>1. 0 < lo /\ lo < hi /\ Len(h.text) = hi /\ lo < Len(h.text) /\ h.start < Len(v.text)
        /\ \A l \in ToSet(h.labels) : l \in ToSet(g.labels) /\ l.hi <= hi
    BY <1>1, <1>5, <1>6, <1>11
  <2>2. \A l \in ToSet(h.labels) : l.hi <= lo \/ l.lo >= hi
    BY <1>1, <2>1
  <2>3. validateSplit(h, lo)
    BY <1>8, <2>2, Validates
  <2>4. /\ u \in State /\ Held(u, t) /\ u.text = v.text /\ ~u.threw
        /\ Len(u.segments) = Len(v.segments) + 1 /\ u.segments[i + 1] = RightPart(h, lo)
    BY <2>1, <2>3, <1>5, <1>6, <1>7, SplitIs
  <2>5. k = i + 1 /\ k \in DOMAIN u.segments
    <3>1. i \in 1..Len(v.segments) /\ u.segments \in Seq(Part)
      BY <1>5, <1>8, <2>4, StateIs, SMTT(30)
    <3> QED BY <3>1, <2>1, <2>4
  <2> DEFINE r == RightPart(h, lo)
  <2>6. /\ r.start = h.start + lo /\ Len(r.text) = Len(h.text) - lo
        /\ ToSet(r.labels) = {By(l, 0 - lo) : l \in {x \in ToSet(h.labels) : x.lo >= lo}}
    BY <2>1, <1>8, RightPartIs
  <2>7. {x \in ToSet(h.labels) : x.lo >= lo} = {}
    <3> DEFINE L == {x \in ToSet(h.labels) : x.lo >= lo}
    <3>1. L \in SUBSET LabelRecord
      BY <1>9
    <3>2. \A l \in L : l.lo < l.hi /\ l.lo >= lo /\ l.hi <= hi /\ (l.hi <= lo \/ l.lo >= hi)
      BY <1>9, <2>1, <2>2
    <3> HIDE DEF L
    <3>3. L = {}
      BY <3>1, <3>2, NothingBetween
    <3> QED BY <3>3 DEF L
  <2>8. ToSet(r.labels) = {}
    BY <2>6, <2>7
  <2>9. u.segments[k] = r
    BY <2>4, <2>5
  <2> HIDE DEF r, k
  <2>10. Len(u.segments[k].text) = hi - lo /\ u.segments[k].start = g.start + lo
    BY <2>1, <2>6, <2>9, <1>6
  <2>11. u \in State /\ Held(u, t) /\ u.text = s.text /\ ~u.threw /\ k \in DOMAIN u.segments
    BY <2>4, <2>5, <1>5
  <2>12. lo < hi /\ hi - lo \in Nat /\ Len(u.segments[k].text) >= hi - lo
    BY <2>1, <2>10
  <2>13. ToSet(u.segments[k].labels) = {}
    BY <2>8, <2>9
  <2> QED BY <2>10, <2>11, <2>12, <2>13
<1> QED BY <1>10, <1>11

------------------------------------------------------------------------------
(* The segments that a position and a range touch.                           *)
LEMMA LeastEdge ==
  ASSUME NEW row, NEW t \in Seq(Char), Tiled(row, t), NEW x \in Nat, x <= Len(t), 0 < x
  PROVE  \E i \in 1..Len(row) : /\ Edge(row, i) < x /\ x <= Edge(row, i + 1)
                                /\ \A k \in 1..i : Edge(row, k) < x
<1> DEFINE T == {n \in 1..Len(row) + 1 : Edge(row, n) >= x}
<1>1. row \in Seq(Part) /\ Len(row) + 1 \in T
  BY DEF Tiled
<1>2. T \in SUBSET Nat /\ T # {}
  BY <1>1
<1>3. PICK n \in T : \A m \in T : n <= m
  <2> HIDE DEF T
  <2> QED BY <1>2, LeastNat
<1>4. n # 1
  BY DEF Edge
<1>5. n - 1 \in 1..Len(row) /\ x <= Edge(row, (n - 1) + 1)
  BY <1>1, <1>4
<1>6. \A k \in 1..n - 1 : Edge(row, k) < x
  <2> SUFFICES ASSUME NEW k \in 1..n - 1 PROVE Edge(row, k) < x
    OBVIOUS
  <2>1. k \notin T /\ k \in 1..Len(row) + 1
    BY <1>1, <1>3, <1>5
  <2>2. Edge(row, k) \in Nat
    BY <1>1, <2>1, EdgeNat
  <2> QED BY <2>1, <2>2
<1>7. Edge(row, n - 1) < x
  BY <1>5, <1>6
<1> QED BY <1>5, <1>6, <1>7

LEMMA SegmentAt ==
  ASSUME NEW row, NEW t \in Seq(Char), Tiled(row, t), NEW pos \in Nat, pos < Len(t)
  PROVE  LET i == querySegment(row, pos)
         IN  i \in DOMAIN row /\ row[i].start <= pos /\ pos < row[i].end
<1>1. row \in Seq(Part) /\ pos + 1 \in Nat /\ pos + 1 <= Len(t) /\ 0 < pos + 1
  BY DEF Tiled
<1>2. PICK i \in 1..Len(row) : Edge(row, i) < pos + 1 /\ pos + 1 <= Edge(row, i + 1)
  BY <1>1, LeastEdge
<1>3. i \in DOMAIN row /\ row[i].start = Edge(row, i) /\ row[i].end = Edge(row, i + 1)
      /\ row[i].start \in Nat /\ row[i].end \in Nat
  BY <1>1, Tile
<1>4. row[i].start <= pos /\ pos < row[i].end
  BY <1>2, <1>3
<1> QED BY <1>3, <1>4 DEF querySegment

LEMMA Touched ==
  ASSUME NEW row, NEW t \in Seq(Char), Tiled(row, t), NEW a \in Nat, NEW b \in Nat, a < b, b <= Len(t)
  PROVE  LET i == First(row, a)
             j == Behind(row, b)
         IN  /\ i \in 1..Len(row) /\ j \in i + 1..Len(row) + 1
             /\ Edge(row, i) <= a /\ a < Edge(row, i + 1)
             /\ Edge(row, j - 1) < b /\ b <= Edge(row, j)
<1> DEFINE i == First(row, a)
           j == Behind(row, b)
<1>1. row \in Seq(Part) /\ Len(t) = Edge(row, Len(row) + 1) /\ Len(row) \in Nat
      /\ a + 1 \in Nat /\ a + 1 <= Len(t) /\ 0 < a + 1 /\ 0 < b
  BY DEF Tiled
<1>2. \A k \in 1..Len(row) : /\ row[k].start = Edge(row, k) /\ row[k].end = Edge(row, k + 1)
                             /\ row[k].start \in Nat /\ row[k].end \in Nat
  BY <1>1, Tile
<1>3. i \in DOMAIN row /\ row[i].end > a /\ \A k \in 1..i - 1 : row[k].end <= a
  <2>1. PICK n \in 1..Len(row) : a + 1 <= Edge(row, n + 1) /\ \A k \in 1..n : Edge(row, k) < a + 1
    BY <1>1, LeastEdge
  <2>2. n \in DOMAIN row /\ row[n].end > a
    BY <1>1, <1>2, <2>1
  <2>3. \A k \in 1..n - 1 : row[k].end <= a
    <3> SUFFICES ASSUME NEW k \in 1..n - 1 PROVE row[k].end <= a
      OBVIOUS
    <3>1. k \in 1..Len(row) /\ k + 1 \in 1..n
      BY <1>1
    <3>2. Edge(row, k + 1) < a + 1
      BY <2>1, <3>1
    <3> QED BY <1>2, <3>1, <3>2
  <2> QED BY <2>2, <2>3 DEF First
<1>4. /\ j \in 1..Len(row) + 1 /\ (j \in DOMAIN row => row[j].start >= b)
      /\ \A k \in 1..j - 1 : row[k].start < b
  <2>1. PICK n \in 1..Len(row) : b <= Edge(row, n + 1) /\ \A k \in 1..n : Edge(row, k) < b
    BY <1>1, LeastEdge
  <2>2. n + 1 \in 1..Len(row) + 1 /\ (n + 1 \in DOMAIN row => row[n + 1].start >= b)
    BY <1>1, <1>2, <2>1
  <2>3. \A k \in 1..(n + 1) - 1 : row[k].start < b
    BY <1>1, <1>2, <2>1
  <2> QED BY <2>2, <2>3 DEF Behind
<1> HIDE DEF i, j
<1>5. i \in 1..Len(row) /\ a < Edge(row, i + 1)
  BY <1>1, <1>2, <1>3
<1>6. Edge(row, i) <= a
  <2>1. CASE i = 1
    BY <2>1 DEF Edge
  <2>2. CASE i # 1
    <3>1. i - 1 \in 1..i - 1
      BY <2>2, <1>5
    <3> QED BY <1>3, <2>2, <3>1 DEF Edge
  <2> QED BY <2>1, <2>2
<1>7. b <= Edge(row, j)
  BY <1>1, <1>2, <1>4
<1>8. j \in i + 1..Len(row) + 1
  <2> SUFFICES ASSUME j <= i PROVE FALSE
    BY <1>1, <1>4, <1>5
  <2>1. i \in 1..Len(row) + 1 /\ i \in j..Len(row) + 1
    BY <1>1, <1>4, <1>5
  <2>2. Edge(row, j) <= Edge(row, i) /\ Edge(row, i) \in Nat /\ Edge(row, j) \in Nat
    BY <1>1, <1>4, <2>1, EdgesAscend, EdgeNat
  <2> QED BY <1>6, <1>7, <2>2
<1>9. Edge(row, j - 1) < b
  <2>1. j - 1 \in 1..j - 1 /\ j - 1 \in 1..Len(row)
    BY <1>5, <1>8
  <2> QED BY <1>2, <1>4, <2>1
<1> QED BY <1>5, <1>6, <1>7, <1>8, <1>9 DEF i, j

------------------------------------------------------------------------------
(* Text is pasted into a segment, or cut from it.                            *)
LEMMA PasteIs ==
  ASSUME NEW t \in Seq(Char), NEW pos \in Nat, pos <= Len(t), NEW piece \in Seq(Char)
  PROVE  LET u == Paste(t, pos, piece)
         IN  /\ u \in Seq(Char) /\ Len(u) = Len(t) + Len(piece)
             /\ \A x \in 1..pos : u[x] = t[x]
             /\ \A x \in 1..Len(piece) : u[pos + x] = piece[x]
             /\ \A x \in 1..Len(t) - pos : u[pos + Len(piece) + x] = t[pos + x]
<1> DEFINE a == SubSeq(t, 1, pos)
           b == SubSeq(t, pos + 1, Len(t))
           u == Paste(t, pos, piece)
<1>1. Len(t) \in Nat /\ Len(piece) \in Nat
  OBVIOUS
<1>2. a \in Seq(Char) /\ Len(a) = pos /\ \A x \in 1..pos : a[x] = t[x]
  BY HeadIs
<1>3. b \in Seq(Char) /\ Len(b) = Len(t) - pos /\ \A x \in 1..Len(t) - pos : b[x] = t[pos + x]
  BY <1>1, StretchIs
<1>4. u = (a \o piece) \o b
  BY DEF Paste
<1> HIDE DEF a, b, u
<1> DEFINE c == a \o piece
<1>5. /\ c \in Seq(Char) /\ Len(c) = pos + Len(piece)
      /\ (\A x \in 1..pos : c[x] = a[x]) /\ \A x \in 1..Len(piece) : c[pos + x] = piece[x]
  BY <1>2, ConcatChars
<1>6. u = c \o b
  BY <1>4
<1> HIDE DEF c
<1>7. /\ u \in Seq(Char) /\ Len(u) = Len(c) + Len(b)
      /\ (\A x \in 1..Len(c) : u[x] = c[x]) /\ \A x \in 1..Len(b) : u[Len(c) + x] = b[x]
  BY <1>3, <1>5, <1>6, ConcatChars, ZenonT(60)
<1>8. Len(u) = Len(t) + Len(piece)
  BY <1>1, <1>3, <1>5, <1>7
<1>9. ASSUME NEW x \in 1..pos PROVE u[x] = t[x]
  <2>1. x \in 1..Len(c)
    BY <1>1, <1>5
  <2> QED BY <2>1, <1>2, <1>5, <1>7
<1>10. ASSUME NEW x \in 1..Len(piece) PROVE u[pos + x] = piece[x]
  <2>1. pos + x \in 1..Len(c)
    BY <1>1, <1>5
  <2> QED BY <2>1, <1>5, <1>7
<1>11. ASSUME NEW x \in 1..Len(t) - pos PROVE u[pos + Len(piece) + x] = t[pos + x]
  <2>1. x \in 1..Len(b) /\ Len(c) + x = pos + Len(piece) + x
    BY <1>3, <1>5
  <2> QED BY <2>1, <1>3, <1>7
<1>12. /\ u \in Seq(Char) /\ Len(u) = Len(t) + Len(piece)
       /\ \A x \in 1..pos : u[x] = t[x]
       /\ \A x \in 1..Len(piece) : u[pos + x] = piece[x]
       /\ \A x \in 1..Len(t) - pos : u[pos + Len(piece) + x] = t[pos + x]
  BY <1>7, <1>8, <1>9, <1>10, <1>11
<1> QED BY <1>12 DEF u

LEMMA CutIs ==
  ASSUME NEW t \in Seq(Char), NEW a \in Nat, NEW b \in Nat, a <= b, b <= Len(t)
  PROVE  LET u == Cut(t, a, b)
         IN  /\ u \in Seq(Char) /\ Len(u) = Len(t) - (b - a)
             /\ \A x \in 1..a : u[x] = t[x]
             /\ \A x \in 1..Len(t) - b : u[a + x] = t[b + x]
<1> DEFINE p == SubSeq(t, 1, a)
           q == SubSeq(t, b + 1, Len(t))
           u == Cut(t, a, b)
<1>1. Len(t) \in Nat /\ a <= Len(t)
  OBVIOUS
<1>2. p \in Seq(Char) /\ Len(p) = a /\ \A x \in 1..a : p[x] = t[x]
  BY <1>1, HeadIs
<1>3. q \in Seq(Char) /\ Len(q) = Len(t) - b /\ \A x \in 1..Len(t) - b : q[x] = t[b + x]
  BY <1>1, StretchIs
<1>4. u = p \o q
  BY DEF Cut
<1> HIDE DEF p, q, u
<1>5. /\ u \in Seq(Char) /\ Len(u) = Len(p) + Len(q)
      /\ (\A x \in 1..Len(p) : u[x] = p[x]) /\ \A x \in 1..Len(q) : u[Len(p) + x] = q[x]
  BY <1>2, <1>3, <1>4, ConcatChars
<1>6. /\ u \in Seq(Char) /\ Len(u) = Len(t) - (b - a)
      /\ \A x \in 1..a : u[x] = t[x]
      /\ \A x \in 1..Len(t) - b : u[a + x] = t[b + x]
  BY <1>1, <1>2, <1>3, <1>5, SMTT(30)
<1> QED BY <1>6 DEF u

\* What is pasted into the text is pasted into the segment that shows the place.
LEMMA PastedShows ==
  ASSUME NEW t \in Seq(Char), NEW x \in Seq(Char), NEW s \in Nat, NEW q \in Nat, q <= Len(x), s + Len(x) <= Len(t),
         \A y \in 1..Len(x) : x[y] = t[s + y], NEW piece \in Seq(Char)
  PROVE  LET t2 == Paste(t, s + q, piece)
             z  == Paste(x, q, piece)
             d  == Len(piece)
         IN  /\ t2 \in Seq(Char) /\ z \in Seq(Char) /\ Len(z) = Len(x) + d
             /\ \A y \in 1..Len(z) : z[y] = t2[s + y]
             /\ SameBut(t, t2, s, s + Len(x), d)
<1> DEFINE t2 == Paste(t, s + q, piece)
           z  == Paste(x, q, piece)
           d  == Len(piece)
<1>1. d \in Nat /\ Len(x) \in Nat /\ Len(t) \in Nat /\ s + q \in Nat /\ s + q <= Len(t) /\ d = Len(piece)
  OBVIOUS
<1>2. /\ t2 \in Seq(Char) /\ Len(t2) = Len(t) + d
      /\ \A y \in 1..s + q : t2[y] = t[y]
      /\ \A y \in 1..d : t2[(s + q) + y] = piece[y]
      /\ \A y \in 1..Len(t) - (s + q) : t2[(s + q) + d + y] = t[(s + q) + y]
  BY <1>1, PasteIs, ZenonT(60)
<1>3. /\ z \in Seq(Char) /\ Len(z) = Len(x) + d
      /\ \A y \in 1..q : z[y] = x[y]
      /\ \A y \in 1..d : z[q + y] = piece[y]
      /\ \A y \in 1..Len(x) - q : z[q + d + y] = x[q + y]
  BY <1>1, PasteIs, ZenonT(60)
<1> HIDE DEF t2, z, d
<1>4. ASSUME NEW y \in 1..Len(z) PROVE z[y] = t2[s + y]
  <2>1. CASE y <= q
    <3>1. y \in 1..q /\ y \in 1..Len(x) /\ s + y \in 1..s + q
      BY <2>1, <1>1
    <3> QED BY <3>1, <1>2, <1>3
  <2>2. CASE q < y /\ y <= q + d
    <3>1. y - q \in 1..d /\ q + (y - q) = y /\ (s + q) + (y - q) = s + y
      BY <2>2, <1>1
    <3> QED BY <3>1, <1>2, <1>3
  <2>3. CASE q + d < y
    <3> DEFINE m == y - (q + d)
    <3>1. m \in 1..Len(x) - q /\ q + d + m = y /\ (s + q) + d + m = s + y
      <4>1. y \in Nat /\ y <= Len(x) + d
        BY <1>1, <1>3
      <4>2. m \in 1..Len(x) - q
        BY <4>1, <2>3, <1>1, SMTT(30)
      <4>3. q + d + m = y
        BY <4>1, <1>1
      <4>4. (s + q) + d + m = s + y
        BY <4>1, <1>1
      <4> QED BY <4>2, <4>3, <4>4
    <3>2. m \in 1..Len(t) - (s + q) /\ q + m \in 1..Len(x) /\ s + (q + m) = (s + q) + m
      BY <3>1, <1>1
    <3> HIDE DEF m
    <3>3. z[y] = x[q + m] /\ t2[s + y] = t[(s + q) + m]
      BY <3>1, <3>2, <1>2, <1>3
    <3> QED BY <3>2, <3>3
  <2>4. y \in Nat
    OBVIOUS
  <2> QED BY <2>1, <2>2, <2>3, <2>4, <1>1
<1>5. SameBut(t, t2, s, s + Len(x), d)
  <2>1. ASSUME NEW y \in 1..s PROVE t2[y] = t[y]
    <3>1. y \in 1..s + q
      BY <1>1
    <3> QED BY <3>1, <1>2
  <2>2. ASSUME NEW y \in s + Len(x) + 1..Len(t) PROVE t2[y + d] = t[y]
    <3>1. y - (s + q) \in 1..Len(t) - (s + q)
      BY <1>1
    <3>2. (s + q) + d + (y - (s + q)) = y + d /\ (s + q) + (y - (s + q)) = y
      BY <1>1
    <3> QED BY <3>1, <3>2, <1>2
  <2> QED BY <2>1, <2>2, <1>2 DEF SameBut
<1>6. /\ t2 \in Seq(Char) /\ z \in Seq(Char) /\ Len(z) = Len(x) + d
      /\ (\A y \in 1..Len(z) : z[y] = t2[s + y])
      /\ SameBut(t, t2, s, s + Len(x), d)
  BY <1>2, <1>3, <1>4, <1>5
<1> QED BY <1>6 DEF t2, z, d

Reads(x, t, s) ==
  x \in Seq(Char) /\ s \in Nat /\ s + Len(x) <= Len(t) /\ \A y \in 1..Len(x) : x[y] = t[s + y]

LEMMA CutShows ==
  ASSUME NEW t \in Seq(Char), NEW x, NEW s, Reads(x, t, s), NEW a \in Nat, NEW b \in Nat, a <= b, b <= Len(x)
  PROVE  LET t2 == Cut(t, s + a, s + b)
             z  == Cut(x, a, b)
         IN  /\ t2 \in Seq(Char) /\ z \in Seq(Char) /\ Len(z) = Len(x) - (b - a)
             /\ \A y \in 1..Len(z) : z[y] = t2[s + y]
             /\ SameBut(t, t2, s, s + Len(x), a - b)
<1> DEFINE t2 == Cut(t, s + a, s + b)
           z  == Cut(x, a, b)
<1>0. x \in Seq(Char) /\ s \in Nat /\ s + Len(x) <= Len(t) /\ \A y \in 1..Len(x) : x[y] = t[s + y]
  BY DEF Reads
<1>1. Len(x) \in Nat /\ Len(t) \in Nat /\ s + a \in Nat /\ s + b \in Nat /\ s + a <= s + b /\ s + b <= Len(t)
  BY <1>0
<1>2. /\ t2 \in Seq(Char) /\ Len(t2) = Len(t) - ((s + b) - (s + a))
      /\ \A y \in 1..s + a : t2[y] = t[y]
      /\ \A y \in 1..Len(t) - (s + b) : t2[(s + a) + y] = t[(s + b) + y]
  BY <1>1, CutIs
<1>3. /\ z \in Seq(Char) /\ Len(z) = Len(x) - (b - a)
      /\ \A y \in 1..a : z[y] = x[y]
      /\ \A y \in 1..Len(x) - b : z[a + y] = x[b + y]
  BY <1>0, <1>1, CutIs, ZenonT(60)
<1> HIDE DEF t2, z
<1>4. ASSUME NEW y \in 1..Len(z) PROVE z[y] = t2[s + y]
  <2>1. CASE y <= a
    <3>1. y \in 1..a /\ y \in 1..Len(x) /\ s + y \in 1..s + a
      BY <2>1, <1>0, <1>1
    <3> QED BY <3>1, <1>0, <1>2, <1>3
  <2>2. CASE a < y
    <3> DEFINE m == y - a
    <3>1. m \in 1..Len(x) - b /\ a + m = y /\ (s + a) + m = s + y
      BY <2>2, <1>0, <1>1, <1>3
    <3>2. m \in 1..Len(t) - (s + b) /\ b + m \in 1..Len(x) /\ s + (b + m) = (s + b) + m
      BY <3>1, <1>0, <1>1
    <3> HIDE DEF m
    <3>3. z[y] = x[b + m] /\ t2[s + y] = t[(s + b) + m]
      BY <3>1, <3>2, <1>2, <1>3
    <3> QED BY <1>0, <3>2, <3>3
  <2>3. y \in Nat
    OBVIOUS
  <2> QED BY <2>1, <2>2, <2>3
<1>5. SameBut(t, t2, s, s + Len(x), a - b)
  <2>1. ASSUME NEW y \in 1..s PROVE t2[y] = t[y]
    <3>1. y \in 1..s + a
      BY <1>0, <1>1
    <3> QED BY <3>1, <1>2
  <2>2. ASSUME NEW y \in s + Len(x) + 1..Len(t) PROVE t2[y + (a - b)] = t[y]
    <3>1. y - (s + b) \in 1..Len(t) - (s + b)
      BY <1>0, <1>1
    <3>2. (s + a) + (y - (s + b)) = y + (a - b) /\ (s + b) + (y - (s + b)) = y
      BY <1>0, <1>1
    <3> QED BY <3>1, <3>2, <1>2
  <2>3. Len(t2) = Len(t) + (a - b)
    BY <1>0, <1>1, <1>2
  <2> QED BY <2>1, <2>2, <2>3 DEF SameBut
<1>6. /\ t2 \in Seq(Char) /\ z \in Seq(Char) /\ Len(z) = Len(x) - (b - a)
      /\ (\A y \in 1..Len(z) : z[y] = t2[s + y])
      /\ SameBut(t, t2, s, s + Len(x), a - b)
  BY <1>2, <1>3, <1>4, <1>5
<1> QED BY <1>6 DEF t2, z

Regrowth(g, x, d) == [g EXCEPT !.text = x, !.end = g.end + d]


\* A segment of t gets the text x, and shows it in t2, which differs from t in this segment.
Refills(g, t, x, d, t2) ==
  /\ x \in Seq(Char) /\ x # <<>> /\ d \in Int /\ t2 \in Seq(Char)
  /\ Len(x) = Len(g.text) + d /\ \A l \in ToSet(g.labels) : l.hi <= Len(x)
  /\ \A y \in 1..Len(x) : x[y] = t2[g.start + y]
  /\ SameBut(t, t2, g.start, g.end, d)

\* The segments behind one that changes its length are moved.
LEMMA ResizedIs ==
  ASSUME NEW row \in Seq(Part), NEW k \in DOMAIN row, NEW x \in Seq(Char), NEW d \in Int, row[k].end + d \in Nat
  PROVE  LET h == Regrowth(row[k], x, d)
         IN  /\ h \in Part /\ h.start = row[k].start /\ h.end = row[k].end + d
             /\ h.text = x /\ h.labels = row[k].labels
             /\ Resized(row, k, x, d)
                  = Spliced(row, k, k + 1, <<h>>, d)
<1> DEFINE g == row[k]
           h == Regrowth(g, x, d)
<1>1. g \in Part /\ k \in 1..Len(row) /\ g = row[k] /\ g.end + d \in Nat
  OBVIOUS
<1>2. h \in Part /\ h.start = g.start /\ h.end = g.end + d /\ h.text = x /\ h.labels = g.labels
  <2> HIDE DEF g
  <2> QED BY <1>1 DEF Part, Regrowth
<1>3. [row EXCEPT ![k].text = x, ![k].end = @ + d] = [row EXCEPT ![k] = h]
  BY <1>1 DEF Part, Regrowth
<1> HIDE DEF h
<1>4. Splice(row, k, k + 1, <<h>>) = [row EXCEPT ![k] = h]
  BY <1>1, <1>2, InPlace
<1>5. Len(<<h>>) = 1
  OBVIOUS
<1>6. Spliced(row, k, k + 1, <<h>>, d) = MovedFrom(Splice(row, k, k + 1, <<h>>), k + 1, d)
  BY <1>5 DEF Spliced
<1>7. Resized(row, k, x, d) = Spliced(row, k, k + 1, <<h>>, d)
  BY <1>3, <1>4, <1>6 DEF Resized
<1> QED BY <1>2, <1>7 DEF h

LEMMA Regrown ==
  ASSUME NEW row, NEW t \in Seq(Char), Tiled(row, t), Placed(row), NEW k \in DOMAIN row,
         NEW x, NEW d, NEW t2, Refills(row[k], t, x, d, t2)
  PROVE  LET r == Resized(row, k, x, d)
         IN  /\ Tiled(r, t2) /\ Placed(r)
             /\ LabelsOf(r, DOMAIN r) = LabelsOf(row, DOMAIN row)
<1> DEFINE g == row[k]
           h == Regrowth(g, x, d)
           r == Resized(row, k, x, d)
           new == <<h>>
<1>0. /\ x \in Seq(Char) /\ x # <<>> /\ d \in Int /\ t2 \in Seq(Char)
      /\ Len(x) = Len(g.text) + d /\ (\A l \in ToSet(g.labels) : l.hi <= Len(x))
      /\ (\A y \in 1..Len(x) : x[y] = t2[g.start + y]) /\ SameBut(t, t2, g.start, g.end, d)
  BY DEF Refills
<1>1. row \in Seq(Part) /\ k \in 1..Len(row) /\ k \in 1..Len(row) + 1 /\ k + 1 \in k..Len(row) + 1
      /\ k \in Nat
  BY DEF Tiled
<1>2. /\ g \in Part /\ g.start \in Nat /\ Len(g.text) \in Nat \ {0} /\ g.end = g.start + Len(g.text)
      /\ Edge(row, k) = g.start /\ Edge(row, k + 1) = g.end /\ Whole(g) /\ g.end \in Nat
      /\ Len(x) \in Nat
  BY <1>0, Tile
<1>3. /\ g = row[k] /\ Len(x) = Len(g.text) + d /\ (\A l \in ToSet(g.labels) : l.hi <= Len(x))
      /\ (\A y \in 1..Len(x) : x[y] = t2[g.start + y]) /\ SameBut(t, t2, g.start, g.end, d)
  BY <1>0
<1>4. g.end + d \in Nat /\ g.end + d = g.start + Len(x)
  <2> HIDE DEF g
  <2> QED BY <1>0, <1>2, <1>3
<1>5. /\ h \in Part /\ h.start = g.start /\ h.end = g.end + d /\ h.text = x /\ h.labels = g.labels
      /\ r = Spliced(row, k, k + 1, new, d)
  <2>1. row[k].end + d \in Nat /\ k \in DOMAIN row
    BY <1>4
  <2>2. h \in Part /\ h.start = g.start /\ h.end = g.end + d /\ h.text = x /\ h.labels = g.labels
    <3> HIDE DEF g
    <3> QED BY <1>0, <1>2, <1>4 DEF Part, Regrowth
  <2>3. r = Spliced(row, k, k + 1, <<h>>, d)
    BY <2>1, <1>0, <1>1, ResizedIs
  <2> QED BY <2>2, <2>3
<1> HIDE DEF g, h, r
<1>6. Whole(h) /\ Shows(h, t2)
  BY <1>0, <1>2, <1>3, <1>4, <1>5 DEF Whole, Shows
<1>7. new \in Seq(Part) /\ Len(new) = 1 /\ DOMAIN new = 1..1 /\ new[1] = h /\ new # <<>>
      /\ LabelsOf(new, DOMAIN new) = ToSet(g.labels)
  BY <1>5, SingleIs
<1> HIDE DEF new
<1>8. \A m \in DOMAIN new : m = 1
  BY <1>7
<1>9. Fits(new, t2, Edge(row, k), Edge(row, k + 1) + d)
  BY <1>2, <1>5, <1>6, <1>7, <1>8 DEF Fits
<1>10. Fresh(row, k, k + 1, new)
  <2>1. Placed(new)
    BY <1>3, <1>5, <1>7, <1>8, <1>1 DEF Placed
  <2>2. \A n \in Outside(row, k, k + 1) : n \in DOMAIN row /\ n # k
    BY <1>1 DEF Outside
  <2> QED BY <2>1, <2>2, <1>1, <1>3, <1>5, <1>7, <1>8 DEF Fresh, Placed
<1>11. SameBut(t, t2, Edge(row, k), Edge(row, k + 1), d)
  BY <1>2, <1>3
<1>12. /\ Tiled(r, t2) /\ Placed(r)
       /\ LabelsOf(r, DOMAIN r) = LabelsOf(row, Outside(row, k, k + 1)) \cup LabelsOf(new, DOMAIN new)
  BY <1>0, <1>1, <1>5, <1>7, <1>9, <1>10, <1>11, Replaced
<1>13. LabelsOf(row, DOMAIN row) = LabelsOf(row, Outside(row, k, k + 1)) \cup ToSet(g.labels)
  <2>1. DOMAIN row = Outside(row, k, k + 1) \cup {k}
    <3>1. k..(k + 1) - 1 = {k}
      BY <1>1
    <3> QED BY <3>1, <1>1 DEF Outside
  <2> QED BY <2>1, <1>3 DEF LabelsOf
<1> QED BY <1>7, <1>12, <1>13 DEF r

LEMMA RegrownSeen ==
  ASSUME NEW row, NEW t \in Seq(Char), Tiled(row, t), NEW k \in DOMAIN row, NEW x \in Seq(Char), NEW d \in Int,
         row[k].end + d \in Nat
  PROVE  LET r == Resized(row, k, x, d)
         IN  SeenIn(r, DOMAIN r) =
               SeenIn(row, 1..k - 1) \cup AllMoved(ToSet(row[k].labels), row[k].start)
                 \cup AllMoved(SeenIn(row, k + 1..Len(row)), d)
<1> DEFINE h   == Regrowth(row[k], x, d)
           new == <<h>>
<1>1. row \in Seq(Part)
  BY DEF Tiled
<1>2. h \in Part /\ h.start = row[k].start /\ h.labels = row[k].labels
      /\ Resized(row, k, x, d) = Spliced(row, k, k + 1, new, d)
  <2>1. LET z == Regrowth(row[k], x, d)
        IN  /\ z \in Part /\ z.start = row[k].start /\ z.end = row[k].end + d
            /\ z.text = x /\ z.labels = row[k].labels
            /\ Resized(row, k, x, d)
                 = Spliced(row, k, k + 1, <<z>>, d)
    BY <1>1, ResizedIs
  <2> QED BY <2>1
<1>3. k \in 1..Len(row) + 1 /\ k + 1 \in k..Len(row) + 1
  BY SeenAround
<1>4. new \in Seq(Part)
  BY <1>2, SingleIs
<1>5. SeenIn(new, DOMAIN new) = AllMoved(ToSet(row[k].labels), row[k].start)
  BY <1>2, SeenSingle
<1> HIDE DEF new, h
<1>6. LET r == Spliced(row, k, k + 1, new, d)
      IN  SeenIn(r, DOMAIN r) =
            SeenIn(row, 1..k - 1) \cup SeenIn(new, DOMAIN new) \cup AllMoved(SeenIn(row, k + 1..Len(row)), d)
  BY <1>3, <1>4, SeenSpliced
<1> QED BY <1>2, <1>5, <1>6

------------------------------------------------------------------------------
(* The room between the labels on both sides of a place.                     *)
LEMMA HighestIs ==
  ASSUME NEW S \in SUBSET Nat, NEW N \in Nat, \A x \in S : x <= N
  PROVE  LET m == Max({0} \cup S) IN m \in Nat /\ m <= N /\ \A x \in S : x <= m
<1> DEFINE T == {0} \cup S
           U == {N - x : x \in T}
<1>1. T \in SUBSET Nat /\ \A x \in T : x <= N
  OBVIOUS
<1>2. U \in SUBSET Nat /\ U # {}
  <2>1. \A x \in T : N - x \in Nat
    BY <1>1
  <2> QED BY <2>1
<1>3. PICK u \in U : \A v \in U : u <= v
  <2> HIDE DEF U
  <2> QED BY <1>2, LeastNat
<1>4. PICK m \in T : u = N - m
  OBVIOUS
<1>5. ASSUME NEW x \in T PROVE m >= x
  <2>1. N - m <= N - x
    BY <1>3, <1>4
  <2> QED BY <2>1, <1>1
<1> HIDE DEF T
<1>6. Max(T) \in T /\ \A x \in T : Max(T) >= x
  BY <1>5 DEF Max
<1>7. Max(T) \in Nat /\ Max(T) <= N
  BY <1>1, <1>6
<1>8. \A x \in T : x <= Max(T)
  BY <1>1, <1>6, <1>7
<1> QED BY <1>7, <1>8 DEF T

LEMMA LowestIs ==
  ASSUME NEW S \in SUBSET Nat, NEW N \in Nat, NEW M \in Nat, N <= M, \A x \in S : N <= x
  PROVE  LET m == Min({M} \cup S) IN m \in Nat /\ N <= m /\ m <= M /\ \A x \in S : m <= x
<1> DEFINE T == {M} \cup S
<1>1. T \in SUBSET Nat /\ T # {} /\ M \in T /\ \A x \in T : N <= x
  OBVIOUS
<1> HIDE DEF T
<1>2. PICK m \in T : \A x \in T : m <= x
  BY <1>1, LeastNat
<1>3. Min(T) \in T /\ \A x \in T : Min(T) <= x
  BY <1>2 DEF Min
<1>4. Min(T) \in Nat /\ N <= Min(T) /\ Min(T) <= M
  BY <1>1, <1>3
<1> QED BY <1>3, <1>4 DEF T

LEMMA LastEndIs ==
  ASSUME NEW ls \in Seq(LabelRecord), NEW N \in Nat, \A l \in ToSet(ls) : l.hi <= N
  PROVE  LastEnd(ls) \in Nat /\ LastEnd(ls) <= N /\ \A l \in ToSet(ls) : l.hi <= LastEnd(ls)
<1> DEFINE S == {l.hi : l \in ToSet(ls)}
<1>1. S \in SUBSET Nat /\ \A x \in S : x <= N
  BY MembersAre
<1>2. LastEnd(ls) = Max({0} \cup S) /\ \A l \in ToSet(ls) : l.hi \in S
  BY DEF LastEnd
<1> HIDE DEF S
<1> QED BY <1>1, <1>2, HighestIs

LEMMA FirstStartIs ==
  ASSUME NEW ls \in Seq(LabelRecord), NEW N \in Nat, NEW M \in Nat, N <= M, \A l \in ToSet(ls) : N <= l.lo
  PROVE  /\ FirstStart(ls, M) \in Nat /\ N <= FirstStart(ls, M) /\ FirstStart(ls, M) <= M
         /\ \A l \in ToSet(ls) : FirstStart(ls, M) <= l.lo
<1> DEFINE S == {l.lo : l \in ToSet(ls)}
<1>1. S \in SUBSET Nat /\ \A x \in S : N <= x
  BY MembersAre
<1>2. FirstStart(ls, M) = Min({M} \cup S) /\ \A l \in ToSet(ls) : l.lo \in S
  BY DEF FirstStart
<1> HIDE DEF S
<1>3. LET m == Min({M} \cup S) IN m \in Nat /\ N <= m /\ m <= M /\ \A x \in S : m <= x
  BY <1>1, LowestIs
<1> QED BY <1>2, <1>3

\* The room between the labels that end before a and those that start after b.
LEMMA RoomIs ==
  ASSUME NEW left \in Seq(LabelRecord), NEW right \in Seq(LabelRecord), NEW a \in Nat, NEW b \in Nat, NEW M \in Nat,
         a <= b, b <= M, \A l \in ToSet(left) : l.hi <= a, \A l \in ToSet(right) : l.lo >= b
  PROVE  /\ LastEnd(left) \in Nat /\ LastEnd(left) <= a
         /\ FirstStart(right, M) \in Nat /\ b <= FirstStart(right, M) /\ FirstStart(right, M) <= M
         /\ \A l \in ToSet(left) : l.hi <= LastEnd(left)
         /\ \A l \in ToSet(right) : l.lo >= FirstStart(right, M)
<1>1. LastEnd(left) \in Nat /\ LastEnd(left) <= a /\ \A l \in ToSet(left) : l.hi <= LastEnd(left)
  BY LastEndIs
<1>2. \A l \in ToSet(right) : l.lo \in Nat /\ b <= l.lo
  BY MembersAre
<1>3. /\ FirstStart(right, M) \in Nat /\ b <= FirstStart(right, M) /\ FirstStart(right, M) <= M
      /\ \A l \in ToSet(right) : FirstStart(right, M) <= l.lo
  BY <1>2, FirstStartIs
<1>4. \A l \in ToSet(right) : l.lo >= FirstStart(right, M)
  BY <1>2, <1>3
<1> QED BY <1>1, <1>3, <1>4

LEMMA FirstStartMet ==
  ASSUME NEW ls \in Seq(LabelRecord), NEW M \in Nat, FirstStart(ls, M) # M
  PROVE  \E l \in ToSet(ls) : l.lo = FirstStart(ls, M)
<1> DEFINE T == {M} \cup {l.lo : l \in ToSet(ls)}
<1>1. T \in SUBSET Nat /\ T # {}
  BY MembersAre
<1>2. FirstStart(ls, M) = Min(T)
  BY DEF FirstStart
<1>3. \A x \in T : x = M \/ \E l \in ToSet(ls) : l.lo = x
  OBVIOUS
<1> HIDE DEF T
<1>4. PICK m \in T : \A x \in T : m <= x
  BY <1>1, LeastNat
<1>5. Min(T) \in T
  BY <1>4 DEF Min
<1> QED BY <1>2, <1>3, <1>5

------------------------------------------------------------------------------
(* Text is inserted.                                                         *)
(* What an insertion at pos, or a deletion of [a, b), makes of the labels S  *)
(* that are shown.                                                          *)
Typed(S, S2, pos, d) ==
  \E stay \in SUBSET {x \in S : x.lo >= pos /\ pos > 0} :
    /\ stay = {} \/ \E x \in stay : x.lo = pos
    /\ S2 = AllMoved({x \in S \ stay : x.lo >= pos}, d) \cup {x \in S \ stay : x.hi <= pos} \cup stay
Dropped(S, S2, a, b) == S2 = AllMoved({x \in S : x.lo >= b}, a - b) \cup {x \in S : x.hi <= a}

LEMMA TypedFrom ==
  ASSUME NEW S, \A x \in S : x.lo \in Nat /\ x.hi \in Nat /\ x.lo < x.hi,
         NEW pos \in Nat, NEW e \in Nat, pos <= e, NEW d, NEW B, NEW M, NEW A,
         {x \in S : x.hi <= pos \/ x.lo >= pos} = B \cup M \cup A,
         \A x \in B : x.hi <= pos, \A x \in M : x.lo >= pos /\ x.hi <= e, \A x \in A : x.lo >= e,
         M = {} \/ (pos > 0 /\ \E x \in M : x.lo = pos)
  PROVE  Typed(S, B \cup M \cup AllMoved(A, d), pos, d)
<1>1. B \subseteq S /\ M \subseteq S /\ A \subseteq S
  OBVIOUS
<1>2. \A x \in A : x.lo >= pos /\ x \notin M
  <2> SUFFICES ASSUME NEW x \in A PROVE x.lo >= pos /\ x \notin M
    OBVIOUS
  <2>1. x.lo \in Nat /\ x.hi \in Nat /\ x.lo < x.hi /\ x.lo >= e
    BY <1>1
  <2> QED BY <2>1
<1>3. \A x \in B : ~(x.lo >= pos) /\ x \notin M
  <2> SUFFICES ASSUME NEW x \in B PROVE ~(x.lo >= pos) /\ x \notin M
    OBVIOUS
  <2>1. x.lo \in Nat /\ x.hi \in Nat /\ x.lo < x.hi /\ x.hi <= pos
    BY <1>1
  <2> QED BY <2>1
<1>4. \A x \in S : x.lo >= pos => ~(x.hi <= pos)
  OBVIOUS
<1>5. {x \in S \ M : x.lo >= pos} = A
  BY <1>1, <1>2, <1>3
<1>6. {x \in S \ M : x.hi <= pos} = B
  BY <1>1, <1>2, <1>3, <1>4
<1>7. M \in SUBSET {x \in S : x.lo >= pos /\ pos > 0}
  BY <1>1
<1>8. B \cup M \cup AllMoved(A, d) = AllMoved({x \in S \ M : x.lo >= pos}, d) \cup {x \in S \ M : x.hi <= pos} \cup M
  BY <1>5, <1>6
<1> QED BY <1>7, <1>8 DEF Typed

LEMMA DroppedFrom ==
  ASSUME NEW S, \A x \in S : x.lo \in Nat /\ x.hi \in Nat /\ x.lo < x.hi,
         NEW a \in Nat, NEW b \in Nat, a <= b, NEW B, NEW A,
         {x \in S : x.hi <= a \/ x.lo >= b} = B \cup A, \A x \in B : x.hi <= a, \A x \in A : x.lo >= b
  PROVE  Dropped(S, B \cup AllMoved(A, a - b), a, b)
<1>1. B \subseteq S /\ A \subseteq S
  OBVIOUS
<1>2. \A x \in S : x.lo >= b => ~(x.hi <= a)
  OBVIOUS
<1>3. {x \in S : x.lo >= b} = A
  BY <1>1, <1>2
<1>4. {x \in S : x.hi <= a} = B
  BY <1>1, <1>2
<1> QED BY <1>3, <1>4 DEF Dropped

LEMMA InsertWithin ==
  ASSUME NEW s \in State, Held(s, s.text), ~s.threw, NEW pos \in Nat, 0 < pos, pos < Len(s.text), NEW piece \in Seq(Char)
  PROVE  LET u == InsertedWithin(s, pos, piece)
         IN  /\ u \in State /\ Held(u, u.text) /\ u.text = Paste(s.text, pos, piece) /\ ~u.threw
             /\ Typed(Seen(s), Seen(u), pos, Len(piece))
<1> DEFINE t    == s.text
           i    == querySegment(s.segments, pos)
           g    == s.segments[i]
           rel  == pos - g.start
           D    == {n \in DOMAIN g.labels : ~(g.labels[n].lo < rel /\ rel < g.labels[n].hi)}
           keep == Those(g.labels, D)
           lo   == LastEnd(LeftOf(keep, rel))
           hi   == FirstStart(RightOf(keep, rel), Len(g.text))
           c    == Keep(s, i, keep)
           two  == splitSegment(splitSegment(c, i, hi), i, lo)
           k    == IF lo > 0 THEN i + 1 ELSE i
           x    == Paste(two.segments[k].text, rel - lo, piece)
           r    == Resized(two.segments, k, x, Len(piece))
           u    == [two EXCEPT !.text = Paste(two.text, pos, piece), !.segments = r]
<1>1. InsertedWithin(s, pos, piece) = u
  BY DEF InsertedWithin
<1>2. t \in Seq(Char) /\ Tiled(s.segments, t) /\ s.segments \in Seq(Part) /\ Held(s, t)
  BY StateIs DEF Held
<1>3. i \in DOMAIN s.segments /\ g.start <= pos /\ pos < g.end
  BY <1>2, SegmentAt
<1>4. /\ g \in Part /\ g.start \in Nat /\ g.end \in Nat /\ Len(g.text) \in Nat /\ Whole(g)
      /\ g.labels \in Seq(LabelRecord) /\ g.end = g.start + Len(g.text)
      /\ Edge(s.segments, i + 1) = g.end /\ i \in 1..Len(s.segments)
  BY <1>2, <1>3, Tile, SMTT(30)
<1>5. /\ g = s.segments[i] /\ rel = pos - g.start /\ keep = Those(g.labels, D)
      /\ D = {n \in DOMAIN g.labels : ~(g.labels[n].lo < rel /\ rel < g.labels[n].hi)}
      /\ lo = LastEnd(LeftOf(keep, rel)) /\ hi = FirstStart(RightOf(keep, rel), Len(g.text))
      /\ two = splitSegment(splitSegment(c, i, hi), i, lo) /\ t = s.text
  OBVIOUS
<1> HIDE DEF g, rel, D, keep, lo, hi, c, two, t, i
<1>6. rel \in Nat /\ rel < Len(g.text) /\ rel <= Len(g.text) /\ pos = g.start + rel
  <2>1. rel = pos - g.start
    BY <1>5
  <2>2. rel \in Nat
    BY <2>1, <1>3, <1>4
  <2>3. pos = g.start + rel
    BY <2>1, <1>4
  <2>4. rel < Len(g.text)
    BY <2>2, <2>3, <1>3, <1>4
  <2> QED BY <2>2, <2>3, <2>4, <1>4
<1>7. /\ keep \in Seq(LabelRecord) /\ ToSet(keep) \subseteq ToSet(g.labels)
      /\ ToSet(keep) = {l \in ToSet(g.labels) : l.hi <= rel \/ l.lo >= rel}
      /\ \A l \in ToSet(keep) : l.hi <= rel \/ l.lo >= rel
  <2>1. D \in SUBSET DOMAIN g.labels
    BY <1>5
  <2>2. keep \in Seq(LabelRecord) /\ ToSet(keep) = {g.labels[n] : n \in D}
    BY <2>1, <1>4, <1>5, ThoseAre
  <2>3. \A n \in D : g.labels[n] \in ToSet(g.labels)
    BY <2>1 DEF ToSet
  <2>4. \A n \in D : g.labels[n].hi <= rel \/ g.labels[n].lo >= rel
    <3> SUFFICES ASSUME NEW n \in D PROVE g.labels[n].hi <= rel \/ g.labels[n].lo >= rel
      OBVIOUS
    <3>1. g.labels[n].lo \in Nat /\ g.labels[n].hi \in Nat
      BY <2>3, <1>4, MembersAre
    <3>2. ~(g.labels[n].lo < rel /\ rel < g.labels[n].hi)
      BY <1>5
    <3> QED BY <3>1, <3>2, <1>6
  <2>5. \A l \in ToSet(g.labels) : (l.hi <= rel \/ l.lo >= rel) => \E n \in D : g.labels[n] = l
    <3> SUFFICES ASSUME NEW l \in ToSet(g.labels), l.hi <= rel \/ l.lo >= rel
                 PROVE  \E n \in D : g.labels[n] = l
      OBVIOUS
    <3>1. PICK n \in DOMAIN g.labels : g.labels[n] = l
      BY DEF ToSet
    <3>2. l.lo \in Nat /\ l.hi \in Nat
      BY <1>4, MembersAre
    <3>3. ~(l.lo < rel /\ rel < l.hi)
      BY <3>2, <1>6
    <3> QED BY <3>1, <3>3, <1>5
  <2> QED BY <2>2, <2>3, <2>4, <2>5
<1>8. /\ c \in State /\ Held(c, t) /\ c.text = s.text /\ c.threw = s.threw
      /\ DOMAIN c.segments = DOMAIN s.segments
      /\ c.segments[i].start = g.start /\ c.segments[i].text = g.text /\ c.segments[i].labels = keep
  <2>1. s \in State /\ t \in Seq(Char) /\ Held(s, t) /\ i \in DOMAIN s.segments /\ keep \in Seq(LabelRecord)
        /\ ToSet(keep) \subseteq ToSet(s.segments[i].labels)
    BY <1>2, <1>3, <1>5, <1>7
  <2>2. /\ c \in State /\ Held(c, t) /\ c.text = s.text /\ c.threw = s.threw
        /\ DOMAIN c.segments = DOMAIN s.segments
        /\ c.segments[i].start = s.segments[i].start /\ c.segments[i].text = s.segments[i].text
        /\ c.segments[i].labels = keep
    BY <2>1, Kept DEF c
  <2>3. g = s.segments[i]
    BY <1>5
  <2> QED BY <2>2, <2>3
<1>9. /\ lo \in Nat /\ lo <= rel /\ hi \in Nat /\ rel <= hi /\ hi <= Len(g.text)
      /\ \A l \in ToSet(keep) : l.hi <= lo \/ l.lo >= hi
  <2> DEFINE left == LeftOf(keep, rel)
             right == RightOf(keep, rel)
  <2>1. left \in Seq(LabelRecord) /\ ToSet(left) = {l \in ToSet(keep) : l.hi <= rel}
    <3>1. rel \in Int /\ keep \in Seq(LabelRecord)
      BY <1>6, <1>7
    <3> QED BY <3>1, LeftAre
  <2>2. right \in Seq(LabelRecord) /\ ToSet(right) = {l \in ToSet(keep) : l.lo >= rel}
    <3>1. rel \in Int /\ keep \in Seq(LabelRecord)
      BY <1>6, <1>7
    <3> QED BY <3>1, RightAre
  <2>3. lo = LastEnd(left) /\ hi = FirstStart(right, Len(g.text))
    BY <1>5
  <2> HIDE DEF left, right
  <2>4. /\ lo \in Nat /\ lo <= rel /\ hi \in Nat /\ rel <= hi /\ hi <= Len(g.text)
        /\ (\A l \in ToSet(left) : l.hi <= lo) /\ \A l \in ToSet(right) : l.lo >= hi
    <3>1. left \in Seq(LabelRecord) /\ right \in Seq(LabelRecord) /\ rel \in Nat /\ rel <= rel /\ Len(g.text) \in Nat
          /\ rel <= Len(g.text) /\ (\A l \in ToSet(left) : l.hi <= rel) /\ (\A l \in ToSet(right) : l.lo >= rel)
      BY <2>1, <2>2, <1>4, <1>6
    <3> QED BY <3>1, <2>3, RoomIs
  <2> QED BY <2>1, <2>2, <2>4, <1>7
<1>10. i \in DOMAIN c.segments /\ ~c.threw /\ lo <= hi /\ Free(c, i, lo, hi)
  <2>1. lo <= hi /\ lo < Len(g.text)
    BY <1>4, <1>6, <1>9
  <2>2. g.start < Len(s.text)
    <3>1. t = s.text
      BY <1>5
    <3>2. t \in Seq(Char)
      BY <1>2
    <3>3. Len(t) \in Nat
      BY <3>2
    <3> QED BY <3>1, <3>3, <1>3, <1>4
  <2>3. i \in DOMAIN c.segments /\ ~c.threw
    BY <1>3, <1>8
  <2> QED BY <2>1, <2>2, <2>3, <1>8, <1>9 DEF Free
<1>11. /\ two \in State /\ Held(two, t) /\ two.text = c.text /\ ~two.threw
       /\ k \in DOMAIN two.segments /\ two.segments[k].start = c.segments[i].start + lo
       /\ Len(two.segments[k].text) >= hi - lo
       /\ lo < hi => ToSet(two.segments[k].labels) = {}
  <2>1. c \in State /\ t \in Seq(Char) /\ Held(c, t) /\ lo \in Nat /\ hi \in Nat
    BY <1>2, <1>8, <1>9
  <2>2. two = splitSegment(splitSegment(c, i, hi), i, lo)
    BY <1>5
  <2> DEFINE v == splitSegment(splitSegment(c, i, hi), i, lo)
             n == IF lo > 0 THEN i + 1 ELSE i
  <2>3. /\ v \in State /\ Held(v, t) /\ v.text = c.text /\ ~v.threw
        /\ n \in DOMAIN v.segments /\ v.segments[n].start = c.segments[i].start + lo
        /\ Len(v.segments[n].text) >= hi - lo
        /\ lo < hi => Len(v.segments[n].text) = hi - lo /\ ToSet(v.segments[n].labels) = {}
    BY <2>1, <1>10, Carve
  <2> HIDE DEF v
  <2>4. v = two /\ n = k
    BY <2>2 DEF v
  <2> HIDE DEF n, k
  <2> QED BY <2>3, <2>4
<1> HIDE DEF k
<1> DEFINE h == two.segments[k]
           q == rel - lo
           d == Len(piece)
<1>12. /\ h \in Part /\ h.start \in Nat /\ h.text \in Seq(Char) /\ Len(h.text) \in Nat \ {0} /\ h.end = h.start + Len(h.text)
       /\ Edge(two.segments, k + 1) = h.end /\ Shows(h, t) /\ Whole(h) /\ h.labels \in Seq(LabelRecord)
       /\ Tiled(two.segments, t) /\ Placed(two.segments) /\ two.labelsById = LabelsOf(two.segments, DOMAIN two.segments)
       /\ two.segments \in Seq(Part)
  BY <1>2, <1>11, StateIs, Tile DEF Held
<1>13. q \in Nat /\ q <= Len(h.text) /\ h.start + q = pos /\ d \in Nat
  <2>1. h.start = g.start + lo /\ Len(h.text) >= hi - lo
    BY <1>8, <1>11
  <2> HIDE DEF h
  <2>2. q \in Nat /\ q <= hi - lo
    BY <1>6, <1>9
  <2>3. q <= Len(h.text)
    BY <2>1, <2>2, <1>9, <1>12
  <2>4. h.start + q = pos
    BY <2>1, <1>4, <1>6, <1>9
  <2> QED BY <2>2, <2>3, <2>4
<1>14. h.start + Len(h.text) <= Len(t)
  <2>1. k \in 1..Len(two.segments)
    BY <1>11, <1>12
  <2>2. k + 1 \in 1..Len(two.segments) + 1 /\ k + 1 \in k + 1..Len(two.segments) + 1
    BY <2>1
  <2>3. Edge(two.segments, k + 1) <= Len(t)
    BY <2>2, <1>2, <1>12, EdgesAscend
  <2> QED BY <2>3, <1>12
<1>15. /\ h = two.segments[k] /\ x = Paste(h.text, q, piece) /\ r = Resized(two.segments, k, x, d) /\ d = Len(piece)
       /\ u = [two EXCEPT !.text = Paste(t, pos, piece), !.segments = r]
  BY <1>8, <1>11, <1>5, ZenonT(60)
<1> DEFINE t2 == Paste(t, pos, piece)
<1> HIDE DEF h, q, d, x, r, u
<1>16. \A y \in 1..Len(h.text) : h.text[y] = t[h.start + y]
  BY <1>12 DEF Shows
<1>17. /\ t2 \in Seq(Char) /\ x \in Seq(Char) /\ Len(x) = Len(h.text) + d
       /\ (\A y \in 1..Len(x) : x[y] = t2[h.start + y])
       /\ SameBut(t, t2, h.start, h.end, d)
  <2>1. LET b == Paste(t, h.start + q, piece)
            z  == Paste(h.text, q, piece)
            e  == Len(piece)
        IN  /\ b \in Seq(Char) /\ z \in Seq(Char) /\ Len(z) = Len(h.text) + e
            /\ \A y \in 1..Len(z) : z[y] = b[h.start + y]
            /\ SameBut(t, b, h.start, h.start + Len(h.text), e)
    BY <1>2, <1>12, <1>13, <1>14, <1>16, PastedShows
  <2> QED BY <2>1, <1>12, <1>13, <1>15
<1> HIDE DEF t2
<1>18. x # <<>> /\ \A l \in ToSet(h.labels) : l.hi <= Len(x)
  <2>1. \A l \in ToSet(h.labels) : l.hi <= Len(h.text) /\ l.hi \in Nat
    BY <1>12, MembersAre DEF Whole
  <2>2. Len(x) > 0 /\ Len(h.text) <= Len(x) /\ Len(x) \in Nat
    <3> DEFINE w == Len(h.text)
               z == Len(x)
    <3>1. w \in Nat \ {0} /\ d \in Nat /\ z = w + d
      BY <1>12, <1>13, <1>17
    <3> HIDE DEF w, z
    <3>2. z > 0 /\ w <= z /\ z \in Nat
      BY <3>1
    <3> QED BY <3>2 DEF w, z
  <2> QED BY <2>1, <2>2, <1>12
<1>19. Tiled(r, t2) /\ Placed(r) /\ LabelsOf(r, DOMAIN r) = LabelsOf(two.segments, DOMAIN two.segments)
  <2> DEFINE row == two.segments
  <2>1. Tiled(row, t) /\ Placed(row) /\ k \in DOMAIN row /\ row[k] = h /\ r = Resized(row, k, x, d)
    BY <1>11, <1>12, <1>15
  <2> HIDE DEF row
  <2>2. Refills(row[k], t, x, d, t2)
    BY <2>1, <1>13, <1>17, <1>18 DEF Refills
  <2>3. LET z == Resized(row, k, x, d)
        IN  Tiled(z, t2) /\ Placed(z) /\ LabelsOf(z, DOMAIN z) = LabelsOf(row, DOMAIN row)
    BY <2>1, <2>2, <1>2, Regrown
  <2> QED BY <2>1, <2>3 DEF row
<1>20. u.text = t2 /\ u.segments = r /\ u.labelsById = two.labelsById /\ u \in State
  <2>1. r \in Seq(Part)
    BY <1>19 DEF Tiled
  <2> QED BY <2>1, <1>11, <1>15, <1>17 DEF State, t2
<1>21. u \in State /\ Held(u, u.text) /\ u.text = Paste(s.text, pos, piece) /\ ~u.threw
  <2>1. u.threw = two.threw
    BY <1>11, <1>15 DEF State
  <2>2. t = s.text
    BY <1>5
  <2> QED BY <2>1, <2>2, <1>11, <1>12, <1>19, <1>20 DEF Held, t2
<1> DEFINE row == two.segments
           B   == SeenIn(row, 1..k - 1)
           M   == AllMoved(ToSet(h.labels), h.start)
           A   == SeenIn(row, k + 1..Len(row))
           e   == h.end
<1>22. Seen(c) = {y \in Seen(s) : y.hi <= pos \/ y.lo >= pos}
  <2>1. /\ i \in DOMAIN s.segments /\ g = s.segments[i] /\ rel <= Len(g.text)
        /\ ToSet(keep) = {l \in ToSet(g.labels) : l.hi <= rel \/ l.lo >= rel}
    BY <1>3, <1>5, <1>6, <1>7
  <2>2. Seen(c) = {y \in Seen(s) : y.hi <= g.start + rel \/ y.lo >= g.start + rel}
    <3>1. LET z == s.segments[i].start
          IN  Seen(Keep(s, i, keep)) = {y \in Seen(s) : y.hi <= z + rel \/ y.lo >= z + rel}
      <4>1. /\ ToSet(keep) = {l \in ToSet(s.segments[i].labels) : l.hi <= rel \/ l.lo >= rel}
            /\ rel <= Len(s.segments[i].text) /\ rel \in Nat /\ rel <= rel
        BY <2>1, <1>6
      <4> QED BY <4>1, <2>1, <1>2, KeptSeen
    <3> QED BY <3>1, <2>1 DEF c
  <2> QED BY <2>2, <1>6
<1>23. Seen(two) = B \cup M \cup A /\ Seen(two) = Seen(c)
  <2>1. k \in DOMAIN row /\ row[k] = h /\ Tiled(row, t)
    BY <1>11, <1>12, <1>15
  <2> HIDE DEF row
  <2>2. SeenIn(row, DOMAIN row) = B \cup M \cup A
    BY <2>1, SeenAround
  <2>3. Seen(two) = Seen(c)
    <3>1. c \in State /\ Held(c, t) /\ i \in DOMAIN c.segments /\ lo \in Nat /\ hi \in Nat /\ t \in Seq(Char)
      BY <1>2, <1>8, <1>9, <1>10
    <3>2. Seen(splitSegment(splitSegment(c, i, hi), i, lo)) = Seen(c)
      BY <3>1, CarveSeen
    <3> QED BY <3>2, <1>5
  <2> QED BY <2>2, <2>3 DEF row, Seen
<1>24. Seen(u) = B \cup M \cup AllMoved(A, d)
  <2>1. k \in DOMAIN row /\ row[k] = h /\ Tiled(row, t) /\ u.segments = Resized(row, k, x, d)
    BY <1>11, <1>12, <1>15, <1>20
  <2> HIDE DEF row
  <2>2. x \in Seq(Char) /\ d \in Int /\ row[k].end + d \in Nat
    BY <2>1, <1>12, <1>13, <1>17
  <2>3. LET z == Resized(row, k, x, d)
        IN  SeenIn(z, DOMAIN z) =
              SeenIn(row, 1..k - 1) \cup AllMoved(ToSet(row[k].labels), row[k].start)
                \cup AllMoved(SeenIn(row, k + 1..Len(row)), d)
    BY <2>1, <2>2, <1>2, RegrownSeen
  <2> QED BY <2>1, <2>3 DEF Seen
<1>25. /\ \A y \in B : y.hi <= h.start
       /\ \A y \in M : h.start <= y.lo /\ y.hi <= h.end
       /\ \A y \in A : y.lo >= h.end
  <2>1. k \in DOMAIN row /\ row[k] = h /\ Tiled(row, t)
    BY <1>11, <1>12, <1>15
  <2> HIDE DEF row
  <2> QED BY <2>1, <1>2, SeenSides
<1>26. \A y \in Seen(s) : y.lo \in Nat /\ y.hi \in Nat /\ y.lo < y.hi /\ y \in LabelRecord
  BY <1>2, SeenAll DEF Seen
<1> HIDE DEF B, M, A, e, row
<1>27. B \subseteq Seen(s) /\ M \subseteq Seen(s) /\ A \subseteq Seen(s)
  BY <1>22, <1>23
<1>28. e \in Nat /\ pos <= e /\ h.start <= pos /\ h.start < e
  BY <1>12, <1>13 DEF e
<1>29. \A y \in B : y.hi <= pos
  BY <1>12, <1>25, <1>26, <1>27, <1>28
<1>30. M # {} => lo = hi /\ h.start = pos /\ hi = rel
  <2> SUFFICES ASSUME M # {} PROVE lo = hi /\ h.start = pos /\ hi = rel
    OBVIOUS
  <2>1. ToSet(h.labels) # {}
    BY DEF M, AllMoved
  <2>2. ~(lo < hi)
    BY <2>1, <1>11, <1>15
  <2>3. lo = hi /\ hi = rel
    BY <2>2, <1>6, <1>9
  <2>4. q = 0
    BY <2>3, <1>6, <1>9 DEF q
  <2> QED BY <2>3, <2>4, <1>12, <1>13
<1>31. \A y \in M : y.lo >= pos /\ y.hi <= e
  BY <1>25, <1>26, <1>27, <1>30 DEF e
<1>32. M # {} => \E y \in M : y.lo = pos
  <2> SUFFICES ASSUME M # {} PROVE \E y \in M : y.lo = pos
    OBVIOUS
  <2> DEFINE right == RightOf(keep, rel)
  <2>1. right \in Seq(LabelRecord) /\ ToSet(right) = {l \in ToSet(keep) : l.lo >= rel}
    <3>1. rel \in Int /\ keep \in Seq(LabelRecord)
      BY <1>6, <1>7
    <3> QED BY <3>1, RightAre
  <2>2. FirstStart(right, Len(g.text)) = rel
    BY <1>5, <1>30
  <2> DEFINE w == Len(g.text)
  <2>9. w \in Nat /\ FirstStart(right, w) = rel /\ rel # w
    BY <2>2, <1>4, <1>6
  <2> HIDE DEF right, w
  <2>3. PICK l \in ToSet(right) : l.lo = rel
    <3>1. \E l \in ToSet(right) : l.lo = FirstStart(right, w)
      BY <2>1, <2>9, FirstStartMet
    <3> QED BY <3>1, <2>9
  <2> DEFINE y == By(l, g.start)
  <2>4. y \in Seen(s) /\ y.lo = g.start + l.lo /\ y.lo \in Nat /\ y.hi \in Nat /\ y.lo < y.hi
    <3>1. l \in ToSet(s.segments[i].labels) /\ i \in DOMAIN s.segments
      BY <2>1, <1>3, <1>5, <1>7
    <3>2. y \in Seen(s)
      <4>1. y \in {By(o, s.segments[i].start) : o \in ToSet(s.segments[i].labels)}
        BY <3>1, <1>5
      <4> QED BY <4>1, <3>1 DEF Seen, SeenIn
    <3>3. y.lo = g.start + l.lo
      BY <3>1, <1>2, <1>5, SeenAt
    <3> QED BY <3>2, <3>3, <1>26
  <2> HIDE DEF y
  <2>5. y.lo = pos
    BY <2>3, <2>4, <1>6
  <2>6. y \in B \cup M \cup A
    <3>1. y \in Seen(c)
      BY <2>4, <2>5, <1>22
    <3> QED BY <3>1, <1>23
  <2>7. y \notin B
    BY <2>4, <2>5, <1>29
  <2>8. y \notin A
    BY <2>4, <2>5, <1>25, <1>28, <1>30 DEF e
  <2> QED BY <2>5, <2>6, <2>7, <2>8
<1>33. Typed(Seen(s), Seen(u), pos, d)
  <2> DEFINE S == Seen(s)
  <2>1. /\ \A y \in S : y.lo \in Nat /\ y.hi \in Nat /\ y.lo < y.hi
        /\ {y \in S : y.hi <= pos \/ y.lo >= pos} = B \cup M \cup A
    BY <1>22, <1>23, <1>26
  <2>2. \A y \in A : y.lo >= e
    BY <1>25 DEF e
  <2>3. M = {} \/ (pos > 0 /\ \E y \in M : y.lo = pos)
    BY <1>32
  <2> HIDE DEF S
  <2>4. Typed(S, B \cup M \cup AllMoved(A, d), pos, d)
    BY <2>1, <2>2, <2>3, <1>28, <1>29, <1>31, TypedFrom
  <2> QED BY <2>4, <1>24 DEF S
<1>34. Typed(Seen(s), Seen(u), pos, Len(piece))
  BY <1>15, <1>33
<1> QED BY <1>1, <1>21, <1>34

LEMMA InsertHeld ==
  ASSUME NEW s \in State, Held(s, s.text), ~s.threw, NEW pos \in Nat, pos <= Len(s.text),
         NEW piece \in Seq(Char), piece # <<>>
  PROVE  LET u == Inserted(s, pos, piece)
         IN  /\ u \in State /\ Held(u, u.text) /\ u.text = Paste(s.text, pos, piece) /\ ~u.threw
             /\ Typed(Seen(s), Seen(u), pos, Len(piece))
<1> DEFINE u == Inserted(s, pos, piece)
<1>1. CASE pos \notin {0, Len(s.text)}
  <2>1. u = InsertedWithin(s, pos, piece)
    BY <1>1 DEF Inserted
  <2>2. 0 < pos /\ pos < Len(s.text)
    <3>1. s.text \in Seq(Char)
      BY StateIs
    <3>2. Len(s.text) \in Nat
      BY <3>1
    <3> QED BY <3>2, <1>1
  <2>3. LET w == InsertedWithin(s, pos, piece)
        IN  /\ w \in State /\ Held(w, w.text) /\ w.text = Paste(s.text, pos, piece) /\ ~w.threw
            /\ Typed(Seen(s), Seen(w), pos, Len(piece))
    BY <2>2, InsertWithin
  <2> HIDE DEF u
  <2> QED BY <2>1, <2>3 DEF u
<1>2. CASE pos \in {0, Len(s.text)}
  <2> DEFINE t   == s.text
             row == s.segments
             i   == IF pos = 0 THEN 1 ELSE Len(row) + 1
             h   == Segment(pos, piece, <<>>)
             d   == Len(piece)
             t2  == Paste(t, pos, piece)
             new == <<h>>
             r   == Spliced(row, i, i, new, d)
  <2>1. u = [s EXCEPT !.text = t2, !.segments = r]
    BY <1>2 DEF Inserted
  <2>2. /\ t \in Seq(Char) /\ row \in Seq(Part) /\ Tiled(row, t) /\ Placed(row)
        /\ s.labelsById = LabelsOf(row, DOMAIN row) /\ s.labelsById \in SUBSET LabelRecord
        /\ Len(t) = Edge(row, Len(row) + 1)
    BY StateIs DEF Held, Tiled
  <2>3. t = s.text /\ row = s.segments /\ pos <= Len(t) /\ (pos = 0 \/ pos = Len(t))
    BY <1>2
  <2> HIDE DEF t, row, u
  <2>4. i \in 1..Len(row) + 1 /\ i \in i..Len(row) + 1 /\ i \in Nat
    BY <2>2
  <2>5. Edge(row, i) = pos
    BY <2>2, <2>3 DEF Edge
  <2>6. d \in Nat \ {0} /\ <<>> \in Seq(LabelRecord)
    OBVIOUS
  <2>7. /\ t2 \in Seq(Char) /\ Len(t2) = Len(t) + d
        /\ (\A x \in 1..pos : t2[x] = t[x]) /\ (\A x \in 1..d : t2[pos + x] = piece[x])
        /\ \A x \in 1..Len(t) - pos : t2[pos + d + x] = t[pos + x]
    BY <2>2, <2>3, PasteIs, ZenonT(60)
  <2>8. /\ h \in Part /\ h.start = pos /\ h.end = pos + d /\ h.text = piece /\ h.labels = <<>>
    <3>1. pos \in Nat /\ piece \in Seq(Char) /\ <<>> \in Seq(LabelRecord)
      BY <2>6
    <3> HIDE DEF d
    <3>2. h \in Part /\ h.start = pos /\ h.end = pos + Len(piece) /\ h.text = piece /\ h.labels = <<>>
      <4> DEFINE e == <<>>
      <4>1. e \in Seq(LabelRecord) /\ h = Segment(pos, piece, e)
        BY <3>1 DEF h
      <4> HIDE DEF e, h
      <4>2. h \in Part /\ h.start = pos /\ h.end = pos + Len(piece) /\ h.text = piece /\ h.labels = e
        BY <3>1, <4>1, SegmentIs
      <4> QED BY <4>2 DEF e
    <3> HIDE DEF h
    <3> QED BY <3>2 DEF d
  <2> HIDE DEF h, d, t2, i
  <2>9. SameBut(t, t2, pos, pos, d)
    <3>1. ASSUME NEW x \in pos + 1..Len(t) PROVE t2[x + d] = t[x]
      <4>1. Len(t) \in Nat
        BY <2>2
      <4>2. x - pos \in 1..Len(t) - pos
        BY <4>1
      <4>3. pos + d + (x - pos) = x + d /\ pos + (x - pos) = x
        BY <4>1, <2>6
      <4> QED BY <4>2, <4>3, <2>7
    <3> QED BY <3>1, <2>7 DEF SameBut
  <2>10. Whole(h) /\ Shows(h, t2) /\ ToSet(h.labels) = {}
    <3>1. ToSet(h.labels) = {}
      BY <2>8 DEF ToSet
    <3>2. Len(piece) = d
      BY DEF d
    <3> QED BY <3>1, <3>2, <2>7, <2>8 DEF Whole, Shows
  <2>11. new \in Seq(Part) /\ Len(new) = 1 /\ DOMAIN new = 1..1 /\ new[1] = h /\ new # <<>>
         /\ LabelsOf(new, DOMAIN new) = {}
    BY <2>8, <2>10, SingleIs
  <2> HIDE DEF new
  <2>12. \A m \in DOMAIN new : m = 1
    BY <2>11
  <2>13. Fits(new, t2, Edge(row, i), Edge(row, i) + d)
    BY <2>5, <2>8, <2>10, <2>11, <2>12 DEF Fits
  <2>14. Fresh(row, i, i, new)
    BY <2>10, <2>11, <2>12 DEF Fresh, Placed
  <2>15. /\ Tiled(r, t2) /\ Placed(r)
         /\ LabelsOf(r, DOMAIN r) = LabelsOf(row, Outside(row, i, i)) \cup LabelsOf(new, DOMAIN new)
    BY <2>2, <2>4, <2>5, <2>6, <2>7, <2>9, <2>11, <2>13, <2>14, Replaced
  <2>16. Outside(row, i, i) = DOMAIN row
    <3>1. i..i - 1 = {}
      BY <2>4
    <3> QED BY <3>1 DEF Outside
  <2> HIDE DEF r
  <2>17. u.text = t2 /\ u.segments = r /\ u.labelsById = s.labelsById /\ u \in State
    <3>1. r \in Seq(Part)
      BY <2>15 DEF Tiled
    <3> QED BY <3>1, <2>1, <2>7 DEF State
  <2>18. u \in State /\ Held(u, u.text) /\ u.text = t2 /\ ~u.threw
    <3>1. u.threw = s.threw
      BY <2>1 DEF State
    <3> QED BY <3>1, <2>2, <2>11, <2>15, <2>16, <2>17 DEF Held
  <2> DEFINE S == Seen(s)
             B == SeenIn(row, 1..i - 1)
             A == SeenIn(row, i..Len(row))
             M == {}
  <2>19. S = B \cup M \cup A
    <3>1. SeenIn(row, i..i - 1) = {}
      <4>1. i..i - 1 = {}
        BY <2>4
      <4> QED BY <4>1 DEF SeenIn
    <3>2. SeenIn(row, DOMAIN row) = SeenIn(row, 1..i - 1) \cup SeenIn(row, i..i - 1) \cup SeenIn(row, i..Len(row))
      BY <2>2, <2>4, SeenParts
    <3> QED BY <3>1, <3>2, <2>3 DEF Seen
  <2>20. Seen(u) = B \cup M \cup AllMoved(A, d)
    <3>1. d \in Int
      BY <2>6
    <3>2. LET z == Spliced(row, i, i, new, d)
          IN  SeenIn(z, DOMAIN z) =
                SeenIn(row, 1..i - 1) \cup SeenIn(new, DOMAIN new) \cup AllMoved(SeenIn(row, i..Len(row)), d)
      BY <3>1, <2>2, <2>4, <2>11, SeenSpliced
    <3>3. SeenIn(new, DOMAIN new) = {}
      <4>1. new = <<h>> /\ SeenIn(<<h>>, DOMAIN <<h>>) = AllMoved(ToSet(h.labels), h.start)
        BY <2>8, SeenSingle DEF new
      <4> QED BY <4>1, <2>10 DEF AllMoved
    <3> QED BY <3>2, <3>3, <2>17 DEF Seen, r
  <2>21. \A x \in S : x.lo \in Nat /\ x.hi \in Nat /\ x.lo < x.hi
    BY <2>2, <2>3, SeenAll DEF Seen
  <2>22. (\A x \in B : x.hi <= pos) /\ \A x \in A : x.lo >= pos
    <3> DEFINE o == 1
               z == Len(row) + 1
    <3>1. o \in 1..Len(row) + 1 /\ i \in o..Len(row) + 1 /\ z \in i..Len(row) + 1 /\ z - 1 = Len(row)
      BY <2>2, <2>4
    <3> HIDE DEF o, z
    <3>2. \A x \in SeenIn(row, o..i - 1) : x.hi <= Edge(row, i)
      BY <3>1, <2>2, SeenWithin
    <3>3. \A x \in SeenIn(row, i..z - 1) : Edge(row, i) <= x.lo /\ x.lo \in Nat
      BY <3>1, <2>2, <2>4, SeenWithin
    <3> QED BY <3>1, <3>2, <3>3, <2>5 DEF o
  <2> HIDE DEF S, B, A, M
  <2>23. Typed(S, Seen(u), pos, d)
    <3>1. {x \in S : x.hi <= pos \/ x.lo >= pos} = B \cup M \cup A
      BY <2>19, <2>22 DEF M
    <3>2. pos \in Nat /\ pos <= pos /\ M = {}
      BY DEF M
    <3>3. Typed(S, B \cup M \cup AllMoved(A, d), pos, d)
      BY <3>1, <3>2, <2>21, <2>22, TypedFrom
    <3> QED BY <3>3, <2>20
  <2> QED BY <2>3, <2>18, <2>23 DEF u, S, t2, d
<1> QED BY <1>1, <1>2

------------------------------------------------------------------------------
(* Text is deleted.                                                          *)
LEMMA Vanished ==
  ASSUME NEW row, NEW t \in Seq(Char), Tiled(row, t), Placed(row), NEW k \in DOMAIN row, ToSet(row[k].labels) = {},
         NEW d \in Int, NEW t2 \in Seq(Char), row[k].end + d = row[k].start,
         SameBut(t, t2, row[k].start, row[k].end, d)
  PROVE  LET r == Spliced(row, k, k + 1, <<>>, d)
         IN  Tiled(r, t2) /\ Placed(r) /\ LabelsOf(r, DOMAIN r) = LabelsOf(row, DOMAIN row)
<1> DEFINE g == row[k]
           new == <<>>
           r == Spliced(row, k, k + 1, new, d)
<1>1. row \in Seq(Part) /\ k \in 1..Len(row) /\ k \in 1..Len(row) + 1 /\ k + 1 \in k..Len(row) + 1
      /\ k \in Nat
  BY DEF Tiled
<1>2. Edge(row, k) = g.start /\ Edge(row, k + 1) = g.end /\ g.start \in Nat
  BY Tile
<1>3. g = row[k] /\ ToSet(g.labels) = {} /\ g.end + d = g.start /\ SameBut(t, t2, g.start, g.end, d)
  OBVIOUS
<1>0. new = <<>> /\ r = Spliced(row, k, k + 1, new, d)
  OBVIOUS
<1>4. new \in Seq(Part) /\ DOMAIN new = {} /\ LabelsOf(new, DOMAIN new) = {}
  BY DEF LabelsOf
<1> HIDE DEF g, new, r
<1>5. Fits(new, t2, Edge(row, k), Edge(row, k + 1) + d)
  BY <1>0, <1>2, <1>3, <1>4 DEF Fits
<1>6. Fresh(row, k, k + 1, new)
  BY <1>4 DEF Fresh, Placed
<1>7. SameBut(t, t2, Edge(row, k), Edge(row, k + 1), d)
  BY <1>2, <1>3
<1>8. /\ Tiled(r, t2) /\ Placed(r)
      /\ LabelsOf(r, DOMAIN r) = LabelsOf(row, Outside(row, k, k + 1)) \cup LabelsOf(new, DOMAIN new)
  <2> DEFINE j == k + 1
  <2>1. /\ t \in Seq(Char) /\ Tiled(row, t) /\ Placed(row) /\ new \in Seq(Part) /\ t2 \in Seq(Char)
        /\ k \in 1..Len(row) + 1 /\ j \in k..Len(row) + 1 /\ d \in Int
        /\ Fits(new, t2, Edge(row, k), Edge(row, j) + d) /\ SameBut(t, t2, Edge(row, k), Edge(row, j), d)
        /\ Fresh(row, k, j, new) /\ r = Spliced(row, k, j, new, d)
    BY <1>0, <1>1, <1>4, <1>5, <1>6, <1>7
  <2> HIDE DEF j
  <2>2. /\ Tiled(r, t2) /\ Placed(r)
        /\ LabelsOf(r, DOMAIN r) = LabelsOf(row, Outside(row, k, j)) \cup LabelsOf(new, DOMAIN new)
    BY <2>1, Replaced
  <2> QED BY <2>2 DEF j
<1>9. LabelsOf(row, DOMAIN row) = LabelsOf(row, Outside(row, k, k + 1)) \cup ToSet(g.labels)
  <2>1. DOMAIN row = Outside(row, k, k + 1) \cup {k}
    <3>1. k..(k + 1) - 1 = {k}
      BY <1>1
    <3> QED BY <3>1, <1>1 DEF Outside
  <2> QED BY <2>1, <1>3 DEF LabelsOf
<1>10. Tiled(r, t2) /\ Placed(r) /\ LabelsOf(r, DOMAIN r) = LabelsOf(row, DOMAIN row)
  BY <1>3, <1>4, <1>8, <1>9
<1> QED BY <1>10 DEF new, r

LEMMA DeleteWithin ==
  ASSUME NEW s \in State, NEW t \in Seq(Char), Held(s, t), ~s.threw, NEW i \in DOMAIN s.segments,
         NEW a \in Nat, NEW b \in Nat, a < b, s.segments[i].start <= a, b <= s.segments[i].end,
         s.text = Cut(t, a, b)
  PROVE  LET u == DeletedWithin(s, i, a, b)
         IN  /\ u \in State /\ Held(u, u.text) /\ u.text = s.text /\ ~u.threw
             /\ Dropped(Seen(s), Seen(u), a, b)
<1> DEFINE g     == s.segments[i]
           from  == a - g.start
           to    == b - g.start
           left  == LeftOf(g.labels, from)
           right == RightOf(g.labels, to)
           keep  == left \o right
           lo    == LastEnd(left)
           hi    == FirstStart(right, Len(g.text))
           c     == Keep(s, i, keep)
           two   == splitSegment(splitSegment(c, i, hi), i, lo)
           k     == IF lo > 0 THEN i + 1 ELSE i
           x     == Cut(two.segments[k].text, from - lo, to - lo)
           r     == IF x = <<>> THEN Spliced(two.segments, k, k + 1, <<>>, a - b) ELSE Resized(two.segments, k, x, a - b)
           u     == [two EXCEPT !.segments = r]
<1>1. DeletedWithin(s, i, a, b) = u
  BY DEF DeletedWithin
<1>2. Tiled(s.segments, t) /\ s.segments \in Seq(Part)
  BY StateIs DEF Held
<1>3. g.start <= a /\ b <= g.end /\ g = s.segments[i]
  OBVIOUS
<1>4. /\ g \in Part /\ g.start \in Nat /\ g.end \in Nat /\ Len(g.text) \in Nat /\ Whole(g)
      /\ g.labels \in Seq(LabelRecord) /\ g.end = g.start + Len(g.text)
      /\ Edge(s.segments, i + 1) = g.end /\ i \in 1..Len(s.segments)
  BY <1>2, Tile, SMTT(30)
<1>5. from = a - g.start /\ to = b - g.start
  OBVIOUS
<1>6. left = LeftOf(g.labels, from) /\ right = RightOf(g.labels, to) /\ keep = left \o right
      /\ lo = LastEnd(left) /\ hi = FirstStart(right, Len(g.text)) /\ c = Keep(s, i, keep)
      /\ two = splitSegment(splitSegment(c, i, hi), i, lo)
  OBVIOUS
<1> HIDE DEF g, from, to, left, right, keep, lo, hi, c, two
<1>7. from \in Nat /\ to \in Nat /\ from < to /\ to <= Len(g.text) /\ a = g.start + from /\ b = g.start + to
  <2> DEFINE p == g.start
             n == Len(g.text)
             e == g.end
  <2>1. p \in Nat /\ n \in Nat /\ e \in Nat /\ e = p + n /\ p <= a /\ b <= e /\ from = a - p /\ to = b - p
    BY <1>3, <1>4, <1>5
  <2> HIDE DEF p, n, e
  <2>2. from \in Nat /\ to \in Nat /\ from < to /\ to <= n /\ a = p + from /\ b = p + to
    BY <2>1
  <2> QED BY <2>2 DEF p, n
<1>8. /\ left \in Seq(LabelRecord) /\ ToSet(left) = {l \in ToSet(g.labels) : l.hi <= from}
      /\ right \in Seq(LabelRecord) /\ ToSet(right) = {l \in ToSet(g.labels) : l.lo >= to}
  <2>1. from \in Int /\ to \in Int
    BY <1>7
  <2> QED BY <2>1, <1>4, <1>6, LeftAre, RightAre
<1>9. keep \in Seq(LabelRecord) /\ ToSet(keep) = ToSet(left) \cup ToSet(right) /\ ToSet(keep) \subseteq ToSet(g.labels)
  <2>1. keep \in Seq(LabelRecord) /\ ToSet(keep) = ToSet(left) \cup ToSet(right)
    BY <1>6, <1>8, BothAre
  <2> QED BY <2>1, <1>8
<1>10. /\ lo \in Nat /\ lo <= from /\ hi \in Nat /\ to <= hi /\ hi <= Len(g.text)
       /\ \A l \in ToSet(keep) : l.hi <= lo \/ l.lo >= hi
  <2>1. /\ from <= to /\ Len(g.text) \in Nat /\ (\A l \in ToSet(left) : l.hi <= from)
        /\ (\A l \in ToSet(right) : l.lo >= to)
    BY <1>4, <1>7, <1>8
  <2>2. /\ lo \in Nat /\ lo <= from /\ hi \in Nat /\ to <= hi /\ hi <= Len(g.text)
        /\ (\A l \in ToSet(left) : l.hi <= lo) /\ \A l \in ToSet(right) : l.lo >= hi
    <3> DEFINE n == Len(g.text)
    <3>1. n \in Nat /\ to <= n /\ from \in Nat /\ to \in Nat /\ from <= to
      BY <2>1, <1>7
    <3> HIDE DEF n
    <3>2. /\ LastEnd(left) \in Nat /\ LastEnd(left) <= from
          /\ FirstStart(right, n) \in Nat /\ to <= FirstStart(right, n) /\ FirstStart(right, n) <= n
          /\ (\A l \in ToSet(left) : l.hi <= LastEnd(left))
          /\ \A l \in ToSet(right) : l.lo >= FirstStart(right, n)
      BY <3>1, <2>1, <1>8, RoomIs
    <3>3. lo = LastEnd(left) /\ hi = FirstStart(right, n)
      BY <1>6 DEF n
    <3> QED BY <3>2, <3>3 DEF n
  <2> QED BY <2>2, <1>9
<1>11. /\ c \in State /\ Held(c, t) /\ c.text = s.text /\ c.threw = s.threw
       /\ DOMAIN c.segments = DOMAIN s.segments
       /\ c.segments[i].start = g.start /\ c.segments[i].text = g.text /\ c.segments[i].labels = keep
  <2>1. ToSet(keep) \subseteq ToSet(s.segments[i].labels) /\ keep \in Seq(LabelRecord)
    BY <1>3, <1>9
  <2>2. /\ c \in State /\ Held(c, t) /\ c.text = s.text /\ c.threw = s.threw
        /\ DOMAIN c.segments = DOMAIN s.segments
        /\ c.segments[i].start = s.segments[i].start /\ c.segments[i].text = s.segments[i].text
        /\ c.segments[i].labels = keep
    BY <2>1, Kept DEF c
  <2> QED BY <2>2, <1>3
<1>12. lo < hi /\ lo <= hi /\ lo < Len(g.text)
  <2> DEFINE n == Len(g.text)
  <2>1. n \in Nat /\ to <= n /\ hi <= n
    BY <1>4, <1>7, <1>10
  <2> HIDE DEF n
  <2>2. lo < hi /\ lo <= hi /\ lo < n
    BY <2>1, <1>7, <1>10
  <2> QED BY <2>2 DEF n
<1>13. g.end <= Len(t)
  <2>1. i + 1 \in 1..Len(s.segments) + 1 /\ i + 1 \in i + 1..Len(s.segments) + 1
    BY <1>2, <1>4
  <2>2. Edge(s.segments, i + 1) <= Len(t)
    BY <2>1, <1>2, EdgesAscend
  <2> QED BY <2>2, <1>4
<1> DEFINE t2 == Cut(t, a, b)
<1>14. s.text = t2 /\ t2 \in Seq(Char) /\ Len(t2) = Len(t) - (b - a)
  <2>1. a <= b /\ b <= Len(t)
    <3> DEFINE e == g.end
    <3>1. e \in Nat /\ b <= e /\ e <= Len(t) /\ Len(t) \in Nat
      BY <1>3, <1>4, <1>13
    <3> HIDE DEF e
    <3> QED BY <3>1
  <2> QED BY <2>1, CutIs
<1>15. g.start < Len(s.text) \/ (lo = 0 /\ hi = Len(g.text))
  <2> DEFINE p == g.start
             n == Len(g.text)
             e == g.end
             m == Len(t)
             z == Len(s.text)
  <2>1. /\ p \in Nat /\ n \in Nat /\ e = p + n /\ e <= m /\ m \in Nat /\ z = m - (b - a)
        /\ a = p + from /\ b = p + to /\ hi <= n /\ to <= n /\ from \in Nat /\ to \in Nat /\ from < to
    BY <1>4, <1>7, <1>10, <1>13, <1>14
  <2> HIDE DEF p, n, e, m, z
  <2>2. CASE from = 0 /\ to = n
    <3>1. lo = 0 /\ hi = n
      BY <2>1, <2>2, <1>7, <1>10
    <3> QED BY <3>1 DEF n
  <2>3. CASE ~(from = 0 /\ to = n)
    <3>1. b - a = to - from
      BY <2>1, <1>7
    <3>2. to - from < n
      BY <2>1, <2>3
    <3>3. p < z
      <4> DEFINE w == b - a
      <4>1. w < n /\ w \in Nat /\ z = m - w
        BY <2>1, <3>1, <3>2
      <4> HIDE DEF w
      <4> QED BY <2>1, <4>1
    <3> QED BY <3>3 DEF p, z
  <2> QED BY <2>2, <2>3
<1>16. /\ two \in State /\ Held(two, t) /\ two.text = c.text /\ ~two.threw
       /\ k \in DOMAIN two.segments /\ two.segments[k].start = g.start + lo
       /\ Len(two.segments[k].text) = hi - lo /\ ToSet(two.segments[k].labels) = {}
  <2>1. /\ c \in State /\ t \in Seq(Char) /\ Held(c, t) /\ lo \in Nat /\ hi \in Nat /\ ~c.threw /\ lo <= hi
        /\ i \in DOMAIN c.segments
        /\ Free(c, i, lo, hi)
    BY <1>10, <1>11, <1>12, <1>15 DEF Free
  <2> DEFINE v == splitSegment(splitSegment(c, i, hi), i, lo)
             n == IF lo > 0 THEN i + 1 ELSE i
  <2>2. /\ v \in State /\ Held(v, t) /\ v.text = c.text /\ ~v.threw
        /\ n \in DOMAIN v.segments /\ v.segments[n].start = c.segments[i].start + lo
        /\ Len(v.segments[n].text) >= hi - lo
        /\ lo < hi => Len(v.segments[n].text) = hi - lo /\ ToSet(v.segments[n].labels) = {}
    BY <2>1, Carve, Zenon
  <2> HIDE DEF v
  <2>3. v = two /\ n = k
    BY <1>6 DEF v
  <2> HIDE DEF n, k
  <2> QED BY <2>2, <2>3, <1>11, <1>12
<1> HIDE DEF k, t2
<1> DEFINE row == two.segments
           h == row[k]
           q == from - lo
           o == to - lo
           d == a - b
<1>17. /\ h \in Part /\ h.start \in Nat /\ h.text \in Seq(Char) /\ Len(h.text) \in Nat \ {0} /\ h.end = h.start + Len(h.text)
       /\ h.end \in Nat /\ Edge(row, k + 1) = h.end /\ Shows(h, t) /\ Whole(h) /\ h.labels \in Seq(LabelRecord)
       /\ Tiled(row, t) /\ Placed(row) /\ two.labelsById = LabelsOf(row, DOMAIN row)
       /\ row \in Seq(Part)
  BY <1>16, StateIs, Tile DEF Held
<1>18. h.start = g.start + lo /\ Len(h.text) = hi - lo /\ ToSet(h.labels) = {} /\ h = row[k] /\ k \in DOMAIN row
       /\ row = two.segments /\ x = Cut(h.text, q, o) /\ q = from - lo /\ o = to - lo /\ d = a - b
       /\ r = (IF x = <<>> THEN Spliced(row, k, k + 1, <<>>, d) ELSE Resized(row, k, x, d))
       /\ u = [two EXCEPT !.segments = r]
  BY <1>16
<1> HIDE DEF h, row, q, o, d, x, r, u
<1>19. /\ q \in Nat /\ o \in Nat /\ q <= o /\ o <= Len(h.text) /\ h.start + q = a /\ h.start + o = b
       /\ d \in Int /\ q - o = d
  <2> DEFINE p == g.start
             n == Len(h.text)
             e == h.start
  <2>1. p \in Nat /\ n \in Nat /\ e \in Nat /\ e = p + lo /\ n = hi - lo /\ a = p + from /\ b = p + to
        /\ q = from - lo /\ o = to - lo /\ d = a - b
    BY <1>4, <1>7, <1>17, <1>18
  <2> HIDE DEF p, n, e
  <2>2. q \in Nat /\ o \in Nat /\ q <= o
    BY <2>1, <1>7, <1>10
  <2>3. o <= n
    BY <2>1, <1>7, <1>10
  <2>4. e + q = a /\ e + o = b
    BY <2>1, <1>7, <1>10
  <2>5. d \in Int /\ q - o = d
    BY <2>1, <1>7, <1>10
  <2> QED BY <2>2, <2>3, <2>4, <2>5 DEF n, e
<1>20. h.start + Len(h.text) <= Len(t)
  <2>1. k \in 1..Len(row)
    BY <1>17, <1>18, SMTT(30)
  <2>2. k + 1 \in 1..Len(row) + 1 /\ k + 1 \in k + 1..Len(row) + 1
    BY <2>1
  <2>3. Edge(row, k + 1) <= Len(t)
    BY <2>2, <1>17, EdgesAscend
  <2> QED BY <2>3, <1>17
<1>21. \A y \in 1..Len(h.text) : h.text[y] = t[h.start + y]
  BY <1>17 DEF Shows
<1>22. /\ x \in Seq(Char) /\ Len(x) = Len(h.text) - (o - q)
       /\ (\A y \in 1..Len(x) : x[y] = t2[h.start + y])
       /\ SameBut(t, t2, h.start, h.end, d)
  <2> DEFINE hs == h.start
             ht == h.text
             z  == Cut(ht, q, o)
             w  == Cut(t, hs + q, hs + o)
  <2>1. ht \in Seq(Char) /\ hs \in Nat /\ q \in Nat /\ o \in Nat /\ q <= o /\ o <= Len(ht) /\ hs + Len(ht) <= Len(t)
        /\ Reads(ht, t, hs)
    BY <1>17, <1>19, <1>20, <1>21 DEF Reads
  <2> HIDE DEF hs, ht
  <2>2. /\ z \in Seq(Char) /\ Len(z) = Len(ht) - (o - q)
        /\ (\A y \in 1..Len(z) : z[y] = w[hs + y])
        /\ SameBut(t, w, hs, hs + Len(ht), q - o)
    <3>1. LET t3 == Cut(t, hs + q, hs + o)
              z3 == Cut(ht, q, o)
          IN  /\ t3 \in Seq(Char) /\ z3 \in Seq(Char) /\ Len(z3) = Len(ht) - (o - q)
              /\ \A y \in 1..Len(z3) : z3[y] = t3[hs + y]
              /\ SameBut(t, t3, hs, hs + Len(ht), q - o)
      BY <2>1, CutShows, Zenon
    <3> QED BY <3>1, Zenon
  <2>3. z = x /\ w = t2 /\ hs + Len(ht) = h.end
    BY <1>17, <1>18, <1>19 DEF hs, ht, t2
  <2> HIDE DEF z, w
  <2> QED BY <2>2, <2>3, <1>19 DEF hs, ht
<1>23. Tiled(r, t2) /\ Placed(r) /\ LabelsOf(r, DOMAIN r) = LabelsOf(row, DOMAIN row)
  <2>1. Len(x) = Len(h.text) + d
    <3> DEFINE n == Len(h.text)
               m == Len(x)
    <3>1. n \in Nat /\ m = n - (o - q) /\ q \in Nat /\ o \in Nat /\ q - o = d
      BY <1>17, <1>19, <1>22
    <3> HIDE DEF n, m
    <3>2. m = n + d
      BY <3>1
    <3> QED BY <3>2 DEF n, m
  <2>2. CASE x = <<>>
    <3>1. r = Spliced(row, k, k + 1, <<>>, d)
      BY <2>2, <1>18
    <3>2. h.end + d = h.start
      <4> DEFINE n == Len(h.text)
                 e == h.start
                 f == h.end
      <4>1. n \in Nat /\ e \in Nat /\ f = e + n /\ 0 = n + d /\ d \in Int
        BY <2>1, <2>2, <1>17, <1>19
      <4> HIDE DEF n, e, f
      <4>2. f + d = e
        BY <4>1
      <4> QED BY <4>2 DEF e, f
    <3>3. LET z == Spliced(row, k, k + 1, <<>>, d)
          IN  Tiled(z, t2) /\ Placed(z) /\ LabelsOf(z, DOMAIN z) = LabelsOf(row, DOMAIN row)
      <4>1. /\ Tiled(row, t) /\ Placed(row) /\ k \in DOMAIN row /\ ToSet(row[k].labels) = {}
            /\ d \in Int /\ t2 \in Seq(Char) /\ row[k].end + d = row[k].start
            /\ SameBut(t, t2, row[k].start, row[k].end, d)
        BY <3>2, <1>14, <1>17, <1>18, <1>19, <1>22
      <4> QED BY <4>1, Vanished
    <3> QED BY <3>1, <3>3
  <2>3. CASE x # <<>>
    <3>1. r = Resized(row, k, x, d)
      BY <2>3, <1>18
    <3>2. Refills(row[k], t, x, d, t2)
      BY <2>1, <2>3, <1>14, <1>18, <1>19, <1>22 DEF Refills
    <3>3. LET z == Resized(row, k, x, d)
          IN  Tiled(z, t2) /\ Placed(z) /\ LabelsOf(z, DOMAIN z) = LabelsOf(row, DOMAIN row)
      BY <3>2, <1>17, <1>18, Regrown
    <3> QED BY <3>1, <3>3
  <2> QED BY <2>2, <2>3
<1>24. u.text = t2 /\ u.segments = r /\ u.labelsById = two.labelsById /\ u \in State
  <2>1. r \in Seq(Part)
    BY <1>23 DEF Tiled
  <2> QED BY <2>1, <1>11, <1>14, <1>16, <1>18 DEF State
<1>25. u \in State /\ Held(u, u.text) /\ u.text = s.text /\ ~u.threw
  <2>1. u.threw = two.threw
    BY <1>16, <1>18 DEF State
  <2> QED BY <2>1, <1>14, <1>16, <1>17, <1>23, <1>24 DEF Held
<1> DEFINE B == SeenIn(row, 1..k - 1)
           M == AllMoved(ToSet(h.labels), h.start)
           A == SeenIn(row, k + 1..Len(row))
<1>26. Seen(c) = {y \in Seen(s) : y.hi <= a \/ y.lo >= b}
  <2>1. /\ ToSet(keep) = {l \in ToSet(s.segments[i].labels) : l.hi <= from \/ l.lo >= to}
        /\ to <= Len(s.segments[i].text) /\ from <= to
    BY <1>3, <1>7, <1>8, <1>9
  <2>2. LET z == s.segments[i].start
        IN  Seen(Keep(s, i, keep)) = {y \in Seen(s) : y.hi <= z + from \/ y.lo >= z + to}
    BY <2>1, <1>7, KeptSeen
  <2> QED BY <2>2, <1>3, <1>6, <1>7
<1>27. Seen(two) = B \cup M \cup A /\ Seen(two) = Seen(c) /\ M = {}
  <2>1. SeenIn(row, DOMAIN row) = B \cup M \cup A
    BY <1>17, <1>18, SeenAround
  <2>2. Seen(two) = Seen(c)
    <3>1. c \in State /\ Held(c, t) /\ i \in DOMAIN c.segments /\ lo \in Nat /\ hi \in Nat
      BY <1>10, <1>11
    <3>2. Seen(splitSegment(splitSegment(c, i, hi), i, lo)) = Seen(c)
      BY <3>1, CarveSeen
    <3> QED BY <3>2, <1>6
  <2>3. M = {}
    BY <1>18 DEF AllMoved
  <2> QED BY <2>1, <2>2, <2>3, <1>18 DEF Seen
<1>28. Seen(u) = B \cup AllMoved(A, d)
  <2>1. CASE x = <<>>
    <3>1. k \in 1..Len(row) + 1 /\ k + 1 \in k..Len(row) + 1
      BY <1>17, <1>18, SeenAround
    <3> DEFINE new == <<>>
    <3>2. new \in Seq(Part) /\ SeenIn(new, DOMAIN new) = {}
      BY DEF SeenIn
    <3>3. r = Spliced(row, k, k + 1, new, d)
      BY <2>1, <1>18
    <3> HIDE DEF new
    <3>4. LET z == Spliced(row, k, k + 1, new, d)
          IN  SeenIn(z, DOMAIN z) =
                SeenIn(row, 1..k - 1) \cup SeenIn(new, DOMAIN new) \cup AllMoved(SeenIn(row, k + 1..Len(row)), d)
      <4> DEFINE j == k + 1
      <4>1. /\ t \in Seq(Char) /\ Tiled(row, t) /\ new \in Seq(Part) /\ d \in Int
            /\ k \in 1..Len(row) + 1 /\ j \in k..Len(row) + 1
        BY <3>1, <3>2, <1>17, <1>19
      <4> HIDE DEF j
      <4>2. LET z == Spliced(row, k, j, new, d)
            IN  SeenIn(z, DOMAIN z) =
                  SeenIn(row, 1..k - 1) \cup SeenIn(new, DOMAIN new) \cup AllMoved(SeenIn(row, j..Len(row)), d)
        BY <4>1, SeenSpliced
      <4> QED BY <4>2 DEF j
    <3> QED BY <3>2, <3>3, <3>4, <1>24 DEF Seen
  <2>2. CASE x # <<>>
    <3>1. r = Resized(row, k, x, d)
      BY <2>2, <1>18
    <3>2. row[k].end + d \in Nat /\ x \in Seq(Char) /\ d \in Int /\ k \in DOMAIN row /\ row[k] = h
      <4> DEFINE n == Len(h.text)
                 e == h.start
                 f == h.end
      <4>1. n \in Nat /\ e \in Nat /\ f = e + n /\ q \in Nat /\ o \in Nat /\ q - o = d /\ o <= n
        BY <1>17, <1>19
      <4> HIDE DEF n, e, f
      <4>2. f + d \in Nat
        BY <4>1
      <4> QED BY <4>2, <1>18, <1>19, <1>22 DEF f
    <3>3. LET z == Resized(row, k, x, d)
          IN  SeenIn(z, DOMAIN z) =
                SeenIn(row, 1..k - 1) \cup AllMoved(ToSet(row[k].labels), row[k].start)
                  \cup AllMoved(SeenIn(row, k + 1..Len(row)), d)
      <4>1. /\ t \in Seq(Char) /\ Tiled(row, t) /\ k \in DOMAIN row /\ x \in Seq(Char) /\ d \in Int
            /\ row[k].end + d \in Nat
        BY <3>2, <1>17
      <4> QED BY <4>1, RegrownSeen, Zenon
    <3> QED BY <3>1, <3>2, <3>3, <1>24, <1>27 DEF Seen
  <2> QED BY <2>1, <2>2
<1>29. (\A y \in B : y.hi <= h.start) /\ \A y \in A : y.lo >= h.end
  BY <1>17, <1>18, SeenSides
<1>30. \A y \in Seen(s) : y.lo \in Nat /\ y.hi \in Nat /\ y.lo < y.hi
  BY <1>2, SeenAll DEF Seen
<1> HIDE DEF B, M, A
<1>31. B \subseteq Seen(s) /\ A \subseteq Seen(s)
  BY <1>26, <1>27
<1>32. h.start <= a /\ h.end >= b
  <2> DEFINE n == Len(h.text)
             e == h.start
             f == h.end
  <2>1. n \in Nat /\ e \in Nat /\ f = e + n /\ q \in Nat /\ o \in Nat /\ o <= n /\ e + q = a /\ e + o = b
    BY <1>17, <1>19
  <2> HIDE DEF n, e, f
  <2>2. e <= a /\ f >= b
    BY <2>1
  <2> QED BY <2>2 DEF e, f
<1>33. (\A y \in B : y.hi <= a) /\ \A y \in A : y.lo >= b
  BY <1>17, <1>29, <1>30, <1>31, <1>32
<1>34. Dropped(Seen(s), Seen(u), a, b)
  <2> DEFINE S == Seen(s)
  <2>1. /\ \A y \in S : y.lo \in Nat /\ y.hi \in Nat /\ y.lo < y.hi
        /\ {y \in S : y.hi <= a \/ y.lo >= b} = B \cup A /\ a <= b
    BY <1>26, <1>27, <1>30
  <2> HIDE DEF S
  <2>2. Dropped(S, B \cup AllMoved(A, a - b), a, b)
    BY <2>1, <1>33, DroppedFrom
  <2> QED BY <2>2, <1>18, <1>28 DEF S
<1> QED BY <1>1, <1>25, <1>34

Lies(g, t, a, b) == g \in Part /\ Whole(g) /\ Shows(g, t) /\ g.start = a /\ g.end = b

\* What is left of the stretch from e0 to e1 when it is deleted but for a head P and a tail Q.
Remain(P, Q, t, e0, e1, a, L, R) ==
  /\ e0 # a => Lies(P, t, e0, a)
  /\ e1 # a => Lies(Q, t, a, e1)
  /\ (IF e0 = a THEN {} ELSE ToSet(P.labels)) = L
  /\ (IF e1 = a THEN {} ELSE ToSet(Q.labels)) = R
  /\ \A l, o \in L : l.id = o.id => l = o
  /\ \A l, o \in R : l.id = o.id => l = o
  /\ \A l \in L, o \in R : l.id # o.id

Rest(P, Q, e0, e1, a) == (IF e0 = a THEN <<>> ELSE <<P>>) \o (IF e1 = a THEN <<>> ELSE <<Q>>)

LEMMA Remains ==
  ASSUME NEW P, NEW Q, NEW t, NEW e0, NEW e1, NEW a, NEW L, NEW R,
         Remain(P, Q, t, e0, e1, a, L, R)
  PROVE  LET kept == Rest(P, Q, e0, e1, a)
         IN  /\ kept \in Seq(Part) /\ Fits(kept, t, e0, e1) /\ Placed(kept)
             /\ LabelsOf(kept, DOMAIN kept) = L \cup R
<1> DEFINE kept == Rest(P, Q, e0, e1, a)
<1> SUFFICES /\ kept \in Seq(Part) /\ Fits(kept, t, e0, e1) /\ Placed(kept)
             /\ LabelsOf(kept, DOMAIN kept) = L \cup R
  OBVIOUS
<1>0. /\ e0 # a => Lies(P, t, e0, a)
      /\ e1 # a => Lies(Q, t, a, e1)
      /\ (IF e0 = a THEN {} ELSE ToSet(P.labels)) = L
      /\ (IF e1 = a THEN {} ELSE ToSet(Q.labels)) = R
      /\ \A l, o \in L : l.id = o.id => l = o
      /\ \A l, o \in R : l.id = o.id => l = o
      /\ \A l \in L, o \in R : l.id # o.id
  BY DEF Remain
<1>1. CASE e0 = a /\ e1 = a
  <2>1. kept = <<>>
    BY <1>1 DEF Rest
  <2>2. L = {} /\ R = {} /\ e0 = e1
    BY <1>0, <1>1
  <2> HIDE DEF kept
  <2>3. kept \in Seq(Part) /\ DOMAIN kept = {}
    BY <2>1
  <2> QED BY <2>1, <2>2, <2>3 DEF Fits, Placed, LabelsOf
<1>2. CASE e0 # a /\ e1 = a
  <2>1. kept = <<P>>
    BY <1>2 DEF Rest
  <2>2. P \in Part /\ Whole(P) /\ Shows(P, t) /\ P.start = e0 /\ P.end = e1 /\ L = ToSet(P.labels) /\ R = {}
    BY <1>0, <1>2 DEF Lies
  <2> HIDE DEF kept
  <2>3. kept \in Seq(Part) /\ Len(kept) = 1 /\ DOMAIN kept = 1..1 /\ kept[1] = P /\ kept # <<>>
        /\ LabelsOf(kept, DOMAIN kept) = ToSet(P.labels)
    BY <2>1, <2>2, SingleIs
  <2>4. \A m \in DOMAIN kept : m = 1
    BY <2>3
  <2>5. Fits(kept, t, e0, e1)
    BY <2>2, <2>3, <2>4 DEF Fits
  <2>6. Placed(kept)
    BY <1>0, <2>2, <2>3, <2>4 DEF Placed
  <2> QED BY <2>2, <2>3, <2>5, <2>6
<1>3. CASE e0 = a /\ e1 # a
  <2>1. kept = <<Q>>
    BY <1>3 DEF Rest
  <2>2. Q \in Part /\ Whole(Q) /\ Shows(Q, t) /\ Q.start = e0 /\ Q.end = e1 /\ R = ToSet(Q.labels) /\ L = {}
    BY <1>0, <1>3 DEF Lies
  <2> HIDE DEF kept
  <2>3. kept \in Seq(Part) /\ Len(kept) = 1 /\ DOMAIN kept = 1..1 /\ kept[1] = Q /\ kept # <<>>
        /\ LabelsOf(kept, DOMAIN kept) = ToSet(Q.labels)
    BY <2>1, <2>2, SingleIs
  <2>4. \A m \in DOMAIN kept : m = 1
    BY <2>3
  <2>5. Fits(kept, t, e0, e1)
    BY <2>2, <2>3, <2>4 DEF Fits
  <2>6. Placed(kept)
    BY <1>0, <2>2, <2>3, <2>4 DEF Placed
  <2> QED BY <2>2, <2>3, <2>5, <2>6
<1>4. CASE e0 # a /\ e1 # a
  <2>1. kept = <<P>> \o <<Q>>
    BY <1>4 DEF Rest
  <2>2. /\ P \in Part /\ Whole(P) /\ Shows(P, t) /\ P.start = e0 /\ P.end = a /\ L = ToSet(P.labels)
        /\ Q \in Part /\ Whole(Q) /\ Shows(Q, t) /\ Q.start = a /\ Q.end = e1 /\ R = ToSet(Q.labels)
    BY <1>0, <1>4 DEF Lies
  <2> HIDE DEF kept
  <2>3. /\ kept \in Seq(Part) /\ Len(kept) = 2 /\ DOMAIN kept = 1..2
        /\ kept[1] = P /\ kept[2] = Q /\ kept # <<>>
        /\ LabelsOf(kept, DOMAIN kept) = ToSet(P.labels) \cup ToSet(Q.labels)
    <3> DEFINE x == <<P>>
               y == <<Q>>
    <3>1. x \in Seq(Part) /\ y \in Seq(Part) /\ Len(x) = 1 /\ Len(y) = 1 /\ x[1] = P /\ y[1] = Q
      BY <2>2
    <3>2. kept = x \o y
      BY <2>1
    <3> HIDE DEF x, y
    <3>3. /\ kept \in Seq(Part) /\ Len(kept) = Len(x) + Len(y)
          /\ (\A k \in 1..Len(x) : kept[k] = x[k]) /\ \A k \in 1..Len(y) : kept[Len(x) + k] = y[k]
      BY <3>1, <3>2, ConcatParts
    <3>4. Len(kept) = 2 /\ DOMAIN kept = 1..2 /\ kept[1] = P /\ kept[2] = Q /\ kept # <<>>
      BY <3>1, <3>3
    <3>5. DOMAIN kept = {1, 2}
      BY <3>4
    <3>6. LabelsOf(kept, DOMAIN kept) = ToSet(P.labels) \cup ToSet(Q.labels)
      BY <3>4, <3>5 DEF LabelsOf
    <3> QED BY <3>3, <3>4, <3>6
  <2>4. \A m \in DOMAIN kept : m = 1 \/ m = 2
    BY <2>3
  <2>5. Fits(kept, t, e0, e1)
    <3>1. \A m \in DOMAIN kept : /\ Whole(kept[m]) /\ Shows(kept[m], t)
                                 /\ kept[m].start = IF m = 1 THEN e0 ELSE kept[m - 1].end
      BY <2>2, <2>3, <2>4
    <3> QED BY <3>1, <2>2, <2>3 DEF Fits
  <2>6. Placed(kept)
    BY <1>0, <2>2, <2>3, <2>4 DEF Placed
  <2> QED BY <2>2, <2>3, <2>5, <2>6
<1> QED BY <1>1, <1>2, <1>3, <1>4

LEMMA ShiftedIs ==
  ASSUME NEW g \in Part, NEW d \in Int, g.start + d \in Nat, g.end + d \in Nat, Whole(g)
  PROVE  /\ Shifted(g, d) \in Part /\ Shifted(g, d).start = g.start + d /\ Shifted(g, d).end = g.end + d
         /\ Shifted(g, d).text = g.text /\ Shifted(g, d).labels = g.labels /\ Whole(Shifted(g, d))
<1> DEFINE h == Shifted(g, d)
<1>1. /\ h \in Part /\ h.start = g.start + d /\ h.end = g.end + d /\ h.text = g.text /\ h.labels = g.labels
  BY DEF Shifted, Part
<1>2. g.start \in Nat /\ Len(g.text) \in Nat /\ g.end = g.start + Len(g.text) /\ g.text # <<>>
  BY DEF Part, Whole
<1> HIDE DEF h
<1>3. h.end = h.start + Len(h.text)
  <2> DEFINE a == g.start
             n == Len(g.text)
             e == g.end
  <2>1. a \in Nat /\ n \in Nat /\ e = a + n
    BY <1>2
  <2> HIDE DEF a, n, e
  <2>2. e + d = (a + d) + n
    BY <2>1
  <2> QED BY <2>2, <1>1 DEF a, n, e
<1>4. Whole(h)
  BY <1>1, <1>2, <1>3 DEF Whole
<1> QED BY <1>1, <1>4 DEF h

LEMMA IdsWithin ==
  ASSUME NEW row \in Seq(Part), NEW D \in SUBSET DOMAIN row
  PROVE  UNION {IdsOf(row[k].labels) : k \in D} = {l.id : l \in LabelsOf(row, D)}
<1> DEFINE X == UNION {IdsOf(row[k].labels) : k \in D}
           Y == {l.id : l \in LabelsOf(row, D)}
<1>1. ASSUME NEW k \in D PROVE IdsOf(row[k].labels) = {l.id : l \in ToSet(row[k].labels)}
  <2>1. row[k] \in Part
    OBVIOUS
  <2>2. row[k].labels \in Seq(LabelRecord)
    BY <2>1 DEF Part
  <2> QED BY <2>2, IdsAre
<1>2. ASSUME NEW x \in X PROVE x \in Y
  <2>1. PICK k \in D : x \in IdsOf(row[k].labels)
    OBVIOUS
  <2>2. PICK l \in ToSet(row[k].labels) : x = l.id
    BY <1>1, <2>1
  <2>3. l \in LabelsOf(row, D)
    BY <2>2 DEF LabelsOf
  <2> QED BY <2>2, <2>3
<1>3. ASSUME NEW x \in Y PROVE x \in X
  <2>1. PICK l \in LabelsOf(row, D) : x = l.id
    OBVIOUS
  <2>2. PICK k \in D : l \in ToSet(row[k].labels)
    BY <2>1 DEF LabelsOf
  <2>3. x \in IdsOf(row[k].labels)
    BY <1>1, <2>1, <2>2
  <2> QED BY <2>3
<1> HIDE DEF X, Y
<1>4. X = Y
  BY <1>2, <1>3
<1> QED BY <1>4 DEF X, Y

\* The labels of a segment that end before an offset, or start behind it.
EndBy(S, p) == {l \in S : l.hi <= p}
StartFrom(S, p) == {l \in S : l.lo >= p}

LEMMA SidesSeen ==
  ASSUME NEW row, NEW t, Tiled(row, t), NEW k \in DOMAIN row, NEW pos \in Nat
  PROVE  LET n == row[k].start
             G == ToSet(row[k].labels)
         IN  /\ AllMoved(EndBy(G, pos), n) = EndBy(AllMoved(G, n), n + pos)
             /\ AllMoved(StartFrom(G, pos), n) = StartFrom(AllMoved(G, n), n + pos)
<1> DEFINE n == row[k].start
           G == ToSet(row[k].labels)
<1>1. n \in Nat
  BY Tile
<1>2. \A l \in G : By(l, n).lo = n + l.lo /\ By(l, n).hi = n + l.hi /\ l.lo \in Nat /\ l.hi \in Nat
  <2>1. \A l \in G : By(l, n).lo = n + l.lo /\ By(l, n).hi = n + l.hi /\ l \in LabelRecord
    BY SeenAt
  <2> QED BY <2>1 DEF LabelRecord
<1> HIDE DEF n, G
<1>3. \A l \in G : (By(l, n).hi <= n + pos <=> l.hi <= pos) /\ (By(l, n).lo >= n + pos <=> l.lo >= pos)
  BY <1>1, <1>2
<1>4. AllMoved(EndBy(G, pos), n) = EndBy(AllMoved(G, n), n + pos)
  BY <1>3 DEF AllMoved, EndBy
<1>5. AllMoved(StartFrom(G, pos), n) = StartFrom(AllMoved(G, n), n + pos)
  BY <1>3 DEF AllMoved, StartFrom
<1> QED BY <1>4, <1>5 DEF n, G

LEMMA RestSeen ==
  ASSUME NEW P, NEW Q, NEW e0, NEW e1, NEW a, e0 # a => P \in Part, e1 # a => Q \in Part
  PROVE  LET kept == Rest(P, Q, e0, e1, a)
         IN  SeenIn(kept, DOMAIN kept) =
               (IF e0 = a THEN {} ELSE AllMoved(ToSet(P.labels), P.start))
                 \cup (IF e1 = a THEN {} ELSE AllMoved(ToSet(Q.labels), Q.start))
<1> DEFINE kept == Rest(P, Q, e0, e1, a)
           X == AllMoved(ToSet(P.labels), P.start)
           Y == AllMoved(ToSet(Q.labels), Q.start)
<1>1. CASE e0 = a /\ e1 = a
  <2>1. kept = <<>>
    BY <1>1 DEF Rest
  <2>2. SeenIn(kept, DOMAIN kept) = {}
    BY <2>1 DEF SeenIn
  <2> QED BY <2>2, <1>1
<1>2. CASE e0 # a /\ e1 = a
  <2>1. kept = <<P>>
    BY <1>2 DEF Rest
  <2>2. SeenIn(kept, DOMAIN kept) = X
    BY <2>1, <1>2, SeenSingle
  <2> QED BY <2>2, <1>2
<1>3. CASE e0 = a /\ e1 # a
  <2>1. kept = <<Q>>
    BY <1>3 DEF Rest
  <2>2. SeenIn(kept, DOMAIN kept) = Y
    BY <2>1, <1>3, SeenSingle
  <2> QED BY <2>2, <1>3
<1>4. CASE e0 # a /\ e1 # a
  <2>1. kept = <<P, Q>>
    <3>1. kept = <<P>> \o <<Q>>
      BY <1>4 DEF Rest
    <3>2. P \in Part /\ Q \in Part
      BY <1>4
    <3> DEFINE x == <<P>>
               y == <<Q>>
               z == <<P, Q>>
    <3>3. /\ x \in Seq(Part) /\ y \in Seq(Part) /\ z \in Seq(Part) /\ Len(x) = 1 /\ Len(y) = 1 /\ Len(z) = 2
          /\ x[1] = P /\ y[1] = Q /\ z[1] = P /\ z[2] = Q
      BY <3>2
    <3> HIDE DEF x, y, z
    <3>4. /\ x \o y \in Seq(Part) /\ Len(x \o y) = 2
          /\ (x \o y)[1] = P /\ (x \o y)[2] = Q
      BY <3>3
    <3>5. x \o y = z
      BY <3>3, <3>4
    <3> QED BY <3>1, <3>5 DEF x, y, z
  <2>2. SeenIn(kept, DOMAIN kept) = X \cup Y
    BY <2>1, <1>4, SeenPair
  <2> QED BY <2>2, <1>4
<1> QED BY <1>1, <1>2, <1>3, <1>4

LEMMA DeleteAcross ==
  ASSUME NEW s \in State, NEW t \in Seq(Char), Held(s, t), NEW a \in Nat, NEW b \in Nat, a < b, b <= Len(t),
         NEW i \in DOMAIN s.segments, NEW j \in i + 2..Len(s.segments) + 1,
         s.segments[i].start <= a, a < s.segments[i].end,
         s.segments[j - 1].start < b, b <= s.segments[j - 1].end, s.text = Cut(t, a, b)
  PROVE  LET u == DeletedAcross(s, i, j, a, b)
         IN  /\ u \in State /\ Held(u, u.text) /\ u.text = s.text /\ u.threw = s.threw
             /\ Dropped(Seen(s), Seen(u), a, b)
<1> DEFINE row  == s.segments
           m    == j - 1
           g    == row[i]
           h    == row[m]
           from == a - g.start
           off  == b - h.start
           d    == a - b
           tail == RightPart(h, off)
           P    == LeftPart(g, from)
           Q    == Shifted(tail, d)
           kept == (IF a = g.start THEN <<>> ELSE <<P>>) \o (IF b = h.end THEN <<>> ELSE <<Q>>)
           gone == (UNION {IdsOf(row[k].labels) : k \in i..j - 1}) \ (UNION {IdsOf(kept[k].labels) : k \in DOMAIN kept})
           r    == Spliced(row, i, j, kept, d)
           ix   == Reset(Without(s.labelsById, gone), tail.labels)
           u    == [s EXCEPT !.labelsById = ix, !.segments = r]
<1>1. DeletedAcross(s, i, j, a, b) = u
  BY DEF DeletedAcross
<1>2. /\ row \in Seq(Part) /\ Tiled(row, t) /\ Placed(row) /\ s.labelsById = LabelsOf(row, DOMAIN row)
      /\ s.labelsById \in SUBSET LabelRecord
  BY StateIs DEF Held
<1>3. /\ i \in DOMAIN row /\ g.start <= a /\ a < g.end /\ h.start < b /\ b <= h.end
      /\ row = s.segments /\ m = j - 1 /\ g = row[i] /\ h = row[m] /\ j \in i + 2..Len(row) + 1
  OBVIOUS
<1>4. from = a - g.start /\ off = b - h.start /\ d = a - b /\ tail = RightPart(h, off) /\ P = LeftPart(g, from)
      /\ Q = Shifted(tail, d)
      /\ kept = (IF a = g.start THEN <<>> ELSE <<P>>) \o (IF b = h.end THEN <<>> ELSE <<Q>>)
  OBVIOUS
<1>5. /\ r = Spliced(row, i, j, kept, d) /\ ix = Reset(Without(s.labelsById, gone), tail.labels)
      /\ u = [s EXCEPT !.labelsById = ix, !.segments = r]
  OBVIOUS
<1>30. gone = (UNION {IdsOf(row[k].labels) : k \in i..j - 1}) \ (UNION {IdsOf(kept[k].labels) : k \in DOMAIN kept})
  OBVIOUS
<1> HIDE DEF row, m, g, h, from, off, d, tail, P, Q, kept, gone, r, ix, u
<1>6. /\ i \in 1..Len(row) /\ m \in 1..Len(row) /\ i < m /\ j = m + 1 /\ i \in 1..Len(row) + 1 /\ j \in i..Len(row) + 1
      /\ i \in Nat /\ j \in Nat
  BY <1>2, <1>3
<1>7. /\ g \in Part /\ g.start \in Nat /\ g.end \in Nat /\ Len(g.text) \in Nat \ {0} /\ Whole(g) /\ Shows(g, t)
      /\ g.labels \in Seq(LabelRecord) /\ g.end = g.start + Len(g.text) /\ Edge(row, i) = g.start
  BY <1>2, <1>3, Tile
<1>8. /\ h \in Part /\ h.start \in Nat /\ h.end \in Nat /\ Len(h.text) \in Nat \ {0} /\ Whole(h) /\ Shows(h, t)
      /\ h.labels \in Seq(LabelRecord) /\ h.end = h.start + Len(h.text) /\ Edge(row, j) = h.end
  <2>1. m \in DOMAIN row
    BY <1>2, <1>6
  <2> QED BY <2>1, <1>2, <1>3, <1>6, Tile
<1>9. from \in Nat /\ from < Len(g.text) /\ a = g.start + from /\ (a = g.start <=> from = 0)
  <2> DEFINE p == g.start
             n == Len(g.text)
             e == g.end
  <2>1. p \in Nat /\ n \in Nat /\ e = p + n /\ p <= a /\ a < e /\ from = a - p
    BY <1>3, <1>4, <1>7
  <2> HIDE DEF p, n, e
  <2>2. from \in Nat /\ from < n /\ a = p + from /\ (a = p <=> from = 0)
    BY <2>1
  <2> QED BY <2>2 DEF p, n
<1>10. off \in Nat /\ 0 < off /\ off <= Len(h.text) /\ b = h.start + off /\ (b = h.end <=> off = Len(h.text))
  <2> DEFINE p == h.start
             n == Len(h.text)
             e == h.end
  <2>1. p \in Nat /\ n \in Nat /\ e = p + n /\ p < b /\ b <= e /\ off = b - p
    BY <1>3, <1>4, <1>8
  <2> HIDE DEF p, n, e
  <2>2. off \in Nat /\ 0 < off /\ off <= n /\ b = p + off /\ (b = e <=> off = n)
    BY <2>1
  <2> QED BY <2>2 DEF p, n, e
<1> DEFINE t2 == Cut(t, a, b)
<1>11. /\ s.text = t2 /\ t2 \in Seq(Char) /\ Len(t2) = Len(t) - (b - a)
       /\ (\A x \in 1..a : t2[x] = t[x]) /\ \A x \in 1..Len(t) - b : t2[a + x] = t[b + x]
  <2>1. a <= b
    OBVIOUS
  <2> QED BY <2>1, CutIs
<1> HIDE DEF t2
<1>12. SameBut(t, t2, Edge(row, i), Edge(row, j), d)
  <2> DEFINE e0 == Edge(row, i)
             e1 == Edge(row, j)
             n  == Len(t)
  <2>1. e0 \in Nat /\ e1 \in Nat /\ e0 <= a /\ b <= e1 /\ n \in Nat /\ d = a - b
    <3>1. e0 \in Nat /\ e0 <= a
      BY <1>3, <1>7
    <3>2. e1 \in Nat /\ b <= e1
      BY <1>3, <1>8
    <3>3. n \in Nat /\ d = a - b
      BY <1>4
    <3> QED BY <3>1, <3>2, <3>3
  <2>2. Len(t2) = n - (b - a) /\ (\A x \in 1..a : t2[x] = t[x]) /\ \A x \in 1..n - b : t2[a + x] = t[b + x]
    BY <1>11
  <2> HIDE DEF e0, e1
  <2>3. Len(t2) = Len(t) + d
    <3> HIDE DEF n
    <3>1. Len(t2) = n + d
      BY <2>1, <2>2
    <3> QED BY <3>1 DEF n
  <2>4. ASSUME NEW x \in 1..e0 PROVE t2[x] = t[x]
    <3>1. x \in 1..a
      BY <2>1
    <3> QED BY <3>1, <2>2
  <2>5. ASSUME NEW x \in e1 + 1..Len(t) PROVE t2[x + d] = t[x]
    <3> HIDE DEF n
    <3>1. x \in Nat /\ e1 < x /\ x <= n
      BY <2>1 DEF n
    <3>2. x - b \in 1..n - b
      BY <2>1, <3>1
    <3>3. a + (x - b) = x + d /\ b + (x - b) = x
      BY <2>1, <3>1
    <3> QED BY <3>2, <3>3, <2>2
  <2>6. SameBut(t, t2, e0, e1, d)
    BY <2>3, <2>4, <2>5 DEF SameBut
  <2> QED BY <2>6 DEF e0, e1
<1>13. from # 0 => /\ P \in Part /\ Whole(P) /\ Shows(P, t2) /\ P.start = Edge(row, i) /\ P.end = a
                   /\ ToSet(P.labels) = {l \in ToSet(g.labels) : l.hi <= from}
  <2> SUFFICES ASSUME from # 0
               PROVE  /\ P \in Part /\ Whole(P) /\ Shows(P, t2) /\ P.start = Edge(row, i) /\ P.end = a
                      /\ ToSet(P.labels) = {l \in ToSet(g.labels) : l.hi <= from}
    OBVIOUS
  <2>1. 0 < from /\ from <= Len(g.text)
    <3> DEFINE z == Len(g.text)
    <3>1. from \in Nat /\ z \in Nat /\ from < z
      BY <1>7, <1>9
    <3> HIDE DEF z
    <3>2. 0 < from /\ from <= z
      BY <3>1
    <3> QED BY <3>2 DEF z
  <2>2. /\ P \in Part /\ P.start = g.start /\ P.end = g.start + from /\ Len(P.text) = from
        /\ (\A x \in 1..from : P.text[x] = g.text[x])
        /\ ToSet(P.labels) = {l \in ToSet(g.labels) : l.hi <= from}
        /\ Whole(P)
    BY <2>1, <1>4, <1>7, <1>9, LeftPartIs
  <2>3. ASSUME NEW x \in 1..from PROVE P.text[x] = t2[P.start + x]
    <3>1. x \in 1..Len(g.text)
      BY <1>7, <1>9
    <3>2. g.start + x \in 1..a
      <4> DEFINE p == g.start
      <4>1. p \in Nat /\ a = p + from /\ from \in Nat
        BY <1>7, <1>9
      <4> HIDE DEF p
      <4>2. p + x \in 1..a
        BY <4>1
      <4> QED BY <4>2 DEF p
    <3>3. g.text[x] = t[g.start + x]
      BY <3>1, <1>7 DEF Shows
    <3> QED BY <3>2, <3>3, <2>2, <1>11
  <2>4. Shows(P, t2)
    BY <2>2, <2>3 DEF Shows
  <2> QED BY <2>2, <2>4, <1>7, <1>9
<1>14. /\ tail.labels \in Seq(LabelRecord)
       /\ ToSet(tail.labels) = {By(l, 0 - off) : l \in {x \in ToSet(h.labels) : x.lo >= off}}
  <2> DEFINE ls == RightOf(h.labels, off)
  <2>1. ls \in Seq(LabelRecord) /\ ToSet(ls) = {l \in ToSet(h.labels) : l.lo >= off}
    <3>1. off \in Int /\ h.labels \in Seq(LabelRecord)
      BY <1>8, <1>10
    <3> QED BY <3>1, RightAre
  <2>2. tail.labels = AllBy(ls, 0 - off)
    BY <1>4 DEF RightPart, Segment
  <2> HIDE DEF ls
  <2>3. \A l \in ToSet(ls) : l.lo + (0 - off) \in Nat /\ l.hi + (0 - off) \in Nat
    <3> SUFFICES ASSUME NEW l \in ToSet(ls) PROVE l.lo + (0 - off) \in Nat /\ l.hi + (0 - off) \in Nat
      OBVIOUS
    <3>1. l \in ToSet(h.labels) /\ l.lo >= off
      BY <2>1
    <3>2. l.lo \in Nat /\ l.hi \in Nat /\ l.lo < l.hi
      BY <3>1, <1>8, MembersAre DEF Whole
    <3> QED BY <3>1, <3>2, <1>10, SMTT(30)
  <2>4. 0 - off \in Int
    BY <1>10
  <2> QED BY <2>1, <2>2, <2>3, <2>4, AllByAre
<1>15. b # h.end => /\ Q \in Part /\ Whole(Q) /\ Shows(Q, t2) /\ Q.start = a /\ Q.end = Edge(row, j) + d
                    /\ ToSet(Q.labels) = ToSet(tail.labels)
  <2> SUFFICES ASSUME b # h.end
               PROVE  /\ Q \in Part /\ Whole(Q) /\ Shows(Q, t2) /\ Q.start = a /\ Q.end = Edge(row, j) + d
                      /\ ToSet(Q.labels) = ToSet(tail.labels)
    OBVIOUS
  <2> DEFINE p == h.start
             n == Len(h.text)
             e == h.end
  <2>1. p \in Nat /\ n \in Nat /\ e = p + n /\ b = p + off /\ off < n /\ d = a - b /\ e <= Len(t) /\ Len(t) \in Nat
    <3>1. Edge(row, j) <= Len(t)
      BY <1>2, <1>6, EdgesAscend
    <3>2. off < n
      <4> HIDE DEF e
      <4>1. n \in Nat /\ off <= n /\ off # n
        BY <1>8, <1>10 DEF e
      <4> HIDE DEF n
      <4> QED BY <4>1, <1>10
    <3>3. p \in Nat /\ n \in Nat /\ e = p + n /\ e <= Len(t)
      BY <3>1, <1>8
    <3>4. b = p + off /\ d = a - b /\ Len(t) \in Nat
      BY <1>4, <1>10
    <3> HIDE DEF p, n, e
    <3> QED BY <3>2, <3>3, <3>4
  <2>2. /\ tail \in Part /\ tail.start = p + off /\ tail.end = e /\ Len(tail.text) = n - off
        /\ (\A x \in 1..n - off : tail.text[x] = h.text[off + x])
        /\ Whole(tail)
    <3>1. h \in Part /\ Whole(h) /\ off \in Nat /\ off < Len(h.text)
      BY <2>1, <1>8, <1>10
    <3> QED BY <3>1, <1>4, RightPartIs
  <2>3. \A x \in 1..n : h.text[x] = t[p + x]
    BY <1>8 DEF Shows
  <2>4. p = h.start /\ e = h.end /\ e = Edge(row, j)
    BY <1>8
  <2> HIDE DEF p, n, e
  <2>5. tail.start + d = a /\ tail.end + d \in Nat /\ tail.start + d \in Nat /\ d \in Int
    <3>1. (p + off) + d = a /\ e + d \in Nat /\ d \in Int
      BY <2>1, <1>10
    <3> QED BY <3>1, <2>2
  <2>6. /\ Q \in Part /\ Q.start = tail.start + d /\ Q.end = tail.end + d
        /\ Q.text = tail.text /\ Q.labels = tail.labels /\ Whole(Q)
    BY <2>2, <2>5, <1>4, ShiftedIs
  <2>7. ASSUME NEW x \in 1..n - off PROVE Q.text[x] = t2[a + x]
    <3>1. off + x \in 1..n /\ x \in 1..Len(t) - b /\ p + (off + x) = b + x
      <4>1. off + x \in 1..n
        BY <2>1, <1>10
      <4>2. x \in 1..Len(t) - b
        BY <2>1, <1>10
      <4>3. p + (off + x) = b + x
        BY <2>1, <1>10
      <4> QED BY <4>1, <4>2, <4>3
    <3>2. t2[a + x] = t[b + x]
      BY <3>1, <1>11
    <3>3. h.text[off + x] = t[b + x]
      BY <3>1, <2>3
    <3> QED BY <3>2, <3>3, <2>2, <2>6
  <2>8. Shows(Q, t2)
    BY <2>2, <2>5, <2>6, <2>7 DEF Shows
  <2> QED BY <2>2, <2>4, <2>5, <2>6, <2>8
<1> DEFINE K == LabelsOf(row, i..j - 1)
           L == IF a = g.start THEN {} ELSE ToSet(P.labels)
           R == ToSet(tail.labels)
<1>16. i..j - 1 \in SUBSET DOMAIN row /\ i \in i..j - 1 /\ m \in i..j - 1 /\ i # m
  BY <1>2, <1>6
<1>17. L \in SUBSET LabelRecord /\ L \subseteq ToSet(g.labels)
  <2>1. L \subseteq ToSet(g.labels)
    BY <1>9, <1>13
  <2> QED BY <2>1, <1>7, MembersAre
<1>18. b = h.end => R = {}
  <2> SUFFICES ASSUME b = h.end PROVE R = {}
    OBVIOUS
  <2>1. off = Len(h.text)
    BY <1>10
  <2>2. \A l \in ToSet(h.labels) : ~(l.lo >= off)
    <3> SUFFICES ASSUME NEW l \in ToSet(h.labels) PROVE ~(l.lo >= off)
      OBVIOUS
    <3>1. l.lo \in Nat /\ l.hi \in Nat /\ l.lo < l.hi /\ l.hi <= off
      BY <2>1, <1>8, MembersAre DEF Whole
    <3> QED BY <3>1, <1>10
  <2> QED BY <2>2, <1>14
<1>19. \A l \in R : \E o \in ToSet(h.labels) : l = By(o, 0 - off) /\ l.id = o.id
  <2>1. ToSet(h.labels) \in SUBSET LabelRecord /\ 0 - off \in Int
    BY <1>8, <1>10, MembersAre
  <2> SUFFICES ASSUME NEW l \in R PROVE \E o \in ToSet(h.labels) : l = By(o, 0 - off) /\ l.id = o.id
    OBVIOUS
  <2>2. PICK o \in ToSet(h.labels) : l = By(o, 0 - off)
    BY <1>14
  <2>3. l.id = o.id
    BY <2>1, <2>2, ByIs
  <2> QED BY <2>2, <2>3
<1>20. /\ \A l, o \in L : l.id = o.id => l = o
       /\ \A l, o \in R : l.id = o.id => l = o
       /\ \A l \in L, o \in R : l.id # o.id
  <2>1. \A x, y \in ToSet(g.labels) : x.id = y.id => x = y
    BY <1>2, <1>3 DEF Placed
  <2>2. \A x, y \in ToSet(h.labels) : x.id = y.id => x = y
    BY <1>2, <1>3, <1>16 DEF Placed
  <2>3. \A x \in ToSet(g.labels), y \in ToSet(h.labels) : x.id # y.id
    BY <1>2, <1>3, <1>16 DEF Placed
  <2> HIDE DEF L, R
  <2>4. \A l, o \in L : l.id = o.id => l = o
    BY <2>1, <1>17
  <2>5. \A l, o \in R : l.id = o.id => l = o
    BY <2>2, <1>19
  <2>6. \A l \in L, o \in R : l.id # o.id
    BY <2>3, <1>17, <1>19
  <2> QED BY <2>4, <2>5, <2>6
<1>21. /\ kept \in Seq(Part) /\ Fits(kept, t2, Edge(row, i), Edge(row, j) + d) /\ Placed(kept)
       /\ LabelsOf(kept, DOMAIN kept) = L \cup R
  <2> DEFINE e0 == Edge(row, i)
             e1 == Edge(row, j) + d
  <2>1. a = g.start <=> e0 = a
    BY <1>7
  <2>2. b = h.end <=> e1 = a
    <3>1. e1 = h.end + d /\ d = a - b /\ h.end \in Nat
      BY <1>4, <1>8
    <3> QED BY <3>1
  <2>3. e0 # a => Lies(P, t2, e0, a)
    BY <2>1, <1>9, <1>13 DEF Lies
  <2>4. e1 # a => Lies(Q, t2, a, e1)
    BY <2>2, <1>15 DEF Lies
  <2>5. (IF e0 = a THEN {} ELSE ToSet(P.labels)) = L
    BY <2>1
  <2>6. (IF e1 = a THEN {} ELSE ToSet(Q.labels)) = R
    BY <2>2, <1>15, <1>18
  <2>7. kept = Rest(P, Q, e0, e1, a)
    BY <2>1, <2>2, <1>4 DEF Rest
  <2> HIDE DEF e0, e1, L, R
  <2>8. LET z == Rest(P, Q, e0, e1, a)
        IN  /\ z \in Seq(Part) /\ Fits(z, t2, e0, e1) /\ Placed(z)
            /\ LabelsOf(z, DOMAIN z) = L \cup R
    <3>1. Remain(P, Q, t2, e0, e1, a, L, R)
      BY <2>3, <2>4, <2>5, <2>6, <1>20 DEF Remain
    <3> QED BY <3>1, Remains
  <2> QED BY <2>7, <2>8 DEF e0, e1
<1> HIDE DEF L, R
<1>22. K = LabelsOf(row, i..j - 1) /\ L \subseteq K /\ ToSet(h.labels) \subseteq K /\ K \in SUBSET LabelRecord
  <2>1. ToSet(g.labels) \subseteq K /\ ToSet(h.labels) \subseteq K
    BY <1>3, <1>16 DEF LabelsOf
  <2>2. K \in SUBSET LabelRecord
    BY <1>2, <1>16, LabelsWithin
  <2> QED BY <2>1, <2>2, <1>17
<1>23. R \in SUBSET LabelRecord /\ R = ToSet(tail.labels)
  BY <1>14, MembersAre DEF R
<1> HIDE DEF K
<1>24. \A l \in L \cup R : \E o \in K : l.id = o.id
  BY <1>19, <1>22
<1>25. Fresh(row, i, j, kept)
  <2>1. \A x \in DOMAIN kept : \A l \in ToSet(kept[x].labels) : l \in L \cup R
    BY <1>21 DEF LabelsOf
  <2>2. ASSUME NEW x \in DOMAIN kept, NEW k \in Outside(row, i, j),
               NEW l \in ToSet(kept[x].labels), NEW y \in ToSet(row[k].labels)
        PROVE  l.id # y.id
    <3>1. PICK o \in K : l.id = o.id
      BY <2>1, <1>24
    <3>2. o \in LabelsOf(row, i..j - 1)
      BY <3>1, <1>22
    <3> QED BY <3>1, <3>2, <1>2, <1>6, FreshFrom
  <2> QED BY <2>2, <1>21 DEF Fresh
<1>26. /\ Tiled(r, t2) /\ Placed(r)
       /\ LabelsOf(r, DOMAIN r) = LabelsOf(row, Outside(row, i, j)) \cup LabelsOf(kept, DOMAIN kept)
  <2>1. d \in Int
    BY <1>4
  <2>2. /\ t \in Seq(Char) /\ Tiled(row, t) /\ Placed(row) /\ kept \in Seq(Part) /\ t2 \in Seq(Char)
        /\ i \in 1..Len(row) + 1 /\ j \in i..Len(row) + 1 /\ d \in Int
        /\ Fits(kept, t2, Edge(row, i), Edge(row, j) + d) /\ SameBut(t, t2, Edge(row, i), Edge(row, j), d)
        /\ Fresh(row, i, j, kept) /\ r = Spliced(row, i, j, kept, d)
    BY <2>1, <1>2, <1>5, <1>6, <1>11, <1>12, <1>21, <1>25
  <2> QED BY <2>2, Replaced
<1>27. ix = LabelsOf(row, Outside(row, i, j)) \cup L \cup R
  <2> DEFINE ids == {l.id : l \in R}
             out == LabelsOf(row, Outside(row, i, j))
  <2>1. IdsOf(tail.labels) = ids
    BY <1>14, <1>23, IdsAre
  <2>2. gone = {l.id : l \in K} \ {l.id : l \in L \cup R}
    <3>1. UNION {IdsOf(row[k].labels) : k \in i..j - 1} = {l.id : l \in K}
      BY <1>2, <1>16, <1>22, IdsWithin
    <3>2. UNION {IdsOf(kept[k].labels) : k \in DOMAIN kept} = {l.id : l \in L \cup R}
      BY <1>21, IdsWithin
    <3> DEFINE A == UNION {IdsOf(row[k].labels) : k \in i..j - 1}
               B == UNION {IdsOf(kept[k].labels) : k \in DOMAIN kept}
               C == {l.id : l \in K}
               E == {l.id : l \in L \cup R}
    <3>3. gone = A \ B
      BY <1>30
    <3>4. A = C /\ B = E
      BY <3>1, <3>2, Zenon
    <3> HIDE DEF A, B, C, E
    <3>5. gone = C \ E
      BY <3>3, <3>4
    <3> QED BY <3>5 DEF C, E
  <2>3. s.labelsById = out \cup K
    <3>1. DOMAIN row = Outside(row, i, j) \cup (i..j - 1)
      BY <1>16 DEF Outside
    <3> QED BY <3>1, <1>2, <1>22 DEF LabelsOf
  <2>4. \A x \in out, o \in K : x.id # o.id
    <3> SUFFICES ASSUME NEW x \in out, NEW o \in K PROVE x.id # o.id
      OBVIOUS
    <3>1. PICK k \in Outside(row, i, j) : x \in ToSet(row[k].labels)
      BY DEF LabelsOf
    <3>2. o \in LabelsOf(row, i..j - 1)
      BY <1>22
    <3>3. \A y \in ToSet(row[k].labels) : o.id # y.id
      BY <3>1, <3>2, <1>2, <1>6, FreshFrom
    <3> QED BY <3>1, <3>3
  <2>5. \A x, y \in K : x.id = y.id => x = y
    BY <1>2, <1>16, <1>22, InsideDistinct
  <2>6. ix = {l \in {l \in s.labelsById : l.id \notin gone} : l.id \notin ids} \cup R
    BY <2>1, <1>5, <1>23 DEF Reset, Without
  <2> HIDE DEF out
  <2>7. \A x \in out : x.id \notin gone /\ x.id \notin ids
    BY <2>2, <2>4, <1>24
  <2>8. \A l \in L : l.id \notin gone /\ l.id \notin ids
    BY <2>2, <1>20
  <2>9. \A l \in K : l.id \notin gone /\ l.id \notin ids => l \in L
    BY <2>2, <2>5, <1>22
  <2>10. ix = out \cup L \cup R
    BY <2>3, <2>6, <2>7, <2>8, <2>9, <1>22
  <2> QED BY <2>10 DEF out
<1>28. u.text = t2 /\ u.segments = r /\ u.labelsById = ix /\ u \in State
  <2>1. r \in Seq(Part)
    BY <1>26 DEF Tiled
  <2>2. ix \in SUBSET LabelRecord
    <3>1. Outside(row, i, j) \in SUBSET DOMAIN row
      BY DEF Outside
    <3>2. LabelsOf(row, Outside(row, i, j)) \in SUBSET LabelRecord
      BY <3>1, <1>2, LabelsWithin
    <3> QED BY <3>2, <1>17, <1>23, <1>27
  <2> QED BY <2>1, <2>2, <1>5, <1>11 DEF State
<1>29. u \in State /\ Held(u, u.text) /\ u.text = s.text /\ u.threw = s.threw
  <2>1. u.threw = s.threw
    BY <1>5 DEF State
  <2> QED BY <2>1, <1>11, <1>21, <1>26, <1>27, <1>28 DEF Held
<1> DEFINE S  == Seen(s)
           B  == SeenIn(row, 1..i - 1)
           MG == AllMoved(ToSet(g.labels), g.start)
           MM == SeenIn(row, i + 1..m - 1)
           MH == AllMoved(ToSet(h.labels), h.start)
           A  == SeenIn(row, j..Len(row))
           GL == {y \in MG : y.hi <= a}
           HR == {y \in MH : y.lo >= b}
<1>31. S = B \cup MG \cup MM \cup MH \cup A
  <2> DEFINE c == i..i
             e == i + 1..m - 1
             f == m..m
  <2>1. S = B \cup SeenIn(row, i..j - 1) \cup A
    BY <1>2, <1>3, <1>6, SeenParts DEF Seen
  <2>2. i..j - 1 = (c \cup e) \cup f
    <3>1. i \in Nat /\ m \in Nat /\ i < m /\ j - 1 = m
      BY <1>6
    <3> QED BY <3>1
  <2>3. SeenIn(row, c) = MG
    BY <1>3, <1>6, SeenOne
  <2>4. SeenIn(row, f) = MH
    <3>1. m \in Int
      BY <1>6
    <3> QED BY <3>1, <1>3, SeenOne
  <2> HIDE DEF c, f, S, B, A, MG, MH
  <2>5. SeenIn(row, (c \cup e) \cup f) = MG \cup MM \cup MH
    <3>1. SeenIn(row, e) = MM
      OBVIOUS
    <3> HIDE DEF e, MM
    <3>2. SeenIn(row, (c \cup e) \cup f) = SeenIn(row, c \cup e) \cup SeenIn(row, f)
      BY SeenUnion
    <3>3. SeenIn(row, c \cup e) = SeenIn(row, c) \cup SeenIn(row, e)
      BY SeenUnion
    <3> QED BY <2>3, <2>4, <3>1, <3>2, <3>3
  <2> QED BY <2>1, <2>2, <2>5
<1>32. /\ \A y \in S : y.lo \in Nat /\ y.hi \in Nat /\ y.lo < y.hi
  BY <1>2, <1>3, SeenAll DEF Seen
<1>33. g.end <= h.start
  <2>1. i + 1 \in 1..Len(row) + 1 /\ m \in i + 1..Len(row) + 1 /\ i \in DOMAIN row /\ m \in DOMAIN row
    BY <1>2, <1>6
  <2>2. Edge(row, i + 1) <= Edge(row, m)
    BY <2>1, <1>2, EdgesAscend
  <2> QED BY <2>1, <2>2, <1>2, <1>3, Tile
<1>34. /\ \A y \in B : y.hi <= g.start
       /\ \A y \in MG : g.start <= y.lo /\ y.hi <= g.end
  BY <1>2, <1>3, SeenSides
<1>35. /\ \A y \in MH : h.start <= y.lo /\ y.hi <= h.end
       /\ \A y \in A : y.lo >= h.end
  <2>1. m \in DOMAIN row /\ m + 1 = j
    BY <1>2, <1>6
  <2> QED BY <2>1, <1>2, <1>3, SeenSides
<1>36. \A y \in MM : g.end <= y.lo /\ y.hi <= h.start
  <2> DEFINE o == i + 1
  <2>1. o \in 1..Len(row) + 1 /\ m \in o..Len(row) + 1 /\ i \in DOMAIN row /\ m \in DOMAIN row
    BY <1>2, <1>6
  <2>2. Edge(row, o) = g.end /\ Edge(row, m) = h.start
    BY <2>1, <1>2, <1>3, Tile
  <2> HIDE DEF o
  <2>3. \A y \in SeenIn(row, o..m - 1) : Edge(row, o) <= y.lo /\ y.hi <= Edge(row, m)
    BY <2>1, <1>2, SeenWithin
  <2> QED BY <2>2, <2>3 DEF o
<1>37. /\ a \in Nat /\ b \in Nat /\ g.start \in Nat /\ g.end \in Nat /\ h.start \in Nat /\ h.end \in Nat
       /\ g.start <= a /\ a < g.end /\ h.start < b /\ b <= h.end
  BY <1>3, <1>7, <1>8
<1> HIDE DEF S, B, MG, MM, MH, A
<1>38. /\ \A y \in B : y.hi <= a
       /\ \A y \in MG : ~(y.lo >= b)
       /\ \A y \in MM : ~(y.hi <= a) /\ ~(y.lo >= b)
       /\ \A y \in MH : ~(y.hi <= a)
       /\ \A y \in A : y.lo >= b
  <2> DEFINE p == g.start
             e == g.end
             q == h.start
             f == h.end
  <2>1. /\ p \in Nat /\ e \in Nat /\ q \in Nat /\ f \in Nat /\ p <= a /\ a < e /\ q < b /\ b <= f /\ e <= q
        /\ (\A y \in B : y.hi <= p) /\ (\A y \in MG : p <= y.lo /\ y.hi <= e)
        /\ (\A y \in MM : e <= y.lo /\ y.hi <= q)
        /\ (\A y \in MH : q <= y.lo /\ y.hi <= f) /\ (\A y \in A : y.lo >= f)
    BY <1>33, <1>34, <1>35, <1>36, <1>37
  <2> HIDE DEF p, e, q, f
  <2>2. \A y \in B \cup MG \cup MM \cup MH \cup A : y.lo \in Nat /\ y.hi \in Nat /\ y.lo < y.hi
    BY <1>31, <1>32
  <2>3. \A y \in B : y.hi <= a
    BY <2>1, <2>2
  <2>4. \A y \in MG : ~(y.lo >= b)
    BY <2>1, <2>2
  <2>5. \A y \in MM : ~(y.hi <= a) /\ ~(y.lo >= b)
    BY <2>1, <2>2
  <2>6. \A y \in MH : ~(y.hi <= a)
    BY <2>1, <2>2
  <2>7. \A y \in A : y.lo >= b
    BY <2>1, <2>2
  <2> QED BY <2>3, <2>4, <2>5, <2>6, <2>7
<1>39. {y \in S : y.hi <= a \/ y.lo >= b} = (B \cup GL) \cup (HR \cup A)
  BY <1>31, <1>38
<1>40. /\ AllMoved({l \in ToSet(g.labels) : l.hi <= from}, g.start) = GL
       /\ AllMoved({l \in ToSet(h.labels) : l.lo >= off}, h.start) = HR
  <2>1. AllMoved({l \in ToSet(g.labels) : l.hi <= from}, g.start) = {y \in MG : y.hi <= g.start + from}
    <3>1. LET n == row[i].start
              G == ToSet(row[i].labels)
          IN  /\ AllMoved(EndBy(G, from), n) = EndBy(AllMoved(G, n), n + from)
              /\ AllMoved(StartFrom(G, from), n) = StartFrom(AllMoved(G, n), n + from)
      <4>1. Tiled(row, t) /\ i \in DOMAIN row /\ from \in Nat
        BY <1>2, <1>3, <1>9
      <4> QED BY <4>1, SidesSeen
    <3> QED BY <3>1, <1>3 DEF MG, EndBy
  <2>2. AllMoved({l \in ToSet(h.labels) : l.lo >= off}, h.start) = {y \in MH : y.lo >= h.start + off}
    <3>1. m \in DOMAIN row
      BY <1>2, <1>6
    <3>2. LET n == row[m].start
              G == ToSet(row[m].labels)
          IN  /\ AllMoved(EndBy(G, off), n) = EndBy(AllMoved(G, n), n + off)
              /\ AllMoved(StartFrom(G, off), n) = StartFrom(AllMoved(G, n), n + off)
      <4>1. Tiled(row, t) /\ off \in Nat
        BY <1>2, <1>10
      <4> QED BY <3>1, <4>1, SidesSeen
    <3> QED BY <3>2, <1>3 DEF MH, StartFrom
  <2> QED BY <2>1, <2>2, <1>9, <1>10
<1>41. IF a = g.start THEN GL = {} ELSE P \in Part /\ AllMoved(ToSet(P.labels), P.start) = GL
  <2>1. CASE a = g.start
    <3>1. \A y \in MG : ~(y.hi <= a)
      <4> SUFFICES ASSUME NEW y \in MG PROVE ~(y.hi <= a)
        OBVIOUS
      <4>1. y.lo \in Nat /\ y.hi \in Nat /\ y.lo < y.hi /\ a <= y.lo
        BY <2>1, <1>31, <1>32, <1>34
      <4> QED BY <4>1
    <3> QED BY <3>1, <2>1
  <2>2. CASE a # g.start
    <3>1. from # 0
      BY <2>2, <1>9
    <3>2. P \in Part /\ P.start = g.start /\ ToSet(P.labels) = {l \in ToSet(g.labels) : l.hi <= from}
      BY <3>1, <1>7, <1>13
    <3> QED BY <3>2, <2>2, <1>40
  <2> QED BY <2>1, <2>2
<1>42. IF b = h.end THEN HR = {} ELSE Q \in Part /\ AllMoved(ToSet(Q.labels), Q.start) = AllMoved(HR, d)
  <2>1. CASE b = h.end
    <3>1. \A y \in MH : ~(y.lo >= b)
      <4> SUFFICES ASSUME NEW y \in MH PROVE ~(y.lo >= b)
        OBVIOUS
      <4>1. y.lo \in Nat /\ y.hi \in Nat /\ y.lo < y.hi /\ y.hi <= b
        BY <2>1, <1>31, <1>32, <1>35
      <4> QED BY <4>1
    <3> QED BY <3>1, <2>1
  <2>2. CASE b # h.end
    <3> DEFINE T == {l \in ToSet(h.labels) : l.lo >= off}
               n == h.start
               v == 0 - off
    <3>1. Q \in Part /\ Q.start = a /\ ToSet(Q.labels) = AllMoved(T, v)
      BY <2>2, <1>14, <1>15 DEF AllMoved
    <3>2. T \in SUBSET LabelRecord
      BY <1>8, MembersAre
    <3>3. n \in Int /\ v \in Int /\ d \in Int /\ v + a = n + d /\ a \in Int
      <4>1. off \in Nat /\ n \in Nat /\ b = n + off /\ d = a - b /\ v = 0 - off
        BY <1>4, <1>8, <1>10
      <4> HIDE DEF n, v
      <4> QED BY <4>1
    <3>4. AllMoved(T, n) = HR
      BY <1>40
    <3> HIDE DEF T, n, v
    <3>5. AllMoved(AllMoved(T, v), a) = AllMoved(T, v + a)
      BY <3>2, <3>3, MovedTwice
    <3>6. AllMoved(AllMoved(T, n), d) = AllMoved(T, n + d)
      BY <3>2, <3>3, MovedTwice
    <3> QED BY <3>1, <3>3, <3>4, <3>5, <3>6, <2>2
  <2> QED BY <2>1, <2>2
<1> HIDE DEF GL, HR
<1>43. SeenIn(kept, DOMAIN kept) = GL \cup AllMoved(HR, d)
  <2> DEFINE e0 == g.start
             e1 == IF b = h.end THEN a ELSE a + 1
  <2>1. e1 = a <=> b = h.end
    OBVIOUS
  <2>2. kept = Rest(P, Q, e0, e1, a)
    BY <2>1, <1>4 DEF Rest
  <2>3. (e0 # a => P \in Part) /\ (e1 # a => Q \in Part)
    BY <2>1, <1>41, <1>42
  <2> HIDE DEF e0, e1
  <2>4. LET z == Rest(P, Q, e0, e1, a)
        IN  SeenIn(z, DOMAIN z) =
              (IF e0 = a THEN {} ELSE AllMoved(ToSet(P.labels), P.start))
                \cup (IF e1 = a THEN {} ELSE AllMoved(ToSet(Q.labels), Q.start))
    BY <2>3, RestSeen
  <2>5. (IF e0 = a THEN {} ELSE AllMoved(ToSet(P.labels), P.start)) = GL
    BY <1>41 DEF e0
  <2>6. (IF e1 = a THEN {} ELSE AllMoved(ToSet(Q.labels), Q.start)) = AllMoved(HR, d)
    <3>1. HR = {} => AllMoved(HR, d) = {}
      BY DEF AllMoved
    <3> QED BY <3>1, <2>1, <1>42
  <2> QED BY <2>2, <2>4, <2>5, <2>6
<1>44. Seen(u) = (B \cup GL) \cup AllMoved(HR \cup A, d)
  <2>1. d \in Int
    BY <1>4
  <2>2. LET z == Spliced(row, i, j, kept, d)
        IN  SeenIn(z, DOMAIN z) =
              SeenIn(row, 1..i - 1) \cup SeenIn(kept, DOMAIN kept) \cup AllMoved(SeenIn(row, j..Len(row)), d)
    <3>1. /\ t \in Seq(Char) /\ Tiled(row, t) /\ kept \in Seq(Part)
          /\ i \in 1..Len(row) + 1 /\ j \in i..Len(row) + 1
      BY <1>2, <1>6, <1>21
    <3> QED BY <3>1, <2>1, SeenSpliced
  <2>3. Seen(u) = B \cup (GL \cup AllMoved(HR, d)) \cup AllMoved(A, d)
    BY <2>2, <1>5, <1>28, <1>43 DEF Seen, B, A
  <2>4. AllMoved(HR \cup A, d) = AllMoved(HR, d) \cup AllMoved(A, d)
    BY DEF AllMoved
  <2> QED BY <2>3, <2>4
<1>45. Dropped(S, Seen(u), a, b)
  <2> DEFINE X == B \cup GL
             Y == HR \cup A
  <2>1. /\ (\A y \in X : y.hi <= a) /\ (\A y \in Y : y.lo >= b) /\ {y \in S : y.hi <= a \/ y.lo >= b} = X \cup Y
        /\ a <= b
    BY <1>38, <1>39 DEF GL, HR
  <2>2. Seen(u) = X \cup AllMoved(Y, a - b)
    BY <1>4, <1>44
  <2> HIDE DEF X, Y
  <2>3. Dropped(S, X \cup AllMoved(Y, a - b), a, b)
    BY <2>1, <1>32, DroppedFrom
  <2> QED BY <2>2, <2>3
<1> QED BY <1>1, <1>29, <1>45 DEF S

\* deleteTextAt keeps the manager whole.
LEMMA DeleteHeld ==
  ASSUME NEW s \in State, Held(s, s.text), ~s.threw, NEW a \in Nat, NEW b \in Nat, a < b, b <= Len(s.text)
  PROVE  LET u == Deleted(s, a, b)
         IN  /\ u \in State /\ Held(u, u.text) /\ u.text = Cut(s.text, a, b) /\ ~u.threw
             /\ Dropped(Seen(s), Seen(u), a, b)
<1> DEFINE t   == s.text
           row == s.segments
           i   == First(row, a)
           j   == Behind(row, b)
           s1  == [s EXCEPT !.text = Cut(@, a, b)]
<1>1. Deleted(s, a, b) = IF j = i + 1 THEN DeletedWithin(s1, i, a, b) ELSE DeletedAcross(s1, i, j, a, b)
  BY DEF Deleted
<1>2. t \in Seq(Char) /\ Tiled(row, t) /\ row \in Seq(Part) /\ b <= Len(t) /\ t = s.text /\ row = s.segments
  BY StateIs DEF Held
<1>3. s1.text = Cut(t, a, b) /\ s1.segments = row /\ s1.labelsById = s.labelsById /\ s1.threw = s.threw
  BY DEF State
<1>4. s1 \in State
  <2>1. Cut(t, a, b) \in Seq(Char)
    BY <1>2, CutIs
  <2> QED BY <2>1 DEF State
<1>5. Held(s1, t) /\ Seen(s1) = Seen(s)
  BY <1>3 DEF Held, Seen
<1> HIDE DEF t, row, s1
<1>6. /\ i \in 1..Len(row) /\ j \in i + 1..Len(row) + 1
      /\ Edge(row, i) <= a /\ a < Edge(row, i + 1)
      /\ Edge(row, j - 1) < b /\ b <= Edge(row, j)
  BY <1>2, Touched
<1> HIDE DEF i, j
<1>7. i \in DOMAIN row /\ Edge(row, i) = row[i].start /\ Edge(row, i + 1) = row[i].end
  <2>1. i \in DOMAIN row
    BY <1>2, <1>6
  <2> QED BY <2>1, <1>2, Tile
<1>8. CASE j = i + 1
  <2>1. i \in DOMAIN s1.segments /\ s1.segments[i].start <= a /\ b <= s1.segments[i].end /\ ~s1.threw
    BY <1>3, <1>6, <1>7, <1>8
  <2>2. LET u == DeletedWithin(s1, i, a, b)
        IN  /\ u \in State /\ Held(u, u.text) /\ u.text = s1.text /\ ~u.threw
            /\ Dropped(Seen(s1), Seen(u), a, b)
    BY <2>1, <1>2, <1>3, <1>4, <1>5, DeleteWithin
  <2> QED BY <2>2, <1>1, <1>2, <1>3, <1>5, <1>8
<1>9. CASE j # i + 1
  <2> DEFINE m == j - 1
  <2>1. m \in DOMAIN row /\ j = m + 1 /\ j \in i + 2..Len(row) + 1
    BY <1>2, <1>6, <1>9
  <2>2. Edge(row, m) = row[m].start /\ Edge(row, m + 1) = row[m].end
    BY <2>1, <1>2, Tile
  <2>3. /\ i \in DOMAIN s1.segments /\ j \in i + 2..Len(s1.segments) + 1
        /\ s1.segments[i].start <= a /\ a < s1.segments[i].end
        /\ s1.segments[j - 1].start < b /\ b <= s1.segments[j - 1].end
    BY <2>1, <2>2, <1>3, <1>6, <1>7
  <2>4. LET u == DeletedAcross(s1, i, j, a, b)
        IN  /\ u \in State /\ Held(u, u.text) /\ u.text = s1.text /\ u.threw = s1.threw
            /\ Dropped(Seen(s1), Seen(u), a, b)
    BY <2>3, <1>2, <1>3, <1>4, <1>5, DeleteAcross
  <2> QED BY <2>4, <1>1, <1>2, <1>3, <1>5, <1>9
<1> QED BY <1>8, <1>9

LEMMA Climbs ==
  ASSUME NEW a \in Int, NEW b \in Int, a <= b, NEW T, a \in T, \A n \in a + 1..b : n - 1 \in T => n \in T
  PROVE  \A n \in a..b : n \in T
<1> DEFINE M == {k \in Nat : a + k <= b /\ a + k \notin T}
<1>1. M = {}
  <2> SUFFICES ASSUME M # {} PROVE FALSE
    OBVIOUS
  <2>1. PICK k \in M : \A m \in M : k <= m
    BY LeastNat
  <2>2. k \in Nat /\ a + k <= b /\ a + k \notin T /\ k # 0
    OBVIOUS
  <2>3. k - 1 \in Nat /\ a + (k - 1) <= b /\ ~(k <= k - 1)
    BY <2>2
  <2>4. a + (k - 1) \in T
    BY <2>1, <2>3
  <2>5. a + k \in a + 1..b /\ (a + k) - 1 = a + (k - 1)
    BY <2>2
  <2> QED BY <2>2, <2>4, <2>5
<1> SUFFICES ASSUME NEW n \in a..b PROVE n \in T
  OBVIOUS
<1>2. n - a \in Nat /\ a + (n - a) = n /\ n <= b
  OBVIOUS
<1>3. n - a \notin M
  BY <1>1
<1> QED BY <1>2, <1>3

------------------------------------------------------------------------------
(* addLabel merges the segments that the label touches.                     *)

\* What mergeSegments has gathered of segments i..n.
Gathers(row, t, i, n, acc) ==
  /\ acc.text \in Seq(Char) /\ acc.labels \in Seq(LabelRecord)
  /\ Edge(row, i) + Len(acc.text) = Edge(row, n + 1)
  /\ \A x \in 1..Len(acc.text) : acc.text[x] = t[Edge(row, i) + x]
  /\ \A l \in ToSet(acc.labels) : l.lo < l.hi /\ l.hi <= Len(acc.text)
  /\ \A l \in ToSet(acc.labels) : \E o \in LabelsOf(row, i..n) : l.id = o.id
  /\ \A o \in LabelsOf(row, i..n) : \E l \in ToSet(acc.labels) : l.id = o.id
  /\ \A l, o \in ToSet(acc.labels) : l.id = o.id => l = o
  /\ AllMoved(ToSet(acc.labels), Edge(row, i)) = SeenIn(row, i..n)

Gathered(acc, g) ==
  [text |-> acc.text \o g.text, labels |-> acc.labels \o AllBy(g.labels, Len(acc.text))]

LEMMA GatherStep ==
  ASSUME NEW row, NEW t \in Seq(Char), Tiled(row, t), Placed(row), NEW i \in 1..Len(row), NEW n \in i..Len(row), NEW acc,
         Gathers(row, t, i, n - 1, acc)
  PROVE  Gathers(row, t, i, n, Gathered(acc, row[n]))
<1> DEFINE g  == row[n]
           e  == Edge(row, i)
           p  == Len(acc.text)
           m  == Len(g.text)
           ls == AllBy(g.labels, p)
           x  == acc.text \o g.text
           L  == acc.labels \o ls
           K  == LabelsOf(row, i..n - 1)
           K2 == LabelsOf(row, i..n)
           G  == ToSet(g.labels)
           A  == ToSet(acc.labels)
<1>0. row \in Seq(Part) /\ n \in DOMAIN row /\ i \in 1..Len(row) + 1 /\ n - 1 \in Int /\ (n - 1) + 1 = n
  BY DEF Tiled
<1>1. /\ g \in Part /\ g.start \in Nat /\ g.text \in Seq(Char) /\ g.labels \in Seq(LabelRecord) /\ m \in Nat
      /\ g.end = g.start + m /\ Edge(row, n) = g.start /\ Edge(row, n + 1) = g.end
      /\ Whole(g) /\ Shows(g, t)
  BY <1>0, Tile
<1>2. e \in Nat
  BY <1>0, EdgeNat
<1>3. /\ acc.text \in Seq(Char) /\ acc.labels \in Seq(LabelRecord) /\ e + p = Edge(row, n)
      /\ (\A y \in 1..p : acc.text[y] = t[e + y])
      /\ (\A l \in A : l.lo < l.hi /\ l.hi <= p)
      /\ (\A l \in A : \E o \in K : l.id = o.id)
      /\ (\A o \in K : \E l \in A : l.id = o.id)
      /\ (\A l, o \in A : l.id = o.id => l = o)
      /\ AllMoved(A, e) = SeenIn(row, i..n - 1)
      /\ p \in Nat
  BY <1>0 DEF Gathers
<1>4. Gathered(acc, g).text = x /\ Gathered(acc, g).labels = L
  BY DEF Gathered
<1>5. K2 = K \cup G
  <2>1. i..n = (i..n - 1) \cup {n}
    BY <1>0
  <2> QED BY <2>1 DEF LabelsOf
<1>6. G \subseteq LabelRecord /\ A \subseteq LabelRecord /\ \A l \in G : l.lo < l.hi /\ l.hi <= m
  BY <1>1, <1>3, MembersAre DEF Whole
<1>7. ls \in Seq(LabelRecord) /\ ToSet(ls) = {By(l, p) : l \in G}
  <2>1. \A l \in ToSet(g.labels) : l.lo + p \in Nat /\ l.hi + p \in Nat
    <3> SUFFICES ASSUME NEW l \in ToSet(g.labels) PROVE l.lo + p \in Nat /\ l.hi + p \in Nat
      OBVIOUS
    <3>1. l.lo \in Nat /\ l.hi \in Nat
      BY <1>6 DEF LabelRecord
    <3> HIDE DEF p
    <3>2. \A a, b \in Nat : a + p \in Nat /\ b + p \in Nat
      BY <1>3
    <3> QED BY <3>1, <3>2
  <2>2. p \in Int
    BY <1>3
  <2> QED BY <2>1, <2>2, <1>1, AllByAre
<1>8. L \in Seq(LabelRecord) /\ ToSet(L) = A \cup {By(l, p) : l \in G}
  <2> HIDE DEF ls
  <2>1. L \in Seq(LabelRecord)
    BY <1>3, <1>7, ConcatLabels
  <2>2. ToSet(acc.labels \o ls) = ToSet(acc.labels) \cup ToSet(ls)
    BY <1>3, <1>7, BothAre
  <2> QED BY <2>1, <2>2, <1>7
<1>9. \A l \in {By(y, p) : y \in G} : \E o \in G : l.id = o.id /\ l.lo = o.lo + p /\ l.hi = o.hi + p /\ l = By(o, p)
  <2>1. p \in Int /\ G \in SUBSET LabelRecord
    BY <1>3, <1>6
  <2> HIDE DEF p, G
  <2> QED BY <2>1, ByIds
<1>10. \A o \in G : By(o, p).id = o.id
  BY <1>3, <1>6, ByIs
<1> HIDE DEF L, ls
<1>11. x \in Seq(Char) /\ Len(x) = p + m /\ (\A y \in 1..p : x[y] = acc.text[y]) /\ \A y \in 1..m : x[p + y] = g.text[y]
  BY <1>1, <1>3, ConcatChars
<1> HIDE DEF x, p, m, e, G, A, K, K2
<1>12. e + Len(x) = Edge(row, n + 1)
  <2>1. e + (p + m) = (e + p) + m
    BY <1>1, <1>2, <1>3
  <2> QED BY <2>1, <1>1, <1>3, <1>11
<1>13. ASSUME NEW y \in 1..Len(x) PROVE x[y] = t[e + y]
  <2>1. CASE y <= p
    <3>1. y \in 1..p
      BY <2>1, <1>3
    <3> QED BY <3>1, <1>3, <1>11
  <2>2. CASE ~(y <= p)
    <3>1. y - p \in 1..m /\ p + (y - p) = y /\ (e + p) + (y - p) = e + y
      <4>1. y \in Nat /\ y <= p + m /\ y > p
        BY <2>2, <1>1, <1>3, <1>11
      <4>2. y - p \in 1..m
        BY <4>1, <1>1, <1>3
      <4>3. p + (y - p) = y
        BY <4>1, <1>3
      <4>4. (e + p) + (y - p) = e + y
        BY <4>1, <1>2, <1>3
      <4> QED BY <4>2, <4>3, <4>4
    <3>2. g.text[y - p] = t[g.start + (y - p)]
      BY <3>1, <1>1 DEF Shows, m
    <3>3. g.start = e + p
      BY <1>1, <1>3
    <3> QED BY <3>1, <3>2, <3>3, <1>11
  <2> QED BY <2>1, <2>2
<1>14. ASSUME NEW l \in ToSet(L) PROVE l.lo < l.hi /\ l.hi <= Len(x)
  <2>1. CASE l \in A
    <3>1. l.lo \in Nat /\ l.hi \in Nat /\ l.lo < l.hi /\ l.hi <= p
      BY <2>1, <1>3, <1>6 DEF LabelRecord
    <3> QED BY <3>1, <1>1, <1>3, <1>11, SMTT(30)
  <2>2. CASE l \notin A
    <3>1. PICK o \in G : l.lo = o.lo + p /\ l.hi = o.hi + p
      BY <2>2, <1>8, <1>9
    <3>2. o.lo \in Nat /\ o.hi \in Nat /\ o.lo < o.hi /\ o.hi <= m
      BY <1>6 DEF LabelRecord
    <3>3. o.lo + p < o.hi + p /\ o.hi + p <= p + m
      <4>1. \A a, b \in Nat : a < b /\ b <= m => a + p < b + p /\ b + p <= p + m
        BY <1>1, <1>3, SMTT(30)
      <4> QED BY <3>2, <4>1
    <3> QED BY <3>1, <3>3, <1>11
  <2> QED BY <2>1, <2>2
<1>15. \A l \in ToSet(L) : \E o \in K2 : l.id = o.id
  BY <1>3, <1>5, <1>8, <1>9
<1>16. \A o \in K2 : \E l \in ToSet(L) : l.id = o.id
  BY <1>3, <1>5, <1>8, <1>10
<1>17. \A l \in A, o \in G : l.id # o.id
  <2> SUFFICES ASSUME NEW l \in A, NEW o \in G, l.id = o.id PROVE FALSE
    OBVIOUS
  <2>1. PICK z \in K : l.id = z.id
    BY <1>3
  <2>2. PICK k \in i..n - 1 : z \in ToSet(row[k].labels)
    BY DEF K, LabelsOf
  <2>3. k \in DOMAIN row /\ k # n
    BY <1>0
  <2>4. o.id = z.id /\ o \in ToSet(row[n].labels)
    BY <2>1 DEF G
  <2> QED BY <1>0, <2>2, <2>3, <2>4 DEF Placed
<1>18. \A l, o \in G : l.id = o.id => l = o
  BY <1>0 DEF G, Placed
<1>19. ASSUME NEW l \in ToSet(L), NEW o \in ToSet(L), l.id = o.id PROVE l = o
  <2>1. CASE l \in A /\ o \in A
    BY <2>1, <1>3, <1>19
  <2>2. CASE l \in A /\ o \notin A
    BY <2>2, <1>8, <1>9, <1>17, <1>19
  <2>3. CASE l \notin A /\ o \in A
    BY <2>3, <1>8, <1>9, <1>17, <1>19
  <2>4. CASE l \notin A /\ o \notin A
    <3>1. PICK y \in G : l.id = y.id /\ l = By(y, p)
      BY <2>4, <1>8, <1>9
    <3>2. PICK z \in G : o.id = z.id /\ o = By(z, p)
      BY <2>4, <1>8, <1>9
    <3> QED BY <3>1, <3>2, <1>18, <1>19
  <2> QED BY <2>1, <2>2, <2>3, <2>4
<1>20. /\ Gathered(acc, g).text \in Seq(Char) /\ Gathered(acc, g).labels \in Seq(LabelRecord)
       /\ e + Len(Gathered(acc, g).text) = Edge(row, n + 1)
       /\ \A y \in 1..Len(Gathered(acc, g).text) : Gathered(acc, g).text[y] = t[e + y]
       /\ \A l \in ToSet(Gathered(acc, g).labels) : l.lo < l.hi /\ l.hi <= Len(Gathered(acc, g).text)
       /\ \A l \in ToSet(Gathered(acc, g).labels) : \E o \in K2 : l.id = o.id
       /\ \A o \in K2 : \E l \in ToSet(Gathered(acc, g).labels) : l.id = o.id
       /\ \A l, o \in ToSet(Gathered(acc, g).labels) : l.id = o.id => l = o
  <2> HIDE DEF g
  <2> QED BY <1>4, <1>8, <1>11, <1>12, <1>13, <1>14, <1>15, <1>16, <1>19
<1>21. AllMoved(ToSet(L), e) = SeenIn(row, i..n)
  <2> DEFINE B == AllMoved(G, p)
  <2>1. ToSet(L) = A \cup B
    BY <1>8 DEF AllMoved
  <2>2. AllMoved(B, e) = AllMoved(G, p + e)
    <3>1. p \in Int /\ e \in Int /\ G \in SUBSET LabelRecord
      BY <1>2, <1>3, <1>6
    <3> QED BY <3>1, MovedTwice
  <2>3. p + e = g.start
    <3>1. e + p = g.start
      BY <1>1, <1>3
    <3> QED BY <3>1, <1>2, <1>3
  <2>4. SeenIn(row, n..n) = AllMoved(G, g.start)
    <3>1. n \in Int
      BY <1>0
    <3> QED BY <3>1, SeenOne DEF G
  <2> HIDE DEF B, g
  <2>5. AllMoved(A \cup B, e) = AllMoved(A, e) \cup AllMoved(B, e)
    BY DEF AllMoved
  <2> DEFINE c == i..n - 1
             f == n..n
  <2>6. i..n = c \cup f
    BY <1>0
  <2> HIDE DEF c, f
  <2>7. SeenIn(row, c \cup f) = SeenIn(row, c) \cup SeenIn(row, f)
    BY SeenUnion
  <2> QED BY <2>1, <2>2, <2>3, <2>4, <2>5, <2>6, <2>7, <1>3 DEF c, f
<1>22. AllMoved(ToSet(Gathered(acc, g).labels), e) = SeenIn(row, i..n)
  BY <1>4, <1>21
<1> QED BY <1>20, <1>22 DEF Gathers, e, K2

\* h is the function that mergeSegments defines, up to m.
Gathering(h, row, i, m) ==
  h = [n \in i - 1..m |-> IF n = i - 1 THEN [text |-> <<>>, labels |-> <<>>] ELSE Gathered(h[n - 1], row[n])]

LEMMA GatheringIs ==
  ASSUME NEW row, NEW i \in Int, NEW m \in Int, i - 1 <= m
  PROVE  \E h : Gathering(h, row, i, m)
<1> DEFINE T == {n \in i - 1..m : \E h : Gathering(h, row, i, n)}
           e == [text |-> <<>>, labels |-> <<>>]
<1>1. i - 1 \in T
  <2> DEFINE h == [n \in i - 1..i - 1 |-> e]
  <2>1. h = [n \in i - 1..i - 1 |-> IF n = i - 1 THEN e ELSE Gathered(h[n - 1], row[n])]
    OBVIOUS
  <2>2. Gathering(h, row, i, i - 1)
    BY <2>1 DEF Gathering
  <2> QED BY <2>2
<1>2. ASSUME NEW n \in (i - 1) + 1..m, n - 1 \in T PROVE n \in T
  <2>1. PICK h : Gathering(h, row, i, n - 1)
    BY <1>2
  <2> DEFINE B(f, k) == Gathered(f[k - 1], row[k])
             f == [k \in i - 1..n |-> IF k = n THEN B(h, n) ELSE h[k]]
  <2>2. h = [k \in i - 1..n - 1 |-> IF k = i - 1 THEN e ELSE B(h, k)]
    BY <2>1 DEF Gathering
  <2>3. n # i - 1 /\ n \in i - 1..n /\ n \in i - 1..m
    OBVIOUS
  <2>4. ASSUME NEW k \in i - 1..n PROVE f[k] = IF k = i - 1 THEN e ELSE B(f, k)
    <3>1. CASE k = i - 1
      <4>1. k \in i - 1..n - 1 /\ k # n
        BY <3>1
      <4>2. h[k] = e
        BY <4>1, <3>1, <2>2
      <4> QED BY <4>1, <4>2, <3>1
    <3>2. CASE k # i - 1
      <4>1. k - 1 \in i - 1..n - 1 /\ k - 1 \in i - 1..n /\ k - 1 # n
        BY <3>2
      <4>2. f[k - 1] = h[k - 1]
        BY <4>1
      <4>3. B(f, k) = B(h, k)
        BY <4>2
      <4>4. CASE k = n
        BY <4>3, <4>4, <3>2
      <4>5. CASE k # n
        <5>1. k \in i - 1..n - 1
          BY <4>5
        <5>2. h[k] = B(h, k)
          BY <5>1, <3>2, <2>2
        <5> QED BY <5>2, <4>3, <4>5, <3>2
      <4> QED BY <4>4, <4>5
    <3> QED BY <3>1, <3>2
  <2> HIDE DEF B
  <2>5. f = [k \in i - 1..n |-> f[k]]
    OBVIOUS
  <2> HIDE DEF f
  <2>6. f = [k \in i - 1..n |-> IF k = i - 1 THEN e ELSE B(f, k)]
    BY <2>4, <2>5
  <2>7. Gathering(f, row, i, n)
    BY <2>6 DEF Gathering, B
  <2> QED BY <2>3, <2>7
<1>3. \A n \in i - 1..m : n \in T
  <2> DEFINE a == i - 1
  <2>1. a \in Int /\ a <= m /\ a \in T /\ \A n \in a + 1..m : n - 1 \in T => n \in T
    BY <1>1, <1>2
  <2> HIDE DEF a, T
  <2>2. \A n \in a..m : n \in T
    BY <2>1, Climbs
  <2> QED BY <2>2 DEF a
<1>4. m \in T
  BY <1>3
<1> QED BY <1>4

LEMMA GatheredAre ==
  ASSUME NEW row, NEW t \in Seq(Char), Tiled(row, t), Placed(row), NEW i \in 1..Len(row), NEW j \in i + 1..Len(row) + 1,
         NEW h, Gathering(h, row, i, j - 1)
  PROVE  Gathers(row, t, i, j - 1, h[j - 1])
<1> DEFINE a == i - 1
           b == j - 1
           none == [text |-> <<>>, labels |-> <<>>]
           T == {n \in a..b : Gathers(row, t, i, n, h[n])}
<1>0. row \in Seq(Part) /\ i \in Nat /\ i \in 1..Len(row) + 1 /\ a \in Int /\ b \in Int /\ a <= b /\ b <= Len(row)
  BY DEF Tiled
<1>1. h = [n \in a..b |-> IF n = a THEN none ELSE Gathered(h[n - 1], row[n])]
  BY DEF Gathering
<1>2. a \in T
  <2>1. h[a] = none
    BY <1>0, <1>1
  <2>2. Edge(row, i) \in Nat
    BY <1>0, EdgeNat
  <2>3. none.text = <<>> /\ none.labels = <<>>
    OBVIOUS
  <2> HIDE DEF none
  <2> DEFINE acc == h[a]
  <2>4. acc.text = <<>> /\ acc.labels = <<>>
    BY <2>1, <2>3
  <2> HIDE DEF acc
  <2>5. i..a = {} /\ a + 1 = i
    OBVIOUS
  <2>6. LabelsOf(row, i..a) = {}
    BY <2>5 DEF LabelsOf
  <2>7. acc.text \in Seq(Char) /\ acc.labels \in Seq(LabelRecord) /\ Len(acc.text) = 0 /\ ToSet(acc.labels) = {}
    BY <2>4 DEF ToSet
  <2>8. Edge(row, i) + Len(acc.text) = Edge(row, a + 1)
    BY <2>2, <2>5, <2>7
  <2>10. AllMoved(ToSet(acc.labels), Edge(row, i)) = SeenIn(row, i..a)
    BY <2>5, <2>7 DEF AllMoved, SeenIn
  <2> HIDE DEF a
  <2>9. Gathers(row, t, i, a, acc)
    BY <2>6, <2>7, <2>8, <2>10 DEF Gathers
  <2> QED BY <2>9, <1>0 DEF acc
<1>3. ASSUME NEW n \in a + 1..b, n - 1 \in T PROVE n \in T
  <2>1. n \in i..Len(row) /\ n \in a..b /\ n # a
    BY <1>0
  <2>2. Gathers(row, t, i, n - 1, h[n - 1])
    BY <1>3
  <2>3. h[n] = Gathered(h[n - 1], row[n])
    BY <1>1, <2>1
  <2> HIDE DEF a, b, none
  <2>4. Gathers(row, t, i, n, Gathered(h[n - 1], row[n]))
    BY <2>1, <2>2, GatherStep
  <2> QED BY <2>1, <2>3, <2>4
<1> HIDE DEF a, b, T
<1>4. \A n \in a..b : n \in T
  BY <1>0, <1>2, <1>3, Climbs
<1>5. b \in T
  BY <1>0, <1>4
<1> QED BY <1>5 DEF T, b

LEMMA MergeHeld ==
  ASSUME NEW s \in State, NEW t \in Seq(Char), Held(s, t), NEW i \in DOMAIN s.segments,
         NEW j \in i + 1..Len(s.segments) + 1
  PROVE  LET u == mergeSegments(s, i, j)
         IN  /\ u \in State /\ Held(u, t) /\ u.text = s.text /\ u.threw = s.threw
             /\ i \in DOMAIN u.segments /\ u.segments[i].start = s.segments[i].start
             /\ u.segments[i].start + Len(u.segments[i].text) = Edge(s.segments, j)
             /\ \A l \in u.labelsById : \E o \in s.labelsById : l.id = o.id
             /\ Seen(u) = Seen(s)
<1> DEFINE row == s.segments
           all == CHOOSE h : Gathering(h, row, i, j - 1)
           one == all[j - 1]
           g   == Segment(row[i].start, one.text, one.labels)
           new == <<g>>
           r   == Splice(row, i, j, new)
           ix  == Reset(s.labelsById, one.labels)
           u   == [s EXCEPT !.labelsById = ix, !.segments = r]
<1>1. mergeSegments(s, i, j) = u
  BY DEF mergeSegments, Gathering, Gathered
<1>2. row \in Seq(Part) /\ Tiled(row, t) /\ Placed(row) /\ s.labelsById = LabelsOf(row, DOMAIN row)
      /\ row = s.segments
  BY StateIs DEF Held
<1>3. all = CHOOSE h : Gathering(h, row, i, j - 1)
  OBVIOUS
<1>4. one = all[j - 1] /\ g = Segment(row[i].start, one.text, one.labels) /\ new = <<g>>
      /\ r = Splice(row, i, j, new) /\ ix = Reset(s.labelsById, one.labels)
      /\ u = [s EXCEPT !.labelsById = ix, !.segments = r]
  OBVIOUS
<1> HIDE DEF row, all, one, g, new, r, ix, u
<1>5. i \in 1..Len(row) /\ i \in DOMAIN row /\ j \in i + 1..Len(row) + 1 /\ i \in 1..Len(row) + 1 /\ j \in i..Len(row) + 1
      /\ i \in Int /\ j - 1 \in Int /\ i - 1 <= j - 1 /\ (j - 1) + 1 = j
  BY <1>2
<1>6. Gathering(all, row, i, j - 1)
  <2>1. \E h : Gathering(h, row, i, j - 1)
    BY <1>5, GatheringIs
  <2> QED BY <2>1, <1>3
<1> DEFINE K == LabelsOf(row, i..j - 1)
           L == ToSet(one.labels)
           e == Edge(row, i)
<1>7. /\ one.text \in Seq(Char) /\ one.labels \in Seq(LabelRecord)
      /\ e + Len(one.text) = Edge(row, j)
      /\ \A x \in 1..Len(one.text) : one.text[x] = t[e + x]
      /\ \A l \in L : l.lo < l.hi /\ l.hi <= Len(one.text)
      /\ \A l \in L : \E o \in K : l.id = o.id
      /\ \A o \in K : \E l \in L : l.id = o.id
      /\ \A l, o \in L : l.id = o.id => l = o
      /\ AllMoved(L, e) = SeenIn(row, i..j - 1)
  <2>1. Gathers(row, t, i, j - 1, one)
    BY <1>2, <1>4, <1>5, <1>6, GatheredAre
  <2> QED BY <2>1, <1>5 DEF Gathers
<1> HIDE DEF K, L, e
<1>8. e \in Nat /\ e = row[i].start /\ Edge(row, j) \in Nat /\ e < Edge(row, j) /\ e = Edge(row, i)
  <2>1. row[i].start \in Nat /\ Edge(row, i) = row[i].start
    BY <1>2, <1>5, Tile
  <2>2. Edge(row, j) \in Nat
    <3>1. j \in 1..Len(row) + 1
      BY <1>5
    <3> QED BY <3>1, <1>2, EdgeNat
  <2>3. Edge(row, i) < Edge(row, j)
    BY <1>2, <1>5, EdgesAscend, SMTT(30)
  <2> QED BY <2>1, <2>2, <2>3 DEF e
<1>9. Len(one.text) > 0 /\ Len(one.text) \in Nat
  <2> DEFINE n == Len(one.text)
             f == Edge(row, j)
  <2>1. n \in Nat /\ e + n = f /\ e < f /\ e \in Nat
    BY <1>7, <1>8
  <2> HIDE DEF n, f
  <2>2. n > 0
    BY <2>1
  <2> QED BY <2>1, <2>2 DEF n
<1>10. /\ g \in Part /\ g.start = e /\ g.end = Edge(row, j) /\ g.text = one.text /\ g.labels = one.labels /\ Whole(g)
  <2>1. /\ g \in Part /\ g.start = e /\ g.end = e + Len(one.text) /\ g.text = one.text /\ g.labels = one.labels
    BY <1>4, <1>7, <1>8, SegmentIs, SMTT(30)
  <2>2. Whole(Segment(e, one.text, one.labels))
    <3>1. \A l \in ToSet(one.labels) : l.lo < l.hi /\ l.hi <= Len(one.text)
      BY <1>7 DEF L
    <3> QED BY <3>1, <1>7, <1>8, <1>9, WholeSegment
  <2> QED BY <2>1, <2>2, <1>4, <1>7, <1>8
<1>11. /\ new \in Seq(Part) /\ Len(new) = 1 /\ DOMAIN new = 1..1 /\ new[1] = g /\ new # <<>>
       /\ LabelsOf(new, DOMAIN new) = L
  <2>1. LabelsOf(new, DOMAIN new) = ToSet(g.labels)
    BY <1>4, <1>10, SingleIs
  <2> QED BY <2>1, <1>4, <1>10, SingleIs DEF L
<1>12. Fits(new, t, Edge(row, i), Edge(row, j))
  <2>1. Shows(g, t)
    BY <1>7, <1>10 DEF Shows
  <2>2. \A m \in DOMAIN new : m = 1
    BY <1>11
  <2> QED BY <2>1, <2>2, <1>8, <1>10, <1>11 DEF Fits
<1>13. Placed(new)
  <2>1. \A m \in DOMAIN new : m = 1 /\ new[m] = g
    BY <1>11
  <2>2. \A l, o \in ToSet(g.labels) : l.id = o.id => l = o
    BY <1>7, <1>10 DEF L
  <2> QED BY <2>1, <2>2 DEF Placed
<1>14. Fresh(row, i, j, new)
  <2>1. ASSUME NEW x \in DOMAIN new, NEW k \in Outside(row, i, j),
               NEW l \in ToSet(new[x].labels), NEW y \in ToSet(row[k].labels)
        PROVE  l.id # y.id
    <3>1. l \in L
      BY <1>11 DEF LabelsOf
    <3>2. PICK o \in K : l.id = o.id
      BY <3>1, <1>7
    <3>3. o \in LabelsOf(row, i..j - 1)
      BY <3>2 DEF K
    <3> QED BY <3>2, <3>3, <1>2, <1>5, FreshFrom, ZenonT(60)
  <2> QED BY <2>1, <1>13 DEF Fresh
<1>15. /\ Tiled(r, t) /\ Placed(r)
       /\ LabelsOf(r, DOMAIN r) = LabelsOf(row, Outside(row, i, j)) \cup LabelsOf(new, DOMAIN new)
  <2>1. LET z == Splice(row, i, j, new)
        IN  /\ Tiled(z, t) /\ Placed(z)
            /\ LabelsOf(z, DOMAIN z) = LabelsOf(row, Outside(row, i, j)) \cup LabelsOf(new, DOMAIN new)
    <3>1. /\ Tiled(row, t) /\ Placed(row) /\ new \in Seq(Part) /\ i \in 1..Len(row) + 1 /\ j \in i..Len(row) + 1
          /\ Fits(new, t, Edge(row, i), Edge(row, j)) /\ Fresh(row, i, j, new)
      BY <1>2, <1>5, <1>11, <1>12, <1>14
    <3> QED BY <3>1, ReplacedInPlace
  <2> QED BY <2>1, <1>4
<1>16. ix = LabelsOf(row, Outside(row, i, j)) \cup L
  <2> DEFINE ids == {l.id : l \in L}
  <2>1. IdsOf(one.labels) = ids
    BY <1>7, IdsAre DEF L
  <2>2. \A k \in Outside(row, i, j) : \A x \in ToSet(row[k].labels) : x.id \notin ids
    <3> SUFFICES ASSUME NEW k \in Outside(row, i, j), NEW x \in ToSet(row[k].labels), NEW l \in L, x.id = l.id PROVE FALSE
      OBVIOUS
    <3>1. PICK o \in K : l.id = o.id
      BY <1>7
    <3>2. o \in LabelsOf(row, i..j - 1)
      BY <3>1 DEF K
    <3>3. l.id # x.id
      BY <3>1, <3>2, <1>2, <1>5, FreshFrom
    <3> QED BY <3>3
  <2>3. \A l \in K : l.id \in ids
    BY <1>7
  <2> HIDE DEF ids
  <2>4. Without(LabelsOf(row, DOMAIN row), ids) =
           LabelsOf(row, Outside(row, i, j)) \cup {l \in LabelsOf(row, i..j - 1) : l.id \notin ids}
    <3>1. row \in Seq(Part) /\ i \in 1..Len(row) + 1 /\ j \in i..Len(row) + 1
      BY <1>2, <1>5
    <3> QED BY <3>1, <2>2, IndexIs
  <2>5. {l \in LabelsOf(row, i..j - 1) : l.id \notin ids} = {}
    BY <2>3 DEF K
  <2> QED BY <2>1, <2>4, <2>5, <1>2, <1>4 DEF Reset, L
<1>17. u.text = s.text /\ u.segments = r /\ u.labelsById = ix /\ u.threw = s.threw /\ u \in State
  <2>1. r \in Seq(Part)
    BY <1>15 DEF Tiled
  <2>2. ix \in SUBSET LabelRecord
    <3>1. Outside(row, i, j) \in SUBSET DOMAIN row
      BY DEF Outside
    <3>2. LabelsOf(row, Outside(row, i, j)) \in SUBSET LabelRecord
      BY <3>1, <1>2, LabelsWithin
    <3>3. L \subseteq LabelRecord
      BY <1>7, MembersAre DEF L
    <3> QED BY <3>2, <3>3, <1>16
  <2> QED BY <2>1, <2>2, <1>4 DEF State
<1>18. Held(u, t)
  BY <1>11, <1>15, <1>16, <1>17 DEF Held
<1>19. i \in DOMAIN r /\ r[i] = g
  <2> DEFINE n == Len(row)
  <2>1. /\ r \in Seq(Part) /\ Len(r) = Len(row) + Len(new) - (j - i)
        /\ (\A m \in 1..Len(new) : r[i - 1 + m] = new[m])
    <3>1. row \in Seq(Part) /\ new \in Seq(Part) /\ i \in 1..Len(row) + 1 /\ j \in i..Len(row) + 1
      BY <1>2, <1>5, <1>11
    <3>2. LET z == Splice(row, i, j, new)
          IN  /\ z \in Seq(Part) /\ Len(z) = Len(row) + Len(new) - (j - i)
              /\ \A k \in 1..i - 1 : z[k] = row[k]
              /\ \A m \in 1..Len(new) : z[i - 1 + m] = new[m]
              /\ \A k \in j..Len(row) : z[k + Len(new) - (j - i)] = row[k]
      BY <3>1, SpliceAt
    <3> QED BY <3>2, <1>4
  <2>2. r[i - 1 + 1] = new[1]
    <3>1. 1 \in 1..Len(new)
      BY <1>11
    <3> QED BY <3>1, <2>1
  <2>3. i - 1 + 1 = i
    BY <1>5
  <2>4. i \in 1..Len(r)
    <3>1. n \in Nat /\ Len(r) = n + 1 - (j - i) /\ i \in 1..n /\ j \in i + 1..n + 1
      BY <2>1, <1>2, <1>5, <1>11
    <3> HIDE DEF n
    <3> QED BY <3>1
  <2> QED BY <2>1, <2>2, <2>3, <2>4, <1>11
<1>20. \A l \in u.labelsById : \E o \in s.labelsById : l.id = o.id
  <2>1. ASSUME NEW l \in u.labelsById PROVE \E o \in s.labelsById : l.id = o.id
    <3>1. CASE l \in LabelsOf(row, Outside(row, i, j))
      BY <3>1, <1>2 DEF LabelsOf, Outside
    <3>2. CASE l \in L
      <4>1. PICK o \in K : l.id = o.id
        BY <3>2, <1>7
      <4>2. o \in LabelsOf(row, DOMAIN row)
        <5>1. i..j - 1 \subseteq DOMAIN row
          BY <1>2, <1>5
        <5> QED BY <5>1 DEF K, LabelsOf
      <4> QED BY <4>1, <4>2, <1>2
    <3> QED BY <3>1, <3>2, <1>16, <1>17
  <2> QED BY <2>1
<1>21. /\ u \in State /\ Held(u, t) /\ u.text = s.text /\ u.threw = s.threw
       /\ i \in DOMAIN u.segments /\ u.segments[i].start = s.segments[i].start
       /\ u.segments[i].start + Len(u.segments[i].text) = Edge(s.segments, j)
       /\ \A l \in u.labelsById : \E o \in s.labelsById : l.id = o.id
  BY <1>2, <1>7, <1>8, <1>10, <1>17, <1>18, <1>19, <1>20
<1>22. Seen(u) = Seen(s)
  <2>1. SeenIn(row, DOMAIN row) = SeenIn(row, 1..i - 1) \cup SeenIn(row, i..j - 1) \cup SeenIn(row, j..Len(row))
    BY <1>2, <1>5, SeenParts
  <2>2. LET z == Splice(row, i, j, new)
        IN  SeenIn(z, DOMAIN z) =
              SeenIn(row, 1..i - 1) \cup SeenIn(new, DOMAIN new) \cup SeenIn(row, j..Len(row))
    <3>1. t \in Seq(Char) /\ Tiled(row, t) /\ new \in Seq(Part) /\ i \in 1..Len(row) + 1 /\ j \in i..Len(row) + 1
      BY <1>2, <1>5, <1>11
    <3> QED BY <3>1, SeenSplice
  <2>3. SeenIn(new, DOMAIN new) = AllMoved(L, e)
    BY <1>4, <1>10, SeenSingle DEF L
  <2>4. u.segments = r
    BY <1>17
  <2>5. Seen(u) = SeenIn(row, 1..i - 1) \cup AllMoved(L, e) \cup SeenIn(row, j..Len(row))
    BY <2>2, <2>3, <2>4, <1>4 DEF Seen
  <2>6. Seen(s) = SeenIn(row, DOMAIN row)
    BY <1>2 DEF Seen
  <2> QED BY <2>1, <2>5, <2>6, <1>7
<1> QED BY <1>1, <1>21, <1>22

\* addLabel keeps the manager whole.
LEMMA AddHeld ==
  ASSUME NEW s \in State, NEW t \in Seq(Char), Held(s, t), NEW id \in Label, NEW lo \in Nat, NEW hi \in Nat,
         lo < hi, hi <= Len(t), \A o \in s.labelsById : o.id # id
  PROVE  LET u == Added(s, id, lo, hi)
         IN  /\ u \in State /\ Held(u, t) /\ u.text = s.text /\ u.threw = s.threw
             /\ Seen(u) = Seen(s) \cup {[id |-> id, lo |-> lo, hi |-> hi]}
<1> DEFINE i   == First(s.segments, lo)
           j   == Behind(s.segments, hi)
           one == mergeSegments(s, i, j)
           row == one.segments
           g   == row[i]
           x   == [id |-> id, lo |-> lo, hi |-> hi]
           l   == By(x, 0 - g.start)
           ls  == Append(g.labels, l)
           r   == [row EXCEPT ![i].labels = ls]
           ix  == one.labelsById \cup {l}
           u   == [one EXCEPT !.labelsById = ix, !.segments = r]
<1>1. Added(s, id, lo, hi) = [one EXCEPT !.labelsById = @ \cup {l}, !.segments[i].labels = Append(@, l)]
  BY DEF Added
<1>2. s.segments \in Seq(Part) /\ Tiled(s.segments, t)
  BY StateIs DEF Held
<1>3. i = First(s.segments, lo) /\ j = Behind(s.segments, hi) /\ one = mergeSegments(s, i, j)
  OBVIOUS
<1>4. row = one.segments /\ g = row[i] /\ x = [id |-> id, lo |-> lo, hi |-> hi] /\ l = By(x, 0 - g.start)
      /\ ls = Append(g.labels, l) /\ r = [row EXCEPT ![i].labels = ls] /\ ix = one.labelsById \cup {l}
      /\ u = [one EXCEPT !.labelsById = ix, !.segments = r]
  OBVIOUS
<1> HIDE DEF i, j, one
<1>5. /\ i \in 1..Len(s.segments) /\ j \in i + 1..Len(s.segments) + 1
      /\ Edge(s.segments, i) <= lo /\ lo < Edge(s.segments, i + 1)
      /\ Edge(s.segments, j - 1) < hi /\ hi <= Edge(s.segments, j)
  BY <1>2, <1>3, Touched
<1>6. /\ one \in State /\ Held(one, t) /\ one.text = s.text /\ one.threw = s.threw
      /\ i \in DOMAIN one.segments /\ one.segments[i].start = s.segments[i].start
      /\ one.segments[i].start + Len(one.segments[i].text) = Edge(s.segments, j)
      /\ \A y \in one.labelsById : \E o \in s.labelsById : y.id = o.id
      /\ Seen(one) = Seen(s)
  <2>1. i \in DOMAIN s.segments
    BY <1>2, <1>5
  <2>2. LET z == mergeSegments(s, i, j)
        IN  /\ z \in State /\ Held(z, t) /\ z.text = s.text /\ z.threw = s.threw
            /\ i \in DOMAIN z.segments /\ z.segments[i].start = s.segments[i].start
            /\ z.segments[i].start + Len(z.segments[i].text) = Edge(s.segments, j)
            /\ \A y \in z.labelsById : \E o \in s.labelsById : y.id = o.id
            /\ Seen(z) = Seen(s)
    BY <2>1, <1>5, MergeHeld
  <2> QED BY <2>2, <1>3
<1>7. /\ row \in Seq(Part) /\ Tiled(row, t) /\ Placed(row) /\ one.labelsById = LabelsOf(row, DOMAIN row)
      /\ one.labelsById \in SUBSET LabelRecord /\ i \in DOMAIN row /\ i \in 1..Len(row)
  BY <1>6, StateIs DEF Held
<1>8. Added(s, id, lo, hi) = u
  <2>1. one.segments \in Seq(Part) /\ g.labels \in Seq(LabelRecord) /\ i \in DOMAIN one.segments
    BY <1>7, Tile
  <2> HIDE DEF l
  <2>2. [one EXCEPT !.labelsById = @ \cup {l}, !.segments[i].labels = Append(@, l)] = u
    BY <2>1, <1>6 DEF State
  <2> QED BY <2>2, <1>1
<1> HIDE DEF row, g, x, l, ls, r, ix, u
<1>9. /\ g \in Part /\ g.start \in Nat /\ Len(g.text) \in Nat /\ g.labels \in Seq(LabelRecord) /\ Whole(g)
  BY <1>4, <1>7, Tile
<1>10. g.start <= lo /\ hi <= g.start + Len(g.text)
  <2>1. s.segments[i].start = Edge(s.segments, i)
    BY <1>2, <1>5, Tile
  <2> QED BY <2>1, <1>4, <1>5, <1>6
<1>11. l \in LabelRecord /\ l.id = id /\ l.lo < l.hi /\ l.hi <= Len(g.text)
  <2> DEFINE p == g.start
             d == 0 - g.start
             n == Len(g.text)
  <2>1. x \in LabelRecord /\ x.id = id /\ x.lo = lo /\ x.hi = hi
    BY <1>4 DEF LabelRecord
  <2>2. p \in Nat /\ d = 0 - p /\ p <= lo /\ hi <= p + n /\ n \in Nat /\ l = By(x, d)
    BY <1>4, <1>9, <1>10
  <2> HIDE DEF p, d, n
  <2>3. d \in Int /\ lo + d \in Nat /\ hi + d \in Nat
    BY <2>2
  <2>4. lo + d < hi + d
    BY <2>2
  <2>5. hi + d <= n
    BY <2>2
  <2>6. l.id = id /\ l.lo = lo + d /\ l.hi = hi + d /\ l \in LabelRecord
    BY <2>1, <2>2, <2>3, ByIs
  <2> QED BY <2>4, <2>5, <2>6 DEF n
<1>12. ls \in Seq(LabelRecord) /\ ToSet(ls) = ToSet(g.labels) \cup {l}
  BY <1>4, <1>9, <1>11, AppendedAre
<1>13. \A o \in one.labelsById : o.id # id
  BY <1>6
<1>14. ToSet(g.labels) \subseteq one.labelsById
  BY <1>4, <1>7 DEF LabelsOf
<1>15. \A o \in ToSet(ls) : o.lo < o.hi /\ o.hi <= Len(row[i].text)
  BY <1>4, <1>9, <1>11, <1>12 DEF Whole
<1>16. \A o, y \in ToSet(ls) : o.id = y.id => o = y
  <2>1. \A o, y \in ToSet(g.labels) : o.id = y.id => o = y
    <3>1. \A o, y \in ToSet(row[i].labels) : o.id = y.id => (i = i /\ o = y)
      BY <1>7, Zenon DEF Placed
    <3> QED BY <3>1, <1>4
  <2> QED BY <2>1, <1>11, <1>12, <1>13, <1>14
<1>17. \A k \in Outside(row, i, i + 1) : \A o \in ToSet(ls), y \in ToSet(row[k].labels) : o.id # y.id
  <2> SUFFICES ASSUME NEW k \in Outside(row, i, i + 1), NEW o \in ToSet(ls), NEW y \in ToSet(row[k].labels), o.id = y.id
               PROVE  FALSE
    OBVIOUS
  <2>1. k \in DOMAIN row /\ k # i
    BY <1>7 DEF Outside
  <2>2. y \in one.labelsById
    BY <2>1, <1>7 DEF LabelsOf
  <2>3. o # l
    BY <2>2, <1>11, <1>13
  <2>4. o \in ToSet(row[i].labels)
    BY <2>3, <1>4, <1>12
  <2> QED BY <2>1, <2>4, <1>7 DEF Placed
<1>18. /\ r \in Seq(Part) /\ DOMAIN r = DOMAIN row /\ Tiled(r, t) /\ Placed(r)
       /\ LabelsOf(r, DOMAIN r) = LabelsOf(row, Outside(row, i, i + 1)) \cup ToSet(ls)
  <2>1. LET z == [row EXCEPT ![i].labels = ls]
        IN  /\ z \in Seq(Part) /\ DOMAIN z = DOMAIN row /\ Tiled(z, t) /\ Placed(z)
            /\ z[i] = [row[i] EXCEPT !.labels = ls]
            /\ LabelsOf(z, DOMAIN z) = LabelsOf(row, Outside(row, i, i + 1)) \cup ToSet(ls)
    BY <1>7, <1>12, <1>15, <1>16, <1>17, Relabelling
  <2> QED BY <2>1, <1>4
<1>19. LabelsOf(r, DOMAIN r) = ix
  <2>1. DOMAIN row = Outside(row, i, i + 1) \cup {i}
    <3>1. i \in Nat
      BY <1>7
    <3>2. i..(i + 1) - 1 = {i}
      BY <3>1, OneInside
    <3> QED BY <3>2, <1>7 DEF Outside
  <2>2. LabelsOf(row, DOMAIN row) = LabelsOf(row, Outside(row, i, i + 1)) \cup ToSet(row[i].labels)
    BY <2>1 DEF LabelsOf
  <2> DEFINE A == LabelsOf(row, Outside(row, i, i + 1))
             B == ToSet(g.labels)
  <2>3. /\ one.labelsById = A \cup B /\ LabelsOf(r, DOMAIN r) = A \cup ToSet(ls) /\ ToSet(ls) = B \cup {l}
        /\ ix = one.labelsById \cup {l}
    BY <2>2, <1>4, <1>7, <1>12, <1>18
  <2> HIDE DEF A, B
  <2> QED BY <2>3
<1>20. u.text = s.text /\ u.segments = r /\ u.labelsById = ix /\ u.threw = s.threw /\ u \in State
  <2>1. ix \in SUBSET LabelRecord
    BY <1>4, <1>7, <1>11
  <2>2. r \in Seq(Part)
    BY <1>18
  <2>3. one \in State /\ one.text = s.text /\ one.threw = s.threw
    BY <1>6
  <2>4. u = [one EXCEPT !.labelsById = ix, !.segments = r]
    BY <1>4
  <2> QED BY <2>1, <2>2, <2>3, <2>4 DEF State
<1>21. Held(u, t)
  BY <1>18, <1>19, <1>20 DEF Held
<1>22. By(l, g.start) = x
  <2> DEFINE p == g.start
             d == 0 - g.start
             R == [id : Label, lo : Int, hi : Int]
  <2>1. x \in LabelRecord
    BY <1>4 DEF LabelRecord
  <2>2. l = By(x, d)
    BY <1>4
  <2>3. d \in Int /\ p \in Int /\ d + p = 0
    BY <1>9
  <2> HIDE DEF p, d
  <2>4. By(By(x, d), p) = By(x, d + p) /\ By(x, 0) = x
    BY <2>1, <2>3, ByTwice
  <2> QED BY <2>2, <2>3, <2>4 DEF p
<1>23. Seen(u) = Seen(s) \cup {x}
  <2> DEFINE B == SeenIn(row, 1..i - 1)
             A == SeenIn(row, i + 1..Len(row))
             p == g.start
             G == ToSet(g.labels)
  <2>1. SeenIn(row, DOMAIN row) = B \cup AllMoved(G, p) \cup A
    BY <1>4, <1>7, SeenAround
  <2>2. LET z == [row EXCEPT ![i].labels = ls]
        IN  SeenIn(z, DOMAIN z) = B \cup AllMoved(ToSet(ls), row[i].start) \cup A
    BY <1>7, SeenRelabelled
  <2>3. AllMoved(ToSet(ls), p) = AllMoved(G, p) \cup {x}
    <3>1. By(l, p) = x
      BY <1>22
    <3> HIDE DEF p, G
    <3> QED BY <3>1, <1>12 DEF AllMoved, G
  <2> QED BY <2>1, <2>2, <2>3, <1>4, <1>6, <1>20 DEF Seen
<1> QED BY <1>4, <1>8, <1>20, <1>21, <1>23

------------------------------------------------------------------------------
(* removeLabel splits the label's segment where text is left uncovered.     *)

\* By a key and, where keys agree, by place.
LEMMA KeyOrders ==
  ASSUME NEW D, IsFiniteSet(D), D \subseteq Int, NEW v, \A x \in D : v[x] \in Int, NEW R,
         \A x, y \in D : <<x, y>> \in R <=> (v[x] < v[y] \/ (v[x] = v[y] /\ x < y))
  PROVE  Orders(R, D)
<1>1. ASSUME NEW x \in D, NEW y \in D PROVE x = y \/ <<x, y>> \in R \/ <<y, x>> \in R
  <2>1. x \in Int /\ y \in Int /\ v[x] \in Int /\ v[y] \in Int
    OBVIOUS
  <2>2. x = y \/ (v[x] < v[y] \/ (v[x] = v[y] /\ x < y)) \/ (v[y] < v[x] \/ (v[y] = v[x] /\ y < x))
    BY <2>1
  <2> QED BY <2>2
<1>2. ASSUME NEW x \in D, NEW y \in D, NEW z \in D, <<x, y>> \in R, <<y, z>> \in R PROVE <<x, z>> \in R
  <2>1. x \in Int /\ y \in Int /\ z \in Int /\ v[x] \in Int /\ v[y] \in Int /\ v[z] \in Int
    OBVIOUS
  <2>2. (v[x] < v[y] \/ (v[x] = v[y] /\ x < y)) /\ (v[y] < v[z] \/ (v[y] = v[z] /\ y < z))
    BY <1>2
  <2>3. v[x] < v[z] \/ (v[x] = v[z] /\ x < z)
    BY <2>1, <2>2
  <2> QED BY <2>3
<1>3. ASSUME NEW x \in D, <<x, x>> \in R PROVE FALSE
  <2>1. v[x] < v[x] \/ (v[x] = v[x] /\ x < x)
    BY <1>3
  <2>2. x \in Int /\ v[x] \in Int
    OBVIOUS
  <2> QED BY <2>1, <2>2
<1> QED BY <1>1, <1>2, <1>3 DEF Orders

\* h is the function that getUncoveredSubintervals defines, up to m.
Walking(h, x, parts, m) ==
  h = [n \in 0..m |-> IF n = 0 THEN [cursor |-> x.hi, free |-> <<>>] ELSE Walked(h[n - 1], parts[n])]

LEMMA WalkingIs ==
  ASSUME NEW x, NEW parts, NEW m \in Nat
  PROVE  \E h : Walking(h, x, parts, m)
<1> DEFINE T == {n \in 0..m : \E h : Walking(h, x, parts, n)}
           e == [cursor |-> x.hi, free |-> <<>>]
<1>1. 0 \in T
  <2> DEFINE h == [n \in 0..0 |-> e]
  <2>1. h = [n \in 0..0 |-> IF n = 0 THEN e ELSE Walked(h[n - 1], parts[n])]
    OBVIOUS
  <2>2. Walking(h, x, parts, 0)
    BY <2>1 DEF Walking
  <2> QED BY <2>2
<1>2. ASSUME NEW n \in 0 + 1..m, n - 1 \in T PROVE n \in T
  <2>1. PICK h : Walking(h, x, parts, n - 1)
    BY <1>2
  <2> DEFINE B(f, k) == Walked(f[k - 1], parts[k])
             f == [k \in 0..n |-> IF k = n THEN B(h, n) ELSE h[k]]
  <2>2. h = [k \in 0..n - 1 |-> IF k = 0 THEN e ELSE B(h, k)]
    BY <2>1 DEF Walking
  <2>3. n # 0 /\ n \in 0..n /\ n \in 0..m
    OBVIOUS
  <2>4. ASSUME NEW k \in 0..n PROVE f[k] = IF k = 0 THEN e ELSE B(f, k)
    <3>1. CASE k = 0
      <4>1. k \in 0..n - 1 /\ k # n
        BY <3>1
      <4>2. h[k] = e
        BY <4>1, <3>1, <2>2
      <4> QED BY <4>1, <4>2, <3>1
    <3>2. CASE k # 0
      <4>1. k - 1 \in 0..n - 1 /\ k - 1 \in 0..n /\ k - 1 # n
        BY <3>2
      <4>2. f[k - 1] = h[k - 1]
        BY <4>1
      <4>3. B(f, k) = B(h, k)
        BY <4>2
      <4>4. CASE k = n
        BY <4>3, <4>4, <3>2
      <4>5. CASE k # n
        <5>1. k \in 0..n - 1
          BY <4>5
        <5>2. h[k] = B(h, k)
          BY <5>1, <3>2, <2>2
        <5> QED BY <5>2, <4>3, <4>5, <3>2
      <4> QED BY <4>4, <4>5
    <3> QED BY <3>1, <3>2
  <2> HIDE DEF B
  <2>5. f = [k \in 0..n |-> f[k]]
    OBVIOUS
  <2> HIDE DEF f
  <2>6. f = [k \in 0..n |-> IF k = 0 THEN e ELSE B(f, k)]
    BY <2>4, <2>5
  <2>7. Walking(f, x, parts, n)
    BY <2>6 DEF Walking, B
  <2> QED BY <2>3, <2>7
<1> HIDE DEF T
<1>3. \A n \in 0..m : n \in T
  BY <1>1, <1>2, Climbs
<1> QED BY <1>3 DEF T

\* What the labels ls cover of label x.
Clips(x, ls) == {Clip(x, l) : l \in {o \in ToSet(ls) : Clip(x, o).lo < Clip(x, o).hi}}

LEMMA ClipIs ==
  ASSUME NEW x \in LabelRecord, NEW l \in LabelRecord
  PROVE  LET p == Clip(x, l)
         IN  /\ p.lo \in Nat /\ p.hi \in Nat /\ x.lo <= p.lo /\ p.hi <= x.hi
             /\ (x.lo < p.lo => p.lo = l.lo) /\ (p.hi < x.hi => p.hi = l.hi)
             /\ l.lo < x.lo /\ x.lo < l.hi /\ x.lo < x.hi => p.lo = x.lo /\ x.lo < p.hi
<1>1. x.lo \in Nat /\ x.hi \in Nat /\ l.lo \in Nat /\ l.hi \in Nat
  BY DEF LabelRecord
<1> DEFINE p == Clip(x, l)
<1>2. /\ p.lo = IF l.lo > x.lo THEN l.lo ELSE x.lo
      /\ p.hi = IF l.hi < x.hi THEN l.hi ELSE x.hi
  BY DEF Clip
<1> HIDE DEF p
<1>3. /\ p.lo \in Nat /\ p.hi \in Nat /\ x.lo <= p.lo /\ p.hi <= x.hi
      /\ (x.lo < p.lo => p.lo = l.lo) /\ (p.hi < x.hi => p.hi = l.hi)
      /\ l.lo < x.lo /\ x.lo < l.hi /\ x.lo < x.hi => p.lo = x.lo /\ x.lo < p.hi
  BY <1>1, <1>2
<1> QED BY <1>3 DEF p

LEMMA CoveredAre ==
  ASSUME NEW x \in LabelRecord, NEW ls \in Seq(LabelRecord)
  PROVE  LET q == Covered(x, ls)
         IN  /\ Len(q) \in Nat
             /\ \A n \in 1..Len(q) : q[n] \in Clips(x, ls)
             /\ \A p \in Clips(x, ls) : \E n \in 1..Len(q) : q[n] = p
<1> DEFINE part   == [i \in DOMAIN ls |-> Clip(x, ls[i])]
           inside == {i \in DOMAIN ls : part[i].lo < part[i].hi}
           R      == {p \in inside \X inside :
                        \/ part[p[1]].lo > part[p[2]].lo
                        \/ part[p[1]].lo = part[p[2]].lo /\ p[1] < p[2]}
           order  == Ordered(inside, R)
           c      == Cardinality(inside)
<1>1. Covered(x, ls) = [n \in 1..c |-> part[order[n]]]
  BY DEF Covered
<1>2. x.lo \in Nat /\ x.hi \in Nat
  BY DEF LabelRecord
<1>3. ASSUME NEW i \in DOMAIN ls PROVE part[i].lo \in Nat /\ part[i].hi \in Nat
  <2>0. ls[i] \in LabelRecord
    OBVIOUS
  <2>1. ls[i].lo \in Nat /\ ls[i].hi \in Nat
    BY <2>0 DEF LabelRecord
  <2>2. part[i] = Clip(x, ls[i])
    OBVIOUS
  <2> HIDE DEF part
  <2> QED BY <2>1, <2>2, <1>2 DEF Clip
<1>11. \A i \in DOMAIN ls : part[i] = Clip(x, ls[i])
  OBVIOUS
<1> HIDE DEF part
<1>4. inside \in SUBSET DOMAIN ls
  OBVIOUS
<1>12. Clips(x, ls) = {part[i] : i \in inside}
  BY <1>11 DEF Clips, ToSet
<1> HIDE DEF inside
<1>5. \A a, b \in inside : <<a, b>> \in R <=> (part[a].lo > part[b].lo \/ (part[a].lo = part[b].lo /\ a < b))
  <2> SUFFICES ASSUME NEW a \in inside, NEW b \in inside
               PROVE  <<a, b>> \in R <=> (part[a].lo > part[b].lo \/ (part[a].lo = part[b].lo /\ a < b))
    OBVIOUS
  <2> DEFINE z == <<a, b>>
             P(y) == part[y[1]].lo > part[y[2]].lo \/ (part[y[1]].lo = part[y[2]].lo /\ y[1] < y[2])
  <2>1. z \in inside \X inside /\ z[1] = a /\ z[2] = b
    OBVIOUS
  <2>2. P(z) <=> (part[a].lo > part[b].lo \/ (part[a].lo = part[b].lo /\ a < b))
    BY <2>1, Zenon
  <2>3. R = {y \in inside \X inside : P(y)}
    BY Zenon
  <2> HIDE DEF z, P, R
  <2>4. z \in R <=> P(z)
    BY <2>1, <2>3
  <2> QED BY <2>2, <2>4 DEF z
<1> HIDE DEF R
<1>6. Orders(R, inside)
  <2> DEFINE v == [a \in inside |-> 0 - part[a].lo]
  <2>1. IsFiniteSet(inside) /\ inside \subseteq Int
    <3>1. DOMAIN ls = 1..Len(ls)
      OBVIOUS
    <3>2. IsFiniteSet(1..Len(ls))
      BY FS_Interval
    <3>3. IsFiniteSet(inside)
      BY <3>1, <3>2, <1>4, FS_Subset
    <3> QED BY <3>1, <3>3, <1>4
  <2>2. \A a \in inside : v[a] \in Int /\ v[a] = 0 - part[a].lo
    <3> SUFFICES ASSUME NEW a \in inside PROVE v[a] \in Int /\ v[a] = 0 - part[a].lo
      OBVIOUS
    <3>1. part[a].lo \in Nat
      BY <1>3, <1>4
    <3> QED BY <3>1
  <2> HIDE DEF v
  <2>3. \A a, b \in inside : <<a, b>> \in R <=> (v[a] < v[b] \/ (v[a] = v[b] /\ a < b))
    <3> SUFFICES ASSUME NEW a \in inside, NEW b \in inside
                 PROVE  <<a, b>> \in R <=> (v[a] < v[b] \/ (v[a] = v[b] /\ a < b))
      OBVIOUS
    <3> DEFINE p == part[a].lo
               q == part[b].lo
    <3>1. p \in Nat /\ q \in Nat /\ v[a] = 0 - p /\ v[b] = 0 - q
      BY <1>3, <1>4, <2>2
    <3>2. <<a, b>> \in R <=> (p > q \/ (p = q /\ a < b))
      BY <1>5
    <3> HIDE DEF p, q
    <3>3. (p > q <=> v[a] < v[b]) /\ (p = q <=> v[a] = v[b])
      BY <3>1
    <3> QED BY <3>2, <3>3
  <2> QED BY <2>1, <2>2, <2>3, KeyOrders
<1>7. c \in Nat /\ order \in [1..c -> inside] /\ \A i \in inside : \E n \in 1..c : order[n] = i
  BY <1>6, OrderedIs
<1> HIDE DEF order, c
<1> DEFINE q == Covered(x, ls)
<1>8. Len(q) = c /\ \A n \in 1..c : q[n] = part[order[n]]
  BY <1>1, <1>7
<1> HIDE DEF q
<1>10. /\ Len(q) \in Nat /\ (\A n \in 1..Len(q) : q[n] \in Clips(x, ls))
       /\ \A p \in Clips(x, ls) : \E n \in 1..Len(q) : q[n] = p
  BY <1>7, <1>8, <1>12
<1> QED BY <1>10 DEF q

\* What the walk over the parts P of label x keeps: the cursor is where the
\* parts that it has met start, and behind it a part ends where text is free.
Trail(x, P, acc) ==
  /\ acc.cursor \in Nat /\ x.lo <= acc.cursor /\ acc.cursor <= x.hi /\ acc.free \in Seq(Nat)
  /\ \A m \in DOMAIN acc.free : \E p \in P : acc.free[m] = p.hi /\ p.hi < x.hi /\ acc.cursor <= p.lo
  /\ Len(acc.free) >= 2 => \E p \in P : x.lo < p.lo /\ p.hi < x.hi
Inside(x, P) == \A p \in P : /\ p.lo \in Nat /\ p.hi \in Nat
                             /\ x.lo <= p.lo /\ p.lo < p.hi /\ p.hi <= x.hi

LEMMA PrefixedIs ==
  ASSUME NEW a \in Nat, NEW q \in Seq(Nat)
  PROVE  LET r == <<a>> \o q
         IN  /\ r \in Seq(Nat) /\ Len(r) = Len(q) + 1 /\ r[1] = a
             /\ \A m \in DOMAIN r : m = 1 \/ (m - 1 \in DOMAIN q /\ r[m] = q[m - 1])
<1> DEFINE r == <<a>> \o q
<1>1. r \in Seq(Nat) /\ Len(r) = Len(q) + 1 /\ r[1] = a
  OBVIOUS
<1>2. ASSUME NEW m \in DOMAIN r, m # 1 PROVE m - 1 \in DOMAIN q /\ r[m] = q[m - 1]
  <2>1. m \in 1..Len(q) + 1 /\ Len(q) \in Nat
    BY <1>1
  <2>2. m - 1 \in 1..Len(q)
    BY <2>1, <1>2
  <2>3. r[m] = q[m - 1]
    BY <2>1, <2>2, <1>2
  <2> QED BY <2>2, <2>3
<1> QED BY <1>1, <1>2

LEMMA WalkStep ==
  ASSUME NEW x \in LabelRecord, NEW P, Inside(x, P), NEW acc, Trail(x, P, acc), NEW l \in P
  PROVE  LET z == Walked(acc, l)
         IN  Trail(x, P, z) /\ z.cursor <= l.lo /\ z.cursor <= acc.cursor
<1> DEFINE z == Walked(acc, l)
           f == acc.free
           c == acc.cursor
<1>1. /\ x.lo \in Nat /\ x.hi \in Nat /\ l.lo \in Nat /\ l.hi \in Nat /\ x.lo <= l.lo /\ l.lo < l.hi /\ l.hi <= x.hi
      /\ \A p \in P : p.lo \in Nat /\ p.hi \in Nat
  BY DEF LabelRecord, Inside
<1>2. /\ c \in Nat /\ x.lo <= c /\ c <= x.hi /\ f \in Seq(Nat)
      /\ \A m \in DOMAIN f : \E p \in P : f[m] = p.hi /\ p.hi < x.hi /\ c <= p.lo
      /\ Len(f) >= 2 => \E p \in P : x.lo < p.lo /\ p.hi < x.hi
  BY DEF Trail
<1>3. CASE l.lo >= c
  <2>1. z = acc
    BY <1>3 DEF Walked
  <2> QED BY <2>1, <1>1, <1>2, <1>3
<1>4. CASE ~(l.lo >= c)
  <2>1. z.cursor = l.lo /\ z.free = IF l.hi < c THEN <<l.hi>> \o f ELSE f
    BY <1>4 DEF Walked
  <2> HIDE DEF z, f, c
  <2>2. l.lo \in Nat /\ x.lo <= l.lo /\ l.lo <= x.hi /\ l.lo < c
    BY <1>1, <1>2, <1>4
  <2>3. \A m \in DOMAIN f : \E p \in P : f[m] = p.hi /\ p.hi < x.hi /\ l.lo <= p.lo /\ x.lo < p.lo
    <3> SUFFICES ASSUME NEW m \in DOMAIN f
                 PROVE  \E p \in P : f[m] = p.hi /\ p.hi < x.hi /\ l.lo <= p.lo /\ x.lo < p.lo
      OBVIOUS
    <3>1. PICK p \in P : f[m] = p.hi /\ p.hi < x.hi /\ c <= p.lo
      BY <1>2
    <3>2. p.lo \in Nat /\ p.hi \in Nat
      BY <1>1
    <3>3. l.lo <= p.lo /\ x.lo < p.lo
      BY <3>1, <3>2, <2>2, <1>1, <1>2
    <3> QED BY <3>1, <3>3
  <2>4. CASE ~(l.hi < c)
    <3>1. z.free = f
      BY <2>1, <2>4
    <3> QED BY <3>1, <2>1, <2>2, <2>3, <1>1, <1>2 DEF Trail, z, c
  <2>5. CASE l.hi < c
    <3> DEFINE r == <<l.hi>> \o f
    <3>1. z.free = r
      BY <2>1, <2>5
    <3>2. /\ r \in Seq(Nat) /\ Len(r) = Len(f) + 1 /\ r[1] = l.hi
          /\ \A m \in DOMAIN r : m = 1 \/ (m - 1 \in DOMAIN f /\ r[m] = f[m - 1])
      BY <1>1, <1>2, PrefixedIs
    <3> HIDE DEF r
    <3>3. ASSUME NEW m \in DOMAIN r
          PROVE  \E p \in P : r[m] = p.hi /\ p.hi < x.hi /\ l.lo <= p.lo
      <4>1. CASE m = 1
        <5>1. r[m] = l.hi /\ l.hi < x.hi /\ l.lo <= l.lo
          BY <4>1, <3>2, <2>5, <1>1, <1>2
        <5> QED BY <5>1
      <4>2. CASE m # 1
        BY <4>2, <3>2, <2>3
      <4> QED BY <4>1, <4>2
    <3>4. Len(r) >= 2 => \E p \in P : x.lo < p.lo /\ p.hi < x.hi
      <4> SUFFICES ASSUME Len(r) >= 2 PROVE \E p \in P : x.lo < p.lo /\ p.hi < x.hi
        OBVIOUS
      <4>1. 1 \in DOMAIN f
        BY <3>2, <1>2
      <4> QED BY <4>1, <2>3
    <3>5. Trail(x, P, z)
      BY <3>1, <3>2, <3>3, <3>4, <2>1, <2>2 DEF Trail
    <3> QED BY <3>5, <2>1, <2>2, <1>1, <1>2 DEF z, c
  <2> QED BY <2>4, <2>5
<1> QED BY <1>3, <1>4

\* The parts of a label that others leave free start at offsets in the segment.
\* There are two only if one of those others starts and ends inside the label.
LEMMA UncoveredAre ==
  ASSUME NEW x \in LabelRecord, x.lo < x.hi, NEW ls \in Seq(LabelRecord)
  PROVE  LET free == getUncoveredSubintervals(x, ls)
             L    == ToSet(ls)
         IN  /\ free \in Seq(Nat)
             /\ Len(free) >= 2 => \E k \in L : x.lo < k.lo /\ k.lo < k.hi /\ k.hi < x.hi
             /\ Len(free) = 1 =>
                  \/ free[1] = x.lo /\ \A o \in L : ~(o.lo < x.lo /\ x.lo < o.hi)
                  \/ \E k \in L : free[1] = k.hi /\ x.lo < k.hi /\ k.hi < x.hi
<1> DEFINE parts == Covered(x, ls)
           L     == ToSet(ls)
           P     == Clips(x, ls)
           c     == Len(parts)
           walk  == CHOOSE h : Walking(h, x, parts, c)
           last  == walk[c]
           free  == getUncoveredSubintervals(x, ls)
<1>1. free = IF x.lo < last.cursor THEN <<x.lo>> \o last.free ELSE last.free
  BY DEF getUncoveredSubintervals, Walking
<1>2. x.lo \in Nat /\ x.hi \in Nat /\ L \subseteq LabelRecord
  BY MembersAre DEF LabelRecord
<1>3. c \in Nat /\ (\A n \in 1..c : parts[n] \in P) /\ \A p \in P : \E n \in 1..c : parts[n] = p
  BY CoveredAre
<1>4. /\ Inside(x, P)
      /\ \A p \in P : \E l \in L : (x.lo < p.lo => p.lo = l.lo) /\ (p.hi < x.hi => p.hi = l.hi)
  <2> SUFFICES ASSUME NEW p \in P
               PROVE  /\ p.lo \in Nat /\ p.hi \in Nat /\ x.lo <= p.lo /\ p.lo < p.hi /\ p.hi <= x.hi
                      /\ \E l \in L : (x.lo < p.lo => p.lo = l.lo) /\ (p.hi < x.hi => p.hi = l.hi)
    BY DEF Inside
  <2>1. PICK l \in L : p = Clip(x, l) /\ p.lo < p.hi
    BY DEF Clips
  <2>2. l \in LabelRecord
    BY <1>2
  <2> QED BY <2>1, <2>2, ClipIs
<1>5. ASSUME NEW o \in L, o.lo < x.lo, x.lo < o.hi PROVE \E p \in P : p.lo = x.lo
  <2> DEFINE p == Clip(x, o)
  <2>1. o \in LabelRecord
    BY <1>2
  <2>2. p.lo = x.lo /\ x.lo < p.hi
    BY <2>1, <1>5, ClipIs
  <2>3. p \in P
    BY <2>2 DEF Clips
  <2> QED BY <2>2, <2>3
<1> HIDE DEF parts, c, P, L
<1>8. Walking(walk, x, parts, c)
  <2>1. \E h : Walking(h, x, parts, c)
    BY <1>3, WalkingIs
  <2> QED BY <2>1
<1> HIDE DEF walk
<1>9. walk = [n \in 0..c |-> IF n = 0 THEN [cursor |-> x.hi, free |-> <<>>] ELSE Walked(walk[n - 1], parts[n])]
  BY <1>8 DEF Walking
<1> DEFINE T == {n \in 0..c : Trail(x, P, walk[n]) /\ \A m \in 1..n : walk[n].cursor <= parts[m].lo}
<1>10. 0 \in T
  <2> DEFINE acc == walk[0]
  <2>1. acc = [cursor |-> x.hi, free |-> <<>>] /\ 0 \in 0..c
    BY <1>3, <1>9
  <2>2. acc.cursor = x.hi /\ acc.free \in Seq(Nat) /\ Len(acc.free) = 0 /\ DOMAIN acc.free = {}
    BY <2>1
  <2>3. x.lo <= x.hi /\ x.hi <= x.hi
    BY <1>2
  <2> HIDE DEF acc
  <2>4. Trail(x, P, acc)
    BY <2>2, <2>3, <1>2 DEF Trail
  <2>5. \A m \in 1..0 : FALSE
    OBVIOUS
  <2> QED BY <2>1, <2>4, <2>5 DEF acc
<1>11. ASSUME NEW n \in 0 + 1..c, n - 1 \in T PROVE n \in T
  <2> DEFINE acc == walk[n - 1]
             l   == parts[n]
             z   == Walked(acc, l)
  <2>1. n \in 0..c /\ n # 0 /\ n \in 1..c
    BY <1>3
  <2>2. walk[n] = z
    BY <2>1, <1>9
  <2>3. Trail(x, P, acc) /\ \A m \in 1..n - 1 : acc.cursor <= parts[m].lo
    BY <1>11
  <2>4. l \in P /\ l = parts[n]
    BY <2>1, <1>3
  <2> HIDE DEF acc, l
  <2>5. Trail(x, P, z) /\ z.cursor <= l.lo /\ z.cursor <= acc.cursor
    BY <2>3, <2>4, <1>4, WalkStep
  <2> HIDE DEF z
  <2>6. ASSUME NEW m \in 1..n PROVE z.cursor <= parts[m].lo
    <3>1. CASE m = n
      BY <3>1, <2>4, <2>5
    <3>2. CASE m # n
      <4>1. m \in 1..n - 1 /\ m \in 1..c
        BY <3>2, <1>3
      <4>2. parts[m].lo \in Nat /\ acc.cursor \in Nat /\ z.cursor \in Nat
        BY <4>1, <2>3, <2>5, <1>3, <1>4 DEF Trail, Inside
      <4>3. acc.cursor <= parts[m].lo
        BY <4>1, <2>3
      <4> QED BY <4>2, <4>3, <2>5
    <3> QED BY <3>1, <3>2
  <2> QED BY <2>1, <2>2, <2>5, <2>6
<1> HIDE DEF T
<1>12. \A n \in 0..c : n \in T
  <2>1. c \in Int /\ 0 \in Int /\ 0 <= c
    BY <1>3
  <2> QED BY <2>1, <1>10, <1>11, Climbs
<1>13. Trail(x, P, last) /\ \A p \in P : last.cursor <= p.lo
  <2>1. Trail(x, P, last) /\ \A m \in 1..c : last.cursor <= parts[m].lo
    BY <1>3, <1>12 DEF T
  <2> QED BY <2>1, <1>3
<1> HIDE DEF last, free
<1> DEFINE f == last.free
<1>14. /\ last.cursor \in Nat /\ f \in Seq(Nat)
       /\ \A m \in DOMAIN f : \E p \in P : f[m] = p.hi /\ p.hi < x.hi /\ last.cursor <= p.lo
       /\ Len(f) >= 2 => \E p \in P : x.lo < p.lo /\ p.hi < x.hi
  BY <1>13 DEF Trail
<1> HIDE DEF f
<1>15. ASSUME NEW p \in P, x.lo < p.lo, p.hi < x.hi
       PROVE  \E k \in L : x.lo < k.lo /\ k.lo < k.hi /\ k.hi < x.hi
  <2>1. p.lo < p.hi
    BY <1>4 DEF Inside
  <2>2. PICK k \in L : p.lo = k.lo /\ p.hi = k.hi
    BY <1>4, <1>15
  <2> QED BY <2>1, <2>2, <1>15
<1>16. CASE x.lo < last.cursor
  <2>1. free = <<x.lo>> \o f
    BY <1>1, <1>16 DEF f
  <2>2. free \in Seq(Nat) /\ Len(free) = Len(f) + 1 /\ free[1] = x.lo
    BY <2>1, <1>2, <1>14, PrefixedIs
  <2>3. Len(free) >= 2 => \E k \in L : x.lo < k.lo /\ k.lo < k.hi /\ k.hi < x.hi
    <3> SUFFICES ASSUME Len(free) >= 2 PROVE \E k \in L : x.lo < k.lo /\ k.lo < k.hi /\ k.hi < x.hi
      OBVIOUS
    <3>1. 1 \in DOMAIN f
      BY <2>2, <1>14
    <3>2. PICK p \in P : p.hi < x.hi /\ last.cursor <= p.lo
      BY <3>1, <1>14
    <3>3. p.lo \in Nat
      BY <1>4 DEF Inside
    <3>4. x.lo < p.lo
      BY <3>2, <3>3, <1>2, <1>14, <1>16
    <3> QED BY <3>2, <3>4, <1>15
  <2>4. \A o \in L : ~(o.lo < x.lo /\ x.lo < o.hi)
    <3> SUFFICES ASSUME NEW o \in L, o.lo < x.lo, x.lo < o.hi PROVE FALSE
      OBVIOUS
    <3>1. PICK p \in P : p.lo = x.lo
      BY <1>5
    <3>2. last.cursor <= x.lo
      BY <3>1, <1>13
    <3> QED BY <3>2, <1>2, <1>14, <1>16
  <2> QED BY <2>2, <2>3, <2>4 DEF free, L
<1>17. CASE ~(x.lo < last.cursor)
  <2>1. free = f
    BY <1>1, <1>17 DEF f
  <2>2. Len(free) >= 2 => \E k \in L : x.lo < k.lo /\ k.lo < k.hi /\ k.hi < x.hi
    BY <2>1, <1>14, <1>15
  <2>3. Len(free) = 1 => \E k \in L : free[1] = k.hi /\ x.lo < k.hi /\ k.hi < x.hi
    <3> SUFFICES ASSUME Len(free) = 1 PROVE \E k \in L : free[1] = k.hi /\ x.lo < k.hi /\ k.hi < x.hi
      OBVIOUS
    <3>1. 1 \in DOMAIN f
      BY <2>1, <1>14
    <3>2. PICK p \in P : f[1] = p.hi /\ p.hi < x.hi
      BY <3>1, <1>14
    <3>3. p.lo \in Nat /\ p.hi \in Nat /\ x.lo <= p.lo /\ p.lo < p.hi
      BY <1>4 DEF Inside
    <3>4. PICK k \in L : p.hi = k.hi
      BY <3>2, <1>4
    <3>5. x.lo < p.hi
      BY <3>3, <1>2
    <3> QED BY <3>2, <3>4, <3>5, <2>1
  <2> QED BY <2>1, <2>2, <2>3, <1>14 DEF free, L
<1> QED BY <1>16, <1>17

\* h is the function that removeLabel's splits define, up to m.
Cutting(h, s, i, free, m) ==
  h = [n \in 0..m |-> IF n = 0 THEN s ELSE splitSegment(h[n - 1], i, free[n])]

LEMMA CuttingIs ==
  ASSUME NEW s, NEW i, NEW free, NEW m \in Nat
  PROVE  \E h : Cutting(h, s, i, free, m)
<1> DEFINE T == {n \in 0..m : \E h : Cutting(h, s, i, free, n)}
           e == s
<1>1. 0 \in T
  <2> DEFINE h == [n \in 0..0 |-> e]
  <2>1. h = [n \in 0..0 |-> IF n = 0 THEN e ELSE splitSegment(h[n - 1], i, free[n])]
    OBVIOUS
  <2>2. Cutting(h, s, i, free, 0)
    BY <2>1 DEF Cutting
  <2> QED BY <2>2
<1>2. ASSUME NEW n \in 0 + 1..m, n - 1 \in T PROVE n \in T
  <2>1. PICK h : Cutting(h, s, i, free, n - 1)
    BY <1>2
  <2> DEFINE B(f, k) == splitSegment(f[k - 1], i, free[k])
             f == [k \in 0..n |-> IF k = n THEN B(h, n) ELSE h[k]]
  <2>2. h = [k \in 0..n - 1 |-> IF k = 0 THEN e ELSE B(h, k)]
    BY <2>1 DEF Cutting
  <2>3. n # 0 /\ n \in 0..n /\ n \in 0..m
    OBVIOUS
  <2>4. ASSUME NEW k \in 0..n PROVE f[k] = IF k = 0 THEN e ELSE B(f, k)
    <3>1. CASE k = 0
      <4>1. k \in 0..n - 1 /\ k # n
        BY <3>1
      <4>2. h[k] = e
        BY <4>1, <3>1, <2>2
      <4> QED BY <4>1, <4>2, <3>1
    <3>2. CASE k # 0
      <4>1. k - 1 \in 0..n - 1 /\ k - 1 \in 0..n /\ k - 1 # n
        BY <3>2
      <4>2. f[k - 1] = h[k - 1]
        BY <4>1
      <4>3. B(f, k) = B(h, k)
        BY <4>2
      <4>4. CASE k = n
        BY <4>3, <4>4, <3>2
      <4>5. CASE k # n
        <5>1. k \in 0..n - 1
          BY <4>5
        <5>2. h[k] = B(h, k)
          BY <5>1, <3>2, <2>2
        <5> QED BY <5>2, <4>3, <4>5, <3>2
      <4> QED BY <4>4, <4>5
    <3> QED BY <3>1, <3>2
  <2> HIDE DEF B
  <2>5. f = [k \in 0..n |-> f[k]]
    OBVIOUS
  <2> HIDE DEF f
  <2>6. f = [k \in 0..n |-> IF k = 0 THEN e ELSE B(f, k)]
    BY <2>4, <2>5
  <2>7. Cutting(f, s, i, free, n)
    BY <2>6 DEF Cutting, B
  <2> QED BY <2>3, <2>7
<1> HIDE DEF T
<1>3. \A n \in 0..m : n \in T
  BY <1>1, <1>2, Climbs
<1> QED BY <1>3 DEF T

LEMMA CutHeld ==
  ASSUME NEW s \in State, NEW t \in Seq(Char), Held(s, t), NEW i \in DOMAIN s.segments, NEW free \in Seq(Nat),
         NEW h, Cutting(h, s, i, free, Len(free))
  PROVE  LET u == h[Len(free)]
         IN  /\ u \in State /\ Held(u, t) /\ u.text = s.text
             /\ \A l \in u.labelsById : \E o \in s.labelsById : o.id = l.id
             /\ Seen(u) = Seen(s)
<1> DEFINE c == Len(free)
           A == {u \in State : /\ Held(u, t) /\ u.text = s.text /\ i \in DOMAIN u.segments
                               /\ \A l \in u.labelsById : \E o \in s.labelsById : o.id = l.id
                               /\ Seen(u) = Seen(s)}
           T == {n \in 0..c : h[n] \in A}
<1>1. h = [n \in 0..c |-> IF n = 0 THEN s ELSE splitSegment(h[n - 1], i, free[n])]
  BY DEF Cutting
<1>2. c \in Nat /\ \A n \in 1..c : free[n] \in Nat
  OBVIOUS
<1> HIDE DEF c
<1>3. 0 \in T
  <2>1. h[0] = s /\ 0 \in 0..c
    BY <1>1, <1>2
  <2>2. s \in A
    OBVIOUS
  <2> QED BY <2>1, <2>2
<1>4. ASSUME NEW n \in 0 + 1..c, n - 1 \in T PROVE n \in T
  <2> DEFINE v == h[n - 1]
             p == free[n]
             u == splitSegment(v, i, p)
  <2>1. n \in 0..c /\ n # 0 /\ n \in 1..c
    BY <1>2
  <2>2. h[n] = u
    BY <2>1, <1>1
  <2>3. /\ v \in State /\ Held(v, t) /\ v.text = s.text /\ i \in DOMAIN v.segments
        /\ \A l \in v.labelsById : \E o \in s.labelsById : o.id = l.id
        /\ Seen(v) = Seen(s)
    BY <1>4
  <2>4. p \in Nat
    BY <2>1, <1>2
  <2>5. u = splitSegment(v, i, p)
    OBVIOUS
  <2> HIDE DEF v, p, u
  <2>6. LET z == splitSegment(v, i, p)
        IN  /\ z \in State /\ Held(z, t) /\ z.text = v.text /\ i \in DOMAIN z.segments
            /\ \A l \in z.labelsById : \E o \in v.labelsById : o.id = l.id
    BY <2>3, <2>4, SplitHeld
  <2>7. \A l \in u.labelsById : \E o \in s.labelsById : o.id = l.id
    BY <2>3, <2>5, <2>6
  <2>9. Seen(u) = Seen(s)
    <3>1. Seen(splitSegment(v, i, p)) = Seen(v)
      BY <2>3, <2>4, SplitSeen
    <3> QED BY <3>1, <2>3, <2>5
  <2>8. u \in A
    BY <2>3, <2>5, <2>6, <2>7, <2>9
  <2> QED BY <2>1, <2>2, <2>8
<1> HIDE DEF T
<1>5. \A n \in 0..c : n \in T
  <2>1. c \in Int /\ 0 \in Int /\ 0 <= c
    BY <1>2
  <2> QED BY <2>1, <1>3, <1>4, Climbs
<1>6. h[c] \in A
  BY <1>2, <1>5 DEF T
<1> QED BY <1>6 DEF c

\* Label x may not be removed cleanly if another one ends inside it and starts
\* there too, or a third one covers that end.
Clash(S, x) ==
  \E k \in S \ {x} :
    /\ x.lo < k.hi /\ k.hi < x.hi
    /\ x.lo < k.lo \/ \E j \in S \ {k, x} : j.lo < k.hi /\ k.hi < j.hi

\* Labels of one segment that clash there clash in the text.
LEMMA ClashSeen ==
  ASSUME NEW row, NEW t, Tiled(row, t), NEW i \in DOMAIN row, NEW x \in ToSet(row[i].labels),
         NEW R \in SUBSET ToSet(row[i].labels), \A l \in R : l.id # x.id, Clash(R, x)
  PROVE  Clash(SeenIn(row, DOMAIN row), By(x, row[i].start))
<1> DEFINE n == row[i].start
           G == ToSet(row[i].labels)
           S == SeenIn(row, DOMAIN row)
           y == By(x, n)
<1>1. n \in Nat
  BY Tile
<1>2. \A l \in G : /\ l \in LabelRecord /\ By(l, n).id = l.id
                   /\ By(l, n).lo = n + l.lo /\ By(l, n).hi = n + l.hi
  BY SeenAt
<1>3. \A l \in G : l.lo \in Nat /\ l.hi \in Nat
  BY <1>2 DEF LabelRecord
<1>4. \A l \in G : By(l, n) \in S
  BY DEF SeenIn
<1>5. PICK k \in R : /\ x.lo < k.hi /\ k.hi < x.hi
                     /\ x.lo < k.lo \/ \E o \in R : o.lo < k.hi /\ k.hi < o.hi
  BY DEF Clash
<1> DEFINE z == By(k, n)
<1>6. x \in G /\ k \in G /\ k.id # x.id /\ R \subseteq G
  OBVIOUS
<1>7. /\ y.lo = n + x.lo /\ y.hi = n + x.hi /\ y.id = x.id
      /\ z.lo = n + k.lo /\ z.hi = n + k.hi /\ z.id = k.id /\ z \in S
  BY <1>2, <1>4, <1>6
<1> HIDE DEF n, S, y, z, G
<1>8. z \in S \ {y} /\ y.lo < z.hi /\ z.hi < y.hi /\ (x.lo < k.lo => y.lo < z.lo)
  <2>1. z # y
    BY <1>6, <1>7
  <2>2. x.lo \in Nat /\ x.hi \in Nat /\ k.lo \in Nat /\ k.hi \in Nat
    BY <1>3, <1>6
  <2>3. y.lo < z.hi /\ z.hi < y.hi /\ (x.lo < k.lo => y.lo < z.lo)
    <3> DEFINE a == x.lo
               b == x.hi
               c == k.lo
               d == k.hi
    <3>1. a < d /\ d < b
      BY <1>5
    <3>2. y.lo = n + a /\ y.hi = n + b /\ z.lo = n + c /\ z.hi = n + d
      BY <1>7
    <3>3. a \in Nat /\ b \in Nat /\ c \in Nat /\ d \in Nat
      BY <2>2
    <3> HIDE DEF a, b, c, d
    <3>4. y.lo < z.hi /\ z.hi < y.hi /\ (a < c => y.lo < z.lo)
      BY <3>1, <3>2, <3>3, <1>1
    <3> QED BY <3>4 DEF a, c
  <2> QED BY <2>1, <2>3, <1>7
<1>9. ASSUME NEW o \in R, o.lo < k.hi, k.hi < o.hi
      PROVE  \E j \in S \ {z, y} : j.lo < z.hi /\ z.hi < j.hi
  <2> DEFINE j == By(o, n)
  <2>1. o \in G /\ o.id # x.id
    BY <1>6
  <2>2. j \in S /\ j.id = o.id /\ j.lo = n + o.lo /\ j.hi = n + o.hi
    BY <2>1, <1>2, <1>4
  <2> HIDE DEF j
  <2>3. j # y
    BY <2>1, <2>2, <1>7
  <2>4. j.lo < z.hi /\ z.hi < j.hi
    BY <2>1, <2>2, <1>1, <1>3, <1>6, <1>7, <1>9
  <2>5. j # z
    <3>1. z.hi \in Nat
      BY <1>1, <1>3, <1>6, <1>7
    <3> QED BY <2>4, <3>1
  <2> QED BY <2>2, <2>3, <2>4, <2>5
<1>10. Clash(S, y)
  BY <1>5, <1>8, <1>9 DEF Clash
<1> QED BY <1>10 DEF S, y, n

\* removeLabel keeps the manager whole, takes the label of that id and no other,
\* and throws only where the labels clash.
LEMMA RemoveHeld ==
  ASSUME NEW s \in State, NEW t \in Seq(Char), Held(s, t), s.text = t, ~s.threw,
         NEW id, \E l \in s.labelsById : l.id = id
  PROVE  LET u == Removed(s, id)
         IN  /\ u \in State /\ Held(u, t) /\ u.text = t /\ \A l \in u.labelsById : l.id # id
             /\ Seen(u) = {y \in Seen(s) : y.id # id}
             /\ u.threw => \E y \in Seen(s) : y.id = id /\ Clash(Seen(s), y)
<1> DEFINE i    == CHOOSE k \in DOMAIN s.segments : id \in IdsOf(s.segments[k].labels)
           x    == CHOOSE l \in s.labelsById : l.id = id
           row  == s.segments
           ls   == row[i].labels
           D    == {n \in DOMAIN ls : ls[n].id # id}
           rest == Those(ls, D)
           free == getUncoveredSubintervals(x, rest)
           v    == Keep(s, i, rest)
           c    == Len(free)
           cut  == CHOOSE h : Cutting(h, v, i, free, c)
<1>1. Removed(s, id) = cut[c]
  BY DEF Removed, Cutting
<1>2. /\ row \in Seq(Part) /\ Tiled(row, t) /\ Placed(row) /\ s.labelsById = LabelsOf(row, DOMAIN row)
      /\ s.labelsById \in SUBSET LabelRecord
  BY StateIs DEF Held
<1>3. \A k \in DOMAIN row : row[k].labels \in Seq(LabelRecord)
  BY <1>2, Tile
<1>4. i \in DOMAIN row /\ id \in IdsOf(row[i].labels)
  <2>1. PICK l \in s.labelsById : l.id = id
    OBVIOUS
  <2>2. PICK k \in DOMAIN row : l \in ToSet(row[k].labels)
    BY <1>2 DEF LabelsOf
  <2>3. id \in IdsOf(row[k].labels)
    BY <2>1, <2>2, <1>3, IdsAre
  <2> QED BY <2>3
<1>5. x \in s.labelsById /\ x.id = id
  OBVIOUS
<1>6. v = Keep(s, i, rest) /\ row = s.segments /\ ls = row[i].labels
  OBVIOUS
<1>7. ls \in Seq(LabelRecord) /\ x \in LabelRecord
  BY <1>2, <1>3, <1>4, <1>5
<1> HIDE DEF i, x, row, ls
<1>8. D \in SUBSET DOMAIN ls
  OBVIOUS
<1>9. D = {n \in DOMAIN ls : ls[n].id # id}
  OBVIOUS
<1> HIDE DEF D
<1>10. rest \in Seq(LabelRecord) /\ ToSet(rest) = {ls[n] : n \in D}
  BY <1>7, <1>8, ThoseAre
<1> HIDE DEF rest, v
<1>11. ToSet(rest) \subseteq ToSet(ls)
  BY <1>8, <1>10 DEF ToSet
<1>12. id \notin IdsOf(rest)
  BY <1>9, <1>10, IdsAre
<1>13. /\ v \in State /\ Held(v, t) /\ v.text = s.text /\ v.threw = s.threw
       /\ v.segments[i].start = row[i].start /\ v.segments[i].text = row[i].text /\ v.segments[i].labels = rest
       /\ DOMAIN v.segments = DOMAIN row
       /\ \A l \in v.labelsById : l \in s.labelsById /\ l.id \notin IdsOf(row[i].labels) \ IdsOf(rest)
  <2>1. i \in DOMAIN s.segments /\ ToSet(rest) \subseteq ToSet(s.segments[i].labels)
    BY <1>4, <1>6, <1>11
  <2>2. LET z == Keep(s, i, rest)
        IN  /\ z \in State /\ Held(z, t) /\ z.text = s.text /\ z.threw = s.threw
            /\ DOMAIN z.segments = DOMAIN s.segments
            /\ z.segments[i].start = s.segments[i].start /\ z.segments[i].text = s.segments[i].text
            /\ z.segments[i].labels = rest
            /\ \A l \in z.labelsById : l \in s.labelsById /\ l.id \notin IdsOf(s.segments[i].labels) \ IdsOf(rest)
    BY <2>1, <1>10, Kept
  <2> QED BY <2>2, <1>6
<1>20. x \in ToSet(ls) /\ (\A k \in DOMAIN row : k # i => \A l \in ToSet(row[k].labels) : l.id # id)
  <2>1. PICK o \in ToSet(ls) : o.id = id
    BY <1>4, <1>6, <1>7, IdsAre
  <2>2. \A k \in DOMAIN row : \A l \in ToSet(row[k].labels) : l.id = o.id => (k = i /\ l = o)
    <3>1. Placed(row) /\ i \in DOMAIN row /\ o \in ToSet(row[i].labels)
      BY <2>1, <1>2, <1>4, <1>6
    <3> QED BY <3>1, Zenon DEF Placed
  <2>3. PICK k \in DOMAIN row : x \in ToSet(row[k].labels)
    BY <1>2, <1>5 DEF LabelsOf
  <2>4. x = o
    BY <2>1, <2>2, <2>3, <1>5
  <2> QED BY <2>1, <2>2, <2>4
<1>21. ToSet(rest) = {l \in ToSet(ls) : l.id # id}
  BY <1>9, <1>10 DEF ToSet
<1>22. Whole(row[i]) /\ x.lo < x.hi /\ x.hi <= Len(row[i].text)
  BY <1>2, <1>4, <1>6, <1>20, Tile DEF Whole
<1>14. /\ free \in Seq(Nat)
       /\ Len(free) >= 2 => \E k \in ToSet(rest) : x.lo < k.lo /\ k.lo < k.hi /\ k.hi < x.hi
       /\ Len(free) = 1 =>
            \/ free[1] = x.lo /\ \A o \in ToSet(rest) : ~(o.lo < x.lo /\ x.lo < o.hi)
            \/ \E k \in ToSet(rest) : free[1] = k.hi /\ x.lo < k.hi /\ k.hi < x.hi
  BY <1>7, <1>10, <1>22, UncoveredAre
<1>15. c \in Nat
  BY <1>14
<1>16. Cutting(cut, v, i, free, c)
  <2> HIDE DEF c, free
  <2>1. \E h : Cutting(h, v, i, free, c)
    BY <1>15, CuttingIs
  <2> QED BY <2>1
<1> HIDE DEF free, cut
<1> DEFINE u == cut[Len(free)]
<1>17. /\ u \in State /\ Held(u, t) /\ u.text = v.text
       /\ \A l \in u.labelsById : \E o \in v.labelsById : o.id = l.id
       /\ Seen(u) = Seen(v)
  <2>1. i \in DOMAIN v.segments
    BY <1>4, <1>13
  <2> QED BY <2>1, <1>13, <1>14, <1>16, CutHeld
<1>18. \A l \in u.labelsById : l.id # id
  BY <1>4, <1>12, <1>13, <1>17
<1>23. Seen(v) = {y \in Seen(s) : y.id # id}
  <2> DEFINE e == row[i].start
             B == SeenIn(row, 1..i - 1)
             A == SeenIn(row, i + 1..Len(row))
             G == ToSet(ls)
             R == ToSet(rest)
  <2>1. Seen(v) = B \cup AllMoved(R, e) \cup A
    BY <1>4, <1>6, KeepSeen
  <2>2. Seen(s) = B \cup AllMoved(G, e) \cup A
    BY <1>2, <1>4, <1>6, SeenAround DEF Seen
  <2>3. \A k \in DOMAIN row : \A l \in ToSet(row[k].labels) : By(l, row[k].start).id = l.id
    BY <1>2, SeenAt
  <2>4. \A y \in B \cup A : y.id # id
    <3>1. \A k \in (1..i - 1) \cup (i + 1..Len(row)) : k \in DOMAIN row /\ k # i
      BY <1>2, <1>4
    <3> DEFINE E == (1..i - 1) \cup (i + 1..Len(row))
    <3>2. \A k \in E : k \in DOMAIN row /\ k # i
      BY <3>1
    <3>3. B \cup A = SeenIn(row, E)
      <4> DEFINE C == 1..i - 1
                 F == i + 1..Len(row)
      <4> HIDE DEF C, F
      <4>1. SeenIn(row, C \cup F) = SeenIn(row, C) \cup SeenIn(row, F)
        BY SeenUnion
      <4> QED BY <4>1 DEF C, F
    <3> HIDE DEF E, A, B
    <3>4. ASSUME NEW y \in SeenIn(row, E) PROVE y.id # id
      <4>1. PICK k \in E : \E l \in ToSet(row[k].labels) : y = By(l, row[k].start)
        BY <3>4 DEF SeenIn
      <4>2. PICK l \in ToSet(row[k].labels) : y = By(l, row[k].start)
        BY <4>1
      <4>3. k \in DOMAIN row /\ k # i
        BY <3>2
      <4>4. y.id = l.id
        BY <4>2, <4>3, <2>3
      <4> QED BY <4>3, <4>4, <1>20
    <3> QED BY <3>3, <3>4
  <2>5. \A l \in G : By(l, e).id = l.id
    BY <2>3, <1>4, <1>6
  <2> HIDE DEF e, A, B, G
  <2>6. AllMoved(R, e) = {y \in AllMoved(G, e) : y.id # id}
    BY <2>5, <1>21 DEF AllMoved, G
  <2> QED BY <2>1, <2>2, <2>4, <2>6
<1>24. ASSUME u.threw PROVE Clash(ToSet(rest), x)
  <2>1. \A k \in ToSet(rest) : k # x
    BY <1>5, <1>21
  <2>2. CASE c >= 2
    <3>1. PICK k \in ToSet(rest) : x.lo < k.lo /\ k.lo < k.hi /\ k.hi < x.hi
      BY <2>2, <1>14
    <3>2. x.lo \in Nat /\ k.lo \in Nat /\ k.hi \in Nat
      BY <1>7, <1>10, MembersAre DEF LabelRecord
    <3>3. k # x /\ x.lo < k.hi
      BY <3>1, <3>2, <2>1
    <3> QED BY <3>1, <3>3 DEF Clash
  <2>3. CASE c = 0
    <3>1. cut[0] = v
      BY <2>3, <1>16 DEF Cutting
    <3> QED BY <3>1, <2>3, <1>13, <1>24
  <2>4. CASE c = 1
    <3> DEFINE p == free[1]
               g == v.segments[i]
    <3>1. u = splitSegment(v, i, p)
      <4> HIDE DEF u
      <4>1. cut = [n \in 0..1 |-> IF n = 0 THEN v ELSE splitSegment(cut[n - 1], i, free[n])]
        BY <2>4, <1>16 DEF Cutting
      <4>2. cut[0] = v /\ cut[1] = splitSegment(cut[0], i, free[1])
        BY <4>1
      <4> QED BY <4>2, <2>4 DEF u
    <3>2. p \in Nat /\ p <= Len(g.text)
      <4>1. p \in Nat
        <5>1. free \in Seq(Nat) /\ Len(free) = 1
          BY <2>4, <1>14
        <5>2. \A n \in 1..Len(free) : free[n] \in Nat
          <6>1. free \in Seq(Nat)
            BY <1>14
          <6> QED BY <6>1
        <5> QED BY <5>1, <5>2
      <4> DEFINE m == Len(row[i].text)
      <4>2. m \in Nat /\ m = Len(g.text) /\ x.hi <= m /\ x.lo < x.hi /\ x.lo \in Nat /\ x.hi \in Nat
        BY <1>2, <1>4, <1>7, <1>13, <1>22, Tile DEF LabelRecord
      <4> HIDE DEF m
      <4>3. p < x.hi
        <5>1. p = x.lo \/ \E k \in ToSet(rest) : p = k.hi /\ x.lo < k.hi /\ k.hi < x.hi
          BY <2>4, <1>14
        <5> QED BY <5>1, <4>2
      <4> QED BY <4>1, <4>2, <4>3
    <3>3. g.start < Len(v.text)
      <4> DEFINE y == By(x, row[i].start)
                 n == row[i].start
                 m == Len(t)
      <4>1. y.lo \in Nat /\ y.hi \in Nat /\ y.lo < y.hi /\ n <= y.lo /\ n \in Nat
        BY <1>2, <1>4, <1>6, <1>20, SeenAt, Tile
      <4>2. y \in SeenIn(row, DOMAIN row)
        BY <1>4, <1>6, <1>20 DEF SeenIn
      <4>3. y.hi <= m /\ m \in Nat
        BY <4>2, <1>2, SeenAll
      <4>4. g.start = n /\ Len(v.text) = m
        BY <1>13
      <4> HIDE DEF y, n, m
      <4> QED BY <4>1, <4>3, <4>4
    <3>4. ~validateSplit(g, p)
      <4> SUFFICES ASSUME validateSplit(g, p) PROVE FALSE
        OBVIOUS
      <4>1. ~(p > Len(g.text)) /\ ~(g.start >= Len(v.text))
        <5>1. g.start \in Nat /\ Len(v.text) \in Nat /\ Len(g.text) \in Nat
          BY <1>2, <1>4, <1>13, Tile
        <5> QED BY <5>1, <3>2, <3>3
      <4>2. u.threw = v.threw
        <5> HIDE DEF u
        <5>1. CASE v.threw \/ p \in {0, Len(g.text)}
          BY <5>1, <3>1 DEF splitSegment
        <5>2. CASE ~(v.threw \/ p \in {0, Len(g.text)})
          <6>1. u = [v EXCEPT !.labelsById = Reset(@, RightPart(g, p).labels),
                              !.segments = Splice(@, i, i + 1, <<LeftPart(g, p), RightPart(g, p)>>)]
            BY <5>2, <4>1, <3>1 DEF splitSegment
          <6> QED BY <6>1, <1>13 DEF State
        <5> QED BY <5>1, <5>2
      <4> QED BY <4>2, <1>13, <1>24
    <3>5. PICK o \in ToSet(rest) : o.lo < p /\ p < o.hi
      BY <3>4, <1>13 DEF validateSplit, ToSet
    <3>6. PICK k \in ToSet(rest) : p = k.hi /\ x.lo < k.hi /\ k.hi < x.hi
      BY <3>5, <2>4, <1>14
    <3>7. o # k
      <4>1. o.hi \in Nat /\ k.hi \in Nat
        BY <1>10, MembersAre DEF LabelRecord
      <4> QED BY <4>1, <3>5, <3>6
    <3> QED BY <3>5, <3>6, <3>7, <2>1 DEF Clash
  <2>5. c = 0 \/ c = 1 \/ c >= 2
    <3> HIDE DEF c
    <3> QED BY <1>15
  <2> QED BY <2>2, <2>3, <2>4, <2>5
<1>25. u.threw => \E y \in Seen(s) : y.id = id /\ Clash(Seen(s), y)
  <2> SUFFICES ASSUME u.threw PROVE \E y \in Seen(s) : y.id = id /\ Clash(Seen(s), y)
    OBVIOUS
  <2> DEFINE R == ToSet(rest)
             y == By(x, row[i].start)
  <2>1. Clash(R, x)
    BY <1>24
  <2>2. R \in SUBSET ToSet(row[i].labels) /\ (\A l \in R : l.id # x.id) /\ x \in ToSet(row[i].labels)
    BY <1>5, <1>6, <1>20, <1>21
  <2> HIDE DEF R
  <2>3. Clash(SeenIn(row, DOMAIN row), By(x, row[i].start))
    BY <2>1, <2>2, <1>2, <1>4, ClashSeen
  <2>4. y.id = id
    BY <2>2, <1>2, <1>4, <1>5, SeenAt
  <2>5. y \in SeenIn(row, DOMAIN row)
    <3>1. \A l \in ToSet(row[i].labels) : By(l, row[i].start) \in SeenIn(row, DOMAIN row)
      BY <1>4 DEF SeenIn
    <3> QED BY <3>1, <2>2
  <2> QED BY <2>3, <2>4, <2>5, <1>6 DEF Seen
<1> QED BY <1>1, <1>13, <1>17, <1>18, <1>23, <1>25

------------------------------------------------------------------------------
(* A chapter is opened.                                                     *)

\* A row covers t from its start up to e.
Begun(row, t, e) ==
  /\ row \in Seq(Part) /\ e \in Nat /\ e <= Len(t) /\ Edge(row, Len(row) + 1) = e
  /\ \A i \in DOMAIN row : Whole(row[i]) /\ row[i].start = Edge(row, i) /\ Shows(row[i], t)

\* A row up to a may go on with a segment up to b that has these labels.
MayGoOn(row, t, a, b, inside) ==
  /\ Begun(row, t, a) /\ Placed(row) /\ b \in Nat /\ a <= b /\ b <= Len(t)
  /\ inside \in Seq(LabelRecord)
  /\ \A l \in ToSet(inside) : l.lo < l.hi /\ l.hi <= b - a
  /\ \A l, o \in ToSet(inside) : l.id = o.id => l = o
  /\ \A l \in ToSet(inside), o \in LabelsOf(row, DOMAIN row) : l.id # o.id

LEMMA GoesOn ==
  ASSUME NEW t \in Seq(Char), NEW row, NEW a, NEW b, NEW inside, MayGoOn(row, t, a, b, inside)
  PROVE  LET r == row \o Stretch(t, a, b, inside)
         IN  /\ Begun(r, t, b) /\ Placed(r)
             /\ LabelsOf(r, DOMAIN r) = LabelsOf(row, DOMAIN row) \cup ToSet(inside)
<1> DEFINE r == row \o Stretch(t, a, b, inside)
<1> SUFFICES /\ Begun(r, t, b) /\ Placed(r)
             /\ LabelsOf(r, DOMAIN r) = LabelsOf(row, DOMAIN row) \cup ToSet(inside)
  OBVIOUS
<1>1. /\ row \in Seq(Part) /\ a \in Nat /\ Edge(row, Len(row) + 1) = a
      /\ (\A i \in DOMAIN row : Whole(row[i]) /\ row[i].start = Edge(row, i) /\ Shows(row[i], t))
      /\ Begun(row, t, a) /\ Placed(row) /\ b \in Nat /\ a <= b /\ b <= Len(t)
      /\ inside \in Seq(LabelRecord)
      /\ (\A l \in ToSet(inside) : l.lo < l.hi /\ l.hi <= b - a)
      /\ (\A l, o \in ToSet(inside) : l.id = o.id => l = o)
      /\ \A l \in ToSet(inside), o \in LabelsOf(row, DOMAIN row) : l.id # o.id
  BY DEF MayGoOn, Begun
<1>2. \A l \in ToSet(inside) : l \in LabelRecord /\ l.lo \in Nat /\ l.hi \in Nat
  BY <1>1, MembersAre
<1>3. CASE a = b
  <2>1. r = row
    <3>1. Stretch(t, a, b, inside) = <<>>
      BY <1>1, <1>3 DEF Stretch
    <3> QED BY <3>1, <1>1
  <2>2. ToSet(inside) = {}
    <3> SUFFICES ASSUME NEW l \in ToSet(inside) PROVE FALSE
      OBVIOUS
    <3>1. l.lo \in Nat /\ l.hi \in Nat /\ l.lo < l.hi /\ l.hi <= b - a
      BY <1>1, <1>2
    <3> QED BY <3>1, <1>1, <1>3
  <2> HIDE DEF r
  <2> QED BY <2>1, <2>2, <1>1, <1>3
<1>4. CASE a # b
  <2> DEFINE x   == SubSeq(t, a + 1, b)
             g   == Segment(a, x, inside)
             new == <<g>>
             n   == Len(row)
  <2>1. r = row \o new
    <3>1. a < b
      BY <1>1, <1>4
    <3> QED BY <3>1 DEF Stretch
  <2>2. x \in Seq(Char) /\ Len(x) = b - a /\ \A y \in 1..b - a : x[y] = t[a + y]
    BY <1>1, StretchIs
  <2>3. g = Segment(a, x, inside) /\ new = <<g>>
    OBVIOUS
  <2>4. b - a \in Nat /\ b - a > 0 /\ a + (b - a) = b
    BY <1>1, <1>4
  <2> HIDE DEF x, g, new, r
  <2>5. g \in Part /\ g.start = a /\ g.end = b /\ g.text = x /\ g.labels = inside
    <3>0. a \in Nat /\ x \in Seq(Char) /\ inside \in Seq(LabelRecord)
      BY <2>2, <1>1
    <3>1. g \in Part /\ g.start = a /\ g.end = a + Len(x) /\ g.text = x /\ g.labels = inside
      <4>1. /\ Segment(a, x, inside) \in Part
            /\ Segment(a, x, inside).start = a /\ Segment(a, x, inside).end = a + Len(x)
            /\ Segment(a, x, inside).text = x /\ Segment(a, x, inside).labels = inside
        BY <3>0 DEF Segment, Part
      <4>2. g = Segment(a, x, inside)
        BY <2>3
      <4> QED BY <4>1, <4>2, Zenon
    <3> QED BY <3>1, <2>2, <2>4
  <2>6. Whole(g)
    <3>1. Len(x) > 0 /\ \A l \in ToSet(inside) : l.lo < l.hi /\ l.hi <= Len(x)
      BY <2>2, <2>4, <1>1
    <3> QED BY <3>1, <2>2, <2>3, <1>1, WholeSegment
  <2>7. Shows(g, t)
    BY <2>2, <2>5 DEF Shows
  <2>8. new \in Seq(Part) /\ Len(new) = 1 /\ new[1] = g
    BY <2>3, <2>5, SingleIs
  <2>9. /\ r \in Seq(Part) /\ Len(r) = n + Len(new) /\ (\A k \in 1..n : r[k] = row[k])
        /\ \A k \in 1..Len(new) : r[n + k] = new[k]
    BY <2>1, <2>8, <1>1, ConcatParts
  <2>10. /\ n \in Nat /\ DOMAIN row = 1..n /\ Len(r) = n + 1 /\ DOMAIN r = (1..n) \cup {n + 1}
         /\ r[n + 1] = g /\ (\A k \in 1..n : r[k] = row[k])
    <3>1. n \in Nat /\ DOMAIN row = 1..n /\ Len(r) = n + 1 /\ DOMAIN r = 1..Len(r)
      BY <2>8, <2>9, <1>1
    <3>2. 1 \in 1..Len(new)
      BY <2>8
    <3> HIDE DEF n
    <3> QED BY <3>1, <3>2, <2>8, <2>9
  <2>11. Edge(row, n + 1) = a
    BY <1>1
  <2> HIDE DEF n
  <2>12. \A k \in 1..n + 1 : Edge(r, k) = Edge(row, k)
    <3> SUFFICES ASSUME NEW k \in 1..n + 1 PROVE Edge(r, k) = Edge(row, k)
      OBVIOUS
    <3>1. k = 1 \/ k - 1 \in 1..n
      BY <2>10
    <3> QED BY <3>1, <2>10 DEF Edge
  <2>13. Edge(r, Len(r) + 1) = b
    <3>1. (n + 1) + 1 # 1 /\ ((n + 1) + 1) - 1 = n + 1
      BY <2>10
    <3>2. Edge(r, (n + 1) + 1) = r[n + 1].end
      BY <3>1 DEF Edge
    <3> QED BY <3>2, <2>5, <2>10
  <2>14. ASSUME NEW k \in DOMAIN r PROVE Whole(r[k]) /\ r[k].start = Edge(r, k) /\ Shows(r[k], t)
    <3>1. CASE k \in 1..n
      <4>1. k \in 1..n + 1 /\ k \in DOMAIN row /\ r[k] = row[k]
        BY <3>1, <2>10
      <4> QED BY <4>1, <2>12, <1>1
    <3>2. CASE k = n + 1
      <4>1. k \in 1..n + 1 /\ r[k] = g /\ Edge(row, k) = a
        BY <3>2, <2>10, <2>11
      <4> QED BY <4>1, <2>5, <2>6, <2>7, <2>12
    <3> QED BY <3>1, <3>2, <2>10
  <2>15. Begun(r, t, b)
    BY <2>9, <2>13, <2>14, <1>1 DEF Begun
  <2>16. LabelsOf(r, DOMAIN r) = LabelsOf(row, DOMAIN row) \cup ToSet(inside)
    <3>1. LabelsOf(r, DOMAIN r) = (UNION {ToSet(r[k].labels) : k \in 1..n}) \cup ToSet(r[n + 1].labels)
      BY <2>10 DEF LabelsOf
    <3>2. UNION {ToSet(r[k].labels) : k \in 1..n} = LabelsOf(row, DOMAIN row)
      BY <2>10 DEF LabelsOf
    <3> QED BY <3>1, <3>2, <2>5, <2>10
  <2>17. ASSUME NEW i \in DOMAIN r, NEW j \in DOMAIN r, NEW l \in ToSet(r[i].labels), NEW o \in ToSet(r[j].labels),
                l.id = o.id
         PROVE  i = j /\ l = o
    <3>1. CASE i \in 1..n /\ j \in 1..n
      BY <3>1, <2>10, <2>17, <1>1 DEF Placed
    <3>2. CASE i \in 1..n /\ j = n + 1
      <4>1. l \in LabelsOf(row, DOMAIN row) /\ o \in ToSet(inside)
        BY <3>2, <2>5, <2>10 DEF LabelsOf
      <4> QED BY <4>1, <2>17, <1>1
    <3>3. CASE i = n + 1 /\ j \in 1..n
      <4>1. o \in LabelsOf(row, DOMAIN row) /\ l \in ToSet(inside)
        BY <3>3, <2>5, <2>10 DEF LabelsOf
      <4> QED BY <4>1, <2>17, <1>1
    <3>4. CASE i = n + 1 /\ j = n + 1
      BY <3>4, <2>5, <2>10, <2>17, <1>1
    <3> QED BY <3>1, <3>2, <3>3, <3>4, <2>10
  <2> QED BY <2>15, <2>16, <2>17 DEF Placed
<1> QED BY <1>3, <1>4

LEMMA ByStartIs ==
  ASSUME NEW ls \in Seq(LabelRecord), \A m, n \in DOMAIN ls : ls[m].id = ls[n].id => m = n
  PROVE  LET q == ByStart(ls)
         IN  /\ \A n \in 1..Len(ls) : q[n] \in ToSet(ls)
             /\ \A n \in 1..Len(ls) : \A m \in 1..n : q[m].lo <= q[n].lo
             /\ \A m, n \in 1..Len(ls) : q[m].id = q[n].id => m = n
<1> DEFINE D     == DOMAIN ls
           R     == {p \in D \X D :
                       \/ ls[p[1]].lo < ls[p[2]].lo
                       \/ ls[p[1]].lo = ls[p[2]].lo /\ p[1] < p[2]}
           order == Ordered(D, R)
           q     == ByStart(ls)
<1>1. q = [n \in D |-> ls[order[n]]]
  BY DEF ByStart
<1>2. \A a, b \in D : <<a, b>> \in R <=> (ls[a].lo < ls[b].lo \/ (ls[a].lo = ls[b].lo /\ a < b))
  <2> SUFFICES ASSUME NEW a \in D, NEW b \in D
               PROVE  <<a, b>> \in R <=> (ls[a].lo < ls[b].lo \/ (ls[a].lo = ls[b].lo /\ a < b))
    OBVIOUS
  <2> DEFINE z == <<a, b>>
             P(y) == ls[y[1]].lo < ls[y[2]].lo \/ (ls[y[1]].lo = ls[y[2]].lo /\ y[1] < y[2])
  <2>1. z \in D \X D /\ z[1] = a /\ z[2] = b
    OBVIOUS
  <2>2. P(z) <=> (ls[a].lo < ls[b].lo \/ (ls[a].lo = ls[b].lo /\ a < b))
    BY <2>1, Zenon
  <2>3. R = {y \in D \X D : P(y)}
    BY Zenon
  <2> HIDE DEF z, P, R
  <2>4. z \in R <=> P(z)
    BY <2>1, <2>3
  <2> QED BY <2>2, <2>4 DEF z
<1> HIDE DEF R
<1>3. \A a \in D : ls[a] \in LabelRecord /\ ls[a].lo \in Nat
  <2>1. \A a \in D : ls[a] \in LabelRecord
    OBVIOUS
  <2> HIDE DEF D
  <2> QED BY <2>1 DEF LabelRecord
<1>4. D = 1..Len(ls) /\ Len(ls) \in Nat /\ D \subseteq Int
  OBVIOUS
<1>5. IsFiniteSet(D) /\ Cardinality(D) = Len(ls)
  <2>1. IsFiniteSet(1..Len(ls)) /\ Cardinality(1..Len(ls)) = Len(ls)
    BY <1>4, FS_Interval
  <2> QED BY <2>1, <1>4
<1> DEFINE v == [a \in D |-> ls[a].lo]
<1>6. \A a \in D : v[a] = ls[a].lo
  OBVIOUS
<1> HIDE DEF v, D
<1>7. Orders(R, D)
  <2>1. \A a \in D : v[a] \in Int
    BY <1>3, <1>6
  <2>2. \A a, b \in D : <<a, b>> \in R <=> (v[a] < v[b] \/ (v[a] = v[b] /\ a < b))
    <3> SUFFICES ASSUME NEW a \in D, NEW b \in D
                 PROVE  <<a, b>> \in R <=> (v[a] < v[b] \/ (v[a] = v[b] /\ a < b))
      OBVIOUS
    <3>1. v[a] = ls[a].lo /\ v[b] = ls[b].lo
      BY <1>6
    <3> QED BY <3>1, <1>2
  <2> QED BY <2>1, <2>2, <1>4, <1>5, KeyOrders
<1>8. /\ order \in [1..Cardinality(D) -> D]
      /\ \A n \in 1..Cardinality(D) : \A m \in 1..n - 1 : <<order[m], order[n]>> \in R
      /\ \A m, n \in 1..Cardinality(D) : order[m] = order[n] => m = n
  BY <1>7, OrderedIs
<1> HIDE DEF order, q
<1>9. \A n \in 1..Len(ls) : order[n] \in D /\ q[n] = ls[order[n]]
  BY <1>1, <1>4, <1>5, <1>8
<1>10. \A n \in 1..Len(ls) : q[n] \in ToSet(ls)
  BY <1>9 DEF ToSet, D
<1>11. ASSUME NEW n \in 1..Len(ls), NEW m \in 1..n PROVE q[m].lo <= q[n].lo
  <2>1. m \in 1..Len(ls)
    BY <1>4
  <2>2. q[m].lo \in Nat /\ q[n].lo \in Nat
    BY <2>1, <1>3, <1>9
  <2>3. CASE m = n
    BY <2>2, <2>3
  <2>4. CASE m # n
    <3>1. m \in 1..n - 1
      BY <2>4, <1>4
    <3>2. <<order[m], order[n]>> \in R
      BY <3>1, <1>5, <1>8
    <3>3. ls[order[m]].lo < ls[order[n]].lo \/ ls[order[m]].lo = ls[order[n]].lo
      BY <3>2, <2>1, <1>2, <1>9
    <3>4. q[m].lo < q[n].lo \/ q[m].lo = q[n].lo
      BY <3>3, <2>1, <1>9
    <3> QED BY <3>4, <2>2
  <2> QED BY <2>3, <2>4
<1>12. ASSUME NEW n \in 1..Len(ls), NEW m \in 1..Len(ls), q[m].id = q[n].id PROVE m = n
  <2>1. ls[order[m]].id = ls[order[n]].id
    BY <1>9, <1>12
  <2>2. order[m] = order[n]
    BY <2>1, <1>9 DEF D
  <2> QED BY <2>2, <1>5, <1>8
<1>13. /\ \A n \in 1..Len(ls) : q[n] \in ToSet(ls)
       /\ \A n \in 1..Len(ls) : \A m \in 1..n : q[m].lo <= q[n].lo
       /\ \A m, n \in 1..Len(ls) : q[m].id = q[n].id => m = n
  BY <1>10, <1>11, <1>12
<1> QED BY <1>13 DEF q

LEMMA GreaterIs ==
  ASSUME NEW a \in Nat, NEW b \in Nat
  PROVE  LET m == Max({a, b}) IN m \in Nat /\ a <= m /\ b <= m /\ (m = a \/ m = b)
<1>1. \E x \in {a, b} : \A y \in {a, b} : x >= y
  <2>1. CASE a >= b
    BY <2>1
  <2>2. CASE b >= a
    BY <2>2
  <2> QED BY <2>1, <2>2
<1>2. Max({a, b}) \in {a, b} /\ \A y \in {a, b} : Max({a, b}) >= y
  BY <1>1 DEF Max
<1> QED BY <1>2

\* Labels in the order of their starts.
Sorted(q, N, t) ==
  /\ \A n \in 1..N : q[n] \in LabelRecord /\ q[n].lo < q[n].hi /\ q[n].hi <= Len(t)
  /\ \A n \in 1..N : \A m \in 1..n : q[m].lo <= q[n].lo
  /\ \A m, n \in 1..N : q[m].id = q[n].id => m = n

\* What makeBasicSegmenter has made of n of its labels.
Grows(t, q, N, n, acc) ==
  /\ acc \in [row : Seq(Part), lo : Nat, hi : Nat, inside : Seq(LabelRecord)]
  /\ MayGoOn(acc.row, t, acc.lo, acc.hi, acc.inside)
  /\ \A m \in n + 1..N : acc.lo <= q[m].lo
  /\ \A l \in LabelsOf(acc.row, DOMAIN acc.row) \cup ToSet(acc.inside) : \E k \in 1..n : l.id = q[k].id

LEMMA JoinsIn ==
  ASSUME NEW t \in Seq(Char), NEW q, NEW N \in Nat, Sorted(q, N, t), NEW n \in 1..N, NEW acc,
         Grows(t, q, N, n - 1, acc), q[n].lo < acc.hi
  PROVE  Grows(t, q, N, n, Grown(t, acc, q[n]))
<1> DEFINE l   == q[n]
           row == acc.row
           a   == acc.lo
           b   == acc.hi
           ls  == acc.inside
           m   == Max({b, l.hi})
           z   == By(l, 0 - a)
           ls2 == Append(ls, z)
           u   == [acc EXCEPT !.hi = m, !.inside = ls2]
<1>1. Grown(t, acc, l) = u
  BY DEF Grown
<1>2. /\ l \in LabelRecord /\ l.lo \in Nat /\ l.hi \in Nat /\ l.lo < l.hi /\ l.hi <= Len(t) /\ l.lo < b /\ l = q[n]
  <2>1. l \in LabelRecord /\ l.lo < l.hi /\ l.hi <= Len(t)
    BY DEF Sorted
  <2> HIDE DEF l
  <2>2. l.lo \in Nat /\ l.hi \in Nat
    BY <2>1 DEF LabelRecord
  <2> QED BY <2>1, <2>2 DEF l
<1>3. /\ acc \in [row : Seq(Part), lo : Nat, hi : Nat, inside : Seq(LabelRecord)]
      /\ row \in Seq(Part) /\ a \in Nat /\ b \in Nat /\ ls \in Seq(LabelRecord)
      /\ Begun(row, t, a) /\ Placed(row) /\ a <= b /\ b <= Len(t)
      /\ (\A y \in ToSet(ls) : y.lo < y.hi /\ y.hi <= b - a)
      /\ (\A y, o \in ToSet(ls) : y.id = o.id => y = o)
      /\ (\A y \in ToSet(ls), o \in LabelsOf(row, DOMAIN row) : y.id # o.id)
      /\ (\A y \in LabelsOf(row, DOMAIN row) \cup ToSet(ls) : \E k \in 1..n - 1 : y.id = q[k].id)
      /\ \A k \in (n - 1) + 1..N : a <= q[k].lo
  BY DEF Grows, MayGoOn
<1>4. a <= l.lo
  BY <1>2, <1>3
<1>5. u = [acc EXCEPT !.hi = m, !.inside = ls2] /\ m = Max({b, l.hi}) /\ z = By(l, 0 - a) /\ ls2 = Append(ls, z)
      /\ row = acc.row /\ a = acc.lo /\ Len(t) \in Nat
  OBVIOUS
<1> HIDE DEF l, a, b, row, ls, m, z, ls2, u
<1> DEFINE p == l.lo
           h == l.hi
           d == 0 - a
<1>6. m \in Nat /\ b <= m /\ h <= m /\ m <= Len(t)
  <2>1. m \in Nat /\ b <= m /\ h <= m /\ (m = b \/ m = h)
    BY <1>2, <1>3, <1>5, GreaterIs
  <2> QED BY <2>1, <1>2, <1>3
<1>7. z \in LabelRecord /\ z.id = l.id /\ z.lo < z.hi /\ z.hi <= m - a
  <2>1. p \in Nat /\ h \in Nat /\ p < h /\ a <= p /\ l \in LabelRecord /\ z = By(l, d) /\ d = 0 - a
    BY <1>2, <1>4, <1>5
  <2> HIDE DEF p, h, d
  <2>2. d \in Int /\ p + d \in Nat /\ h + d \in Nat /\ p + d < h + d
    BY <2>1, <1>3
  <2>3. h + d <= m - a
    BY <2>1, <1>3, <1>6
  <2>4. z.id = l.id /\ z.lo = p + d /\ z.hi = h + d /\ z \in LabelRecord
    BY <2>1, <2>2, ByIs DEF p, h
  <2> QED BY <2>2, <2>3, <2>4
<1>8. ls2 \in Seq(LabelRecord) /\ ToSet(ls2) = ToSet(ls) \cup {z}
  BY <1>3, <1>5, <1>7, AppendedAre
<1>9. u \in [row : Seq(Part), lo : Nat, hi : Nat, inside : Seq(LabelRecord)]
      /\ u.row = row /\ u.lo = a /\ u.hi = m /\ u.inside = ls2
  BY <1>3, <1>5, <1>6, <1>8
<1>10. ASSUME NEW y \in LabelsOf(row, DOMAIN row) \cup ToSet(ls) PROVE y.id # z.id
  <2>1. PICK k \in 1..n - 1 : y.id = q[k].id
    BY <1>3
  <2>2. k \in 1..N /\ n \in 1..N /\ k # n
    OBVIOUS
  <2>3. q[k].id # q[n].id
    BY <2>2 DEF Sorted
  <2> QED BY <2>1, <2>3, <1>2, <1>7
<1>11. ASSUME NEW y \in ToSet(ls2) PROVE y.lo < y.hi /\ y.hi <= m - a
  <2>1. CASE y \in ToSet(ls)
    <3>1. y.lo < y.hi /\ y.hi <= b - a /\ y.hi \in Nat
      BY <2>1, <1>3, MembersAre
    <3>2. \A x \in Nat : x <= b - a => x <= m - a
      BY <1>3, <1>6
    <3> QED BY <3>1, <3>2
  <2>2. CASE y = z
    BY <2>2, <1>7
  <2> QED BY <2>1, <2>2, <1>8
<1>12. \A y, o \in ToSet(ls2) : y.id = o.id => y = o
  BY <1>3, <1>8, <1>10
<1>13. \A y \in ToSet(ls2), o \in LabelsOf(row, DOMAIN row) : y.id # o.id
  BY <1>3, <1>8, <1>10
<1>14. MayGoOn(row, t, a, m, ls2)
  <2>1. a <= m
    BY <1>3, <1>6
  <2> QED BY <2>1, <1>3, <1>6, <1>8, <1>11, <1>12, <1>13 DEF MayGoOn
<1>15. \A k \in n + 1..N : a <= q[k].lo
  <2>1. \A k \in n + 1..N : k \in (n - 1) + 1..N
    OBVIOUS
  <2> QED BY <2>1, <1>3
<1>16. ASSUME NEW y \in LabelsOf(row, DOMAIN row) \cup ToSet(ls2) PROVE \E k \in 1..n : y.id = q[k].id
  <2>1. CASE y \in LabelsOf(row, DOMAIN row) \cup ToSet(ls)
    <3>1. PICK k \in 1..n - 1 : y.id = q[k].id
      BY <2>1, <1>3
    <3>2. k \in 1..n
      OBVIOUS
    <3> QED BY <3>1, <3>2
  <2>2. CASE y = z
    <3>1. n \in 1..n
      OBVIOUS
    <3> QED BY <3>1, <2>2, <1>2, <1>7
  <2> QED BY <2>1, <2>2, <1>8
<1>17. Grows(t, q, N, n, u)
  BY <1>9, <1>14, <1>15, <1>16 DEF Grows
<1> QED BY <1>1, <1>17 DEF l

LEMMA BeginsAnew ==
  ASSUME NEW t \in Seq(Char), NEW q, NEW N \in Nat, Sorted(q, N, t), NEW n \in 1..N, NEW acc,
         Grows(t, q, N, n - 1, acc), ~(q[n].lo < acc.hi)
  PROVE  Grows(t, q, N, n, Grown(t, acc, q[n]))
<1> DEFINE l   == q[n]
           row == acc.row
           a   == acc.lo
           b   == acc.hi
           ls  == acc.inside
           none == <<>>
           r1  == row \o Stretch(t, a, b, ls)
           r2  == r1 \o Stretch(t, b, l.lo, none)
           z   == By(l, 0 - l.lo)
           one == <<z>>
           u   == [row |-> r2, lo |-> l.lo, hi |-> l.hi, inside |-> one]
<1>1. Grown(t, acc, l) = u
  BY DEF Grown, Closed
<1>2. /\ l \in LabelRecord /\ l.lo \in Nat /\ l.hi \in Nat /\ l.lo < l.hi /\ l.hi <= Len(t) /\ ~(l.lo < b) /\ l = q[n]
  <2>1. l \in LabelRecord /\ l.lo < l.hi /\ l.hi <= Len(t)
    BY DEF Sorted
  <2> HIDE DEF l
  <2>2. l.lo \in Nat /\ l.hi \in Nat
    BY <2>1 DEF LabelRecord
  <2> QED BY <2>1, <2>2 DEF l
<1>3. /\ MayGoOn(row, t, a, b, ls) /\ b \in Nat
      /\ \A y \in LabelsOf(row, DOMAIN row) \cup ToSet(ls) : \E k \in 1..n - 1 : y.id = q[k].id
  BY DEF Grows, MayGoOn
<1>4. none \in Seq(LabelRecord) /\ ToSet(none) = {}
  BY DEF ToSet
<1>5. r1 = row \o Stretch(t, a, b, ls) /\ r2 = r1 \o Stretch(t, b, l.lo, none)
      /\ z = By(l, 0 - l.lo) /\ one = <<z>> /\ u = [row |-> r2, lo |-> l.lo, hi |-> l.hi, inside |-> one]
      /\ Len(t) \in Nat
  OBVIOUS
<1> HIDE DEF l, a, b, row, ls, none, r1, r2, z, one, u
<1> DEFINE p == l.lo
           h == l.hi
<1>6. p \in Nat /\ h \in Nat /\ p < h /\ h <= Len(t) /\ b <= p /\ p <= Len(t) /\ p = l.lo /\ h = l.hi
  BY <1>2, <1>3, <1>5
<1> HIDE DEF p, h
<1>7. Begun(r1, t, b) /\ Placed(r1) /\ LabelsOf(r1, DOMAIN r1) = LabelsOf(row, DOMAIN row) \cup ToSet(ls)
  BY <1>3, <1>5, GoesOn
<1>8. Begun(r2, t, p) /\ Placed(r2) /\ LabelsOf(r2, DOMAIN r2) = LabelsOf(row, DOMAIN row) \cup ToSet(ls)
  <2>1. MayGoOn(r1, t, b, p, none)
    BY <1>4, <1>6, <1>7 DEF MayGoOn
  <2>2. /\ Begun(r2, t, p) /\ Placed(r2)
        /\ LabelsOf(r2, DOMAIN r2) = LabelsOf(r1, DOMAIN r1) \cup ToSet(none)
    <3>1. LET r == r1 \o Stretch(t, b, p, none)
          IN  /\ Begun(r, t, p) /\ Placed(r)
              /\ LabelsOf(r, DOMAIN r) = LabelsOf(r1, DOMAIN r1) \cup ToSet(none)
      BY <2>1, GoesOn
    <3> QED BY <3>1, <1>5, <1>6
  <2> QED BY <2>2, <1>4, <1>7
<1>9. z \in LabelRecord /\ z.id = l.id /\ z.lo < z.hi /\ z.hi <= h - p
  <2> DEFINE d == 0 - p
  <2>1. d \in Int /\ p + d \in Nat /\ h + d \in Nat /\ p + d < h + d /\ h + d <= h - p
    BY <1>6, SMTT(30)
  <2>2. z = By(l, d)
    BY <1>5, <1>6
  <2> HIDE DEF d
  <2>3. z.id = l.id /\ z.lo = p + d /\ z.hi = h + d /\ z \in LabelRecord
    BY <2>1, <2>2, <1>2, <1>6, ByIs
  <2> QED BY <2>1, <2>3
<1>10. one \in Seq(LabelRecord) /\ ToSet(one) = {z}
  BY <1>5, <1>9 DEF ToSet
<1>11. u \in [row : Seq(Part), lo : Nat, hi : Nat, inside : Seq(LabelRecord)]
      /\ u.row = r2 /\ u.lo = p /\ u.hi = h /\ u.inside = one
  <2>1. r2 \in Seq(Part)
    BY <1>8 DEF Begun
  <2> QED BY <2>1, <1>5, <1>6, <1>10
<1>12. ASSUME NEW y \in LabelsOf(r2, DOMAIN r2) PROVE z.id # y.id
  <2>1. PICK k \in 1..n - 1 : y.id = q[k].id
    BY <1>3, <1>8
  <2>2. k \in 1..N /\ n \in 1..N /\ k # n
    OBVIOUS
  <2>3. q[k].id # q[n].id
    BY <2>2 DEF Sorted
  <2> QED BY <2>1, <2>3, <1>2, <1>9
<1>13. MayGoOn(r2, t, p, h, one)
  <2>1. p <= h
    BY <1>6
  <2> QED BY <2>1, <1>6, <1>8, <1>9, <1>10, <1>12 DEF MayGoOn
<1>14. ASSUME NEW k \in n + 1..N PROVE p <= q[k].lo
  <2>1. k \in 1..N /\ n \in 1..k
    OBVIOUS
  <2>2. q[n].lo <= q[k].lo
    BY <2>1 DEF Sorted
  <2> QED BY <2>2, <1>2, <1>6
<1>15. ASSUME NEW y \in LabelsOf(r2, DOMAIN r2) \cup ToSet(one) PROVE \E k \in 1..n : y.id = q[k].id
  <2>1. CASE y \in LabelsOf(r2, DOMAIN r2)
    <3>1. PICK k \in 1..n - 1 : y.id = q[k].id
      BY <2>1, <1>3, <1>8
    <3>2. k \in 1..n
      OBVIOUS
    <3> QED BY <3>1, <3>2
  <2>2. CASE y = z
    <3>1. n \in 1..n
      OBVIOUS
    <3> QED BY <3>1, <2>2, <1>2, <1>9
  <2> QED BY <2>1, <2>2, <1>10
<1>16. Grows(t, q, N, n, u)
  BY <1>11, <1>13, <1>14, <1>15 DEF Grows
<1> QED BY <1>1, <1>16 DEF l

\* h is the function that makeBasicSegmenter defines, up to m.
Growing(h, t, q, m) ==
  h = [n \in 0..m |-> IF n = 0 THEN [row |-> <<>>, lo |-> 0, hi |-> 0, inside |-> <<>>] ELSE Grown(t, h[n - 1], q[n])]

LEMMA GrowingIs ==
  ASSUME NEW t, NEW q, NEW m \in Nat
  PROVE  \E h : Growing(h, t, q, m)
<1> DEFINE T == {n \in 0..m : \E h : Growing(h, t, q, n)}
           e == [row |-> <<>>, lo |-> 0, hi |-> 0, inside |-> <<>>]
<1>1. 0 \in T
  <2> DEFINE h == [n \in 0..0 |-> e]
  <2>1. h = [n \in 0..0 |-> IF n = 0 THEN e ELSE Grown(t, h[n - 1], q[n])]
    OBVIOUS
  <2>2. Growing(h, t, q, 0)
    BY <2>1 DEF Growing
  <2> QED BY <2>2
<1>2. ASSUME NEW n \in 0 + 1..m, n - 1 \in T PROVE n \in T
  <2>1. PICK h : Growing(h, t, q, n - 1)
    BY <1>2
  <2> DEFINE B(f, k) == Grown(t, f[k - 1], q[k])
             f == [k \in 0..n |-> IF k = n THEN B(h, n) ELSE h[k]]
  <2>2. h = [k \in 0..n - 1 |-> IF k = 0 THEN e ELSE B(h, k)]
    BY <2>1 DEF Growing
  <2>3. n # 0 /\ n \in 0..n /\ n \in 0..m
    OBVIOUS
  <2>4. ASSUME NEW k \in 0..n PROVE f[k] = IF k = 0 THEN e ELSE B(f, k)
    <3>1. CASE k = 0
      <4>1. k \in 0..n - 1 /\ k # n
        BY <3>1
      <4>2. h[k] = e
        BY <4>1, <3>1, <2>2
      <4> QED BY <4>1, <4>2, <3>1
    <3>2. CASE k # 0
      <4>1. k - 1 \in 0..n - 1 /\ k - 1 \in 0..n /\ k - 1 # n
        BY <3>2
      <4>2. f[k - 1] = h[k - 1]
        BY <4>1
      <4>3. B(f, k) = B(h, k)
        BY <4>2
      <4>4. CASE k = n
        BY <4>3, <4>4, <3>2
      <4>5. CASE k # n
        <5>1. k \in 0..n - 1
          BY <4>5
        <5>2. h[k] = B(h, k)
          BY <5>1, <3>2, <2>2
        <5> QED BY <5>2, <4>3, <4>5, <3>2
      <4> QED BY <4>4, <4>5
    <3> QED BY <3>1, <3>2
  <2> HIDE DEF B
  <2>5. f = [k \in 0..n |-> f[k]]
    OBVIOUS
  <2> HIDE DEF f
  <2>6. f = [k \in 0..n |-> IF k = 0 THEN e ELSE B(f, k)]
    BY <2>4, <2>5
  <2>7. Growing(f, t, q, n)
    BY <2>6 DEF Growing, B
  <2> QED BY <2>3, <2>7
<1> HIDE DEF T
<1>3. \A n \in 0..m : n \in T
  BY <1>1, <1>2, Climbs
<1> QED BY <1>3 DEF T

LEMMA GrownAre ==
  ASSUME NEW t \in Seq(Char), NEW q, NEW N \in Nat, Sorted(q, N, t), NEW h, Growing(h, t, q, N)
  PROVE  Grows(t, q, N, N, h[N])
<1> DEFINE none == [row |-> <<>>, lo |-> 0, hi |-> 0, inside |-> <<>>]
           T    == {n \in 0..N : Grows(t, q, N, n, h[n])}
<1>1. h = [n \in 0..N |-> IF n = 0 THEN none ELSE Grown(t, h[n - 1], q[n])]
  BY DEF Growing
<1>2. 0 \in T
  <2> DEFINE e == <<>>
             f == <<>>
  <2>1. e \in Seq(Part) /\ Len(e) = 0 /\ DOMAIN e = {} /\ f \in Seq(LabelRecord) /\ ToSet(f) = {}
    BY DEF ToSet
  <2>2. none \in [row : Seq(Part), lo : Nat, hi : Nat, inside : Seq(LabelRecord)]
        /\ none.row = e /\ none.lo = 0 /\ none.hi = 0 /\ none.inside = f
    BY <2>1
  <2> HIDE DEF e, f, none
  <2>3. Edge(e, Len(e) + 1) = 0
    BY <2>1 DEF Edge
  <2>4. Begun(e, t, 0)
    BY <2>1, <2>3 DEF Begun
  <2>5. LabelsOf(e, DOMAIN e) = {} /\ Placed(e)
    BY <2>1 DEF LabelsOf, Placed
  <2>6. MayGoOn(e, t, 0, 0, f)
    BY <2>1, <2>4, <2>5 DEF MayGoOn
  <2>7. \A m \in 0 + 1..N : 0 <= q[m].lo
    BY DEF Sorted, LabelRecord
  <2>8. Grows(t, q, N, 0, none)
    BY <2>1, <2>2, <2>5, <2>6, <2>7 DEF Grows
  <2>9. h[0] = none
    BY <1>1
  <2> QED BY <2>8, <2>9
<1>3. ASSUME NEW n \in 0 + 1..N, n - 1 \in T PROVE n \in T
  <2>1. n \in 1..N /\ n \in 0..N /\ n # 0
    OBVIOUS
  <2>2. h[n] = Grown(t, h[n - 1], q[n])
    BY <2>1, <1>1
  <2>3. Grows(t, q, N, n - 1, h[n - 1])
    BY <1>3
  <2>4. Grows(t, q, N, n, Grown(t, h[n - 1], q[n]))
    <3>1. CASE q[n].lo < h[n - 1].hi
      BY <2>1, <2>3, <3>1, JoinsIn
    <3>2. CASE ~(q[n].lo < h[n - 1].hi)
      BY <2>1, <2>3, <3>2, BeginsAnew
    <3> QED BY <3>1, <3>2
  <2> QED BY <2>1, <2>2, <2>4
<1> HIDE DEF T
<1>4. \A n \in 0..N : n \in T
  BY <1>2, <1>3, Climbs
<1> QED BY <1>4 DEF T

\* A chapter's segments tile its text, and each label has one place.
LEMMA Opens ==
  ASSUME NEW t \in Seq(Char), NEW ls \in Seq(LabelRecord),
         \A n \in DOMAIN ls : ls[n].lo < ls[n].hi /\ ls[n].hi <= Len(t),
         \A m, n \in DOMAIN ls : ls[m].id = ls[n].id => m = n
  PROVE  LET row == makeBasicSegmenter(t, ls) IN row \in Seq(Part) /\ Tiled(row, t) /\ Placed(row)
<1> DEFINE q    == ByStart(ls)
           N    == Len(ls)
           all  == CHOOSE h : Growing(h, t, q, N)
           last == all[N]
           none == <<>>
           r1   == last.row \o Stretch(t, last.lo, last.hi, last.inside)
           r2   == r1 \o Stretch(t, last.hi, Len(t), none)
<1>1. makeBasicSegmenter(t, ls) = r2
  BY DEF makeBasicSegmenter, Growing, Closed
<1>2. N \in Nat /\ Len(t) \in Nat /\ none \in Seq(LabelRecord) /\ ToSet(none) = {}
      /\ \A l \in ToSet(ls) : l \in LabelRecord /\ l.lo < l.hi /\ l.hi <= Len(t)
  BY DEF ToSet
<1>3. /\ \A n \in 1..N : q[n] \in ToSet(ls)
      /\ \A n \in 1..N : \A m \in 1..n : q[m].lo <= q[n].lo
      /\ \A m, n \in 1..N : q[m].id = q[n].id => m = n
  BY ByStartIs
<1> HIDE DEF q, N
<1>4. Sorted(q, N, t)
  BY <1>2, <1>3 DEF Sorted
<1>5. Growing(all, t, q, N)
  <2>1. \E h : Growing(h, t, q, N)
    BY <1>2, GrowingIs
  <2> QED BY <2>1
<1> HIDE DEF all
<1>6. Grows(t, q, N, N, last)
  BY <1>2, <1>4, <1>5, GrownAre
<1>7. r1 = last.row \o Stretch(t, last.lo, last.hi, last.inside) /\ r2 = r1 \o Stretch(t, last.hi, Len(t), none)
  OBVIOUS
<1> HIDE DEF last, none, r1, r2
<1>8. MayGoOn(last.row, t, last.lo, last.hi, last.inside) /\ last.hi \in Nat /\ last.hi <= Len(t)
  BY <1>6 DEF Grows, MayGoOn
<1>9. Begun(r1, t, last.hi) /\ Placed(r1)
  BY <1>7, <1>8, GoesOn
<1>10. MayGoOn(r1, t, last.hi, Len(t), none)
  BY <1>2, <1>8, <1>9 DEF MayGoOn
<1>11. Begun(r2, t, Len(t)) /\ Placed(r2)
  <2>1. LET r == r1 \o Stretch(t, last.hi, Len(t), none)
        IN  /\ Begun(r, t, Len(t)) /\ Placed(r)
            /\ LabelsOf(r, DOMAIN r) = LabelsOf(r1, DOMAIN r1) \cup ToSet(none)
    BY <1>10, GoesOn
  <2> QED BY <2>1, <1>7
<1>12. Tiled(r2, t) /\ r2 \in Seq(Part)
  BY <1>11 DEF Begun, Tiled
<1> QED BY <1>1, <1>11, <1>12

------------------------------------------------------------------------------
(* What a tiled row shows is the text.                                      *)

\* h is the function by which a sequence of texts is flattened, up to m.
Flattening(h, ts, m) ==
  h = [n \in 1..m |-> IF n = 1 THEN ts[1] ELSE (h[n - 1] \o ts[n])]

LEMMA FlatteningIs ==
  ASSUME NEW ts, NEW m \in Nat \ {0}
  PROVE  \E h : Flattening(h, ts, m)
<1> DEFINE T == {n \in 1..m : \E h : Flattening(h, ts, n)}
           e == ts[1]
<1>1. 1 \in T
  <2> DEFINE h == [n \in 1..1 |-> e]
  <2>1. h = [n \in 1..1 |-> IF n = 1 THEN e ELSE (h[n - 1] \o ts[n])]
    OBVIOUS
  <2>2. Flattening(h, ts, 1)
    BY <2>1 DEF Flattening
  <2> QED BY <2>2
<1>2. ASSUME NEW n \in 1 + 1..m, n - 1 \in T PROVE n \in T
  <2>1. PICK h : Flattening(h, ts, n - 1)
    BY <1>2
  <2> DEFINE B(f, k) == f[k - 1] \o ts[k]
             f == [k \in 1..n |-> IF k = n THEN B(h, n) ELSE h[k]]
  <2>2. h = [k \in 1..n - 1 |-> IF k = 1 THEN e ELSE B(h, k)]
    BY <2>1 DEF Flattening
  <2>3. n # 1 /\ n \in 1..n /\ n \in 1..m
    OBVIOUS
  <2>4. ASSUME NEW k \in 1..n PROVE f[k] = IF k = 1 THEN e ELSE B(f, k)
    <3>1. CASE k = 1
      <4>1. k \in 1..n - 1 /\ k # n
        BY <3>1
      <4>2. h[k] = e
        BY <4>1, <3>1, <2>2
      <4> QED BY <4>1, <4>2, <3>1
    <3>2. CASE k # 1
      <4>1. k - 1 \in 1..n - 1 /\ k - 1 \in 1..n /\ k - 1 # n
        BY <3>2
      <4>2. f[k - 1] = h[k - 1]
        BY <4>1
      <4>3. B(f, k) = B(h, k)
        BY <4>2
      <4>4. CASE k = n
        BY <4>3, <4>4, <3>2
      <4>5. CASE k # n
        <5>1. k \in 1..n - 1
          BY <4>5
        <5>2. h[k] = B(h, k)
          BY <5>1, <3>2, <2>2
        <5> QED BY <5>2, <4>3, <4>5, <3>2
      <4> QED BY <4>4, <4>5
    <3> QED BY <3>1, <3>2
  <2> HIDE DEF B
  <2>5. f = [k \in 1..n |-> f[k]]
    OBVIOUS
  <2> HIDE DEF f
  <2>6. f = [k \in 1..n |-> IF k = 1 THEN e ELSE B(f, k)]
    BY <2>4, <2>5
  <2>7. Flattening(f, ts, n)
    BY <2>6 DEF Flattening, B
  <2> QED BY <2>3, <2>7
<1> HIDE DEF T
<1>3. \A n \in 1..m : n \in T
  <2>1. m \in Int /\ 1 <= m
    OBVIOUS
  <2> QED BY <2>1, <1>1, <1>2, Climbs
<1> QED BY <1>3 DEF T

LEMMA Flattens ==
  ASSUME NEW t \in Seq(Char), NEW row, Tiled(row, t)
  PROVE  FlattenSeq([i \in DOMAIN row |-> row[i].text]) = t
<1> DEFINE ts  == [i \in DOMAIN row |-> row[i].text]
           c   == Len(row)
           all == CHOOSE h : Flattening(h, ts, c)
<1>1. row \in Seq(Part) /\ c \in Nat /\ DOMAIN row = 1..c /\ Len(t) = Edge(row, c + 1)
  BY DEF Tiled
<1>2. ts = [i \in 1..c |-> row[i].text]
  BY <1>1
<1>3. \A i \in 1..c : row[i].text \in Seq(Char)
  BY <1>1, Tile
<1>4. Len(ts) = c
  <2> HIDE DEF c, ts
  <2>1. ts \in Seq(Seq(Char)) /\ DOMAIN ts = 1..c
    BY <1>1, <1>2, <1>3
  <2> QED BY <2>1, <1>1
<1>5. CASE c = 0
  <2>1. FlattenSeq(ts) = ts
    <3> HIDE DEF ts, c
    <3> QED BY <1>4, <1>5 DEF FlattenSeq
  <2>2. Len(t) = 0
    BY <1>1, <1>5 DEF Edge
  <2>3. t = <<>>
    BY <2>2
  <2>4. ts = <<>>
    <3> HIDE DEF c
    <3>1. DOMAIN ts = {}
      BY <1>1, <1>5
    <3> QED BY <3>1
  <2> QED BY <2>1, <2>3, <2>4
<1>6. CASE c # 0
  <2>1. FlattenSeq(ts) = all[c]
    <3>1. FlattenSeq(ts) = LET flatten[i \in 1..Len(ts)] == IF i = 1 THEN ts[i] ELSE flatten[i - 1] \o ts[i]
                           IN  flatten[Len(ts)]
      <4> HIDE DEF ts, c
      <4> QED BY <1>4, <1>6 DEF FlattenSeq
    <3> HIDE DEF ts, c
    <3>2. FlattenSeq(ts) = LET flatten[i \in 1..c] == IF i = 1 THEN ts[i] ELSE flatten[i - 1] \o ts[i]
                           IN  flatten[c]
      BY <3>1, <1>4
    <3> QED BY <3>2 DEF Flattening
  <2>2. Flattening(all, ts, c)
    <3> HIDE DEF ts, c
    <3>1. \E h : Flattening(h, ts, c)
      BY <1>1, <1>6, FlatteningIs
    <3> QED BY <3>1
  <2> HIDE DEF all, c
  <2>3. all = [n \in 1..c |-> IF n = 1 THEN ts[n] ELSE all[n - 1] \o ts[n]]
    BY <2>2 DEF Flattening
  <2> DEFINE T == {n \in 1..c : /\ all[n] \in Seq(Char) /\ Len(all[n]) = Edge(row, n + 1)
                                /\ \A x \in 1..Len(all[n]) : all[n][x] = t[x]}
  <2>4. \A n \in 1..c : /\ ts[n] = row[n].text /\ row[n].text \in Seq(Char) /\ Len(row[n].text) \in Nat
                        /\ row[n].end = row[n].start + Len(row[n].text) /\ row[n].start \in Nat
                        /\ Edge(row, n) = row[n].start /\ Edge(row, n + 1) = row[n].end
                        /\ \A x \in 1..Len(row[n].text) : row[n].text[x] = t[row[n].start + x]
    BY <1>1, <1>2, Tile DEF Shows
  <2> HIDE DEF ts
  <2>5. 1 \in T
    <3> DEFINE g == row[1]
    <3>1. 1 \in 1..c
      BY <1>1, <1>6
    <3>2. all[1] = g.text
      BY <3>1, <2>3, <2>4
    <3>3. Edge(row, 1) = 0
      BY DEF Edge
    <3>4. /\ g.text \in Seq(Char) /\ Len(g.text) \in Nat /\ g.end = 0 + Len(g.text) /\ Edge(row, 1 + 1) = g.end
          /\ \A x \in 1..Len(g.text) : g.text[x] = t[0 + x]
      BY <3>1, <3>3, <2>4
    <3> HIDE DEF g
    <3>5. Len(g.text) = Edge(row, 1 + 1) /\ \A x \in 1..Len(g.text) : g.text[x] = t[x]
      BY <3>4
    <3> QED BY <3>1, <3>2, <3>4, <3>5
  <2>6. ASSUME NEW n \in 1 + 1..c, n - 1 \in T PROVE n \in T
    <3> DEFINE y == all[n - 1]
               x == row[n].text
               p == row[n].start
               e == row[n].end
               u == y \o x
    <3>1. n \in 1..c /\ n # 1 /\ (n - 1) + 1 = n
      BY <1>1
    <3>2. y \in Seq(Char) /\ Len(y) = Edge(row, n) /\ \A k \in 1..Len(y) : y[k] = t[k]
      BY <3>1, <2>6
    <3>3. /\ x \in Seq(Char) /\ Len(x) \in Nat /\ e = p + Len(x) /\ p \in Nat /\ Edge(row, n) = p /\ Edge(row, n + 1) = e
          /\ \A k \in 1..Len(x) : x[k] = t[p + k]
      BY <3>1, <2>4
    <3>4. all[n] = u
      BY <3>1, <2>3, <2>4
    <3>5. u = y \o x
      OBVIOUS
    <3> HIDE DEF y, x, p, e, u
    <3>6. u \in Seq(Char) /\ Len(u) = Len(y) + Len(x) /\ (\A k \in 1..Len(y) : u[k] = y[k])
          /\ \A k \in 1..Len(x) : u[Len(y) + k] = x[k]
      BY <3>2, <3>3, <3>5, ConcatChars
    <3>7. Len(u) = e /\ Len(y) = p
      BY <3>2, <3>3, <3>6
    <3>8. ASSUME NEW k \in 1..Len(u) PROVE u[k] = t[k]
      <4>1. CASE k <= p
        <5>1. k \in 1..Len(y)
          BY <4>1, <3>3, <3>7
        <5> QED BY <5>1, <3>2, <3>6
      <4>2. CASE ~(k <= p)
        <5>1. k - p \in 1..Len(x) /\ p + (k - p) = k
          BY <4>2, <3>3, <3>7
        <5> QED BY <5>1, <3>3, <3>6, <3>7
      <4> QED BY <4>1, <4>2
    <3> QED BY <3>1, <3>3, <3>4, <3>6, <3>7, <3>8
  <2> HIDE DEF T
  <2>7. \A n \in 1..c : n \in T
    <3>1. c \in Int /\ 1 <= c
      BY <1>1, <1>6
    <3> QED BY <3>1, <2>5, <2>6, Climbs
  <2>8. all[c] \in Seq(Char) /\ Len(all[c]) = Edge(row, c + 1) /\ \A x \in 1..Len(all[c]) : all[c][x] = t[x]
    <3>1. c \in 1..c
      BY <1>1, <1>6
    <3> QED BY <3>1, <2>7 DEF T
  <2> DEFINE w == all[c]
  <2>9. w \in Seq(Char) /\ Len(w) = Len(t) /\ \A x \in 1..Len(w) : w[x] = t[x]
    BY <2>8, <1>1
  <2> HIDE DEF w
  <2>10. w = t
    BY <2>9
  <2> QED BY <2>1, <2>10 DEF ts, w
<1> QED BY <1>5, <1>6

------------------------------------------------------------------------------
(* The inductive invariant: the operations keep the manager whole even when  *)
(* they end in an exception, so threw does not appear in it.                *)
Sound == Now \in State /\ Held(Now, text)

LEMMA NowIs ==
  /\ Now.text = text /\ Now.segments = segments /\ Now.labelsById = labelsById /\ Now.threw = FALSE
BY DEF Now

LEMMA SoundAfter ==
  ASSUME NEW u, u \in State, Held(u, u.text), Becomes(u)
  PROVE  Sound'
<1>1. text' = u.text /\ segments' = u.segments /\ labelsById' = u.labelsById
  BY DEF Becomes
<1>2. /\ u.text \in Seq(Char) /\ u.segments \in Seq(Part) /\ u.labelsById \in SUBSET LabelRecord
  BY StateIs
<1>3. Now' = [text |-> text', segments |-> segments', labelsById |-> labelsById', threw |-> FALSE]
  BY DEF Now
<1>4. Now' \in State
  BY <1>1, <1>2, <1>3 DEF State
<1>5. Held(Now', text')
  BY <1>1, <1>3 DEF Held
<1> QED BY <1>4, <1>5 DEF Sound

LEMMA InitSound == Init => Sound
<1> SUFFICES ASSUME Init PROVE Sound
  OBVIOUS
<1>1. PICK c \in Chapter : /\ text = c.text /\ segments = makeBasicSegmenter(c.text, c.labels)
                           /\ labelsById = UNION {ToSet(segments[i].labels) : i \in DOMAIN segments}
                           /\ threw = FALSE
  BY DEF Init
<1> DEFINE t  == c.text
           ls == c.labels
<1>2. /\ t \in Seq(Char) /\ ls \in Seq(LabelRecord)
      /\ (\A n \in DOMAIN ls : ls[n].lo < ls[n].hi /\ ls[n].hi <= Len(t))
      /\ \A m, n \in DOMAIN ls : ls[m].id = ls[n].id => m = n
  BY ChapterAssumption DEF ChapterAssumption
<1>3. segments = makeBasicSegmenter(t, ls) /\ text = t
  BY <1>1
<1> HIDE DEF t, ls
<1>4. segments \in Seq(Part) /\ Tiled(segments, text) /\ Placed(segments)
  <2>1. LET row == makeBasicSegmenter(t, ls) IN row \in Seq(Part) /\ Tiled(row, t) /\ Placed(row)
    BY <1>2, Opens
  <2> QED BY <2>1, <1>3
<1>5. labelsById = LabelsOf(segments, DOMAIN segments)
  BY <1>1 DEF LabelsOf
<1>6. labelsById \in SUBSET LabelRecord
  <2>1. LabelsOf(segments, DOMAIN segments) \in SUBSET LabelRecord
    BY <1>4, LabelsWithin
  <2> QED BY <2>1, <1>5
<1>7. Now \in State
  BY <1>2, <1>3, <1>4, <1>6 DEF Now, State
<1>8. Held(Now, text)
  BY <1>4, <1>5, NowIs DEF Held
<1> QED BY <1>7, <1>8 DEF Sound

\* What both copies show of a label is the label at its one place.
LEMMA ShownOnce ==
  ASSUME Sound
  PROVE  \A l, k \in Shown : l.id = k.id => l = k
<1>1. segments \in Seq(Part) /\ Tiled(segments, text) /\ Placed(segments)
  <2>1. Now \in State /\ Held(Now, text)
    BY DEF Sound
  <2> QED BY <2>1, NowIs, StateIs DEF Held
<1>2. ASSUME NEW l \in Shown, NEW k \in Shown, l.id = k.id PROVE l = k
  <2>1. PICK i \in DOMAIN segments : l \in {By(o, segments[i].start) : o \in ToSet(segments[i].labels)}
    BY DEF Shown
  <2>2. PICK j \in DOMAIN segments : k \in {By(o, segments[j].start) : o \in ToSet(segments[j].labels)}
    BY DEF Shown
  <2>3. PICK x \in ToSet(segments[i].labels) : l = By(x, segments[i].start)
    BY <2>1
  <2>4. PICK y \in ToSet(segments[j].labels) : k = By(y, segments[j].start)
    BY <2>2
  <2>5. /\ segments[i].labels \in Seq(LabelRecord) /\ segments[i].start \in Int
        /\ segments[j].labels \in Seq(LabelRecord) /\ segments[j].start \in Int
    BY <1>1, Tile
  <2>6. l.id = x.id
    BY <2>3, <2>5, MembersAre, ByIs
  <2>7. k.id = y.id
    BY <2>4, <2>5, MembersAre, ByIs
  <2>8. i = j /\ x = y
    <3>1. x.id = y.id
      BY <2>6, <2>7, <1>2
    <3>2. Placed(segments)
      BY <1>1
    <3>3. \A v \in ToSet(segments[i].labels), w \in ToSet(segments[j].labels) : v.id = w.id => (i = j /\ v = w)
      BY <3>2, Zenon DEF Placed
    <3> QED BY <3>1, <3>3
  <2> QED BY <2>3, <2>4, <2>8
<1> QED BY <1>2

LEMMA SoundIs ==
  ASSUME Sound
  PROVE  /\ Now \in State /\ Held(Now, text) /\ text \in Seq(Char) /\ Len(text) \in Nat
         /\ Now.text = text /\ ~Now.threw /\ Now.labelsById = labelsById /\ Shown = Seen(Now)
         /\ Held(Now, Now.text)
<1>1. Now \in State /\ Held(Now, text)
  BY DEF Sound
<1>2. text \in Seq(Char)
  BY <1>1, NowIs, StateIs
<1>3. Shown = Seen(Now)
  BY NowIs DEF Shown, Seen, SeenIn
<1> QED BY <1>1, <1>2, <1>3, NowIs

\* After an operation the labels of its result are shown.
LEMMA ShownAfter ==
  ASSUME NEW u, u \in State, Becomes(u)
  PROVE  Shown' = Seen(u) /\ text' = u.text /\ threw' = u.threw /\ threw' \in BOOLEAN
<1>1. text' = u.text /\ segments' = u.segments /\ threw' = u.threw
  BY DEF Becomes
<1>2. Shown' = Seen(u)
  BY <1>1 DEF Shown, Seen, SeenIn
<1> QED BY <1>1, <1>2, StateIs

\* The ids in use are those of the labels that are shown.
LEMMA IdsShown ==
  ASSUME Sound
  PROVE  Ids = Document!Ids
<1>1. Tiled(segments, text) /\ labelsById = LabelsOf(segments, DOMAIN segments)
  BY SoundIs, NowIs DEF Held
<1>2. \A k \in DOMAIN segments : \A l \in ToSet(segments[k].labels) : By(l, segments[k].start).id = l.id
  BY <1>1, SeenAt
<1>3. ASSUME NEW id \in Ids PROVE id \in Document!Ids
  <2>1. PICK l \in labelsById : id = l.id
    BY DEF Ids
  <2>2. PICK k \in DOMAIN segments : l \in ToSet(segments[k].labels)
    BY <1>1 DEF LabelsOf
  <2> DEFINE y == By(l, segments[k].start)
  <2>3. y \in Shown
    BY <2>2 DEF Shown
  <2>4. y.id = id
    BY <1>2, <2>1, <2>2
  <2> QED BY <2>3, <2>4 DEF Document!Ids
<1>4. ASSUME NEW id \in Document!Ids PROVE id \in Ids
  <2>1. PICK y \in Shown : id = y.id
    BY DEF Document!Ids
  <2>2. PICK k \in DOMAIN segments : y \in {By(l, segments[k].start) : l \in ToSet(segments[k].labels)}
    BY DEF Shown
  <2>3. PICK l \in ToSet(segments[k].labels) : y = By(l, segments[k].start)
    BY <2>2
  <2>4. l \in labelsById
    BY <1>1, <2>3 DEF LabelsOf
  <2>5. l.id = id
    BY <1>2, <2>1, <2>3
  <2> QED BY <2>4, <2>5 DEF Ids
<1> QED BY <1>3, <1>4

------------------------------------------------------------------------------
(* Each operation keeps the manager whole, and is a step of the document.    *)
LEMMA InsertMoves ==
  ASSUME NEW pos \in Nat, NEW piece, NEW op, op = [op |-> "insert", at |-> pos, text |-> piece], NEW T
  PROVE  Document!ApplyTextOp(T, op) = AllMoved({x \in T : x.lo >= pos}, Len(piece)) \cup {x \in T : x.hi <= pos}
<1> DEFINE d == Len(piece)
<1>1. Document!Delta(op) = d /\ Document!End(op) = pos /\ op.at = pos
  BY DEF Document!Delta, Document!End
<1> HIDE DEF d
<1>2. \A l : Document!Moved(l, op) = By(l, d)
  BY <1>1 DEF Document!Moved, By
<1>3. Document!ApplyTextOp(T, op) = AllMoved({x \in T : x.lo >= pos}, d) \cup {x \in T : x.hi <= pos}
  BY <1>1, <1>2 DEF Document!ApplyTextOp, AllMoved
<1> QED BY <1>3 DEF d

LEMMA InsertStep ==
  ASSUME Sound, NEW pos \in 0..Len(text), NEW piece \in Piece, insertTextAt(pos, piece)
  PROVE  Sound' /\ Document!Next
<1> DEFINE u  == Inserted(Now, pos, piece)
           op == [op |-> "insert", at |-> pos, text |-> piece]
<1>1. pos \in Nat /\ pos <= Len(Now.text) /\ Held(Now, Now.text) /\ Now \in State /\ ~Now.threw
  BY SoundIs
<1>2. piece \in Seq(Char) /\ piece # <<>>
  BY ChapterAssumption DEF ChapterAssumption
<1>3. LET v == Inserted(Now, pos, piece)
      IN  /\ v \in State /\ Held(v, v.text) /\ v.text = Paste(Now.text, pos, piece) /\ ~v.threw
          /\ Typed(Seen(Now), Seen(v), pos, Len(piece))
  BY <1>1, <1>2, InsertHeld
<1>4. Becomes(u)
  BY DEF insertTextAt
<1> HIDE DEF u
<1>5. Sound'
  BY <1>3, <1>4, SoundAfter DEF u
<1>6. /\ Shown' = Seen(u) /\ Shown = Seen(Now) /\ threw' = FALSE /\ text' = Paste(text, pos, piece)
      /\ Typed(Seen(Now), Seen(u), pos, Len(piece))
  <2>1. u \in State /\ u.text = Paste(Now.text, pos, piece) /\ ~u.threw /\ Typed(Seen(Now), Seen(u), pos, Len(piece))
    BY <1>3 DEF u
  <2>2. Shown' = Seen(u) /\ text' = u.text /\ threw' = u.threw /\ threw' \in BOOLEAN
    BY <2>1, <1>4, ShownAfter
  <2> QED BY <2>1, <2>2, SoundIs
<1>7. Typed(Shown, Shown', pos, Len(piece))
  BY <1>6
<1>8. PICK stay \in SUBSET {x \in Shown : x.lo >= pos /\ pos > 0} :
         /\ stay = {} \/ \E x \in stay : x.lo = pos
         /\ Shown' = AllMoved({x \in Shown \ stay : x.lo >= pos}, Len(piece))
                       \cup {x \in Shown \ stay : x.hi <= pos} \cup stay
  BY <1>7 DEF Typed
<1>12. Shown' = Document!ApplyTextOp(Shown \ stay, op) \cup stay
  <2> DEFINE T == Shown \ stay
  <2>1. op = [op |-> "insert", at |-> pos, text |-> piece]
    OBVIOUS
  <2>2. Shown' = AllMoved({x \in T : x.lo >= pos}, Len(piece)) \cup {x \in T : x.hi <= pos} \cup stay
    BY <1>8
  <2> HIDE DEF T, op
  <2>3. Document!ApplyTextOp(T, op) = AllMoved({x \in T : x.lo >= pos}, Len(piece)) \cup {x \in T : x.hi <= pos}
    BY <2>1, <1>1, InsertMoves
  <2> QED BY <2>2, <2>3 DEF T
<1>9. stay \in Document!HeldBack(pos)
  BY <1>8 DEF Document!HeldBack
<1>10. text' = Document!Edited(text, op)
  BY <1>6 DEF Document!Edited, Paste
<1> HIDE DEF op
<1>11. Document!Insert(pos, piece)
  BY <1>6, <1>9, <1>10, <1>12 DEF Document!Insert, op
<1> QED BY <1>5, <1>11 DEF Document!Next

LEMMA DroppedIs ==
  ASSUME NEW S, NEW S2, NEW pos \in Nat, NEW n \in Nat, NEW cut, Len(cut) = n, Dropped(S, S2, pos, pos + n)
  PROVE  S2 = Document!ApplyTextOp(S, [op |-> "delete", at |-> pos, text |-> cut])
<1> DEFINE op == [op |-> "delete", at |-> pos, text |-> cut]
           b  == pos + n
           d  == pos - b
<1>1. Document!Delta(op) = 0 - n /\ Document!End(op) = b /\ op.at = pos
  BY DEF Document!Delta, Document!End
<1>2. d = 0 - n
  OBVIOUS
<1>3. Dropped(S, S2, pos, b)
  OBVIOUS
<1>4. S2 = AllMoved({x \in S : x.lo >= b}, d) \cup {x \in S : x.hi <= pos}
  BY <1>3 DEF Dropped
<1> HIDE DEF op, b, d
<1>5. \A l : Document!Moved(l, op) = By(l, d)
  BY <1>1, <1>2 DEF Document!Moved, By
<1>6. Document!ApplyTextOp(S, op) = AllMoved({x \in S : x.lo >= b}, d) \cup {x \in S : x.hi <= pos}
  BY <1>1, <1>5 DEF Document!ApplyTextOp, AllMoved
<1> QED BY <1>4, <1>6 DEF op

LEMMA DeleteStep ==
  ASSUME Sound, NEW pos \in 0..Len(text), NEW n \in 1..Len(text) - pos, deleteTextAt(pos, n)
  PROVE  Sound' /\ Document!Next
<1> DEFINE b   == pos + n
           u   == Deleted(Now, pos, b)
           cut == SubSeq(text, pos + 1, b)
           op  == [op |-> "delete", at |-> pos, text |-> cut]
           m   == Len(text)
<1>1. pos \in Nat /\ n \in Nat /\ b \in Nat /\ pos < b /\ b <= m /\ m \in Nat
  <2>1. m \in Nat /\ pos \in 0..m /\ n \in 1..m - pos
    BY SoundIs
  <2> HIDE DEF m
  <2> QED BY <2>1
<1>2. Len(cut) = n
  <2>1. text \in Seq(Char)
    BY SoundIs
  <2> DEFINE a == pos + 1
  <2>2. a \in 1..m + 1 /\ b \in a - 1..m /\ b - a + 1 = n
    <3> HIDE DEF m
    <3> QED BY <1>1
  <2> HIDE DEF a, b
  <2>3. Len(SubSeq(text, a, b)) = b - a + 1
    BY <2>1, <2>2
  <2> QED BY <2>2, <2>3 DEF a
<1>3. Becomes(u)
  BY DEF deleteTextAt
<1>4. b = pos + n /\ u = Deleted(Now, pos, b) /\ cut = SubSeq(text, pos + 1, pos + n)
  OBVIOUS
<1> HIDE DEF b, u, cut
<1>5. /\ u \in State /\ Held(u, u.text) /\ u.text = Cut(Now.text, pos, b) /\ ~u.threw
      /\ Dropped(Seen(Now), Seen(u), pos, b)
  <2>1. b <= Len(Now.text) /\ Now \in State /\ Held(Now, Now.text) /\ ~Now.threw
    BY <1>1, SoundIs
  <2>2. LET v == Deleted(Now, pos, b)
        IN  /\ v \in State /\ Held(v, v.text) /\ v.text = Cut(Now.text, pos, b) /\ ~v.threw
            /\ Dropped(Seen(Now), Seen(v), pos, b)
    BY <2>1, <1>1, DeleteHeld
  <2> QED BY <2>2, <1>4
<1>6. Sound'
  BY <1>3, <1>5, SoundAfter
<1>7. Shown' = Seen(u) /\ text' = u.text /\ threw' = u.threw /\ threw' \in BOOLEAN
  BY <1>3, <1>5, ShownAfter
<1>8. Dropped(Shown, Shown', pos, pos + n) /\ threw' = FALSE /\ text' = Cut(text, pos, pos + n)
  BY <1>4, <1>5, <1>7, SoundIs
<1>9. Shown' = Document!ApplyTextOp(Shown, op)
  BY <1>1, <1>2, <1>8, DroppedIs
<1>10. text' = Document!Edited(text, op)
  <2>1. Document!End(op) = pos + n
    BY <1>2 DEF Document!End
  <2> QED BY <2>1, <1>8 DEF Document!Edited, Cut
<1>11. Document!Delete(pos, n)
  BY <1>4, <1>8, <1>9, <1>10 DEF Document!Delete
<1> QED BY <1>6, <1>11 DEF Document!Next

\* A label that is added.
LEMMA NewLabel ==
  ASSUME Sound, NEW id \in Label, NEW hi \in 1..Len(text), NEW lo \in 0..hi - 1
  PROVE  /\ lo \in Nat /\ hi \in Nat /\ lo < hi /\ hi <= Len(text)
         /\ [id |-> id, lo |-> lo, hi |-> hi] \in Document!LabelsOver(text)
<1>1. Len(text) \in Nat
  BY SoundIs
<1>2. lo \in Nat /\ hi \in Nat /\ lo < hi /\ hi <= Len(text) /\ lo \in 0..Len(text) /\ hi \in 0..Len(text)
  <2> DEFINE m == Len(text)
  <2>1. m \in Nat /\ hi \in 1..m
    BY <1>1
  <2> HIDE DEF m
  <2>2. lo \in Nat /\ hi \in Nat /\ lo < hi /\ hi <= m /\ lo \in 0..m /\ hi \in 0..m
    BY <2>1
  <2> QED BY <2>2 DEF m
<1> QED BY <1>2 DEF Document!LabelsOver

LEMMA AddStep ==
  ASSUME Sound, NEW id \in Label, NEW hi \in 1..Len(text), NEW lo \in 0..hi - 1, addLabel(id, lo, hi)
  PROVE  Sound' /\ Document!Next
<1> DEFINE u == Added(Now, id, lo, hi)
           l == [id |-> id, lo |-> lo, hi |-> hi]
<1>1. lo \in Nat /\ hi \in Nat /\ lo < hi /\ hi <= Len(text) /\ l \in Document!LabelsOver(text)
  BY NewLabel
<1>2. id \notin Ids /\ Becomes(u)
  BY DEF addLabel
<1>3. \A o \in Now.labelsById : o.id # id
  BY <1>2, SoundIs DEF Ids
<1>4. LET v == Added(Now, id, lo, hi)
      IN  /\ v \in State /\ Held(v, text) /\ v.text = Now.text /\ v.threw = Now.threw
          /\ Seen(v) = Seen(Now) \cup {[id |-> id, lo |-> lo, hi |-> hi]}
  <2>1. Now \in State /\ text \in Seq(Char) /\ Held(Now, text)
    BY SoundIs
  <2> QED BY <2>1, <1>1, <1>3, AddHeld
<1>5. u \in State /\ Held(u, text) /\ u.text = text /\ ~u.threw /\ Seen(u) = Shown \cup {l}
  BY <1>4, SoundIs
<1>6. l.id = id
  OBVIOUS
<1> HIDE DEF u, l
<1>7. Sound'
  BY <1>2, <1>5, SoundAfter
<1>8. Shown' = Shown \cup {l} /\ text' = text /\ threw' = FALSE
  <2>1. Shown' = Seen(u) /\ text' = u.text /\ threw' = u.threw /\ threw' \in BOOLEAN
    BY <1>2, <1>5, ShownAfter
  <2> QED BY <2>1, <1>5
<1>9. l.id \notin Document!Ids
  BY <1>2, <1>6, IdsShown
<1>10. Document!Add(l)
  BY <1>8 DEF Document!Add
<1> QED BY <1>1, <1>7, <1>9, <1>10 DEF Document!Next

\* What is left when a label has been removed, and when that can throw.
LEMMA RemovedIs ==
  ASSUME Sound, NEW id \in Ids
  PROVE  LET v == Removed(Now, id)
         IN  /\ v \in State /\ Held(v, text) /\ v.text = text /\ \A l \in v.labelsById : l.id # id
             /\ \E x \in Shown : /\ x.id = id /\ Seen(v) = Shown \ {x}
                                 /\ v.threw => Document!MayThrow(x)
<1> DEFINE v == Removed(Now, id)
<1>1. Now \in State /\ text \in Seq(Char) /\ Held(Now, text) /\ Now.text = text /\ ~Now.threw
  BY SoundIs
<1>2. \E l \in Now.labelsById : l.id = id
  BY SoundIs DEF Ids
<1>3. LET u == Removed(Now, id)
      IN  /\ u \in State /\ Held(u, text) /\ u.text = text /\ \A l \in u.labelsById : l.id # id
          /\ Seen(u) = {y \in Seen(Now) : y.id # id}
          /\ u.threw => \E y \in Seen(Now) : y.id = id /\ Clash(Seen(Now), y)
  BY <1>1, <1>2, RemoveHeld
<1>4. /\ Seen(v) = {y \in Shown : y.id # id}
      /\ v.threw => \E y \in Shown : y.id = id /\ Clash(Shown, y)
  BY <1>3, SoundIs
<1>5. PICK x \in Shown : x.id = id
  BY IdsShown DEF Document!Ids
<1>6. \A y \in Shown : y.id = id => y = x
  BY <1>5, ShownOnce
<1>7. Seen(v) = Shown \ {x}
  BY <1>4, <1>5, <1>6
<1>8. v.threw => Document!MayThrow(x)
  <2>1. v.threw => Clash(Shown, x)
    BY <1>4, <1>6
  <2>2. Clash(Shown, x) <=> Document!MayThrow(x)
    BY DEF Clash, Document!MayThrow
  <2> QED BY <2>1, <2>2
<1> HIDE DEF v
<1>9. \E y \in Shown : y.id = id /\ Seen(v) = Shown \ {y} /\ (v.threw => Document!MayThrow(y))
  BY <1>5, <1>7, <1>8
<1> QED BY <1>3, <1>9 DEF v

LEMMA RemoveStep ==
  ASSUME Sound, NEW id \in Label, removeLabel(id)
  PROVE  Sound' /\ Document!Next
<1> DEFINE v == Removed(Now, id)
<1>1. id \in Ids /\ Becomes(v)
  BY DEF removeLabel
<1>2. /\ v \in State /\ Held(v, text) /\ v.text = text
      /\ \E x \in Shown : /\ x.id = id /\ Seen(v) = Shown \ {x}
                          /\ v.threw => Document!MayThrow(x)
  BY <1>1, RemovedIs
<1> HIDE DEF v
<1>3. Sound'
  BY <1>1, <1>2, SoundAfter
<1>4. PICK x \in Shown : Seen(v) = Shown \ {x} /\ (v.threw => Document!MayThrow(x))
  BY <1>2
<1>5. Shown' = Shown \ {x} /\ (threw' => Document!MayThrow(x)) /\ threw' \in BOOLEAN /\ text' = text
  <2>1. Shown' = Seen(v) /\ text' = v.text /\ threw' = v.threw /\ threw' \in BOOLEAN
    BY <1>1, <1>2, ShownAfter
  <2> QED BY <2>1, <1>2, <1>4
<1>6. Document!Remove(x)
  BY <1>5 DEF Document!Remove
<1> QED BY <1>3, <1>6 DEF Document!Next

LEMMA UpdateStep ==
  ASSUME Sound, NEW id \in Label, NEW hi \in 1..Len(text), NEW lo \in 0..hi - 1, updateLabel(id, lo, hi)
  PROVE  Sound' /\ Document!Next
<1> DEFINE v == Removed(Now, id)
           u == Added(v, id, lo, hi)
           w == IF v.threw THEN v ELSE u
           l == [id |-> id, lo |-> lo, hi |-> hi]
<1>1. lo \in Nat /\ hi \in Nat /\ lo < hi /\ hi <= Len(text) /\ l \in Document!LabelsOver(text)
  BY NewLabel
<1>2. id \in Ids /\ Becomes(w)
  BY DEF updateLabel
<1>3. /\ v \in State /\ Held(v, text) /\ v.text = text /\ (\A o \in v.labelsById : o.id # id)
      /\ \E x \in Shown : /\ x.id = id /\ Seen(v) = Shown \ {x}
                          /\ v.threw => Document!MayThrow(x)
  BY <1>2, RemovedIs
<1> HIDE DEF v
<1>4. PICK x \in Shown : x.id = id /\ Seen(v) = Shown \ {x} /\ (v.threw => Document!MayThrow(x))
  BY <1>3
<1>5. LET z == Added(v, id, lo, hi)
      IN  /\ z \in State /\ Held(z, text) /\ z.text = v.text /\ z.threw = v.threw
          /\ Seen(z) = Seen(v) \cup {[id |-> id, lo |-> lo, hi |-> hi]}
  <2>1. text \in Seq(Char)
    BY SoundIs
  <2> QED BY <2>1, <1>1, <1>3, AddHeld
<1>6. u \in State /\ Held(u, text) /\ u.text = text /\ u.threw = v.threw /\ Seen(u) = (Shown \ {x}) \cup {l}
  BY <1>3, <1>4, <1>5
<1>7. l.id = x.id
  BY <1>4
<1>8. w = IF v.threw THEN v ELSE u
  OBVIOUS
<1> HIDE DEF u, w, l
<1>9. w \in State /\ Held(w, w.text) /\ w.text = text
  BY <1>3, <1>6, <1>8
<1>10. Sound'
  BY <1>2, <1>9, SoundAfter
<1>11. Shown' = Seen(w) /\ text' = text /\ threw' = w.threw /\ threw' \in BOOLEAN
  <2>1. Shown' = Seen(w) /\ text' = w.text /\ threw' = w.threw /\ threw' \in BOOLEAN
    BY <1>2, <1>9, ShownAfter
  <2> QED BY <2>1, <1>9
<1>12. Document!Update(x, l)
  <2>1. CASE v.threw
    <3>1. Shown' = Shown \ {x} /\ threw' = TRUE /\ Document!MayThrow(x)
      BY <2>1, <1>4, <1>8, <1>11
    <3> QED BY <3>1, <1>11 DEF Document!Update
  <2>2. CASE ~v.threw
    <3>1. Shown' = (Shown \ {x}) \cup {l} /\ threw' = FALSE
      BY <2>2, <1>6, <1>8, <1>11
    <3> QED BY <3>1, <1>11 DEF Document!Update
  <2> QED BY <2>1, <2>2
<1> QED BY <1>1, <1>7, <1>10, <1>12 DEF Document!Next

LEMMA NextSound == Sound /\ [Next]_vars => Sound' /\ [Document!Next]_(Document!flat)
<1> SUFFICES ASSUME Sound, [Next]_vars PROVE Sound' /\ [Document!Next]_(Document!flat)
  OBVIOUS
<1>1. CASE Next
  BY <1>1, AddStep, UpdateStep, RemoveStep, InsertStep, DeleteStep DEF Next
<1>2. CASE UNCHANGED vars
  <2>1. Sound'
    BY <1>2 DEF vars, Sound, Now
  <2>2. UNCHANGED Document!flat
    BY <1>2 DEF vars, Document!flat, Shown
  <2> QED BY <2>1, <2>2
<1> QED BY <1>1, <1>2

LEMMA SoundTiles == Sound => Tiles
<1> SUFFICES ASSUME Sound PROVE Tiles
  OBVIOUS
<1>1. /\ segments \in Seq(Part) /\ Tiled(segments, text) /\ Placed(segments)
      /\ labelsById = LabelsOf(segments, DOMAIN segments) /\ text \in Seq(Char)
  <2>1. Now \in State /\ Held(Now, text)
    BY DEF Sound
  <2> QED BY <2>1, NowIs, StateIs DEF Held
<1>2. FlattenSeq([i \in DOMAIN segments |-> segments[i].text]) = text
  BY <1>1, Flattens
<1>3. ASSUME NEW i \in DOMAIN segments
      PROVE  LET g == segments[i]
             IN  /\ g.text # <<>> /\ g.end = g.start + Len(g.text)
                 /\ g.start = (IF i = 1 THEN 0 ELSE segments[i - 1].end)
                 /\ \A n \in DOMAIN g.labels :
                      0 <= g.labels[n].lo /\ g.labels[n].lo < g.labels[n].hi /\ g.labels[n].hi <= Len(g.text)
  <2> DEFINE g == segments[i]
  <2>1. Whole(g) /\ g.start = Edge(segments, i) /\ g.labels \in Seq(LabelRecord)
    BY <1>1, Tile
  <2>2. g.start = IF i = 1 THEN 0 ELSE segments[i - 1].end
    BY <2>1 DEF Edge
  <2> DEFINE ls == g.labels
             x  == g.text
  <2>3. ls \in Seq(LabelRecord) /\ \A l \in ToSet(ls) : l.lo < l.hi /\ l.hi <= Len(x)
    BY <2>1 DEF Whole
  <2> HIDE DEF ls, x
  <2>4. \A n \in DOMAIN ls : 0 <= ls[n].lo /\ ls[n].lo < ls[n].hi /\ ls[n].hi <= Len(x)
    <3> SUFFICES ASSUME NEW n \in DOMAIN ls PROVE 0 <= ls[n].lo /\ ls[n].lo < ls[n].hi /\ ls[n].hi <= Len(x)
      OBVIOUS
    <3>1. ls[n] \in ToSet(ls)
      BY DEF ToSet
    <3>2. ls[n].lo \in Nat
      BY <3>1, <2>3, MembersAre
    <3> QED BY <3>1, <3>2, <2>3
  <2> QED BY <2>1, <2>2, <2>4 DEF Whole, ls, x
<1>4. labelsById = UNION {ToSet(segments[i].labels) : i \in DOMAIN segments}
  BY <1>1 DEF LabelsOf
<1> QED BY <1>2, <1>3, <1>4, ShownOnce DEF Tiles

LEMMA InitImplements == Init => Document!Init
<1> SUFFICES ASSUME Init PROVE Document!Init
  OBVIOUS
<1>1. Sound
  BY InitSound
<1>2. threw = FALSE
  BY DEF Init
<1>3. Shown \subseteq Document!LabelsOver(text)
  <2> SUFFICES ASSUME NEW x \in Shown PROVE x \in Document!LabelsOver(text)
    OBVIOUS
  <2>1. Tiled(segments, text) /\ text \in Seq(Char) /\ Len(text) \in Nat
    BY <1>1, SoundIs, NowIs DEF Held
  <2>2. x \in SeenIn(segments, DOMAIN segments)
    BY DEF Shown, SeenIn
  <2>3. x \in LabelRecord /\ x.id \in Label /\ x.lo \in Nat /\ x.hi \in Nat /\ x.lo < x.hi /\ x.hi <= Len(text)
    BY <2>1, <2>2, SeenAll
  <2> DEFINE m == Len(text)
  <2>4. m \in Nat /\ x.hi <= m
    BY <2>1, <2>3
  <2> HIDE DEF m
  <2>5. x.lo \in 0..m /\ x.hi \in 0..m
    BY <2>3, <2>4
  <2>6. x \in [id : Label, lo : 0..m, hi : 0..m]
    BY <2>3, <2>5 DEF LabelRecord
  <2> QED BY <2>3, <2>6 DEF Document!LabelsOver, m
<1>4. \A x, y \in Shown : x.id = y.id => x = y
  BY <1>1, ShownOnce
<1> QED BY <1>2, <1>3, <1>4 DEF Document!Init

(* The row of segments tiles the text and each label has one place in it,   *)
(* whatever is edited and however long (segmentManager.ts:97).              *)
THEOREM SoundAlways == Spec => []Sound
<1>1. Init => Sound
  BY InitSound
<1>2. Sound /\ [Next]_vars => Sound'
  BY NextSound
<1> QED BY <1>1, <1>2, PTL DEF Spec

(* The invariants that segmentManager.ts:97-107 asks for hold of a chapter of *)
(* any length with any labels, after any edits, also those that throw.      *)
THEOREM SegmentsTile == Spec => []Tiles
<1>1. Spec => []Sound
  BY SoundAlways
<1>2. Sound => Tiles
  BY SoundTiles
<1> QED BY <1>1, <1>2, PTL

(* The manager keeps what its interface promises: one text with labels that   *)
(* follow its edits, in their places and under their ids.  An insertion moves  *)
(* the labels behind it unless HeldBack, and a removal or an update throws    *)
(* only in a MayThrow state (segmentManager.ts), for any chapter and labels.  *)
THEOREM SegmentsImplement == Spec => ImplementsFlatLabels
<1>1. Init => Document!Init
  BY InitImplements
<1>2. Sound /\ [Next]_vars => [Document!Next]_(Document!flat)
  BY NextSound
<1> QED BY <1>1, <1>2, SoundAlways, PTL DEF Spec, ImplementsFlatLabels, Document!Spec
=============================================================================
