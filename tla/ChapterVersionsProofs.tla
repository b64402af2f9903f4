------------------------ MODULE ChapterVersionsProofs -------------------------
(***************************************************************************)
(* Theorems about ChapterVersions for any number of writers, groups and     *)
(* runs, any text and any text operations.                                  *)
(*                                                                         *)
(* Neither the refinement nor LabelsFit is inductive: what a step writes was *)
(* read by an earlier one.  IInv adds what the open requests know: an edit   *)
(* has read labels that fit the text of the version it edits, the version it *)
(* copies is the latest one from its insertion to its commit, and only one   *)
(* edit at a time is between the two; a run that exists has a version, and   *)
(* its results fit that version's text.  Most steps leave the texts alone   *)
(* (Quiet) and keep what the others know; only the commit of an edit adds a   *)
(* text.                                                                    *)
(***************************************************************************)
EXTENDS ChapterVersions, SequenceTheorems, FiniteSetTheorems, TLAPS

-----------------------------------------------------------------------------
(* What an edit does to a text and to the words in it: lemmas on the         *)
(* operators of TextOps.                                                    *)
Operation(C) == [op : {"insert", "delete"}, at : Nat, text : Seq(C)]

(* An edit of a text yields a text, as much longer as Delta says. *)
LEMMA EditedText ==
  ASSUME NEW C, NEW t \in Seq(C), NEW op \in Operation(C), Valid(t, op)
  PROVE  /\ Edited(t, op) \in Seq(C)
         /\ Len(Edited(t, op)) = Len(t) + Delta(op)
         /\ op.at <= Len(t) /\ End(op) <= Len(t) /\ End(op) \in Nat /\ op.at <= End(op)
         /\ Delta(op) \in Int
<1>1. op.at \in Nat /\ op.text \in Seq(C) /\ Len(op.text) \in Nat /\ Len(t) \in Nat
  BY DEF Operation
<1>2. CASE op.op = "insert"
  <2>1. op.at <= Len(t) BY <1>2 DEF Valid
  <2>2. SubSeq(t, 1, op.at) \in Seq(C) /\ Len(SubSeq(t, 1, op.at)) = op.at
    BY <1>1, <2>1
  <2>3. SubSeq(t, op.at + 1, Len(t)) \in Seq(C) /\ Len(SubSeq(t, op.at + 1, Len(t))) = Len(t) - op.at
    BY <1>1, <2>1
  <2>4. QED BY <1>1, <1>2, <2>1, <2>2, <2>3, ConcatProperties DEF Edited, Delta, End
<1>3. CASE op.op = "delete"
  <2>1. End(op) = op.at + Len(op.text) /\ End(op) <= Len(t) BY <1>3 DEF Valid, End
  <2>2. SubSeq(t, 1, op.at) \in Seq(C) /\ Len(SubSeq(t, 1, op.at)) = op.at
    BY <1>1, <2>1
  <2>3. End(op) \in Nat BY <1>1, <2>1
  <2>4. SubSeq(t, End(op) + 1, Len(t)) \in Seq(C) /\ Len(SubSeq(t, End(op) + 1, Len(t))) = Len(t) - End(op)
    BY <1>1, <2>1, <2>3
  <2>5. Edited(t, op) = SubSeq(t, 1, op.at) \o SubSeq(t, End(op) + 1, Len(t))
    BY <1>3 DEF Edited
  <2>6. Edited(t, op) \in Seq(C) /\ Len(Edited(t, op)) = op.at + (Len(t) - End(op))
    BY <2>2, <2>4, <2>5, ConcatProperties
  <2>7. Delta(op) = 0 - Len(op.text) BY <1>3 DEF Delta
  <2>8. QED BY <1>1, <2>1, <2>3, <2>6, <2>7
<1>4. QED BY <1>2, <1>3 DEF Operation

(* A word before the place of the edit stays where it is, a word behind it   *)
(* moves by Delta, and neither changes.                                     *)
LEMMA WordBefore ==
  ASSUME NEW C, NEW t \in Seq(C), NEW op \in Operation(C), Valid(t, op),
         NEW lo \in Nat, NEW hi \in Nat, lo < hi, hi <= op.at
  PROVE  SubSeq(Edited(t, op), lo + 1, hi) = SubSeq(t, lo + 1, hi)
<1> DEFINE head == SubSeq(t, 1, op.at)
           rest == IF op.op = "insert" THEN op.text \o SubSeq(t, op.at + 1, Len(t))
                                       ELSE SubSeq(t, End(op) + 1, Len(t))
<1>1. op.at \in Nat /\ op.text \in Seq(C) /\ Len(t) \in Nat BY DEF Operation
<1>2. op.at <= Len(t) /\ End(op) <= Len(t) /\ End(op) \in Nat BY EditedText
<1>3. head \in Seq(C) /\ Len(head) = op.at BY <1>1, <1>2
<1>4. SubSeq(t, op.at + 1, Len(t)) \in Seq(C) /\ SubSeq(t, End(op) + 1, Len(t)) \in Seq(C)
  BY <1>1, <1>2
<1>5. rest \in Seq(C) BY <1>1, <1>4, ConcatProperties
<1>6. Edited(t, op) = head \o rest
  <2>1. CASE op.op = "insert"
    <3>1. Edited(t, op) = (head \o op.text) \o SubSeq(t, op.at + 1, Len(t)) BY <2>1 DEF Edited
    <3>2. (head \o op.text) \o SubSeq(t, op.at + 1, Len(t)) = head \o (op.text \o SubSeq(t, op.at + 1, Len(t)))
      <4>1. \A a, b, c \in Seq(C) : (a \o b) \o c = a \o (b \o c) BY ConcatAssociative
      <4> HIDE DEF head
      <4>2. QED BY <1>1, <1>3, <1>4, <4>1
    <3>3. QED BY <2>1, <3>1, <3>2
  <2>2. CASE op.op # "insert" BY <2>2 DEF Edited
  <2>3. QED BY <2>1, <2>2
<1>7. SubSeq(head \o rest, lo + 1, hi) = SubSeq(head, lo + 1, hi)
  BY <1>1, <1>3, <1>5, SubSeqOfConcat1
<1>8. SubSeq(head, lo + 1, hi) = SubSeq(t, lo + 1, hi)
  <2>1. op.at \in 1 .. Len(t) /\ 1 \in 1 .. Len(t) BY <1>1, <1>2
  <2>2. lo + 1 \in 1 .. (op.at - 1 + 1) /\ hi \in 1 .. (op.at - 1 + 1) BY <1>1
  <2>3. SubSeq(head, lo + 1, hi) = SubSeq(t, 1 + (lo + 1) - 1, 1 + hi - 1)
    BY <2>1, <2>2, SubSeqOfSubSeq
  <2>4. 1 + (lo + 1) - 1 = lo + 1 /\ 1 + hi - 1 = hi OBVIOUS
  <2>5. QED BY <2>3, <2>4
<1>9. QED BY <1>6, <1>7, <1>8

LEMMA WordBehind ==
  ASSUME NEW C, NEW t \in Seq(C), NEW op \in Operation(C), Valid(t, op),
         NEW lo \in Nat, NEW hi \in Nat, lo < hi, hi <= Len(t), End(op) <= lo
  PROVE  SubSeq(Edited(t, op), lo + Delta(op) + 1, hi + Delta(op)) = SubSeq(t, lo + 1, hi)
<1> DEFINE tail == SubSeq(t, End(op) + 1, Len(t))
           front == IF op.op = "insert" THEN SubSeq(t, 1, op.at) \o op.text ELSE SubSeq(t, 1, op.at)
<1>1. op.at \in Nat /\ op.text \in Seq(C) /\ Len(op.text) \in Nat /\ Len(t) \in Nat BY DEF Operation
<1>2. op.at <= Len(t) /\ End(op) <= Len(t) /\ End(op) \in Nat /\ Delta(op) \in Int BY EditedText
<1>3. tail \in Seq(C) /\ Len(tail) = Len(t) - End(op) BY <1>1, <1>2, SMTT(30)
<1>4. SubSeq(t, 1, op.at) \in Seq(C) /\ Len(SubSeq(t, 1, op.at)) = op.at BY <1>1, <1>2
<1>5. front \in Seq(C) /\ Len(front) = End(op) + Delta(op)
  <2>1. CASE op.op = "insert"
    <3>1. Len(SubSeq(t, 1, op.at) \o op.text) = op.at + Len(op.text) /\ SubSeq(t, 1, op.at) \o op.text \in Seq(C)
      BY <1>1, <1>4, ConcatProperties
    <3>2. QED BY <1>1, <2>1, <3>1 DEF End, Delta
  <2>2. CASE op.op # "insert" BY <1>1, <1>4, <2>2 DEF End, Delta
  <2>3. QED BY <2>1, <2>2
<1>6. Edited(t, op) = front \o tail BY DEF Edited, End
<1>7. SubSeq(front \o tail, lo + Delta(op) + 1, hi + Delta(op))
        = SubSeq(tail, (lo + Delta(op) + 1) - Len(front), (hi + Delta(op)) - Len(front))
  <2> DEFINE m == lo + Delta(op) + 1
             n == hi + Delta(op)
  <2> HIDE DEF front, tail
  <2>1. m \in Len(front) + 1 .. Len(front) + Len(tail) /\ n \in Len(front) + 1 .. Len(front) + Len(tail)
    <3>1. Len(front) \in Int /\ Len(tail) \in Int /\ Len(front) + Len(tail) = Len(t) + Delta(op)
      BY <1>1, <1>2, <1>3, <1>5
    <3>2. m \in Int /\ n \in Int BY <1>2
    <3>3. Len(front) + 1 <= m /\ m <= n BY <1>2, <1>5
    <3>4. n <= Len(front) + Len(tail) BY <1>1, <1>2, <3>1
    <3>5. QED BY <3>1, <3>2, <3>3, <3>4
  <2> HIDE DEF m, n
  <2>2. SubSeq(front \o tail, m, n) = SubSeq(tail, m - Len(front), n - Len(front))
    BY <1>3, <1>5, <2>1, SubSeqOfConcat2
  <2>3. QED BY <2>2 DEF m, n
<1>8. SubSeq(tail, lo - End(op) + 1, hi - End(op)) = SubSeq(t, lo + 1, hi)
  <2> DEFINE i == End(op) + 1
             m == lo - End(op) + 1
             n == hi - End(op)
  <2>1. i \in 1 .. Len(t) /\ Len(t) \in 1 .. Len(t) BY <1>1, <1>2
  <2>2. m \in 1 .. (Len(t) - i + 1) /\ n \in 1 .. (Len(t) - i + 1) BY <1>1, <1>2
  <2>3. i + m - 1 = lo + 1 /\ i + n - 1 = hi BY <1>1, <1>2
  <2> HIDE DEF i, m, n
  <2>4. SubSeq(SubSeq(t, i, Len(t)), m, n) = SubSeq(t, i + m - 1, i + n - 1)
    BY <2>1, <2>2, SubSeqOfSubSeq
  <2>5. SubSeq(SubSeq(t, i, Len(t)), m, n) = SubSeq(t, lo + 1, hi) BY <2>3, <2>4
  <2>6. QED BY <2>5, ZenonT(30) DEF i, m, n
<1>9. /\ (lo + Delta(op) + 1) - Len(front) = lo - End(op) + 1
      /\ (hi + Delta(op)) - Len(front) = hi - End(op)
  BY <1>1, <1>2, <1>5
<1>10. QED
  <2> HIDE DEF front, tail
  <2> QED BY <1>6, <1>7, <1>8, <1>9

-----------------------------------------------------------------------------
(* Types.                                                                    *)
GroupData == [on : BOOLEAN, labels : SUBSET Label]
Version == [text : Seq(Char), data : Data]
Entry == [by : Writer, base : Nat, op : Op]

EditTx == [kind : {"edit"}, at : {"checked", "read", "inserted", "ported"}, base : Nat, rev : Nat,
           op : Op, labels : [Group -> SUBSET Label], on : SUBSET Group]
UpdateTx == [kind : {"update"}, v : Nat, g : Group, old : Label, new : Label, bound : {"lo", "hi"}]
ReadTx == [kind : {"read"}, v : Nat, g : Group]
PromoteTx == [kind : {"promote"}, r : Run, g : Group]

Result == [lo : Nat, hi : Nat, word : Seq(Char)]
RunRow == [status : {"none", "pending", "processing", "done", "failed"}, rev : Nat, job : BOOLEAN,
           api : {"none", "rows", "jobs", "sent", "failed", "done", "dead"}, busy : BOOLEAN,
           found : SUBSET Result]

TypeInv ==
    /\ revs \in Seq(Version) /\ Len(revs) = Len(log) + 1
    /\ log \in Seq(Entry)
    /\ tx \in [Writer -> {Idle} \cup EditTx \cup UpdateTx \cup ReadTx \cup PromoteTx]
    /\ minted \in Nat
    /\ auto \in [Run -> RunRow]

VersionsFit == \A v \in 1 .. Len(revs), g \in Group : Fits(revs[v].data[g].labels, revs[v].text)

Copying(w) == Is(w, "edit") /\ tx[w].at \in {"inserted", "ported"}

EditKnows(w) == Is(w, "edit") =>
    /\ tx[w].rev \in 1 .. Len(revs) /\ tx[w].base = tx[w].rev
    /\ Valid(revs[tx[w].rev].text, tx[w].op)
    /\ \A g \in Group : Fits(tx[w].labels[g], revs[tx[w].rev].text)
    /\ Copying(w) => tx[w].rev = Len(revs)

OneCopies == \A u, w \in Writer : Copying(u) /\ Copying(w) => u = w

OthersKnow(w) ==
    /\ Is(w, "update") \/ Is(w, "read") => tx[w].v \in 1 .. Len(revs)
    /\ Is(w, "promote") => auto[tx[w].r].status # "none"

RunKnows(r) ==
    /\ auto[r].busy \/ auto[r].api # "none" \/ r \in queue => auto[r].status # "none"
    /\ auto[r].status # "none" => auto[r].rev \in 1 .. Len(revs)
    /\ auto[r].status = "none" => auto[r].found = {}
    /\ IsFiniteSet(auto[r].found)
    /\ \A l \in auto[r].found : FitsText(l, revs[auto[r].rev].text)

IInv ==
    /\ TypeInv /\ VersionsFit /\ OneCopies
    /\ \A w \in Writer : EditKnows(w) /\ OthersKnow(w)
    /\ \A r \in Run : RunKnows(r)

-----------------------------------------------------------------------------
(* Labels that fit a text: parts of them do, and two sets that fit and do not *)
(* overlap do together.                                                     *)
LEMMA PartFits ==
  ASSUME NEW ls, NEW t, Fits(ls, t), NEW ms \in SUBSET ls
  PROVE  Fits(ms, t)
BY DEF Fits, Overlaps

LEMMA UnionFits ==
  ASSUME NEW ls, NEW ms, NEW t, Fits(ls, t), Fits(ms, t), \A m \in ms : ~Overlaps(ls, m.lo, m.hi)
  PROVE  Fits(ls \cup ms, t)
BY DEF Fits, Overlaps

LEMMA RowFields ==
  ASSUME NEW n, NEW lo, NEW hi, NEW word
  PROVE  /\ Row(n, lo, hi, word).lo = lo /\ Row(n, lo, hi, word).hi = hi
         /\ Row(n, lo, hi, word).word = word
BY DEF Row

LEMMA RowType ==
  ASSUME NEW n \in Nat, NEW lo \in Nat, NEW hi \in Nat, NEW word \in Seq(Char)
  PROVE  Row(n, lo, hi, word) \in Label
BY DEF Row, Label

LEMMA SingleFits ==
  ASSUME NEW l, NEW t, FitsText(l, t)
  PROVE  Fits({l}, t)
BY DEF Fits, Overlaps

\* How far an edit moves a label that it keeps.
Shifted(l, op) == IF l.lo >= End(op) THEN Delta(op) ELSE 0

(* A copy is the copy of one label that the edit keeps. *)
LEMMA CopiedIs ==
  ASSUME NEW t \in Seq(Char), NEW op \in Op, Valid(t, op), NEW ls \in SUBSET Label, Fits(ls, t)
  PROVE  \A x \in Copied(ls, op) : \E l \in ls :
           /\ l.lo >= End(op) \/ l.hi <= op.at
           /\ x = Row(l.n, l.lo + Shifted(l, op), l.hi + Shifted(l, op), l.word)
<1>1. op.at \in Nat /\ End(op) \in Nat /\ op.at <= End(op) /\ Delta(op) \in Int
  <2>1. op \in Operation(Char) BY ChapterAssumption DEF Operation
  <2>2. QED BY <2>1, EditedText DEF Operation
<1>2. \A l \in ls : l.lo \in Nat /\ l.hi \in Nat /\ l.lo < l.hi
  BY DEF Label, Fits, FitsText
<1> SUFFICES ASSUME NEW x \in Copied(ls, op)
             PROVE  \E l \in ls : /\ l.lo >= End(op) \/ l.hi <= op.at
                                  /\ x = Row(l.n, l.lo + Shifted(l, op), l.hi + Shifted(l, op), l.word)
  OBVIOUS
<1>3. PICK m \in ApplyTextOp(ls, op) : x = Row(m.n, m.lo, m.hi, m.word) BY DEF Copied
<1>4. CASE \E l \in ls : l.lo >= End(op) /\ m = Moved(l, op)
  <2>1. PICK l \in ls : l.lo >= End(op) /\ m = Moved(l, op) BY <1>4
  <2>2. /\ m.n = l.n /\ m.lo = l.lo + Delta(op) /\ m.hi = l.hi + Delta(op) /\ m.word = l.word
    BY <2>1 DEF Moved, Label
  <2>3. QED BY <1>3, <2>1, <2>2 DEF Shifted
<1>5. CASE m \in ls /\ m.hi <= op.at
  <2>1. ~(m.lo >= End(op)) BY <1>1, <1>2, <1>5
  <2>2. m.lo + 0 = m.lo /\ m.hi + 0 = m.hi BY <1>2, <1>5
  <2>3. QED BY <1>3, <1>5, <2>1, <2>2 DEF Shifted
<1>6. QED BY <1>3, <1>4, <1>5 DEF ApplyTextOp

(* What an edit makes of labels that fit a text fits the edited text.        *)
LEMMA CopyFits ==
  ASSUME NEW t \in Seq(Char), NEW op \in Op, Valid(t, op), NEW ls \in SUBSET Label, Fits(ls, t)
  PROVE  Fits(Copied(ls, op), Edited(t, op)) /\ Copied(ls, op) \in SUBSET Label
<1> DEFINE Behind(l) == l.lo >= End(op)
           Shift(l) == IF Behind(l) THEN Delta(op) ELSE 0
<1>1. op \in Operation(Char) BY ChapterAssumption DEF Operation
<1>2. /\ Edited(t, op) \in Seq(Char) /\ Len(Edited(t, op)) = Len(t) + Delta(op) /\ Len(t) \in Nat
      /\ op.at <= Len(t) /\ End(op) <= Len(t) /\ End(op) \in Nat /\ op.at <= End(op)
      /\ Delta(op) \in Int /\ op.at \in Nat
  BY <1>1, EditedText DEF Operation
<1>3. op.at <= End(op) + Delta(op)
  <2>1. op.op \in {"insert", "delete"} /\ Len(op.text) \in Nat BY <1>1 DEF Operation
  <2>2. QED BY <1>2, <2>1 DEF End, Delta
<1>4. \A l \in ls : /\ l.lo \in Nat /\ l.hi \in Nat /\ l.n \in Nat /\ l.word \in Seq(Char)
                    /\ l.lo < l.hi /\ l.hi <= Len(t) /\ l.word = SubSeq(t, l.lo + 1, l.hi)
  BY DEF Label, Fits, FitsText, Slice
<1>5. \A x \in Copied(ls, op) : \E l \in ls :
        /\ Behind(l) \/ l.hi <= op.at
        /\ x = Row(l.n, l.lo + Shift(l), l.hi + Shift(l), l.word)
  BY CopiedIs DEF Shifted
<1>6. ASSUME NEW l \in ls, Behind(l) \/ l.hi <= op.at
      PROVE  /\ l.lo + Shift(l) \in Nat /\ l.hi + Shift(l) \in Nat
             /\ l.lo + Shift(l) < l.hi + Shift(l) /\ l.hi + Shift(l) <= Len(Edited(t, op))
             /\ l.word = SubSeq(Edited(t, op), l.lo + Shift(l) + 1, l.hi + Shift(l))
  <2> DEFINE lo == l.lo
             hi == l.hi
  <2>0. lo \in Nat /\ hi \in Nat /\ lo < hi /\ hi <= Len(t) /\ l.word = SubSeq(t, lo + 1, hi)
    BY <1>4
  <2>1. CASE Behind(l)
    <3>1. SubSeq(Edited(t, op), lo + Delta(op) + 1, hi + Delta(op)) = SubSeq(t, lo + 1, hi)
      <4>1. End(op) <= lo BY <1>2, <2>0, <2>1
      <4> HIDE DEF lo, hi
      <4>2. QED BY <1>1, <2>0, <4>1, WordBehind, ZenonT(40)
    <3>2. Shift(l) = Delta(op) BY <2>1
    <3>3. /\ lo + Delta(op) \in Nat /\ hi + Delta(op) \in Nat
          /\ lo + Delta(op) < hi + Delta(op) /\ hi + Delta(op) <= Len(t) + Delta(op)
      <4>1. End(op) <= lo BY <1>2, <2>0, <2>1
      <4> HIDE DEF lo, hi
      <4>2. QED BY <1>2, <1>3, <2>0, <4>1, SMTT(30)
    <3>4. QED BY <1>2, <2>0, <3>1, <3>2, <3>3
  <2>2. CASE ~Behind(l)
    <3>1. SubSeq(Edited(t, op), lo + 1, hi) = SubSeq(t, lo + 1, hi)
      <4>1. hi <= op.at BY <1>6, <2>2
      <4> HIDE DEF lo, hi
      <4>2. QED BY <1>1, <2>0, <4>1, WordBefore
    <3>2. l.lo + 0 = l.lo /\ l.hi + 0 = l.hi BY <1>4
    <3>3. l.hi <= Len(t) + Delta(op) BY <1>2, <1>3, <1>4, <1>6, <2>2
    <3>4. QED BY <1>2, <1>4, <2>2, <3>1, <3>2, <3>3
  <2>3. QED BY <2>1, <2>2
<1>7. ASSUME NEW l \in ls, NEW m \in ls, Behind(l) \/ l.hi <= op.at, Behind(m) \/ m.hi <= op.at, l # m
      PROVE  ~(l.lo + Shift(l) < m.hi + Shift(m) /\ m.lo + Shift(m) < l.hi + Shift(l))
  <2>1. ~(l.lo < m.hi /\ m.lo < l.hi)
    BY <1>7 DEF Fits, Overlaps
  <2>2. l.lo \in Nat /\ l.hi \in Nat /\ m.lo \in Nat /\ m.hi \in Nat BY <1>4
  <2>3. QED BY <1>2, <1>3, <1>7, <2>1, <2>2, SMTT(30)
<1> HIDE DEF Behind, Shift
<1>8. ASSUME NEW x \in Copied(ls, op)
      PROVE  x \in Label /\ FitsText(x, Edited(t, op))
  <2>1. PICK l \in ls : /\ Behind(l) \/ l.hi <= op.at
                        /\ x = Row(l.n, l.lo + Shift(l), l.hi + Shift(l), l.word)
    BY <1>5
  <2>2. x \in Label BY <1>4, <1>6, <2>1, RowType
  <2>3. x.lo = l.lo + Shift(l) /\ x.hi = l.hi + Shift(l) /\ x.word = l.word BY <2>1, RowFields
  <2>4. QED BY <1>6, <2>1, <2>2, <2>3 DEF FitsText, Slice
<1>9. ASSUME NEW x \in Copied(ls, op), NEW y \in Copied(ls, op), x # y
      PROVE  ~(y.lo < x.hi /\ x.lo < y.hi)
  <2>1. PICK l \in ls : /\ Behind(l) \/ l.hi <= op.at
                        /\ x = Row(l.n, l.lo + Shift(l), l.hi + Shift(l), l.word)
    BY <1>5
  <2>2. PICK m \in ls : /\ Behind(m) \/ m.hi <= op.at
                        /\ y = Row(m.n, m.lo + Shift(m), m.hi + Shift(m), m.word)
    BY <1>5
  <2>3. l # m BY <1>9, <2>1, <2>2
  <2>4. x.lo = l.lo + Shift(l) /\ x.hi = l.hi + Shift(l) BY <2>1, RowFields
  <2>5. y.lo = m.lo + Shift(m) /\ y.hi = m.hi + Shift(m) BY <2>2, RowFields
  <2>6. QED BY <1>7, <2>1, <2>2, <2>3, <2>4, <2>5
<1>10. QED BY <1>8, <1>9 DEF Fits, Overlaps

-----------------------------------------------------------------------------
Tx == {Idle} \cup EditTx \cup UpdateTx \cup ReadTx \cup PromoteTx

\* What a step that adds no version may do to the versions.
Quiet ==
    /\ revs' \in Seq(Version) /\ Len(revs') = Len(revs)
    /\ \A v \in 1 .. Len(revs) : revs'[v].text = revs[v].text
    /\ VersionsFit'

LEMMA RevsType ==
  ASSUME IInv
  PROVE  /\ Len(revs) \in Nat /\ Len(revs) >= 1 /\ DOMAIN revs = 1 .. Len(revs)
         /\ \A v \in 1 .. Len(revs) :
              /\ revs[v] \in Version /\ revs[v].text \in Seq(Char) /\ Len(revs[v].text) \in Nat
              /\ revs[v].data \in Data
              /\ \A g \in Group : revs[v].data[g] \in GroupData /\ revs[v].data[g].labels \in SUBSET Label
                                  /\ revs[v].data[g].on \in BOOLEAN
<1>1. revs \in Seq(Version) /\ log \in Seq(Entry) /\ Len(revs) = Len(log) + 1 BY DEF IInv, TypeInv
<1>2. Len(revs) \in Nat /\ Len(log) \in Nat /\ DOMAIN revs = 1 .. Len(revs) BY <1>1
<1>3. ASSUME NEW v \in 1 .. Len(revs)
      PROVE  /\ revs[v] \in Version /\ revs[v].text \in Seq(Char) /\ Len(revs[v].text) \in Nat
             /\ revs[v].data \in Data
  <2>1. revs[v] \in Version BY <1>1, ElementOfSeq
  <2>2. revs[v].text \in Seq(Char) /\ revs[v].data \in Data BY <2>1 DEF Version
  <2>3. QED BY <2>1, <2>2
<1>4. ASSUME NEW v \in 1 .. Len(revs), NEW g \in Group
      PROVE  /\ revs[v].data[g] \in GroupData /\ revs[v].data[g].labels \in SUBSET Label
             /\ revs[v].data[g].on \in BOOLEAN
  BY <1>3 DEF Data, GroupData
<1>5. QED BY <1>1, <1>2, <1>3, <1>4

LEMMA SameQuiet ==
  ASSUME IInv, UNCHANGED revs
  PROVE  Quiet
BY DEF Quiet, IInv, TypeInv, VersionsFit

LEMMA SetQuiet ==
  ASSUME IInv, NEW v \in 1 .. Len(revs), NEW g \in Group, NEW d \in GroupData,
         Fits(d.labels, revs[v].text), revs' = [revs EXCEPT ![v].data[g] = d]
  PROVE  Quiet
<1> DEFINE e == [revs[v] EXCEPT !.data = [revs[v].data EXCEPT ![g] = d]]
<1>1. revs \in Seq(Version) /\ revs[v] \in Version /\ revs[v].data \in Data
  BY RevsType DEF IInv, TypeInv
<1>2. [revs[v].data EXCEPT ![g] = d] \in Data BY <1>1 DEF Data, GroupData
<1>3. e \in Version /\ e.text = revs[v].text /\ e.data = [revs[v].data EXCEPT ![g] = d]
  BY <1>1, <1>2 DEF Version
<1>4. revs' = [revs EXCEPT ![v] = e] OBVIOUS
<1> HIDE DEF e
<1>5. /\ revs' \in Seq(Version) /\ Len(revs') = Len(revs)
      /\ \A u \in 1 .. Len(revs) : revs'[u] = IF u = v THEN e ELSE revs[u]
  <2>1. revs \in Seq(Version) /\ e \in Version /\ v \in 1 .. Len(revs) BY <1>1, <1>3
  <2>2. QED BY ONLY <1>4, <2>1, ExceptSeq, SMTT(30)
<1>6. \A u \in 1 .. Len(revs) : revs'[u].text = revs[u].text BY <1>3, <1>5
<1>7. ASSUME NEW u \in 1 .. Len(revs), NEW h \in Group
      PROVE  Fits(revs'[u].data[h].labels, revs'[u].text)
  <2>1. Fits(revs[u].data[h].labels, revs[u].text) BY DEF IInv, VersionsFit
  <2>2. CASE u = v /\ h = g
    <3>1. revs'[u].data[h] = d BY <1>1, <1>3, <1>5, <2>2 DEF Data
    <3>2. QED BY <1>6, <2>2, <3>1
  <2>3. CASE ~(u = v /\ h = g)
    <3>1. revs'[u].data[h] = revs[u].data[h] BY <1>1, <1>3, <1>5, <2>3 DEF Data
    <3>2. QED BY <1>6, <2>1, <3>1
  <2>4. QED BY <2>2, <2>3
<1>8. VersionsFit' BY <1>5, <1>7 DEF VersionsFit
<1>9. QED BY <1>5, <1>6, <1>8 DEF Quiet

(* Who is not concerned by a quiet step knows what they knew.                *)
LEMMA StillKnows ==
  ASSUME IInv, Quiet, NEW w \in Writer, tx'[w] = tx[w],
         \A r \in Run : auto[r].status # "none" => auto'[r].status # "none"
  PROVE  EditKnows(w)' /\ OthersKnow(w)'
<1>1. EditKnows(w) /\ OthersKnow(w) /\ tx[w] \in Tx BY DEF IInv, TypeInv, Tx
<1>2. Len(revs') = Len(revs) /\ \A v \in 1 .. Len(revs) : revs'[v].text = revs[v].text
  BY DEF Quiet
<1>3. EditKnows(w)' BY <1>1, <1>2 DEF EditKnows, Copying, Is
<1>4. OthersKnow(w)'
  <2>1. CASE Is(w, "promote")
    <3>1. tx[w].r \in Run BY <1>1, <2>1 DEF Is, Tx, EditTx, UpdateTx, ReadTx, PromoteTx, Idle
    <3>2. QED BY <1>1, <2>1, <3>1 DEF OthersKnow, Is
  <2>2. CASE ~Is(w, "promote") BY <1>1, <1>2, <2>2 DEF OthersKnow, Is
  <2>3. QED BY <2>1, <2>2
<1>5. QED BY <1>3, <1>4

LEMMA IdleKnows ==
  ASSUME NEW w \in Writer, tx'[w] = Idle
  PROVE  EditKnows(w)' /\ OthersKnow(w)' /\ ~Copying(w)'
BY DEF EditKnows, OthersKnow, Copying, Is, Idle

LEMMA RunStillKnows ==
  ASSUME IInv, Quiet, NEW r \in Run, auto'[r] = auto[r], r \in queue' => r \in queue
  PROVE  RunKnows(r)'
<1>1. RunKnows(r) BY DEF IInv
<1>2. Len(revs') = Len(revs) /\ \A v \in 1 .. Len(revs) : revs'[v].text = revs[v].text
  BY DEF Quiet
<1>3. QED BY <1>1, <1>2 DEF RunKnows

-----------------------------------------------------------------------------
(* Steps that only begin, continue or end one request.                       *)
LEMMA RequestStep ==
  ASSUME IInv, Quiet, NEW w \in Writer, NEW t \in Tx, tx' = [tx EXCEPT ![w] = t],
         minted' \in Nat, UNCHANGED <<log, jobs>>,
         EditKnows(w)' /\ OthersKnow(w)',
         Copying(w)' => \A u \in Writer : Copying(u) => u = w
  PROVE  IInv' /\ Quiet /\ UNCHANGED log
<1>1. tx \in [Writer -> Tx] BY DEF IInv, TypeInv, Tx
<1>2. /\ tx' \in [Writer -> Tx] /\ tx'[w] = t
      /\ \A u \in Writer : u # w => tx'[u] = tx[u]
  BY <1>1
<1>3. TypeInv' BY <1>2 DEF IInv, TypeInv, Quiet, jobs, Tx
<1>4. \A u \in Writer : EditKnows(u)' /\ OthersKnow(u)' BY <1>2, StillKnows DEF jobs
<1>5. OneCopies' BY <1>2 DEF IInv, OneCopies, Copying, Is
<1>6. \A r \in Run : RunKnows(r)' BY RunStillKnows DEF jobs
<1>7. QED BY <1>3, <1>4, <1>5, <1>6 DEF IInv, Quiet

(* Steps of one run.                                                        *)
LEMMA JobStep ==
  ASSUME IInv, UNCHANGED <<db, tx>>, NEW r \in Run, NEW a \in RunRow, auto' = [auto EXCEPT ![r] = a],
         queue' \subseteq queue \cup {r}, auto[r].status # "none" => a.status # "none", RunKnows(r)'
  PROVE  IInv' /\ Quiet /\ UNCHANGED log
<1>1. auto \in [Run -> RunRow] BY DEF IInv, TypeInv
<1>2. auto' \in [Run -> RunRow] /\ auto'[r] = a /\ \A q \in Run : q # r => auto'[q] = auto[q]
  BY <1>1
<1>3. Quiet BY SameQuiet DEF db
<1>4. TypeInv' BY <1>2 DEF IInv, TypeInv, db
<1>5. \A w \in Writer : EditKnows(w)' /\ OthersKnow(w)' BY <1>2, <1>3, StillKnows
<1>6. OneCopies' BY DEF IInv, OneCopies, Copying, Is
<1>7. \A q \in Run : RunKnows(q)' BY <1>2, <1>3, RunStillKnows
<1>8. QED BY <1>3, <1>4, <1>5, <1>6, <1>7 DEF IInv, Quiet, db

-----------------------------------------------------------------------------
(* The steps of an edit up to its commit.                                    *)
LEMMA EditTxIs ==
  ASSUME IInv, NEW w \in Writer, Is(w, "edit")
  PROVE  tx[w] \in EditTx /\ EditKnows(w)
<1>1. tx[w] \in Tx /\ EditKnows(w) BY DEF IInv, TypeInv, Tx
<1>2. QED BY <1>1 DEF Is, Tx, UpdateTx, ReadTx, PromoteTx, Idle

LEMMA EditBeginStep ==
  ASSUME IInv, NEW w \in Writer, NEW base \in DOMAIN revs, NEW op \in Op, EditBegin(w, base, op)
  PROVE  IInv' /\ Quiet /\ UNCHANGED log
<1> DEFINE t == [kind |-> "edit", at |-> "checked", base |-> base, rev |-> Latest, op |-> op,
                 labels |-> [g \in Group |-> {}], on |-> {}]
<1>1. UNCHANGED <<db, jobs>> /\ tx' = [tx EXCEPT ![w] = t] BY DEF EditBegin, Begin
<1>2. base = Latest /\ Latest \in 1 .. Len(revs) /\ Latest \in Nat /\ base \in Nat
  BY RevsType DEF EditBegin, Current, Latest
<1>3. t \in EditTx BY <1>2 DEF EditTx
<1>4. tx'[w] = t BY <1>1 DEF IInv, TypeInv
<1>5. Quiet BY <1>1, SameQuiet DEF db
<1>6. \A g \in Group : Fits(t.labels[g], revs[Latest].text) BY DEF Fits
<1>7. Valid(revs[Latest].text, op) BY DEF EditBegin
<1>8. /\ t.kind = "edit" /\ t.at = "checked" /\ t.rev = Latest /\ t.base = Latest /\ t.op = op
  BY <1>2
<1> HIDE DEF t
<1>9. EditKnows(w)' /\ OthersKnow(w)' /\ ~Copying(w)'
  BY <1>1, <1>2, <1>4, <1>6, <1>7, <1>8 DEF EditKnows, OthersKnow, Copying, Is, Latest, db
<1>10. t \in Tx /\ minted' \in Nat /\ UNCHANGED <<log, jobs>> BY <1>1, <1>3 DEF Tx, db, IInv, TypeInv
<1>11. QED BY <1>1, <1>5, <1>9, <1>10, RequestStep

LEMMA EditReadStep ==
  ASSUME IInv, NEW w \in Writer, EditRead(w)
  PROVE  IInv' /\ Quiet /\ UNCHANGED log
<1> DEFINE t == [tx[w] EXCEPT !.at = "read", !.labels = [g \in Group |-> Labels(tx[w].rev, g)]]
<1>1. UNCHANGED <<db, jobs>> /\ tx' = [tx EXCEPT ![w] = t] /\ Is(w, "edit") BY DEF EditRead
<1>2. tx[w] \in EditTx /\ EditKnows(w) BY <1>1, EditTxIs
<1>3. tx[w].rev \in 1 .. Len(revs) BY <1>1, <1>2 DEF EditKnows
<1>4. \A g \in Group : Labels(tx[w].rev, g) \in SUBSET Label /\ Fits(Labels(tx[w].rev, g), revs[tx[w].rev].text)
  BY <1>3, RevsType DEF Labels, IInv, VersionsFit
<1>5. /\ t \in EditTx /\ t.kind = "edit" /\ t.at = "read" /\ t.rev = tx[w].rev /\ t.base = tx[w].base
      /\ t.op = tx[w].op /\ \A g \in Group : t.labels[g] = Labels(tx[w].rev, g)
  BY <1>2, <1>4 DEF EditTx
<1>6. tx'[w] = t BY <1>1 DEF IInv, TypeInv
<1>7. Quiet BY <1>1, SameQuiet DEF db
<1> HIDE DEF t
<1>8. EditKnows(w)' /\ OthersKnow(w)' /\ ~Copying(w)'
  BY <1>1, <1>2, <1>3, <1>4, <1>5, <1>6 DEF EditKnows, OthersKnow, Copying, Is, db
<1>9. t \in Tx BY <1>5 DEF Tx
<1>10. minted' \in Nat /\ UNCHANGED <<log, jobs>> BY <1>1 DEF db, IInv, TypeInv
<1>11. QED BY <1>1, <1>7, <1>8, <1>9, <1>10, RequestStep

LEMMA EditPortStep ==
  ASSUME IInv, NEW w \in Writer, EditPort(w)
  PROVE  IInv' /\ Quiet /\ UNCHANGED log
<1> DEFINE t == [tx[w] EXCEPT !.at = "ported", !.on = {g \in Group : revs[tx[w].rev].data[g].on}]
<1>1. UNCHANGED <<db, jobs>> /\ tx' = [tx EXCEPT ![w] = t] /\ Is(w, "edit") /\ tx[w].at = "inserted"
  BY DEF EditPort
<1>2. tx[w] \in EditTx /\ EditKnows(w) BY <1>1, EditTxIs
<1>3. /\ t \in EditTx /\ t.kind = "edit" /\ t.rev = tx[w].rev /\ t.base = tx[w].base
      /\ t.op = tx[w].op /\ t.labels = tx[w].labels
  BY <1>2 DEF EditTx
<1>4. tx'[w] = t BY <1>1 DEF IInv, TypeInv
<1>5. Quiet BY <1>1, SameQuiet DEF db
<1>6. Copying(w) BY <1>1 DEF Copying
<1> HIDE DEF t
<1>7. EditKnows(w)' /\ OthersKnow(w)'
  BY <1>1, <1>2, <1>3, <1>4, <1>6 DEF EditKnows, OthersKnow, Copying, Is, db
<1>8. t \in Tx BY <1>3 DEF Tx
<1>9. minted' \in Nat /\ UNCHANGED <<log, jobs>> BY <1>1 DEF db, IInv, TypeInv
<1>10. \A u \in Writer : Copying(u) => u = w BY <1>6 DEF IInv, OneCopies
<1>11. QED BY <1>1, <1>5, <1>7, <1>8, <1>9, <1>10, RequestStep

(* A request ends without changing the texts: it gives up, or has written.   *)
LEMMA FinishStep ==
  ASSUME IInv, Quiet, NEW w \in Writer, Finish(w), minted' \in Nat, UNCHANGED <<log, jobs>>
  PROVE  IInv' /\ Quiet /\ UNCHANGED log
<1>1. tx' = [tx EXCEPT ![w] = Idle] /\ Idle \in Tx BY DEF Finish, Tx
<1>2. tx'[w] = Idle BY <1>1 DEF IInv, TypeInv
<1>3. EditKnows(w)' /\ OthersKnow(w)' /\ ~Copying(w)' BY <1>2, IdleKnows
<1> HIDE DEF Tx
<1>4. QED BY <1>1, <1>3, RequestStep

(* The unique constraint: who inserts a version is the only one to copy into *)
(* it.                                                                      *)
LEMMA EditInsertStep ==
  ASSUME IInv, NEW w \in Writer, EditInsert(w)
  PROVE  IInv' /\ Quiet /\ UNCHANGED log
<1>1. UNCHANGED <<db, jobs>> /\ Is(w, "edit") /\ tx[w].at = "read" /\ NobodyInserts(tx[w].rev + 1)
  BY DEF EditInsert
<1>2. tx[w] \in EditTx /\ EditKnows(w) BY <1>1, EditTxIs
<1>3. Quiet /\ minted' \in Nat /\ UNCHANGED <<log, jobs>> BY <1>1, SameQuiet DEF db, IInv, TypeInv
<1>4. CASE tx[w].rev = Latest
  <2> DEFINE t == [tx[w] EXCEPT !.at = "inserted"]
  <2>1. tx' = [tx EXCEPT ![w] = t] BY <1>4 DEF EditInsert
  <2>2. /\ t \in EditTx /\ t.kind = "edit" /\ t.rev = tx[w].rev /\ t.base = tx[w].base
        /\ t.op = tx[w].op /\ t.labels = tx[w].labels
    BY <1>2 DEF EditTx
  <2>3. tx'[w] = t BY <2>1 DEF IInv, TypeInv
  <2> HIDE DEF t
  <2>4. EditKnows(w)' /\ OthersKnow(w)'
    BY <1>1, <1>2, <1>4, <2>2, <2>3 DEF EditKnows, OthersKnow, Copying, Is, db, Latest
  <2>5. \A u \in Writer : ~Copying(u)
    <3> SUFFICES ASSUME NEW u \in Writer, Copying(u) PROVE FALSE OBVIOUS
    <3>1. tx[u].rev = Latest BY EditTxIs DEF EditKnows, Copying, Latest
    <3>2. Inserting(u, tx[w].rev + 1) BY <1>4, <3>1 DEF Inserting, Copying
    <3>3. QED BY <1>1, <3>2 DEF NobodyInserts
  <2>6. t \in Tx BY <2>2 DEF Tx
  <2>7. QED BY <1>3, <2>1, <2>4, <2>5, <2>6, RequestStep
<1>5. CASE tx[w].rev # Latest
  <2>1. Finish(w) BY <1>5 DEF EditInsert
  <2>2. QED BY <1>3, <2>1, FinishStep
<1>6. QED BY <1>4, <1>5

(* The commit: a new version, whose labels were copied from the one before,   *)
(* which is still the latest.                                               *)
NewVersion(w) == [text |-> Edited(revs[tx[w].rev].text, tx[w].op), data |-> Ported(tx[w])]

LEMMA NewVersionFits ==
  ASSUME IInv, NEW w \in Writer, Is(w, "edit")
  PROVE  /\ NewVersion(w) \in Version
         /\ \A g \in Group : Fits(NewVersion(w).data[g].labels, NewVersion(w).text)
<1> DEFINE t == tx[w]
           old == revs[t.rev].text
<1>1. t \in EditTx /\ EditKnows(w) BY EditTxIs
<1>2. /\ old \in Seq(Char) /\ t.op \in Op /\ Valid(old, t.op) /\ t.on \subseteq Group
      /\ \A g \in Group : t.labels[g] \in SUBSET Label /\ Fits(t.labels[g], old)
  BY <1>1, RevsType DEF EditKnows, EditTx
<1>3. Edited(old, t.op) \in Seq(Char)
  <2>1. t.op \in Operation(Char) BY <1>2, ChapterAssumption DEF Operation
  <2>2. QED BY <1>2, <2>1, EditedText
<1>4. \A g \in Group : /\ Copied(t.labels[g], t.op) \in SUBSET Label
                       /\ Fits(Copied(t.labels[g], t.op), Edited(old, t.op))
  <2> HIDE DEF t, old
  <2>1. QED BY <1>2, CopyFits
<1>5. NewVersion(w).text = Edited(old, t.op) /\ NewVersion(w).data = Ported(t) BY DEF NewVersion
<1>6. ASSUME NEW g \in Group
      PROVE  /\ Ported(t)[g] \in GroupData
             /\ Fits(Ported(t)[g].labels, Edited(old, t.op))
  <2>1. Ported(t)[g] = [on |-> g \in t.on, labels |-> IF g \in t.on THEN Copied(t.labels[g], t.op) ELSE {}]
    BY DEF Ported
  <2>2. Fits({}, Edited(old, t.op)) BY DEF Fits
  <2>3. QED BY <1>4, <2>1, <2>2 DEF GroupData
<1>7. Ported(t) \in Data
  <2>1. Ported(t) = [g \in Group |-> Ported(t)[g]] BY DEF Ported
  <2> HIDE DEF t
  <2>2. QED BY <1>6, <2>1 DEF Data, GroupData
<1>8. NewVersion(w) \in Version BY <1>3, <1>7 DEF NewVersion, Version
<1>9. QED BY <1>5, <1>6, <1>8

LEMMA EditCommitStep ==
  ASSUME IInv, NEW w \in Writer, EditCommit(w)
  PROVE  /\ IInv' /\ tx[w].op \in Op /\ tx[w].base = Len(revs)
         /\ Len(revs') = Len(revs) + 1
         /\ Valid(revs[Len(revs)].text, tx[w].op)
         /\ revs'[Len(revs')].text = Edited(revs[Len(revs)].text, tx[w].op)
<1> DEFINE n == Len(revs)
           e == [by |-> w, base |-> tx[w].base, op |-> tx[w].op]
<1>1. /\ Is(w, "edit") /\ tx[w].at = "ported" /\ Finish(w) /\ UNCHANGED <<minted, jobs>>
      /\ revs' = Append(revs, NewVersion(w)) /\ log' = Append(log, e)
  BY DEF EditCommit, NewVersion
<1>2. /\ tx[w] \in EditTx /\ EditKnows(w) /\ Copying(w) /\ NewVersion(w) \in Version
      /\ \A g \in Group : Fits(NewVersion(w).data[g].labels, NewVersion(w).text)
  BY <1>1, EditTxIs, NewVersionFits DEF Copying
<1>3. tx[w].rev = n /\ tx[w].base = n /\ tx[w].op \in Op /\ n \in Nat /\ Valid(revs[n].text, tx[w].op)
  <2>1. tx[w].rev = n /\ tx[w].base = n /\ Valid(revs[n].text, tx[w].op)
    BY <1>1, <1>2 DEF EditKnows
  <2>2. n \in Nat BY RevsType
  <2>3. tx[w].op \in Op BY <1>2 DEF EditTx
  <2>4. QED BY <2>1, <2>2, <2>3
<1>4. /\ revs' \in Seq(Version) /\ Len(revs') = n + 1 /\ revs'[n + 1] = NewVersion(w)
      /\ \A v \in 1 .. n : revs'[v] = revs[v]
  <2>1. revs \in Seq(Version) BY DEF IInv, TypeInv
  <2> HIDE DEF NewVersion
  <2>2. QED BY <1>1, <1>2, <2>1, AppendProperties
<1>5. log' \in Seq(Entry) /\ Len(log') = Len(log) + 1
  <2>1. log \in Seq(Entry) /\ e \in Entry BY <1>3 DEF IInv, TypeInv, Entry
  <2> HIDE DEF e
  <2>2. QED BY <1>1, <2>1
<1>6. tx' \in [Writer -> Tx] /\ tx'[w] = Idle /\ \A u \in Writer : u # w => tx'[u] = tx[u]
  BY <1>1 DEF Finish, IInv, TypeInv, Tx
<1>7. TypeInv' BY <1>1, <1>3, <1>4, <1>5, <1>6 DEF IInv, TypeInv, jobs, Tx
<1>8. VersionsFit'
  <2> SUFFICES ASSUME NEW v \in 1 .. n + 1, NEW g \in Group
               PROVE  Fits(revs'[v].data[g].labels, revs'[v].text)
    BY <1>4 DEF VersionsFit
  <2>1. CASE v = n + 1 BY <1>2, <1>4, <2>1
  <2>2. CASE v # n + 1
    <3>1. v \in 1 .. n BY <1>3, <2>2
    <3>2. QED BY <1>4, <3>1 DEF IInv, VersionsFit
  <2>3. QED BY <2>1, <2>2
<1>9. \A u \in Writer : u # w => ~Copying(u) BY <1>2 DEF IInv, OneCopies
<1>10. OneCopies' BY <1>6, <1>9 DEF OneCopies, Copying, Is, Idle
<1>11. ASSUME NEW u \in Writer
       PROVE  EditKnows(u)' /\ OthersKnow(u)'
  <2>1. CASE u = w BY <1>6, <2>1, IdleKnows
  <2>2. CASE u # w
    <3>1. tx'[u] = tx[u] /\ ~Copying(u) /\ EditKnows(u) /\ OthersKnow(u) BY <1>6, <1>9, <2>2 DEF IInv
    <3>2. EditKnows(u)' BY <1>3, <1>4, <3>1 DEF EditKnows, Copying, Is
    <3>3. OthersKnow(u)' BY <1>1, <1>3, <1>4, <3>1 DEF OthersKnow, Is, jobs
    <3>4. QED BY <3>2, <3>3
  <2>3. QED BY <2>1, <2>2
<1>12. ASSUME NEW r \in Run
       PROVE  RunKnows(r)'
  <2>1. RunKnows(r) /\ auto'[r] = auto[r] /\ queue' = queue BY <1>1 DEF IInv, jobs
  <2>2. QED BY <1>3, <1>4, <2>1 DEF RunKnows
<1>13. IInv' BY <1>7, <1>8, <1>10, <1>11, <1>12 DEF IInv
<1>14. NewVersion(w).text = Edited(revs[n].text, tx[w].op) BY <1>3 DEF NewVersion
<1>15. QED BY <1>3, <1>4, <1>13, <1>14

-----------------------------------------------------------------------------
(* Label changes of one statement.                                          *)
LEMMA LabelStep ==
  ASSUME IInv, Quiet, UNCHANGED <<tx, log, jobs>>, minted' \in Nat
  PROVE  IInv' /\ Quiet /\ UNCHANGED log
<1>1. TypeInv' BY DEF IInv, TypeInv, Quiet, jobs
<1>2. \A w \in Writer : EditKnows(w)' /\ OthersKnow(w)' BY StillKnows DEF jobs
<1>3. OneCopies' BY DEF IInv, OneCopies, Copying, Is
<1>4. \A r \in Run : RunKnows(r)' BY RunStillKnows DEF jobs
<1>5. QED BY <1>1, <1>2, <1>3, <1>4 DEF IInv, Quiet

LEMMA SetLabelsQuiet ==
  ASSUME IInv, NEW v \in 1 .. Len(revs), NEW g \in Group, NEW ls \in SUBSET Label,
         Fits(ls, revs[v].text), SetLabels(v, g, ls)
  PROVE  Quiet
<1> DEFINE d == [revs[v].data[g] EXCEPT !.labels = ls]
<1>1. d \in GroupData /\ d.labels = ls BY RevsType DEF GroupData
<1>2. revs' = [revs EXCEPT ![v].data[g] = d] BY DEF SetLabels
<1> HIDE DEF d
<1>3. QED BY <1>1, <1>2, SetQuiet

LEMMA SetOnQuiet ==
  ASSUME IInv, NEW v \in 1 .. Len(revs), NEW g \in Group, revs' = [revs EXCEPT ![v].data[g].on = TRUE]
  PROVE  Quiet
<1> DEFINE d == [revs[v].data[g] EXCEPT !.on = TRUE]
<1>1. d \in GroupData /\ d.labels = revs[v].data[g].labels BY RevsType DEF GroupData
<1>2. revs' = [revs EXCEPT ![v].data[g] = d] OBVIOUS
<1>3. Fits(d.labels, revs[v].text) BY <1>1 DEF IInv, VersionsFit
<1> HIDE DEF d
<1>4. QED BY <1>1, <1>2, <1>3, SetQuiet

(* A row may be added, or changed, where it fits.                            *)
LEMMA AddFits ==
  ASSUME IInv, NEW v \in 1 .. Len(revs), NEW g \in Group, NEW lo \in Nat, NEW hi \in Nat,
         NEW gone \in SUBSET Labels(v, g), FitsIn(v, g, lo, hi, gone),
         NEW l \in Label, l.lo = lo, l.hi = hi, l.word = Slice(revs[v].text, lo, hi)
  PROVE  /\ (Labels(v, g) \ gone) \cup {l} \in SUBSET Label
         /\ Fits((Labels(v, g) \ gone) \cup {l}, revs[v].text)
<1>1. Labels(v, g) \in SUBSET Label /\ Fits(Labels(v, g), revs[v].text)
  BY RevsType DEF Labels, IInv, VersionsFit
<1>2. Fits(Labels(v, g) \ gone, revs[v].text) BY <1>1, PartFits
<1>3. FitsText(l, revs[v].text) BY DEF FitsText, FitsIn
<1>4. Fits({l}, revs[v].text) BY <1>3, SingleFits
<1>5. \A m \in {l} : ~Overlaps(Labels(v, g) \ gone, m.lo, m.hi) BY DEF FitsIn
<1>6. Fits((Labels(v, g) \ gone) \cup {l}, revs[v].text) BY <1>2, <1>4, <1>5, UnionFits
<1>7. QED BY <1>1, <1>6

LEMMA AddLabelStep ==
  ASSUME IInv, NEW v \in DOMAIN revs, NEW g \in Group, NEW x \in Interval(v), AddLabel(v, g, x[1], x[2])
  PROVE  IInv' /\ Quiet /\ UNCHANGED log
<1>1. v \in 1 .. Len(revs) /\ x[1] \in Nat /\ x[2] \in Nat BY RevsType DEF Interval
<1>2. revs[v].text \in Seq(Char) /\ FitsIn(v, g, x[1], x[2], {}) BY <1>1, RevsType DEF AddLabel
<1>3. minted \in Nat BY DEF IInv, TypeInv
<1> DEFINE lo == x[1]
           hi == x[2]
           w == Slice(revs[v].text, lo, hi)
           l == Row(minted + 1, lo, hi, w)
<1>4. w \in Seq(Char)
  <2>1. hi <= Len(revs[v].text) BY <1>2 DEF FitsIn
  <2>2. SubSeq(revs[v].text, lo + 1, hi) \in Seq(Char) BY <1>1, <1>2, <2>1
  <2>3. QED BY <2>2 DEF Slice
<1>5. SetLabels(v, g, Labels(v, g) \cup {l}) /\ minted' = minted + 1 /\ UNCHANGED <<tx, log, jobs>>
  BY DEF AddLabel
<1>6. l \in Label /\ l.lo = lo /\ l.hi = hi /\ l.word = w
  <2>1. minted + 1 \in Nat /\ lo \in Nat /\ hi \in Nat BY <1>1, <1>3
  <2> HIDE DEF lo, hi, w
  <2>2. QED BY <1>4, <2>1, RowType, RowFields, SMTT(30)
<1> HIDE DEF l
<1>7. /\ (Labels(v, g) \ {}) \cup {l} \in SUBSET Label
      /\ Fits((Labels(v, g) \ {}) \cup {l}, revs[v].text)
  BY <1>1, <1>2, <1>6, AddFits
<1>8. (Labels(v, g) \ {}) \cup {l} = Labels(v, g) \cup {l} OBVIOUS
<1>9. Quiet BY <1>1, <1>5, <1>7, <1>8, SetLabelsQuiet
<1>10. QED BY <1>3, <1>5, <1>9, LabelStep

LEMMA DeleteLabelStep ==
  ASSUME IInv, NEW v \in DOMAIN revs, NEW g \in Group, NEW l \in Labels(v, g), DeleteLabel(v, g, l)
  PROVE  IInv' /\ Quiet /\ UNCHANGED log
<1>1. v \in 1 .. Len(revs) BY RevsType
<1>2. Labels(v, g) \in SUBSET Label /\ Fits(Labels(v, g), revs[v].text)
  BY <1>1, RevsType DEF Labels, IInv, VersionsFit
<1>3. Fits(Labels(v, g) \ {l}, revs[v].text) BY <1>2, PartFits
<1>4. SetLabels(v, g, Labels(v, g) \ {l}) /\ UNCHANGED <<tx, minted, log, jobs>> BY DEF DeleteLabel
<1>5. Quiet BY <1>1, <1>2, <1>3, <1>4, SetLabelsQuiet
<1>6. QED BY <1>4, <1>5, LabelStep DEF IInv, TypeInv

LEMMA InsertLabelDataStep ==
  ASSUME IInv, NEW v \in DOMAIN revs, NEW g \in Group, InsertLabelData(v, g)
  PROVE  IInv' /\ Quiet /\ UNCHANGED log
<1>1. v \in 1 .. Len(revs) BY RevsType
<1>2. Quiet BY <1>1, SetOnQuiet DEF InsertLabelData
<1>3. QED BY <1>2, LabelStep DEF InsertLabelData, IInv, TypeInv

-----------------------------------------------------------------------------
(* Requests that read first and write later.                                 *)
LEMMA BeginOther ==
  ASSUME IInv, NEW w \in Writer, NEW t \in UpdateTx \cup ReadTx \cup PromoteTx, Begin(w, t),
         UNCHANGED <<db, jobs>>,
         t.kind \in {"update", "read"} => t.v \in 1 .. Len(revs),
         t.kind = "promote" => auto[t.r].status # "none"
  PROVE  IInv' /\ Quiet /\ UNCHANGED log
<1>1. tx' = [tx EXCEPT ![w] = t] /\ t \in Tx BY DEF Begin, Tx
<1>2. tx'[w] = t BY <1>1 DEF IInv, TypeInv
<1>3. t.kind \in {"update", "read", "promote"} BY DEF UpdateTx, ReadTx, PromoteTx
<1>4. EditKnows(w)' /\ OthersKnow(w)' /\ ~Copying(w)'
  BY <1>2, <1>3 DEF EditKnows, OthersKnow, Copying, Is, db, jobs
<1>5. Quiet BY SameQuiet DEF db
<1>6. minted' \in Nat /\ UNCHANGED <<log, jobs>> BY DEF db, IInv, TypeInv
<1>7. QED BY <1>1, <1>4, <1>5, <1>6, RequestStep

LEMMA UpdateBeginStep ==
  ASSUME IInv, NEW w \in Writer, NEW v \in DOMAIN revs, NEW g \in Group, NEW l \in Labels(v, g),
         NEW b \in {"lo", "hi"}, NEW at \in 0 .. Len(revs[v].text), UpdateBegin(w, v, g, l, b, at)
  PROVE  IInv' /\ Quiet /\ UNCHANGED log
<1> DEFINE new == [l EXCEPT ![b] = at]
           t == [kind |-> "update", v |-> v, g |-> g, old |-> l, new |-> new, bound |-> b]
<1>1. v \in 1 .. Len(revs) /\ v \in Nat /\ l \in Label BY RevsType DEF Labels
<1>2. at \in Nat BY <1>1, RevsType
<1>3. new \in Label BY <1>1, <1>2 DEF Label
<1>4. t \in UpdateTx BY <1>1, <1>3 DEF UpdateTx
<1>5. Begin(w, t) /\ UNCHANGED <<db, jobs>> BY DEF UpdateBegin
<1>6. t.kind = "update" /\ t.v = v OBVIOUS
<1> HIDE DEF t
<1>7. QED BY <1>1, <1>4, <1>5, <1>6, BeginOther

LEMMA ReadBeginStep ==
  ASSUME IInv, NEW w \in Writer, NEW g \in Group, ReadBegin(w, g)
  PROVE  IInv' /\ Quiet /\ UNCHANGED log
<1> DEFINE t == [kind |-> "read", v |-> Latest, g |-> g]
<1>1. Latest \in 1 .. Len(revs) /\ Latest \in Nat BY RevsType DEF Latest
<1>2. t \in ReadTx /\ t.kind = "read" /\ t.v = Latest BY <1>1 DEF ReadTx
<1>3. Begin(w, t) /\ UNCHANGED <<db, jobs>> BY DEF ReadBegin
<1> HIDE DEF t
<1>4. QED BY <1>1, <1>2, <1>3, BeginOther

LEMMA PromoteBeginStep ==
  ASSUME IInv, NEW w \in Writer, NEW r \in Run, NEW g \in Group, PromoteBegin(w, r, g)
  PROVE  IInv' /\ Quiet /\ UNCHANGED log
<1> DEFINE t == [kind |-> "promote", r |-> r, g |-> g]
<1>1. t \in PromoteTx /\ t.kind = "promote" /\ t.r = r BY DEF PromoteTx
<1>2. Begin(w, t) /\ UNCHANGED <<db, jobs>> /\ auto[r].status = "done" BY DEF PromoteBegin
<1> HIDE DEF t
<1>3. QED BY <1>1, <1>2, BeginOther

LEMMA ReadEndStep ==
  ASSUME IInv, NEW w \in Writer, ReadEnd(w)
  PROVE  IInv' /\ Quiet /\ UNCHANGED log
<1>1. tx[w] \in Tx /\ Is(w, "read") /\ OthersKnow(w) BY DEF ReadEnd, IInv, TypeInv, Tx
<1>2. tx[w] \in ReadTx BY <1>1 DEF Is, Tx, EditTx, UpdateTx, PromoteTx, Idle
<1>3. tx[w].v \in 1 .. Len(revs) /\ tx[w].g \in Group BY <1>1, <1>2 DEF OthersKnow, ReadTx
<1>4. Quiet BY <1>3, SetOnQuiet DEF ReadEnd
<1>5. QED BY <1>4, FinishStep DEF ReadEnd, IInv, TypeInv

LEMMA UpdateEndStep ==
  ASSUME IInv, NEW w \in Writer, UpdateEnd(w)
  PROVE  IInv' /\ Quiet /\ UNCHANGED log
<1> DEFINE t == tx[w]
<1>1. t \in Tx /\ Is(w, "update") /\ OthersKnow(w) BY DEF UpdateEnd, IInv, TypeInv, Tx
<1>2. t \in UpdateTx BY <1>1 DEF Is, Tx, EditTx, ReadTx, PromoteTx, Idle
<1>3. t.v \in 1 .. Len(revs) /\ t.g \in Group /\ t.new \in Label /\ t.bound \in {"lo", "hi"}
  BY <1>1, <1>2 DEF OthersKnow, UpdateTx
<1>4. Finish(w) /\ UNCHANGED <<minted, log, jobs>> BY DEF UpdateEnd
<1>5. Quiet
  <2> DEFINE word == Slice(revs[t.v].text, t.new.lo, t.new.hi)
             asked(l) == [l.asked EXCEPT ![t.bound] = t.new[t.bound]]
             row(l) == [t.new EXCEPT !.ver = @ + 1, !.word = word, !.asked = asked(l)]
  <2>1. ASSUME NEW l \in Labels(t.v, t.g), FitsIn(t.v, t.g, t.new.lo, t.new.hi, {l}),
               SetLabels(t.v, t.g, (Labels(t.v, t.g) \ {l}) \cup {row(l)})
        PROVE  Quiet
    <3>1. l \in Label BY <1>3, RevsType DEF Labels
    <3>2. t.new.lo \in Nat /\ t.new.hi \in Nat /\ t.new[t.bound] \in Nat /\ t.new.ver + 1 \in Nat
      <4>1. t.new.lo \in Nat /\ t.new.hi \in Nat /\ t.new.ver \in Nat BY <1>3 DEF Label
      <4>2. t.new[t.bound] \in Nat BY <1>3, <4>1
      <4>3. QED BY <4>1, <4>2
    <3>3. asked(l) \in [lo : Nat, hi : Nat]
      <4>1. l.asked \in [lo : Nat, hi : Nat] BY <3>1 DEF Label
      <4>2. QED BY <1>3, <3>2, <4>1
    <3>4. word \in Seq(Char)
      <4>1. t.new.hi <= Len(revs[t.v].text) BY <2>1 DEF FitsIn
      <4>2. revs[t.v].text \in Seq(Char) BY <1>3, RevsType
      <4>3. SubSeq(revs[t.v].text, t.new.lo + 1, t.new.hi) \in Seq(Char) BY <3>2, <4>1, <4>2
      <4>4. QED BY <4>3 DEF Slice
    <3> DEFINE m == row(l)
    <3> HIDE DEF asked, word
    <3>5. m \in Label /\ m.lo = t.new.lo /\ m.hi = t.new.hi /\ m.word = word
      BY <1>3, <3>2, <3>3, <3>4 DEF Label
    <3>6. m.word = Slice(revs[t.v].text, t.new.lo, t.new.hi) BY <3>5 DEF word
    <3> DEFINE ver == t.v
               grp == t.g
               lo == t.new.lo
               hi == t.new.hi
    <3>7. {l} \in SUBSET Labels(ver, grp) /\ FitsIn(ver, grp, lo, hi, {l}) BY <2>1
    <3> HIDE DEF m, t, ver, grp, lo, hi
    <3>8. /\ (Labels(ver, grp) \ {l}) \cup {m} \in SUBSET Label
           /\ Fits((Labels(ver, grp) \ {l}) \cup {m}, revs[ver].text)
      BY <1>3, <3>2, <3>5, <3>6, <3>7, AddFits DEF ver, grp, lo, hi
    <3>9. /\ (Labels(t.v, t.g) \ {l}) \cup {m} \in SUBSET Label
          /\ Fits((Labels(t.v, t.g) \ {l}) \cup {m}, revs[t.v].text)
      BY <3>8 DEF ver, grp
    <3>10. SetLabels(t.v, t.g, (Labels(t.v, t.g) \ {l}) \cup {m}) BY <2>1 DEF m
    <3>11. QED BY <1>3, <3>9, <3>10, SetLabelsQuiet
  <2>2. \/ \E l \in Labels(t.v, t.g) :
             /\ FitsIn(t.v, t.g, t.new.lo, t.new.hi, {l})
             /\ SetLabels(t.v, t.g, (Labels(t.v, t.g) \ {l}) \cup {row(l)})
        \/ UNCHANGED revs
    BY DEF UpdateEnd
  <2> HIDE DEF row
  <2>3. QED BY <2>1, <2>2, SameQuiet
<1>6. QED BY <1>4, <1>5, FinishStep DEF IInv, TypeInv

LEMMA PromoteEndStep ==
  ASSUME IInv, NEW w \in Writer, PromoteEnd(w)
  PROVE  IInv' /\ Quiet /\ UNCHANGED log
<1> DEFINE r == tx[w].r
           g == tx[w].g
           v == auto[r].rev
           found == auto[r].found
           rank(a) == Cardinality({b \in found : b.lo < a.lo})
           row(a) == Row(minted + 1 + rank(a), a.lo, a.hi, a.word)
           rows == {row(a) : a \in found}
           d == [on |-> TRUE, labels |-> Labels(v, g) \cup rows]
<1>1. tx[w] \in Tx /\ Is(w, "promote") /\ OthersKnow(w) BY DEF PromoteEnd, IInv, TypeInv, Tx
<1>2. tx[w] \in PromoteTx BY <1>1 DEF Is, Tx, EditTx, UpdateTx, ReadTx, Idle
<1>3. r \in Run /\ g \in Group /\ auto[r].status # "none" /\ RunKnows(r) /\ auto[r] \in RunRow
  BY <1>1, <1>2 DEF OthersKnow, PromoteTx, IInv, TypeInv
<1>4. v \in 1 .. Len(revs) /\ IsFiniteSet(found) /\ found \in SUBSET Result
  BY <1>3 DEF RunKnows, RunRow
<1>5. \A a \in found : FitsText(a, revs[v].text) BY <1>3 DEF RunKnows
<1>6. Labels(v, g) \in SUBSET Label /\ Fits(Labels(v, g), revs[v].text)
  BY <1>3, <1>4, RevsType DEF Labels, IInv, VersionsFit
<1>7. Finish(w) /\ UNCHANGED <<log, jobs>> BY DEF PromoteEnd
<1>8. minted \in Nat BY DEF IInv, TypeInv
<1>9. CASE ~Clashes(Labels(v, g), found) /\ revs' = [revs EXCEPT ![v].data[g] = d]
             /\ minted' = minted + Cardinality(found)
  <2>1. \A a \in found : rank(a) \in Nat
    <3> SUFFICES ASSUME NEW a \in found PROVE rank(a) \in Nat OBVIOUS
    <3>1. IsFiniteSet({b \in found : b.lo < a.lo}) BY <1>4, FS_Subset
    <3>2. QED BY <3>1, FS_CardinalityType
  <2>2. Cardinality(found) \in Nat BY <1>4, FS_CardinalityType
  <2>3. ASSUME NEW a \in found
        PROVE  /\ row(a) \in Label /\ FitsText(row(a), revs[v].text)
               /\ row(a).lo = a.lo /\ row(a).hi = a.hi
    <3>1. a.lo \in Nat /\ a.hi \in Nat /\ a.word \in Seq(Char) BY <1>4 DEF Result
    <3>2. minted + 1 + rank(a) \in Nat BY <1>8, <2>1
    <3> HIDE DEF rank
    <3>3. row(a) \in Label BY <3>1, <3>2, RowType
    <3>4. row(a).lo = a.lo /\ row(a).hi = a.hi /\ row(a).word = a.word BY RowFields
    <3> HIDE DEF row
    <3>5. QED BY <1>5, <3>3, <3>4 DEF FitsText
  <2> HIDE DEF row
  <2>4. Fits(rows, revs[v].text)
    <3>1. \A x \in rows : FitsText(x, revs[v].text) BY <2>3
    <3>2. ASSUME NEW x \in rows, NEW y \in rows, x # y
          PROVE  ~(y.lo < x.hi /\ x.lo < y.hi)
      <4>1. PICK a \in found : x = row(a) OBVIOUS
      <4>2. PICK b \in found : y = row(b) OBVIOUS
      <4>3. a # b BY <3>2, <4>1, <4>2
      <4>4. x.lo = a.lo /\ x.hi = a.hi /\ y.lo = b.lo /\ y.hi = b.hi BY <2>3, <4>1, <4>2
      <4>5. ~Overlaps({b}, a.lo, a.hi) BY <1>9, <4>3 DEF Clashes
      <4>6. QED BY <4>4, <4>5 DEF Overlaps
    <3> HIDE DEF rows
    <3>3. QED BY <3>1, <3>2 DEF Fits, Overlaps
  <2>5. \A x \in rows : ~Overlaps(Labels(v, g), x.lo, x.hi)
    BY <1>9, <2>3 DEF Clashes
  <2>6. rows \in SUBSET Label BY <2>3
  <2> HIDE DEF rows
  <2>7. Fits(Labels(v, g) \cup rows, revs[v].text) BY <1>6, <2>4, <2>5, UnionFits
  <2>8. d \in GroupData /\ d.labels = Labels(v, g) \cup rows BY <1>6, <2>6 DEF GroupData
  <2>9. Quiet
    <3>1. Fits(d.labels, revs[v].text) BY <2>7, <2>8
    <3>2. revs' = [revs EXCEPT ![v].data[g] = d] BY <1>9
    <3>3. v \in 1 .. Len(revs) /\ g \in Group /\ d \in GroupData BY <1>3, <1>4, <2>8
    <3> HIDE DEF d, r, g, v
    <3>4. QED BY <3>1, <3>2, <3>3, SetQuiet, ZenonT(40)
  <2>10. minted' \in Nat
    <3>1. minted' = minted + Cardinality(found) BY <1>9
    <3> HIDE DEF found
    <3>2. QED BY ONLY <1>8, <2>2, <3>1
  <2> HIDE DEF d, found, r, g, v
  <2>11. QED BY <1>7, <2>9, <2>10, FinishStep
<1> HIDE DEF d, rows, rank, row, found, r, g, v
<1>10. CASE UNCHANGED <<revs, minted>>
  <2>1. Quiet BY <1>10, SameQuiet
  <2>2. minted' \in Nat BY <1>8, <1>10
  <2>3. QED BY <1>7, <2>1, <2>2, FinishStep
<1>11. QED BY <1>9, <1>10 DEF PromoteEnd, Labels, d, rows, rank, row, found, r, g, v

-----------------------------------------------------------------------------
(* The life of a run.                                                       *)
LEMMA RunRowIs ==
  ASSUME IInv, NEW r \in Run
  PROVE  auto[r] \in RunRow /\ RunKnows(r) /\ \A a : [auto EXCEPT ![r] = a][r] = a
BY DEF IInv, TypeInv

(* A step that keeps the version and the results of a run that exists.       *)
LEMMA RunGoesOn ==
  ASSUME IInv, UNCHANGED <<db, tx>>, NEW r \in Run, NEW a \in RunRow, auto' = [auto EXCEPT ![r] = a],
         queue' \subseteq queue \cup {r}, auto[r].status # "none", a.status # "none",
         a.rev = auto[r].rev, a.found = auto[r].found
  PROVE  IInv' /\ Quiet /\ UNCHANGED log
<1>1. auto'[r] = a /\ RunKnows(r) BY RunRowIs
<1>2. RunKnows(r)' BY <1>1 DEF RunKnows, db
<1>3. QED BY <1>2, JobStep

LEMMA CreateRunStep ==
  ASSUME IInv, NEW r \in Run, CreateRun(r)
  PROVE  IInv' /\ Quiet /\ UNCHANGED log
<1> DEFINE a == [auto[r] EXCEPT !.status = "pending", !.rev = Latest, !.api = "rows"]
<1>1. auto[r] \in RunRow /\ RunKnows(r) BY RunRowIs
<1>2. Latest \in 1 .. Len(revs) /\ Latest \in Nat BY RevsType DEF Latest
<1>3. /\ a \in RunRow /\ a.status = "pending" /\ a.rev = Latest /\ a.found = auto[r].found
  BY <1>1, <1>2 DEF RunRow
<1>4. /\ auto[r].status = "none" /\ auto' = [auto EXCEPT ![r] = a] /\ queue' = queue
      /\ UNCHANGED <<db, tx>>
  BY DEF CreateRun, JobsUnchanged
<1> HIDE DEF a
<1>5. auto'[r] = a BY <1>4, RunRowIs
<1>6. RunKnows(r)' BY <1>1, <1>2, <1>3, <1>4, <1>5 DEF RunKnows, db
<1>7. QED BY <1>3, <1>4, <1>6, JobStep

LEMMA AssignJobStep ==
  ASSUME IInv, NEW r \in Run, AssignJob(r)
  PROVE  IInv' /\ Quiet /\ UNCHANGED log
<1> DEFINE a == [auto[r] EXCEPT !.job = TRUE, !.api = "jobs"]
<1>1. auto[r] \in RunRow /\ RunKnows(r) BY RunRowIs
<1>2. /\ a \in RunRow /\ a.status = auto[r].status /\ a.rev = auto[r].rev /\ a.found = auto[r].found
  BY <1>1 DEF RunRow
<1>3. auto[r].status # "none" BY <1>1 DEF AssignJob, RunKnows
<1>4. auto' = [auto EXCEPT ![r] = a] /\ queue' = queue /\ UNCHANGED <<db, tx>>
  BY DEF AssignJob, JobsUnchanged
<1> HIDE DEF a
<1>5. QED BY <1>2, <1>3, <1>4, RunGoesOn

LEMMA EnqueueStep ==
  ASSUME IInv, NEW r \in Run, Enqueue(r)
  PROVE  IInv' /\ Quiet /\ UNCHANGED log
<1> DEFINE a(api) == [auto[r] EXCEPT !.api = api]
<1>1. auto[r] \in RunRow /\ RunKnows(r) BY RunRowIs
<1>2. ASSUME NEW api \in {"sent", "failed"}
      PROVE  /\ a(api) \in RunRow /\ a(api).status = auto[r].status
             /\ a(api).rev = auto[r].rev /\ a(api).found = auto[r].found
  BY <1>1 DEF RunRow
<1>3. auto[r].status # "none" BY <1>1 DEF Enqueue, RunKnows
<1>4. /\ \E api \in {"sent", "failed"} : auto' = [auto EXCEPT ![r] = a(api)]
      /\ queue' \subseteq queue \cup {r} /\ UNCHANGED <<db, tx>>
  BY DEF Enqueue, JobsUnchanged
<1> HIDE DEF a
<1>5. QED BY <1>2, <1>3, <1>4, RunGoesOn

LEMMA ReportStep ==
  ASSUME IInv, NEW r \in Run, Report(r)
  PROVE  IInv' /\ Quiet /\ UNCHANGED log
<1> DEFINE a == [auto[r] EXCEPT !.status = Reported(auto[r]), !.api = "done"]
<1>1. auto[r] \in RunRow /\ RunKnows(r) BY RunRowIs
<1>2. auto[r].status # "none" BY <1>1 DEF Report, RunKnows
<1>3. /\ a \in RunRow /\ a.status # "none" /\ a.rev = auto[r].rev /\ a.found = auto[r].found
  BY <1>1, <1>2 DEF RunRow, Reported
<1>4. auto' = [auto EXCEPT ![r] = a] /\ queue' = queue /\ UNCHANGED <<db, tx>>
  BY DEF Report, JobsUnchanged
<1> HIDE DEF a
<1>5. QED BY <1>2, <1>3, <1>4, RunGoesOn

LEMMA ClaimStep ==
  ASSUME IInv, NEW r \in Run, Claim(r)
  PROVE  IInv' /\ Quiet /\ UNCHANGED log
<1> DEFINE a == IF auto[r].status = "pending" /\ auto[r].job
                THEN [auto[r] EXCEPT !.status = "processing", !.busy = TRUE] ELSE auto[r]
<1>1. auto[r] \in RunRow /\ RunKnows(r) BY RunRowIs
<1>2. auto[r].status # "none" BY <1>1 DEF Claim, RunKnows
<1>3. /\ a \in RunRow /\ a.status # "none" /\ a.rev = auto[r].rev /\ a.found = auto[r].found
  BY <1>1, <1>2 DEF RunRow
<1>4. auto' = [auto EXCEPT ![r] = a] /\ queue' \subseteq queue /\ UNCHANGED <<db, tx>>
  BY DEF Claim, JobsUnchanged, IInv, TypeInv
<1> HIDE DEF a
<1>5. QED BY <1>2, <1>3, <1>4, RunGoesOn

LEMMA SetupFailsStep ==
  ASSUME IInv, NEW r \in Run, SetupFails(r)
  PROVE  IInv' /\ Quiet /\ UNCHANGED log
<1> DEFINE a == [auto[r] EXCEPT !.status = "failed"]
<1>1. auto[r] \in RunRow /\ RunKnows(r) BY RunRowIs
<1>2. auto[r].status # "none" BY <1>1 DEF SetupFails, RunKnows
<1>3. /\ a \in RunRow /\ a.status # "none" /\ a.rev = auto[r].rev /\ a.found = auto[r].found
  BY <1>1 DEF RunRow
<1>4. auto' = [auto EXCEPT ![r] = a] /\ queue' \subseteq queue /\ UNCHANGED <<db, tx>>
  BY DEF SetupFails, JobsUnchanged
<1> HIDE DEF a
<1>5. QED BY <1>2, <1>3, <1>4, RunGoesOn

(* What the model finds in a text fits it.                                   *)
LEMMA ResultsFit ==
  ASSUME NEW t \in Seq(Char), NEW found \in Results(t)
  PROVE  found \in SUBSET Result /\ IsFiniteSet(found) /\ \A l \in found : FitsText(l, t)
<1>1. CASE found = {} BY <1>1, FS_EmptySet
<1>2. CASE found # {}
  <2> DEFINE l == [lo |-> 0, hi |-> 1, word |-> Slice(t, 0, 1)]
  <2>1. t # <<>> /\ found = {l} BY <1>2 DEF Results
  <2>2. Len(t) \in Nat /\ Len(t) >= 1 BY <2>1, EmptySeq
  <2>3. Slice(t, 0, 1) \in Seq(Char)
    <3>1. SubSeq(t, 1, 1) \in Seq(Char) BY <2>2
    <3>2. QED BY <3>1 DEF Slice
  <2>4. l \in Result BY <2>3 DEF Result
  <2>5. FitsText(l, t) BY <2>2 DEF FitsText
  <2>6. IsFiniteSet({l}) BY FS_Singleton
  <2>7. QED BY <2>1, <2>4, <2>5, <2>6
<1>3. QED BY <1>1, <1>2

LEMMA InferStep ==
  ASSUME IInv, NEW r \in Run, Infer(r)
  PROVE  IInv' /\ Quiet /\ UNCHANGED log
<1>1. auto[r] \in RunRow /\ RunKnows(r) BY RunRowIs
<1>2. auto[r].status # "none" /\ auto[r].rev \in 1 .. Len(revs) BY <1>1 DEF Infer, RunKnows
<1>3. queue' = queue /\ UNCHANGED <<db, tx>> BY DEF Infer, JobsUnchanged
<1>4. ASSUME NEW found \in Results(revs[auto[r].rev].text),
             auto' = [auto EXCEPT ![r].status = "done", ![r].busy = FALSE, ![r].found = found]
      PROVE  IInv' /\ Quiet /\ UNCHANGED log
  <2> DEFINE a == [auto[r] EXCEPT !.status = "done", !.busy = FALSE, !.found = found]
  <2>1. revs[auto[r].rev].text \in Seq(Char) BY <1>2, RevsType
  <2>2. /\ found \in SUBSET Result /\ IsFiniteSet(found)
        /\ \A l \in found : FitsText(l, revs[auto[r].rev].text)
    BY <2>1, ResultsFit
  <2>3. a \in RunRow /\ a.status = "done" /\ a.rev = auto[r].rev /\ a.found = found
    BY <1>1, <2>2 DEF RunRow
  <2>4. auto' = [auto EXCEPT ![r] = a] BY <1>4 DEF IInv, TypeInv
  <2> HIDE DEF a
  <2>5. auto'[r] = a BY <2>4, RunRowIs
  <2>6. RunKnows(r)' BY <1>1, <1>2, <1>3, <2>2, <2>3, <2>5 DEF RunKnows, db
  <2>7. QED BY <1>3, <2>3, <2>4, <2>6, JobStep
<1>5. CASE auto' = [auto EXCEPT ![r].status = "failed", ![r].busy = FALSE]
  <2> DEFINE a == [auto[r] EXCEPT !.status = "failed", !.busy = FALSE]
  <2>1. /\ a \in RunRow /\ a.status = "failed" /\ a.rev = auto[r].rev /\ a.found = auto[r].found
    BY <1>1 DEF RunRow
  <2>2. auto' = [auto EXCEPT ![r] = a] BY <1>5 DEF IInv, TypeInv
  <2> HIDE DEF a
  <2>3. QED BY <1>2, <1>3, <2>1, <2>2, RunGoesOn
<1>6. QED BY <1>4, <1>5 DEF Infer

LEMMA RunDiesStep ==
  ASSUME IInv, NEW r \in Run, RunDies(r)
  PROVE  IInv' /\ Quiet /\ UNCHANGED log
<1> DEFINE a == [auto[r] EXCEPT !.api = "dead"]
           b == [auto[r] EXCEPT !.busy = FALSE]
<1>1. auto[r] \in RunRow /\ RunKnows(r) BY RunRowIs
<1>2. auto[r].status # "none" BY <1>1 DEF RunDies, RunKnows
<1>3. /\ a \in RunRow /\ a.status = auto[r].status /\ a.rev = auto[r].rev /\ a.found = auto[r].found
      /\ b \in RunRow /\ b.status = auto[r].status /\ b.rev = auto[r].rev /\ b.found = auto[r].found
  BY <1>1 DEF RunRow
<1>4. /\ auto' = [auto EXCEPT ![r] = a] \/ auto' = [auto EXCEPT ![r] = b]
         \/ auto' = [auto EXCEPT ![r] = auto[r]]
      /\ queue' \subseteq queue /\ UNCHANGED <<db, tx>>
  BY DEF RunDies, JobsUnchanged, IInv, TypeInv
<1> HIDE DEF a, b
<1>5. QED BY <1>1, <1>2, <1>3, <1>4, RunGoesOn

-----------------------------------------------------------------------------
LEMMA InitInv == Init => IInv
<1> SUFFICES ASSUME Init PROVE IInv OBVIOUS
<1> DEFINE first == [text |-> StartText, data |-> StartData]
<1>1. first \in Version BY ChapterAssumption DEF Version
<1>2. revs = <<first>> BY DEF Init
<1>3. first.text = StartText /\ first.data = StartData OBVIOUS
<1> HIDE DEF first
<1>4. revs \in Seq(Version) /\ Len(revs) = 1 /\ revs[1] = first BY <1>1, <1>2
<1>5. log \in Seq(Entry) /\ Len(log) = 0 BY DEF Init
<1>6. \A w \in Writer : tx[w] = Idle BY DEF Init
<1>7. tx \in [Writer -> {Idle} \cup EditTx \cup UpdateTx \cup ReadTx \cup PromoteTx] BY DEF Init
<1>8. minted \in Nat BY ChapterAssumption DEF Init
<1>9. NoRun \in RunRow BY DEF NoRun, RunRow
<1>10. auto \in [Run -> RunRow] BY <1>9 DEF Init
<1>11. TypeInv BY <1>4, <1>5, <1>7, <1>8, <1>10 DEF TypeInv
<1>12. VersionsFit BY <1>3, <1>4, ChapterAssumption DEF VersionsFit
<1>13. OneCopies /\ \A w \in Writer : EditKnows(w) /\ OthersKnow(w)
  BY <1>6 DEF OneCopies, EditKnows, OthersKnow, Copying, Is, Idle
<1>14. \A r \in Run : RunKnows(r)
  <2> SUFFICES ASSUME NEW r \in Run PROVE RunKnows(r) OBVIOUS
  <2>1. auto[r] = NoRun /\ r \notin queue BY DEF Init
  <2>2. QED BY <2>1, FS_EmptySet DEF RunKnows, NoRun
<1>15. QED BY <1>11, <1>12, <1>13, <1>14 DEF IInv

(* A step writes no version and keeps the texts, or it commits an edit.      *)
LEMMA NextStep ==
  ASSUME IInv, [Next]_vars
  PROVE  IInv' /\ ((Quiet /\ UNCHANGED log) \/ \E w \in Writer : EditCommit(w))
<1>1. ASSUME NEW w \in Writer, NEW base \in DOMAIN revs, NEW op \in Op, EditBegin(w, base, op)
      PROVE  IInv' /\ Quiet /\ UNCHANGED log
  BY <1>1, EditBeginStep
<1>2. ASSUME NEW v \in DOMAIN revs, NEW g \in Group,
             \/ InsertLabelData(v, g)
             \/ \E x \in Interval(v) : AddLabel(v, g, x[1], x[2])
             \/ \E l \in Labels(v, g) :
                  \/ DeleteLabel(v, g, l)
                  \/ \E w \in Writer, b \in {"lo", "hi"}, at \in 0..Len(revs[v].text) :
                       UpdateBegin(w, v, g, l, b, at)
      PROVE  IInv' /\ Quiet /\ UNCHANGED log
  BY <1>2, InsertLabelDataStep, AddLabelStep, DeleteLabelStep, UpdateBeginStep
<1>3. ASSUME NEW w \in Writer, NEW g \in Group,
             ReadBegin(w, g) \/ \E r \in Run : PromoteBegin(w, r, g)
      PROVE  IInv' /\ Quiet /\ UNCHANGED log
  BY <1>3, ReadBeginStep, PromoteBeginStep
<1>4. ASSUME NEW r \in Run, CreateRun(r) \/ RunStep(r) \/ RunDies(r)
      PROVE  IInv' /\ Quiet /\ UNCHANGED log
  BY <1>4, CreateRunStep, AssignJobStep, EnqueueStep, ReportStep, ClaimStep, SetupFailsStep, InferStep,
     RunDiesStep DEF RunStep
<1>5. ASSUME NEW w \in Writer,
             EditRead(w) \/ EditInsert(w) \/ EditPort(w) \/ UpdateEnd(w) \/ ReadEnd(w) \/ PromoteEnd(w)
      PROVE  IInv' /\ Quiet /\ UNCHANGED log
  BY <1>5, EditReadStep, EditInsertStep, EditPortStep, UpdateEndStep, ReadEndStep, PromoteEndStep
<1>6. ASSUME NEW w \in Writer, EditCommit(w)
      PROVE  IInv'
  BY <1>6, EditCommitStep
<1>7. ASSUME NEW w \in Writer, Abort(w)
      PROVE  IInv' /\ Quiet /\ UNCHANGED log
  <2>1. Finish(w) /\ UNCHANGED <<db, jobs>> BY <1>7 DEF Abort
  <2>2. Quiet BY <2>1, SameQuiet DEF db
  <2>3. QED BY <2>1, <2>2, FinishStep DEF db, IInv, TypeInv
<1>8. CASE UNCHANGED vars
  <2>1. Quiet BY <1>8, SameQuiet DEF vars
  <2>2. QED BY <1>8, <2>1, LabelStep DEF vars, jobs, IInv, TypeInv
<1>9. CASE Request BY <1>1, <1>2, <1>3, <1>4, <1>9 DEF Request
<1>10. CASE Continue BY <1>5, <1>6, <1>10 DEF Continue
<1>11. CASE \E r \in Run : RunStep(r) BY <1>4, <1>11
<1>12. CASE Fault BY <1>4, <1>7, <1>12 DEF Fault
<1>13. QED BY <1>8, <1>9, <1>10, <1>11, <1>12 DEF Next

THEOREM Invariance == Spec => []IInv
<1>1. IInv /\ [Next]_vars => IInv' BY NextStep
<1>2. QED BY <1>1, InitInv, PTL DEF Spec

(* In every version the labels cover the words they were made for, within the *)
(* text and apart from each other, and a run's results those of its version.  *)
THEOREM LabelsAlwaysFit == Spec => []LabelsFit
<1>1. IInv => LabelsFit
  <2> SUFFICES ASSUME IInv PROVE LabelsFit OBVIOUS
  <2>1. \A v \in DOMAIN revs, g \in Group : Fits(Labels(v, g), revs[v].text)
    BY RevsType DEF Labels, IInv, VersionsFit
  <2>2. \A r \in Run : \A l \in auto[r].found : FitsText(l, revs[auto[r].rev].text)
    BY DEF IInv, RunKnows
  <2>3. QED BY <2>1, <2>2 DEF LabelsFit
<1>2. QED BY <1>1, Invariance, PTL

(* The versions implement one document: the text of the latest one changes    *)
(* only by an operation whose writer had seen it, and every operation that     *)
(* was accepted is in it.                                                   *)
THEOREM Refinement == Spec => ImplementsDocument
<1>1. Init => Text!Init
  <2> SUFFICES ASSUME Init PROVE Text!Init OBVIOUS
  <2> DEFINE first == [text |-> StartText, data |-> StartData]
  <2>1. revs = <<first>> BY DEF Init
  <2>2. first.text = StartText OBVIOUS
  <2> HIDE DEF first
  <2>3. Latest = 1 /\ revs[1] = first BY <2>1 DEF Latest
  <2>4. QED BY <2>2, <2>3 DEF Init, Text!Init
<1>2. IInv /\ [Next]_vars => [Text!Next]_<<revs[Latest].text, log>>
  <2> SUFFICES ASSUME IInv, [Next]_vars
               PROVE  Text!Next \/ UNCHANGED <<revs[Latest].text, log>>
    OBVIOUS
  <2>1. CASE Quiet /\ UNCHANGED log
    <3>1. Len(revs) \in 1 .. Len(revs) BY RevsType
    <3>2. Latest' = Latest /\ revs'[Latest].text = revs[Latest].text
      BY <2>1, <3>1 DEF Quiet, Latest
    <3>3. QED BY <2>1, <3>2
  <2>2. CASE \E w \in Writer : EditCommit(w)
    <3>1. PICK w \in Writer : EditCommit(w) BY <2>2
    <3>2. /\ tx[w].op \in Op /\ tx[w].base = Len(revs)
          /\ Valid(revs[Latest].text, tx[w].op)
          /\ revs'[Latest'].text = Edited(revs[Latest].text, tx[w].op)
      BY <3>1, EditCommitStep DEF Latest
    <3>3. log' = Append(log, [by |-> w, base |-> tx[w].base, op |-> tx[w].op])
      BY <3>1 DEF EditCommit
    <3>4. tx[w].base = Len(log) + 1 BY <3>2 DEF IInv, TypeInv
    <3>5. Text!Accept(w, tx[w].op)
      BY <3>2, <3>3, <3>4 DEF Text!Accept, Text!Valid, Text!Edited, Text!End, Valid, Edited, End
    <3>6. QED BY <3>2, <3>5 DEF Text!Next
  <2>3. QED BY <2>1, <2>2, NextStep
<1>3. QED BY <1>1, <1>2, Invariance, PTL DEF Spec, ImplementsDocument, Text!Spec

-----------------------------------------------------------------------------
(* Rows and the updates of them.  A row is known by its number, and every     *)
(* change of it makes a new version of its optimistic lock.  Who reads a row  *)
(* to update it therefore finds it unchanged when the lock still has the      *)
(* version that was read.                                                   *)
Numbered(ls, m) == \A k \in ls : k.n <= m /\ \A l \in ls : k.n = l.n => k = l
Told(ls) == \A l \in ls : l.asked = [lo |-> l.lo, hi |-> l.hi]

\* A row is the one that was read, or has changed since.
Newer(k, l) == k.n = l.n => k.ver > l.ver \/ (k.ver = l.ver /\ k.lo = l.lo /\ k.hi = l.hi)

UpdateOf(t) ==
    /\ t.old.n <= minted /\ t.new.n = t.old.n /\ t.new.ver = t.old.ver
    /\ t.bound # "lo" => t.new.lo = t.old.lo
    /\ t.bound # "hi" => t.new.hi = t.old.hi
    /\ \A k \in Labels(t.v, t.g) : Newer(k, t.old)

RowsOK ==
    /\ \A v \in 1 .. Len(revs), g \in Group : Numbered(Labels(v, g), minted) /\ Told(Labels(v, g))
    /\ \A w \in Writer : Is(w, "edit") => \A g \in Group : Numbered(tx[w].labels[g], minted)
    /\ \A w \in Writer : Is(w, "update") => UpdateOf(tx[w])

MInv == IInv /\ RowsOK

LEMMA NumberedGrows ==
  ASSUME NEW ls \in SUBSET Label, NEW m \in Nat, NEW n \in Nat, m <= n, Numbered(ls, m)
  PROVE  Numbered(ls, n)
<1>1. \A k \in ls : k.n \in Nat BY DEF Label
<1>2. QED BY <1>1 DEF Numbered

(* Steps that change no label: what the others know stays true, and what one  *)
(* request w comes to know must be.                                         *)
LEMMA RowsSame ==
  ASSUME MInv, Len(revs') = Len(revs), minted' = minted,
         \A v \in 1 .. Len(revs), g \in Group : revs'[v].data[g].labels = revs[v].data[g].labels,
         \A u \in Writer : \/ tx'[u] = tx[u] \/ tx'[u].kind \notin {"edit", "update"}
                           \/ tx'[u].kind = "edit" /\ \A g \in Group : Numbered(tx'[u].labels[g], minted)
                           \/ tx'[u].kind = "update" /\ UpdateOf(tx'[u]) /\ tx'[u].v \in 1 .. Len(revs)
                              /\ tx'[u].g \in Group
  PROVE  RowsOK'
<1>1. \A v \in 1 .. Len(revs'), g \in Group : Labels(v, g)' = Labels(v, g) BY DEF Labels
<1>2. \A v \in 1 .. Len(revs'), g \in Group : Numbered(Labels(v, g)', minted') /\ Told(Labels(v, g)')
  BY <1>1 DEF MInv, RowsOK
<1>3. ASSUME NEW u \in Writer, tx'[u].kind = "edit", NEW g \in Group
      PROVE  Numbered(tx'[u].labels[g], minted')
  BY <1>3 DEF MInv, RowsOK, Is
<1>4. ASSUME NEW t, UpdateOf(t), t.v \in 1 .. Len(revs), t.g \in Group
      PROVE  /\ t.old.n <= minted' /\ t.new.n = t.old.n /\ t.new.ver = t.old.ver
             /\ t.bound # "lo" => t.new.lo = t.old.lo
             /\ t.bound # "hi" => t.new.hi = t.old.hi
             /\ \A k \in revs'[t.v].data[t.g].labels : Newer(k, t.old)
  BY <1>4 DEF UpdateOf, Labels
<1>5. ASSUME NEW u \in Writer, tx'[u].kind = "update"
      PROVE  UpdateOf(tx'[u]) /\ tx'[u].v \in 1 .. Len(revs) /\ tx'[u].g \in Group
  <2>1. CASE tx'[u] = tx[u]
    <3>1. UpdateOf(tx[u]) /\ tx[u].v \in 1 .. Len(revs) /\ tx[u] \in Tx
      BY <1>5, <2>1 DEF MInv, RowsOK, Is, IInv, OthersKnow, TypeInv, Tx
    <3>2. tx[u].g \in Group BY <1>5, <2>1, <3>1 DEF Tx, Idle, EditTx, UpdateTx, ReadTx, PromoteTx
    <3>3. QED BY <2>1, <3>1, <3>2
  <2>2. CASE tx'[u] # tx[u] BY <1>5, <2>2
  <2>3. QED BY <2>1, <2>2
<1>6. ASSUME NEW u \in Writer, tx'[u].kind = "update"
      PROVE  UpdateOf(tx[u])'
  <2>1. PICK t : t = tx'[u] OBVIOUS
  <2>2. /\ t.old.n <= minted' /\ t.new.n = t.old.n /\ t.new.ver = t.old.ver
        /\ t.bound # "lo" => t.new.lo = t.old.lo
        /\ t.bound # "hi" => t.new.hi = t.old.hi
        /\ \A k \in revs'[t.v].data[t.g].labels : Newer(k, t.old)
    BY <1>4, <1>5, <1>6, <2>1
  <2>3. QED BY <2>1, <2>2 DEF UpdateOf, Labels, Newer
<1>7. QED BY <1>2, <1>3, <1>6 DEF RowsOK, Is

(* Steps that change the labels of one group in one version: rows are new, or *)
(* newer versions of rows that were there.                                  *)
LEMMA RowsStep ==
  ASSUME MInv, NEW v \in 1 .. Len(revs), NEW g \in Group, NEW ls \in SUBSET Label,
         Len(revs') = Len(revs), minted' \in Nat, minted <= minted', Numbered(ls, minted'), Told(ls),
         \A u \in 1 .. Len(revs), h \in Group :
             revs'[u].data[h].labels = IF u = v /\ h = g THEN ls ELSE revs[u].data[h].labels,
         \A k \in ls : \/ k \in Labels(v, g) \/ k.n > minted
                       \/ \E l \in Labels(v, g) : k.n = l.n /\ k.ver > l.ver,
         \A u \in Writer : tx'[u] = tx[u] \/ tx'[u] = Idle
  PROVE  RowsOK'
<1>1. minted \in Nat /\ \A u \in 1 .. Len(revs), h \in Group : Labels(u, h) \in SUBSET Label
  BY RevsType DEF MInv, IInv, TypeInv, Labels
<1>2. ASSUME NEW u \in 1 .. Len(revs'), NEW h \in Group
      PROVE  Numbered(Labels(u, h)', minted') /\ Told(Labels(u, h)')
  <2>1. CASE u = v /\ h = g BY <2>1 DEF Labels
  <2>2. CASE ~(u = v /\ h = g)
    <3>1. Labels(u, h)' = Labels(u, h) /\ Numbered(Labels(u, h), minted) /\ Told(Labels(u, h))
      BY <2>2 DEF Labels, MInv, RowsOK
    <3>2. QED BY <1>1, <3>1, NumberedGrows
  <2>3. QED BY <2>1, <2>2
<1>3. ASSUME NEW u \in Writer, Is(u, "edit")', NEW h \in Group
      PROVE  Numbered(tx'[u].labels[h], minted')
  <2>1. tx'[u] = tx[u] /\ tx[u] \in EditTx BY <1>3, EditTxIs DEF Is, Idle, MInv
  <2>2. Numbered(tx[u].labels[h], minted) /\ tx[u].labels[h] \in SUBSET Label
    BY <1>3, <2>1 DEF MInv, RowsOK, Is, EditTx
  <2>3. QED BY <1>1, <2>1, <2>2, NumberedGrows
<1>4. ASSUME NEW u \in Writer, Is(u, "update")'
      PROVE  UpdateOf(tx[u])'
  <2>1. tx'[u] = tx[u] /\ UpdateOf(tx[u]) /\ tx[u].v \in 1 .. Len(revs) /\ tx[u] \in UpdateTx
    BY <1>4 DEF Is, Idle, MInv, RowsOK, IInv, OthersKnow, TypeInv, EditTx, ReadTx, PromoteTx
  <2>2. PICK t : t = tx[u] OBVIOUS
  <2>3. /\ t.g \in Group /\ t.old \in Label /\ t.v \in 1 .. Len(revs) /\ UpdateOf(t)
    BY <2>1, <2>2 DEF UpdateTx
  <2>4. ASSUME NEW k \in revs'[t.v].data[t.g].labels PROVE Newer(k, t.old)
    <3>1. CASE k \in Labels(t.v, t.g) BY <2>3, <3>1 DEF UpdateOf
    <3>2. CASE k \notin Labels(t.v, t.g)
      <4>1. k \in ls /\ t.v = v /\ t.g = g BY <2>3, <2>4, <3>2 DEF Labels
      <4>2. k.n \in Nat /\ k.ver \in Nat /\ t.old.n \in Nat /\ t.old.ver \in Nat /\ t.old.n <= minted
        BY <2>3, <4>1 DEF Label, UpdateOf
      <4>3. CASE k.n > minted BY <1>1, <4>2, <4>3 DEF Newer
      <4>4. CASE \E l \in Labels(v, g) : k.n = l.n /\ k.ver > l.ver
        <5>1. PICK l \in Labels(v, g) : k.n = l.n /\ k.ver > l.ver BY <4>4
        <5>2. Newer(l, t.old) /\ l.ver \in Nat BY <1>1, <2>3, <4>1, <5>1 DEF UpdateOf, Label
        <5>3. QED BY <4>2, <5>1, <5>2 DEF Newer
      <4>5. QED BY <3>2, <4>1, <4>3, <4>4
    <3>3. QED BY <3>1, <3>2
  <2>5. t.old.n <= minted'
    <3>1. t.old.n \in Nat /\ t.old.n <= minted BY <2>3 DEF Label, UpdateOf
    <3>2. QED BY <1>1, <3>1
  <2>6. QED BY <2>1, <2>2, <2>3, <2>4, <2>5 DEF UpdateOf, Labels
<1>5. QED BY <1>2, <1>3, <1>4 DEF MInv, RowsOK

(* A label that is added has a new number. *)
LEMMA AddedRow ==
  ASSUME MInv, NEW v \in 1 .. Len(revs), NEW g \in Group, NEW l \in Label, l.n = minted + 1,
         l.asked = [lo |-> l.lo, hi |-> l.hi]
  PROVE  LET ls == Labels(v, g) \cup {l}
         IN  /\ ls \in SUBSET Label /\ Numbered(ls, minted + 1) /\ Told(ls)
             /\ \A k \in ls : k \in Labels(v, g) \/ k.n > minted
<1>1. minted \in Nat /\ Labels(v, g) \in SUBSET Label /\ \A k \in Labels(v, g) : k.n \in Nat
  BY RevsType DEF MInv, IInv, TypeInv, Labels, Label
<1>2. Numbered(Labels(v, g), minted) /\ Told(Labels(v, g)) BY DEF MInv, RowsOK
<1>3. Numbered(Labels(v, g) \cup {l}, minted + 1) BY <1>1, <1>2 DEF Numbered
<1>4. QED BY <1>1, <1>2, <1>3 DEF Told

LEMMA RowIs ==
  ASSUME NEW n, NEW lo, NEW hi, NEW word
  PROVE  Row(n, lo, hi, word).n = n /\ Row(n, lo, hi, word).asked = [lo |-> lo, hi |-> hi]
BY DEF Row

LEMMA SetIs ==
  ASSUME IInv, NEW v \in 1 .. Len(revs), NEW g \in Group, NEW d \in GroupData,
         revs' = [revs EXCEPT ![v].data[g] = d]
  PROVE  /\ Len(revs') = Len(revs)
         /\ \A u \in 1 .. Len(revs), h \in Group :
              revs'[u].data[h].labels = IF u = v /\ h = g THEN d.labels ELSE revs[u].data[h].labels
<1>1. revs \in Seq(Version) /\ revs[v] \in Version /\ revs[v].data \in Data
  BY RevsType DEF IInv, TypeInv
<1>2. PICK e : e = [revs[v] EXCEPT !.data = [revs[v].data EXCEPT ![g] = d]] OBVIOUS
<1>3. e \in Version /\ e.data = [revs[v].data EXCEPT ![g] = d]
  BY <1>1, <1>2 DEF Version, Data, GroupData
<1>4. revs' = [revs EXCEPT ![v] = e] BY <1>2
<1>5. /\ Len(revs') = Len(revs)
      /\ \A u \in 1 .. Len(revs) : revs'[u] = IF u = v THEN e ELSE revs[u]
  BY ONLY <1>1, <1>3, <1>4, v \in 1 .. Len(revs), ExceptSeq, SMTT(30)
<1>6. \A h \in Group : e.data[h] = IF h = g THEN d ELSE revs[v].data[h]
  BY <1>1, <1>3 DEF Data
<1>7. ASSUME NEW u \in 1 .. Len(revs), NEW h \in Group
      PROVE  revs'[u].data[h].labels = IF u = v /\ h = g THEN d.labels ELSE revs[u].data[h].labels
  <2>1. CASE u = v
    <3>1. revs'[u].data[h] = IF h = g THEN d ELSE revs[u].data[h] BY <1>5, <1>6, <2>1
    <3>2. QED BY <2>1, <3>1
  <2>2. CASE u # v BY <1>5, <2>2
  <2>3. QED BY <2>1, <2>2
<1>8. QED BY <1>5, <1>7

LEMMA SetLabelsIs ==
  ASSUME IInv, NEW v \in 1 .. Len(revs), NEW g \in Group, NEW ls \in SUBSET Label, SetLabels(v, g, ls)
  PROVE  /\ Len(revs') = Len(revs)
         /\ \A u \in 1 .. Len(revs), h \in Group :
              revs'[u].data[h].labels = IF u = v /\ h = g THEN ls ELSE revs[u].data[h].labels
<1>1. PICK d : d = [revs[v].data[g] EXCEPT !.labels = ls] OBVIOUS
<1>2. d \in GroupData /\ d.labels = ls BY <1>1, RevsType DEF GroupData
<1>3. revs' = [revs EXCEPT ![v].data[g] = d]
  <2>1. revs \in Seq(Version) /\ revs[v].data[g] \in GroupData BY RevsType DEF IInv, TypeInv
  <2>2. QED BY <1>1, <2>1 DEF SetLabels
<1>4. /\ Len(revs') = Len(revs)
      /\ \A u \in 1 .. Len(revs), h \in Group :
           revs'[u].data[h].labels = IF u = v /\ h = g THEN d.labels ELSE revs[u].data[h].labels
  BY <1>2, <1>3, SetIs
<1>5. QED BY <1>2, <1>4

LEMMA SetOnIs ==
  ASSUME IInv, NEW v \in 1 .. Len(revs), NEW g \in Group, revs' = [revs EXCEPT ![v].data[g].on = TRUE]
  PROVE  /\ Len(revs') = Len(revs)
         /\ \A u \in 1 .. Len(revs), h \in Group : revs'[u].data[h].labels = revs[u].data[h].labels
<1>1. PICK d : d = [revs[v].data[g] EXCEPT !.on = TRUE] OBVIOUS
<1>2. d \in GroupData /\ d.labels = revs[v].data[g].labels BY <1>1, RevsType DEF GroupData
<1>3. revs' = [revs EXCEPT ![v].data[g] = d] BY <1>1
<1>4. QED BY <1>2, <1>3, SetIs

LEMMA AddLabelRows ==
  ASSUME MInv, NEW v \in DOMAIN revs, NEW g \in Group, NEW x \in Interval(v), AddLabel(v, g, x[1], x[2])
  PROVE  RowsOK'
<1>1. IInv /\ v \in 1 .. Len(revs) /\ x[1] \in Nat /\ x[2] \in Nat /\ x[2] <= Len(revs[v].text)
      /\ revs[v].text \in Seq(Char) /\ minted \in Nat
  BY RevsType DEF Interval, MInv, IInv, TypeInv
<1>2. PICK l : l = Row(minted + 1, x[1], x[2], Slice(revs[v].text, x[1], x[2])) OBVIOUS
<1>3. SetLabels(v, g, Labels(v, g) \cup {l}) /\ minted' = minted + 1 /\ UNCHANGED <<tx, log, jobs>>
  BY <1>2 DEF AddLabel
<1>4. l \in Label
  <2>1. PICK lo \in Nat, hi \in Nat : lo = x[1] /\ hi = x[2] BY <1>1
  <2>2. SubSeq(revs[v].text, lo + 1, hi) \in Seq(Char) BY <1>1, <2>1
  <2>3. Slice(revs[v].text, x[1], x[2]) \in Seq(Char) BY <2>1, <2>2 DEF Slice
  <2>4. minted + 1 \in Nat BY <1>1
  <2>5. QED BY <1>1, <1>2, <2>3, <2>4, RowType
<1>5. l.n = minted + 1 /\ l.asked = [lo |-> l.lo, hi |-> l.hi]
  BY <1>2, RowIs, RowFields
<1>6. PICK ls : ls = Labels(v, g) \cup {l} OBVIOUS
<1>7. /\ ls \in SUBSET Label /\ Numbered(ls, minted + 1) /\ Told(ls)
      /\ \A k \in ls : k \in Labels(v, g) \/ k.n > minted
  BY <1>1, <1>4, <1>5, <1>6, AddedRow
<1>8. /\ Len(revs') = Len(revs)
      /\ \A u \in 1 .. Len(revs), h \in Group :
           revs'[u].data[h].labels = IF u = v /\ h = g THEN ls ELSE revs[u].data[h].labels
  BY <1>1, <1>3, <1>6, <1>7, SetLabelsIs
<1>9. minted' \in Nat /\ minted <= minted' /\ tx' = tx BY <1>1, <1>3
<1>10. QED BY <1>1, <1>3, <1>7, <1>8, <1>9, RowsStep

LEMMA DeleteLabelRows ==
  ASSUME MInv, NEW v \in DOMAIN revs, NEW g \in Group, NEW l \in Labels(v, g), DeleteLabel(v, g, l)
  PROVE  RowsOK'
<1>1. IInv /\ v \in 1 .. Len(revs) /\ minted \in Nat BY RevsType DEF MInv, IInv, TypeInv
<1>2. PICK ls : ls = Labels(v, g) \ {l} OBVIOUS
<1>3. SetLabels(v, g, ls) /\ UNCHANGED <<tx, minted, log, jobs>> BY <1>2 DEF DeleteLabel
<1>4. ls \in SUBSET Label /\ Numbered(ls, minted) /\ Told(ls)
  BY <1>1, <1>2, RevsType DEF Labels, MInv, RowsOK, Numbered, Told
<1>5. /\ Len(revs') = Len(revs)
      /\ \A u \in 1 .. Len(revs), h \in Group :
           revs'[u].data[h].labels = IF u = v /\ h = g THEN ls ELSE revs[u].data[h].labels
  BY <1>1, <1>3, <1>4, SetLabelsIs
<1>6. minted' = minted /\ minted <= minted /\ tx' = tx BY <1>1, <1>3
<1>7. QED BY <1>1, <1>2, <1>4, <1>5, <1>6, RowsStep

(* An update that finds the version it read changes the bounds it names and   *)
(* finds the other as it was.                                               *)
LEMMA UpdateEndRows ==
  ASSUME MInv, NEW w \in Writer, UpdateEnd(w)
  PROVE  RowsOK'
<1>1. PICK t, v, g : t = tx[w] /\ v = t.v /\ g = t.g OBVIOUS
<1>2. IInv /\ t \in Tx /\ Is(w, "update") /\ OthersKnow(w) /\ UpdateOf(t)
  BY <1>1 DEF UpdateEnd, MInv, RowsOK, IInv, TypeInv, Tx
<1>3. t \in UpdateTx BY <1>1, <1>2 DEF Is, Tx, EditTx, ReadTx, PromoteTx, Idle
<1>4. /\ v \in 1 .. Len(revs) /\ g \in Group /\ t.new \in Label /\ t.old \in Label /\ t.bound \in {"lo", "hi"}
      /\ minted \in Nat
  BY <1>1, <1>2, <1>3 DEF OthersKnow, UpdateTx, IInv, TypeInv
<1>5. Finish(w) /\ UNCHANGED <<minted, log, jobs>> BY DEF UpdateEnd
<1>6. \A u \in Writer : tx'[u] = tx[u] \/ tx'[u] = Idle BY <1>5 DEF Finish, MInv, IInv, TypeInv
<1>7. ASSUME NEW l \in Labels(v, g), Same(l, t), FitsIn(v, g, t.new.lo, t.new.hi, {l}),
             NEW m, m = [t.new EXCEPT !.ver = @ + 1, !.word = Slice(revs[v].text, t.new.lo, t.new.hi),
                                      !.asked = [l.asked EXCEPT ![t.bound] = t.new[t.bound]]],
             SetLabels(v, g, (Labels(v, g) \ {l}) \cup {m})
      PROVE  RowsOK'
  <2>1. /\ Labels(v, g) \in SUBSET Label /\ l \in Label /\ l.n <= minted /\ l.n \in Nat /\ l.ver \in Nat
        /\ l.asked = [lo |-> l.lo, hi |-> l.hi]
    <3>1. Labels(v, g) \in SUBSET Label BY <1>2, <1>4, RevsType DEF Labels
    <3>2. Numbered(Labels(v, g), minted) /\ Told(Labels(v, g)) BY <1>4 DEF MInv, RowsOK
    <3>3. l \in Label /\ l.n <= minted /\ l.asked = [lo |-> l.lo, hi |-> l.hi]
      BY <1>7, <3>1, <3>2 DEF Numbered, Told
    <3>4. QED BY <3>1, <3>3 DEF Label
  <2>2. l.n = t.new.n /\ l.ver = t.new.ver /\ (t.bound # "lo" => l.lo = t.new.lo) /\ (t.bound # "hi" => l.hi = t.new.hi)
    <3>1. l.n = t.old.n /\ l.ver = t.old.ver BY <1>7 DEF Same
    <3>2. l.lo = t.old.lo /\ l.hi = t.old.hi
      <4>1. Newer(l, t.old) BY <1>1, <1>2 DEF UpdateOf
      <4>2. QED BY <2>1, <3>1, <4>1 DEF Newer
    <3>3. QED BY <1>2, <3>1, <3>2 DEF UpdateOf
  <2>3. PICK new : new = t.new OBVIOUS
  <2>4. PICK word : word = Slice(revs[v].text, new.lo, new.hi) OBVIOUS
  <2>5. [l.asked EXCEPT ![t.bound] = new[t.bound]] = [lo |-> new.lo, hi |-> new.hi]
    BY <1>4, <2>1, <2>2, <2>3
  <2>6. new \in Label /\ new.n \in Nat /\ new.lo \in Nat /\ new.hi \in Nat /\ new.ver \in Nat
    BY <1>4, <2>3 DEF Label
  <2>7. word \in Seq(Char)
    <3>1. new.hi <= Len(revs[v].text) /\ revs[v].text \in Seq(Char)
      BY <1>2, <1>4, <1>7, <2>3, RevsType DEF FitsIn
    <3>2. SubSeq(revs[v].text, new.lo + 1, new.hi) \in Seq(Char) BY <2>6, <3>1
    <3>3. QED BY <2>4, <3>2 DEF Slice
  <2>8. PICK asked : asked = [l.asked EXCEPT ![t.bound] = new[t.bound]] OBVIOUS
  <2>9. m = [new EXCEPT !.ver = @ + 1, !.word = word, !.asked = asked]
    BY <1>7, <2>3, <2>4, <2>8
  <2>10. asked = [lo |-> new.lo, hi |-> new.hi] BY <2>5, <2>8
  <2>11. /\ m.n = new.n /\ m.lo = new.lo /\ m.hi = new.hi /\ m.ver = new.ver + 1
         /\ m.asked = [lo |-> m.lo, hi |-> m.hi] /\ m \in Label
    <3>1. PICK n, lo, hi, ver : n = new.n /\ lo = new.lo /\ hi = new.hi /\ ver = new.ver OBVIOUS
    <3>2. PICK next \in Nat : next = ver + 1 BY <2>6, <3>1
    <3>3. new = [n |-> n, lo |-> lo, hi |-> hi, word |-> new.word, ver |-> ver, asked |-> new.asked]
      BY <2>6, <3>1 DEF Label
    <3>4. m = [n |-> n, lo |-> lo, hi |-> hi, word |-> word, ver |-> next, asked |-> asked]
      BY <2>9, <3>1, <3>2, <3>3
    <3>5. asked \in [lo : Nat, hi : Nat] BY <2>6, <2>10
    <3>6. m \in Label BY <2>6, <2>7, <3>1, <3>2, <3>4, <3>5 DEF Label
    <3>7. QED BY <2>10, <3>1, <3>2, <3>4, <3>6
  <2>12. m.n = l.n /\ m.ver > l.ver BY <2>1, <2>2, <2>3, <2>6, <2>11
  <2>13. PICK ls : ls = (Labels(v, g) \ {l}) \cup {m} OBVIOUS
  <2>14. ls \in SUBSET Label BY <2>1, <2>11, <2>13
  <2>15. Numbered(ls, minted)
    <3>1. Numbered(Labels(v, g), minted) BY <1>4 DEF MInv, RowsOK
    <3>2. QED BY <2>12, <2>13, <3>1 DEF Numbered
  <2>16. Told(ls)
    <3>1. Told(Labels(v, g)) BY <1>4 DEF MInv, RowsOK
    <3>2. QED BY <2>11, <2>13, <3>1 DEF Told
  <2>17. /\ Len(revs') = Len(revs)
         /\ \A u \in 1 .. Len(revs), h \in Group :
              revs'[u].data[h].labels = IF u = v /\ h = g THEN ls ELSE revs[u].data[h].labels
    BY <1>2, <1>4, <1>7, <2>13, <2>14, SetLabelsIs
  <2>18. \A k \in ls : \/ k \in Labels(v, g)
                       \/ \E j \in Labels(v, g) : k.n = j.n /\ k.ver > j.ver
    BY <2>12, <2>13
  <2>19. minted' = minted /\ minted <= minted BY <1>4, <1>5
  <2>20. QED BY <1>4, <1>6, <2>14, <2>15, <2>16, <2>17, <2>18, <2>19, RowsStep
<1>8. CASE UNCHANGED revs
  <2>1. \A u \in Writer : tx'[u] = tx[u] \/ tx'[u].kind \notin {"edit", "update"} BY <1>6 DEF Idle
  <2>2. minted' = minted BY <1>5
  <2>3. QED BY <1>8, <2>1, <2>2, RowsSame
<1>9. QED BY <1>1, <1>7, <1>8 DEF UpdateEnd

(* Numbers by rank: elements whose starts differ get different numbers, none  *)
(* beyond how many they are.                                                *)
LEMMA Ranks ==
  ASSUME NEW S, IsFiniteSet(S), \A a \in S : a.lo \in Nat, \A a, b \in S : a # b => a.lo # b.lo,
         NEW rank, rank = [a \in S |-> Cardinality({c \in S : c.lo < a.lo})]
  PROVE  /\ Cardinality(S) \in Nat /\ \A a \in S : rank[a] \in Nat /\ rank[a] < Cardinality(S)
         /\ \A a, b \in S : rank[a] = rank[b] => a = b
<1> DEFINE Before(a) == {c \in S : c.lo < a.lo}
<1>1. Cardinality(S) \in Nat BY FS_CardinalityType
<1>2. ASSUME NEW a \in S
      PROVE  IsFiniteSet(Before(a)) /\ Cardinality(Before(a)) \in Nat /\ Cardinality(Before(a)) < Cardinality(S)
  <2>1. Before(a) \in SUBSET S /\ a \notin Before(a) OBVIOUS
  <2> HIDE DEF Before
  <2>2. IsFiniteSet(Before(a)) /\ Cardinality(Before(a)) <= Cardinality(S)
        /\ (Cardinality(S) = Cardinality(Before(a)) => S = Before(a))
    BY <2>1, FS_Subset
  <2>3. Cardinality(Before(a)) \in Nat BY <2>2, FS_CardinalityType
  <2>4. QED BY <1>1, <2>1, <2>2, <2>3
<1>3. ASSUME NEW a \in S, NEW b \in S, a.lo < b.lo
      PROVE  Cardinality(Before(a)) # Cardinality(Before(b))
  <2>1. Before(a) \in SUBSET Before(b) /\ a \in Before(b) /\ a \notin Before(a) BY <1>3
  <2>2. IsFiniteSet(Before(b)) BY <1>2
  <2> HIDE DEF Before
  <2>3. Cardinality(Before(b)) = Cardinality(Before(a)) => Before(b) = Before(a)
    BY <2>1, <2>2, FS_Subset
  <2>4. QED BY <2>1, <2>3
<1>4. \A a \in S : rank[a] = Cardinality(Before(a)) OBVIOUS
<1> HIDE DEF Before
<1>5. ASSUME NEW a \in S, NEW b \in S, rank[a] = rank[b]
      PROVE  a = b
  <2>1. ~(a.lo < b.lo) /\ ~(b.lo < a.lo) BY <1>3, <1>4, <1>5
  <2>2. a.lo = b.lo BY <2>1
  <2>3. QED BY <2>2
<1>6. QED BY <1>1, <1>2, <1>4, <1>5

LEMMA PromoteEndRows ==
  ASSUME MInv, NEW w \in Writer, PromoteEnd(w)
  PROVE  RowsOK'
<1>1. PICK r, g, v, found : r = tx[w].r /\ g = tx[w].g /\ v = auto[r].rev /\ found = auto[r].found OBVIOUS
<1>2. IInv /\ tx[w] \in Tx /\ Is(w, "promote") /\ OthersKnow(w) BY DEF PromoteEnd, MInv, IInv, TypeInv, Tx
<1>3. tx[w] \in PromoteTx BY <1>2 DEF Is, Tx, EditTx, UpdateTx, ReadTx, Idle
<1>4. r \in Run /\ g \in Group /\ auto[r].status # "none" /\ RunKnows(r) /\ auto[r] \in RunRow
  BY <1>1, <1>2, <1>3 DEF OthersKnow, PromoteTx, IInv, TypeInv
<1>5. v \in 1 .. Len(revs) /\ IsFiniteSet(found) /\ found \in SUBSET Result
  BY <1>1, <1>4 DEF RunKnows, RunRow
<1>6. \A a \in found : a.lo \in Nat /\ a.hi \in Nat /\ a.lo < a.hi /\ a.word \in Seq(Char)
  BY <1>1, <1>4, <1>5 DEF RunKnows, FitsText, Result
<1>7. minted \in Nat /\ Labels(v, g) \in SUBSET Label /\ \A k \in Labels(v, g) : k.n \in Nat
  BY <1>2, <1>4, <1>5, RevsType DEF IInv, TypeInv, Labels, Label
<1>8. Numbered(Labels(v, g), minted) /\ Told(Labels(v, g)) BY <1>4, <1>5 DEF MInv, RowsOK
<1>9. \A u \in Writer : tx'[u] = tx[u] \/ tx'[u] = Idle
  BY <1>2 DEF PromoteEnd, Finish, IInv, TypeInv
<1>10. PICK rank : rank = [a \in found |-> Cardinality({b \in found : b.lo < a.lo})] OBVIOUS
<1>11. PICK row : row = [a \in found |-> Row(minted + 1 + rank[a], a.lo, a.hi, a.word)] OBVIOUS
<1>12. PICK rows : rows = {row[a] : a \in found} OBVIOUS
<1>13. PICK ls : ls = Labels(v, g) \cup rows OBVIOUS
<1>14. PICK d : d = [on |-> TRUE, labels |-> ls] OBVIOUS
<1>15. CASE ~Clashes(Labels(v, g), found) /\ revs' = [revs EXCEPT ![v].data[g] = d]
              /\ minted' = minted + Cardinality(found)
  <2>1. \A a, b \in found : a # b => a.lo # b.lo
    <3> SUFFICES ASSUME NEW a \in found, NEW b \in found, a # b, a.lo = b.lo PROVE FALSE OBVIOUS
    <3>1. ~Overlaps({a}, b.lo, b.hi) BY <1>15 DEF Clashes
    <3>2. QED BY <1>6, <3>1 DEF Overlaps
  <2>2. /\ Cardinality(found) \in Nat /\ \A a \in found : rank[a] \in Nat /\ rank[a] < Cardinality(found)
        /\ \A a, b \in found : rank[a] = rank[b] => a = b
    BY <1>5, <1>6, <1>10, <2>1, Ranks
  <2>3. PICK c \in Nat : c = Cardinality(found) BY <2>2
  <2>4. ASSUME NEW a \in found
        PROVE  /\ row[a] \in Label /\ row[a].n = minted + 1 + rank[a]
               /\ row[a].asked = [lo |-> row[a].lo, hi |-> row[a].hi]
    <3>1. row[a] = Row(minted + 1 + rank[a], a.lo, a.hi, a.word) BY <1>11
    <3>2. minted + 1 + rank[a] \in Nat BY <1>7, <2>2
    <3>3. row[a] \in Label BY <1>6, <3>1, <3>2, RowType
    <3>4. QED BY <3>1, <3>3, RowIs, RowFields
  <2>5. \A k \in rows : k \in Label /\ k.n > minted /\ k.n <= minted + c
    <3> SUFFICES ASSUME NEW a \in found
                 PROVE  row[a] \in Label /\ row[a].n > minted /\ row[a].n <= minted + c
      BY <1>12
    <3>1. PICK i : i = rank[a] OBVIOUS
    <3>2. i \in Nat /\ i < c /\ row[a] \in Label /\ row[a].n = minted + 1 + i BY <2>2, <2>3, <2>4, <3>1
    <3>3. minted + 1 + i > minted /\ minted + 1 + i <= minted + c BY <1>7, <3>2
    <3>4. QED BY <3>2, <3>3
  <2>6. \A k, l \in rows : k.n = l.n => k = l
    <3> SUFFICES ASSUME NEW a \in found, NEW b \in found, row[a].n = row[b].n PROVE a = b
      BY <1>12
    <3>1. rank[a] = rank[b]
      <4>1. PICK i, j : i = rank[a] /\ j = rank[b] OBVIOUS
      <4>2. i \in Nat /\ j \in Nat /\ minted + 1 + i = minted + 1 + j BY <2>2, <2>4, <4>1
      <4>3. QED BY <1>7, <4>1, <4>2
    <3>2. QED BY <2>2, <3>1
  <2>7. ls \in SUBSET Label BY <1>7, <1>13, <2>5
  <2>8. Numbered(ls, minted')
    <3>1. minted' = minted + c BY <1>15, <2>3
    <3>2. \A k \in Labels(v, g) : k.n <= minted BY <1>8 DEF Numbered
    <3>3. \A k \in ls : k.n <= minted' BY <1>7, <1>13, <2>5, <3>1, <3>2
    <3>4. ASSUME NEW k \in ls, NEW l \in ls, k.n = l.n PROVE k = l
      <4>1. CASE k \in rows /\ l \in rows BY <2>6, <3>4, <4>1
      <4>2. CASE k \in Labels(v, g) /\ l \in Labels(v, g) BY <1>8, <3>4, <4>2 DEF Numbered
      <4>3. ASSUME NEW i \in rows, NEW j \in Labels(v, g) PROVE i.n # j.n
        BY <1>7, <2>5, <3>2
      <4>4. QED BY <1>13, <3>4, <4>1, <4>2, <4>3
    <3>5. QED BY <3>3, <3>4 DEF Numbered
  <2>9. Told(ls)
    <3>1. \A k \in rows : k.asked = [lo |-> k.lo, hi |-> k.hi] BY <1>12, <2>4
    <3>2. QED BY <1>8, <1>13, <3>1 DEF Told
  <2>10. d \in GroupData /\ d.labels = ls BY <1>14, <2>7 DEF GroupData
  <2>11. /\ Len(revs') = Len(revs)
         /\ \A u \in 1 .. Len(revs), h \in Group :
              revs'[u].data[h].labels = IF u = v /\ h = g THEN d.labels ELSE revs[u].data[h].labels
    BY <1>2, <1>4, <1>5, <1>15, <2>10, SetIs
  <2>12. minted' \in Nat /\ minted <= minted' BY <1>7, <1>15, <2>3
  <2>13. \A k \in ls : k \in Labels(v, g) \/ k.n > minted BY <1>13, <2>5
  <2>14. /\ Len(revs') = Len(revs)
         /\ \A u \in 1 .. Len(revs), h \in Group :
              revs'[u].data[h].labels = IF u = v /\ h = g THEN ls ELSE revs[u].data[h].labels
    BY <2>10, <2>11
  <2>15. QED BY <1>4, <1>5, <1>9, <2>7, <2>8, <2>9, <2>12, <2>13, <2>14, RowsStep
<1>16. CASE UNCHANGED <<revs, minted>>
  <2>1. \A u \in Writer : tx'[u] = tx[u] \/ tx'[u].kind \notin {"edit", "update"} BY <1>9 DEF Idle
  <2>2. QED BY <1>16, <2>1, RowsSame
<1>17. \/ UNCHANGED <<revs, minted>>
       \/ ~Clashes(Labels(v, g), found) /\ revs' = [revs EXCEPT ![v].data[g] = d]
          /\ minted' = minted + Cardinality(found)
  <2>1. rows = {Row(minted + 1 + Cardinality({b \in found : b.lo < a.lo}), a.lo, a.hi, a.word) : a \in found}
    BY <1>10, <1>11, <1>12
  <2>2. d = [on |-> TRUE, labels |-> revs[v].data[g].labels \cup
               {Row(minted + 1 + Cardinality({b \in found : b.lo < a.lo}), a.lo, a.hi, a.word) : a \in found}]
    BY <1>13, <1>14, <2>1 DEF Labels
  <2>3. d = [on |-> TRUE, labels |-> revs[auto[tx[w].r].rev].data[tx[w].g].labels \cup
               {Row(minted + 1 + Cardinality({b \in auto[tx[w].r].found : b.lo < a.lo}), a.lo, a.hi, a.word)
                : a \in auto[tx[w].r].found}]
    BY <1>1, <2>2
  <2>4. \/ UNCHANGED <<revs, minted>>
        \/ /\ ~Clashes(Labels(auto[tx[w].r].rev, tx[w].g), auto[tx[w].r].found)
           /\ revs' = [revs EXCEPT ![auto[tx[w].r].rev].data[tx[w].g] =
                         [on |-> TRUE, labels |-> revs[auto[tx[w].r].rev].data[tx[w].g].labels \cup
               {Row(minted + 1 + Cardinality({b \in auto[tx[w].r].found : b.lo < a.lo}), a.lo, a.hi, a.word)
                : a \in auto[tx[w].r].found}]]
           /\ minted' = minted + Cardinality(auto[tx[w].r].found)
    BY DEF PromoteEnd
  <2>5. QED BY <1>1, <2>3, <2>4
<1>18. QED BY <1>15, <1>16, <1>17

(* A label data is switched on; its labels stay.                            *)
LEMMA SwitchedRows ==
  ASSUME MInv, NEW v \in 1 .. Len(revs), NEW g \in Group, revs' = [revs EXCEPT ![v].data[g].on = TRUE],
         minted' = minted, \A u \in Writer : tx'[u] = tx[u] \/ tx'[u] = Idle
  PROVE  RowsOK'
<1>1. /\ Len(revs') = Len(revs)
      /\ \A u \in 1 .. Len(revs), h \in Group : revs'[u].data[h].labels = revs[u].data[h].labels
  BY SetOnIs DEF MInv
<1>2. \A u \in Writer : tx'[u] = tx[u] \/ tx'[u].kind \notin {"edit", "update"} BY DEF Idle
<1>3. QED BY <1>1, <1>2, RowsSame

LEMMA ReadEndRows ==
  ASSUME MInv, NEW w \in Writer, ReadEnd(w)
  PROVE  RowsOK'
<1>1. tx[w] \in Tx /\ Is(w, "read") /\ OthersKnow(w) BY DEF ReadEnd, MInv, IInv, TypeInv, Tx
<1>2. tx[w] \in ReadTx BY <1>1 DEF Is, Tx, EditTx, UpdateTx, PromoteTx, Idle
<1>3. tx[w].v \in 1 .. Len(revs) /\ tx[w].g \in Group BY <1>1, <1>2 DEF OthersKnow, ReadTx
<1>4. \A u \in Writer : tx'[u] = tx[u] \/ tx'[u] = Idle BY DEF ReadEnd, Finish, MInv, IInv, TypeInv
<1>5. revs' = [revs EXCEPT ![tx[w].v].data[tx[w].g].on = TRUE] /\ minted' = minted BY DEF ReadEnd
<1>6. QED BY <1>3, <1>4, <1>5, SwitchedRows

(* What an edit reads are the labels of one version, which are numbered.      *)
LEMMA EditReadRows ==
  ASSUME MInv, NEW w \in Writer, EditRead(w)
  PROVE  RowsOK'
<1>1. PICK v : v = tx[w].rev OBVIOUS
<1>2. PICK t : t = [tx[w] EXCEPT !.at = "read", !.labels = [g \in Group |-> Labels(v, g)]] OBVIOUS
<1>3. UNCHANGED <<db, jobs>> /\ tx' = [tx EXCEPT ![w] = t] /\ Is(w, "edit") BY <1>1, <1>2 DEF EditRead
<1>4. tx[w] \in EditTx /\ EditKnows(w) BY <1>3, EditTxIs DEF MInv
<1>5. v \in 1 .. Len(revs) BY <1>1, <1>3, <1>4 DEF EditKnows
<1>6. t.kind = "edit" /\ t.labels = [g \in Group |-> Labels(v, g)] BY <1>2, <1>4 DEF EditTx
<1>7. \A g \in Group : Numbered(t.labels[g], minted) BY <1>5, <1>6 DEF MInv, RowsOK
<1>8. \A u \in Writer : tx'[u] = tx[u] \/ tx'[u] = t BY <1>3 DEF MInv, IInv, TypeInv
<1>9. revs' = revs /\ minted' = minted BY <1>3 DEF db
<1>10. QED BY <1>6, <1>7, <1>8, <1>9, RowsSame

(* A request starts that is no edit and no update, goes on with what it has,  *)
(* or ends.                                                                 *)
LEMMA PlainRows ==
  ASSUME MInv, NEW w \in Writer, NEW t, tx' = [tx EXCEPT ![w] = t], UNCHANGED <<revs, minted>>,
         \/ t.kind \notin {"edit", "update"}
         \/ t.kind = "edit" /\ \A g \in Group : Numbered(t.labels[g], minted)
  PROVE  RowsOK'
<1>1. \A u \in Writer : tx'[u] = tx[u] \/ tx'[u] = t BY DEF MInv, IInv, TypeInv
<1>2. QED BY <1>1, RowsSame

LEMMA EditRows ==
  ASSUME MInv, NEW w \in Writer, EditInsert(w) \/ EditPort(w)
  PROVE  RowsOK'
<1>1. Is(w, "edit") /\ UNCHANGED <<revs, minted>> BY DEF EditInsert, EditPort, db
<1>2. tx[w] \in EditTx /\ \A g \in Group : Numbered(tx[w].labels[g], minted)
  BY <1>1, EditTxIs DEF MInv, RowsOK
<1>3. PICK on : on = {g \in Group : revs[tx[w].rev].data[g].on} OBVIOUS
<1>4. PICK s, p : s = [tx[w] EXCEPT !.at = "inserted"] /\ p = [tx[w] EXCEPT !.at = "ported", !.on = on] OBVIOUS
<1>5. /\ s.kind = "edit" /\ s.labels = tx[w].labels
      /\ p.kind = "edit" /\ p.labels = tx[w].labels
  BY <1>2, <1>4 DEF EditTx
<1>6. tx' = [tx EXCEPT ![w] = s] \/ tx' = [tx EXCEPT ![w] = p] \/ tx' = [tx EXCEPT ![w] = Idle]
  <2>1. CASE EditInsert(w) BY <1>4, <2>1 DEF EditInsert, Finish, MInv, IInv, TypeInv
  <2>2. CASE EditPort(w) BY <1>3, <1>4, <2>2 DEF EditPort, MInv, IInv, TypeInv
  <2>3. QED BY <2>1, <2>2
<1>7. Idle.kind \notin {"edit", "update"} BY DEF Idle
<1>8. QED BY <1>1, <1>2, <1>5, <1>6, <1>7, PlainRows

LEMMA BeginRows ==
  ASSUME MInv, NEW w \in Writer,
         \/ \E base \in DOMAIN revs, op \in Op : EditBegin(w, base, op)
         \/ \E g \in Group : ReadBegin(w, g) \/ \E r \in Run : PromoteBegin(w, r, g)
         \/ Abort(w)
  PROVE  RowsOK'
<1>1. ASSUME NEW base \in DOMAIN revs, NEW op \in Op, EditBegin(w, base, op)
      PROVE  RowsOK'
  <2>1. PICK t : t = [kind |-> "edit", at |-> "checked", base |-> base, rev |-> Latest, op |-> op,
                      labels |-> [g \in Group |-> {}], on |-> {}]
    OBVIOUS
  <2>2. tx' = [tx EXCEPT ![w] = t] /\ UNCHANGED <<revs, minted>> BY <1>1, <2>1 DEF EditBegin, Begin, db
  <2>3. t.kind = "edit" /\ \A g \in Group : Numbered(t.labels[g], minted) BY <2>1 DEF Numbered
  <2>4. QED BY <2>2, <2>3, PlainRows
<1>2. ASSUME NEW g \in Group, ReadBegin(w, g)
      PROVE  RowsOK'
  <2>1. PICK t : t = [kind |-> "read", v |-> Latest, g |-> g] OBVIOUS
  <2>2. tx' = [tx EXCEPT ![w] = t] /\ UNCHANGED <<revs, minted>> /\ t.kind = "read"
    BY <1>2, <2>1 DEF ReadBegin, Begin, db
  <2>3. QED BY <2>2, PlainRows
<1>3. ASSUME NEW g \in Group, NEW r \in Run, PromoteBegin(w, r, g)
      PROVE  RowsOK'
  <2>1. PICK t : t = [kind |-> "promote", r |-> r, g |-> g] OBVIOUS
  <2>2. tx' = [tx EXCEPT ![w] = t] /\ UNCHANGED <<revs, minted>> /\ t.kind = "promote"
    BY <1>3, <2>1 DEF PromoteBegin, Begin, db
  <2>3. QED BY <2>2, PlainRows
<1>4. CASE Abort(w)
  <2>1. tx' = [tx EXCEPT ![w] = Idle] /\ UNCHANGED <<revs, minted>> BY <1>4 DEF Abort, Finish, db
  <2>2. Idle.kind \notin {"edit", "update"} BY DEF Idle
  <2>3. QED BY <2>1, <2>2, PlainRows
<1>5. QED BY <1>1, <1>2, <1>3, <1>4

(* An update reads one row of a version, in which rows are known by number.   *)
LEMMA UpdateBeginRows ==
  ASSUME MInv, NEW w \in Writer, NEW v \in DOMAIN revs, NEW g \in Group, NEW l \in Labels(v, g),
         NEW b \in {"lo", "hi"}, NEW at \in 0 .. Len(revs[v].text), UpdateBegin(w, v, g, l, b, at)
  PROVE  RowsOK'
<1>1. PICK new : new = [l EXCEPT ![b] = at] OBVIOUS
<1>2. PICK t : t = [kind |-> "update", v |-> v, g |-> g, old |-> l, new |-> new, bound |-> b] OBVIOUS
<1>3. tx' = [tx EXCEPT ![w] = t] /\ UNCHANGED <<revs, minted>>
  BY <1>1, <1>2 DEF UpdateBegin, Begin, db
<1>4. v \in 1 .. Len(revs) /\ Labels(v, g) \in SUBSET Label BY RevsType DEF Labels, MInv
<1>5. l \in Label /\ Numbered(Labels(v, g), minted) BY <1>4 DEF MInv, RowsOK
<1>6. /\ new.n = l.n /\ new.ver = l.ver /\ (b # "lo" => new.lo = l.lo) /\ (b # "hi" => new.hi = l.hi)
  BY <1>1, <1>5 DEF Label
<1>7. /\ t.kind = "update" /\ t.v = v /\ t.g = g /\ t.old = l /\ t.new = new /\ t.bound = b BY <1>2
<1>8. UpdateOf(t)
  <2>1. \A k \in Labels(v, g) : Newer(k, l) BY <1>5 DEF Numbered, Newer
  <2>2. l.n <= minted BY <1>5 DEF Numbered
  <2>3. QED BY <1>6, <1>7, <2>1, <2>2 DEF UpdateOf
<1>9. \A u \in Writer : tx'[u] = tx[u] \/ tx'[u] = t BY <1>3 DEF MInv, IInv, TypeInv
<1>10. QED BY <1>3, <1>4, <1>7, <1>8, <1>9, RowsSame

(* The rows of a new version are copies of the rows of one version: as many   *)
(* numbers as there, and the bounds that the copies have.                    *)
LEMMA CopiedRows ==
  ASSUME NEW t \in Seq(Char), NEW op \in Op, Valid(t, op), NEW ls \in SUBSET Label, Fits(ls, t),
         NEW m, Numbered(ls, m)
  PROVE  Numbered(Copied(ls, op), m) /\ Told(Copied(ls, op))
<1>1. \A x \in Copied(ls, op) : \E l \in ls :
        x = Row(l.n, l.lo + Shifted(l, op), l.hi + Shifted(l, op), l.word)
  BY CopiedIs
<1>2. ASSUME NEW x \in Copied(ls, op)
      PROVE  x.n <= m /\ x.asked = [lo |-> x.lo, hi |-> x.hi]
  <2>1. PICK l \in ls : x = Row(l.n, l.lo + Shifted(l, op), l.hi + Shifted(l, op), l.word) BY <1>1
  <2>2. x.n = l.n /\ x.asked = [lo |-> x.lo, hi |-> x.hi] BY <2>1, RowIs, RowFields
  <2>3. QED BY <2>2 DEF Numbered
<1>3. ASSUME NEW x \in Copied(ls, op), NEW y \in Copied(ls, op), x.n = y.n
      PROVE  x = y
  <2>1. PICK l \in ls : x = Row(l.n, l.lo + Shifted(l, op), l.hi + Shifted(l, op), l.word) BY <1>1
  <2>2. PICK k \in ls : y = Row(k.n, k.lo + Shifted(k, op), k.hi + Shifted(k, op), k.word) BY <1>1
  <2>3. x.n = l.n BY <2>1 DEF Row
  <2>4. y.n = k.n BY <2>2 DEF Row
  <2>5. l = k BY <1>3, <2>3, <2>4 DEF Numbered
  <2>6. QED BY <2>1, <2>2, <2>5
<1>4. QED BY <1>2, <1>3 DEF Numbered, Told

LEMMA EditCommitRows ==
  ASSUME MInv, NEW w \in Writer, EditCommit(w)
  PROVE  RowsOK'
<1>1. PICK n, t, d : n = Len(revs) /\ t = tx[w] /\ d = Ported(t) OBVIOUS
<1>2. PICK new : new = [text |-> Edited(revs[t.rev].text, t.op), data |-> d] OBVIOUS
<1>3. IInv /\ Is(w, "edit") /\ Finish(w) /\ minted' = minted /\ revs' = Append(revs, new)
  BY <1>1, <1>2 DEF EditCommit, MInv
<1>4. t \in EditTx /\ EditKnows(w) BY <1>1, <1>3, EditTxIs
<1>5. n \in Nat /\ t.rev \in 1 .. n /\ t.op \in Op /\ Valid(revs[t.rev].text, t.op)
  BY <1>1, <1>3, <1>4, RevsType DEF EditKnows, EditTx
<1>6. /\ Len(revs') = n + 1 /\ revs'[n + 1] = new
      /\ \A v \in 1 .. n : revs'[v] = revs[v]
  <2>1. PICK old : old = revs /\ old \in Seq(Version) BY <1>3 DEF IInv, TypeInv
  <2>2. Append(old, new)[Len(old) + 1] = new /\ Len(Append(old, new)) = Len(old) + 1
        /\ \A v \in 1 .. Len(old) : Append(old, new)[v] = old[v]
    BY <2>1
  <2>3. QED BY <1>1, <1>3, <2>1, <2>2
<1>7. \A g \in Group : Numbered(d[g].labels, minted) /\ Told(d[g].labels)
  <2> SUFFICES ASSUME NEW g \in Group PROVE Numbered(d[g].labels, minted) /\ Told(d[g].labels)
    OBVIOUS
  <2>1. d[g].labels = IF g \in t.on THEN Copied(t.labels[g], t.op) ELSE {} BY <1>1 DEF Ported
  <2>2. t.labels[g] \in SUBSET Label /\ Fits(t.labels[g], revs[t.rev].text) /\ Numbered(t.labels[g], minted)
    BY <1>1, <1>3, <1>4 DEF EditKnows, EditTx, MInv, RowsOK
  <2>3. revs[t.rev].text \in Seq(Char) BY <1>1, <1>3, <1>5, RevsType
  <2>4. Numbered(Copied(t.labels[g], t.op), minted) /\ Told(Copied(t.labels[g], t.op))
    BY <1>5, <2>2, <2>3, CopiedRows
  <2>5. QED BY <2>1, <2>4 DEF Numbered, Told
<1>8. ASSUME NEW v \in 1 .. Len(revs'), NEW g \in Group
      PROVE  Numbered(Labels(v, g)', minted') /\ Told(Labels(v, g)')
  <2>1. CASE v = n + 1
    <3>1. revs'[v].data[g] = d[g] BY <1>2, <1>6, <2>1
    <3>2. QED BY <1>3, <1>7, <3>1 DEF Labels
  <2>2. CASE v # n + 1
    <3>1. v \in 1 .. n BY <1>5, <1>6, <2>2
    <3>2. Labels(v, g)' = Labels(v, g) BY <1>6, <3>1 DEF Labels
    <3>3. QED BY <1>1, <1>3, <3>1, <3>2 DEF MInv, RowsOK
  <2>3. QED BY <2>1, <2>2
<1>9. \A u \in Writer : tx'[u] = tx[u] \/ tx'[u] = Idle BY <1>3 DEF Finish, IInv, TypeInv
<1>10. ASSUME NEW u \in Writer, Is(u, "edit")', NEW g \in Group
       PROVE  Numbered(tx'[u].labels[g], minted')
  BY <1>3, <1>9, <1>10 DEF Is, Idle, MInv, RowsOK
<1>11. ASSUME NEW u \in Writer, Is(u, "update")'
       PROVE  UpdateOf(tx[u])'
  <2>1. tx'[u] = tx[u] /\ UpdateOf(tx[u]) /\ tx[u].v \in 1 .. n
    BY <1>1, <1>3, <1>9, <1>11 DEF Is, Idle, MInv, RowsOK, IInv, OthersKnow
  <2>2. PICK s : s = tx[u] OBVIOUS
  <2>3. revs'[s.v] = revs[s.v] /\ UpdateOf(s) BY <1>6, <2>1, <2>2
  <2>4. QED BY <1>3, <2>1, <2>2, <2>3 DEF UpdateOf, Labels, Newer
<1>12. QED BY <1>8, <1>10, <1>11 DEF RowsOK

(* The steps of a run touch neither labels nor open requests.                *)
LEMMA RunRows ==
  ASSUME MInv, UNCHANGED <<db, tx>>
  PROVE  RowsOK'
BY RowsSame DEF db

LEMMA RowsNext ==
  ASSUME MInv, [Next]_vars
  PROVE  MInv'
<1> SUFFICES RowsOK' BY NextStep DEF MInv
<1>1. CASE Request
  <2>1. ASSUME NEW w \in Writer, NEW base \in DOMAIN revs, NEW op \in Op, EditBegin(w, base, op)
        PROVE  RowsOK'
    <3>1. \E b \in DOMAIN revs, o \in Op : EditBegin(w, b, o) BY <2>1
    <3>2. QED BY <3>1, BeginRows
  <2>2. ASSUME NEW v \in DOMAIN revs, NEW g \in Group, InsertLabelData(v, g)
        PROVE  RowsOK'
    <3>1. v \in 1 .. Len(revs) BY RevsType DEF MInv
    <3>2. revs' = [revs EXCEPT ![v].data[g].on = TRUE] /\ minted' = minted /\ tx' = tx
      BY <2>2 DEF InsertLabelData
    <3>3. QED BY <3>1, <3>2, SwitchedRows
  <2>3. ASSUME NEW v \in DOMAIN revs, NEW g \in Group,
               \/ \E x \in Interval(v) : AddLabel(v, g, x[1], x[2])
               \/ \E l \in Labels(v, g) :
                    \/ DeleteLabel(v, g, l)
                    \/ \E w \in Writer, b \in {"lo", "hi"}, at \in 0..Len(revs[v].text) :
                         UpdateBegin(w, v, g, l, b, at)
        PROVE  RowsOK'
    <3>1. ASSUME NEW x \in Interval(v), AddLabel(v, g, x[1], x[2]) PROVE RowsOK' BY <3>1, AddLabelRows
    <3>2. ASSUME NEW l \in Labels(v, g), DeleteLabel(v, g, l) PROVE RowsOK' BY <3>2, DeleteLabelRows
    <3>3. ASSUME NEW l \in Labels(v, g), NEW w \in Writer, NEW b \in {"lo", "hi"},
                 NEW at \in 0 .. Len(revs[v].text), UpdateBegin(w, v, g, l, b, at)
          PROVE  RowsOK'
      BY <3>3, UpdateBeginRows
    <3>4. QED BY <2>3, <3>1, <3>2, <3>3
  <2>4. ASSUME NEW w \in Writer, NEW g \in Group, ReadBegin(w, g) \/ \E r \in Run : PromoteBegin(w, r, g)
        PROVE  RowsOK'
    <3>1. \E h \in Group : ReadBegin(w, h) \/ \E r \in Run : PromoteBegin(w, r, h) BY <2>4
    <3>2. QED BY <3>1, BeginRows
  <2>5. ASSUME NEW r \in Run, CreateRun(r)
        PROVE  RowsOK'
    BY <2>5, RunRows DEF CreateRun, JobsUnchanged
  <2>6. QED BY <1>1, <2>1, <2>2, <2>3, <2>4, <2>5 DEF Request
<1>2. CASE Continue
  <2>1. PICK w \in Writer :
          EditRead(w) \/ EditInsert(w) \/ EditPort(w) \/ EditCommit(w) \/ UpdateEnd(w) \/ ReadEnd(w) \/ PromoteEnd(w)
    BY <1>2 DEF Continue
  <2>2. CASE EditRead(w) BY <2>2, EditReadRows
  <2>3. CASE EditInsert(w) \/ EditPort(w) BY <2>3, EditRows
  <2>4. CASE EditCommit(w) BY <2>4, EditCommitRows
  <2>5. CASE UpdateEnd(w) BY <2>5, UpdateEndRows
  <2>6. CASE ReadEnd(w) BY <2>6, ReadEndRows
  <2>7. CASE PromoteEnd(w) BY <2>7, PromoteEndRows
  <2>8. QED BY <2>1, <2>2, <2>3, <2>4, <2>5, <2>6, <2>7
<1>3. ASSUME NEW r \in Run, RunStep(r) \/ RunDies(r)
      PROVE  RowsOK'
  <2>1. UNCHANGED <<db, tx>>
    BY <1>3 DEF RunStep, AssignJob, Enqueue, Report, Claim, SetupFails, Infer, RunDies, JobsUnchanged
  <2>2. QED BY <2>1, RunRows
<1>4. CASE Fault
  <2>1. ASSUME NEW w \in Writer, Abort(w) PROVE RowsOK' BY <2>1, BeginRows
  <2>2. QED BY <1>3, <1>4, <2>1 DEF Fault
<1>5. CASE UNCHANGED vars
  <2>1. UNCHANGED <<db, tx>> BY <1>5 DEF vars, db
  <2>2. QED BY <2>1, RunRows
<1>6. QED BY <1>1, <1>2, <1>3, <1>4, <1>5 DEF Next

LEMMA RowsInit == Init => MInv
<1> SUFFICES ASSUME Init PROVE RowsOK BY InitInv DEF MInv
<1>1. Len(revs) = 1 /\ revs[1].data = StartData
  <2>1. PICK first : first = [text |-> StartText, data |-> StartData] OBVIOUS
  <2>2. revs = <<first>> BY <2>1 DEF Init
  <2>3. QED BY <2>1, <2>2
<1>2. minted = Cardinality(UNION {StartData[g].labels : g \in Group}) BY DEF Init
<1>3. \A v \in 1 .. Len(revs), g \in Group : Numbered(Labels(v, g), minted) /\ Told(Labels(v, g))
  <2> SUFFICES ASSUME NEW v \in 1 .. Len(revs), NEW g \in Group
               PROVE  Numbered(Labels(v, g), minted) /\ Told(Labels(v, g))
    OBVIOUS
  <2>1. PICK ls : ls = StartData[g].labels OBVIOUS
  <2>2. Labels(v, g) = ls BY <1>1, <2>1 DEF Labels
  <2>3. \A l \in ls : /\ l.n <= minted /\ l.asked = [lo |-> l.lo, hi |-> l.hi]
                     /\ \A k \in ls : k.n = l.n => k = l
    BY <1>2, <2>1, RowsAssumption
  <2>4. Numbered(ls, minted) /\ Told(ls) BY <2>3 DEF Numbered, Told
  <2>5. QED BY <2>2, <2>4
<1>4. \A w \in Writer : ~Is(w, "edit") /\ ~Is(w, "update") BY DEF Init, Is, Idle
<1>5. QED BY <1>3, <1>4 DEF RowsOK

THEOREM RowsInvariance == Spec => []MInv
<1>1. MInv /\ [Next]_vars => MInv' BY RowsNext
<1>2. QED BY <1>1, RowsInit, PTL DEF Spec

(* Two updates of one label that both succeed are both in effect: every label *)
(* has the bounds that its editors were last told, in every version.         *)
THEOREM UpdatesAlwaysMerge == Spec => []UpdatesMerge
<1>1. MInv => UpdatesMerge
  BY RevsType DEF MInv, RowsOK, Told, UpdatesMerge
<1>2. QED BY <1>1, RowsInvariance, PTL
=============================================================================
