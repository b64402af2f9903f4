--------------------------- MODULE ChapterVersions ----------------------------
(***************************************************************************)
(* The versions of one chapter and their labels in the database, and the     *)
(* requests that change them at the same time: text edits that write a new   *)
(* version and copy its labels (novels/service.py), label changes and label  *)
(* data made on demand (labels/service.py, editing/service.py), autolabel     *)
(* runs with their worker and the promotion of their results                 *)
(* (autolabels/service.py, worker/tasks.py).  A transaction sees what is      *)
(* committed when a statement runs (READ COMMITTED), so a request is several  *)
(* steps where it reads first and writes later.                              *)
(***************************************************************************)
EXTENDS TextOps, FiniteSets

CONSTANTS
    Char,        \* characters
    Writer,      \* requests that may be open at once
    Group,       \* label groups
    Run,         \* autolabel runs
    Op,          \* text operations the clients send
    StartText, StartData

Label == [n : Nat, lo : Nat, hi : Nat, word : Seq(Char), ver : Nat, asked : [lo : Nat, hi : Nat]]
Data == [Group -> [on : BOOLEAN, labels : SUBSET Label]]
Slice(t, lo, hi) == SubSeq(t, lo + 1, hi)

\* A label covers the word it was made for; labels of one group are apart.
FitsText(l, t) == l.lo < l.hi /\ l.hi <= Len(t) /\ l.word = Slice(t, l.lo, l.hi)
Fits(ls, t) == \A l \in ls : FitsText(l, t) /\ ~Overlaps(ls \ {l}, l.lo, l.hi)

ASSUME ChapterAssumption ==
    /\ StartText \in Seq(Char)
    /\ StartData \in Data
    /\ \A g \in Group : Fits(StartData[g].labels, StartText)
    /\ Cardinality(UNION {StartData[g].labels : g \in Group}) \in Nat
    /\ Op \subseteq [op : {"insert", "delete"}, at : Nat, text : Seq(Char) \ {<<>>}]

\* The first rows are numbered and have the bounds their editors gave them.
ASSUME RowsAssumption ==
    \A g \in Group : \A l \in StartData[g].labels :
        /\ l.n <= Cardinality(UNION {StartData[h].labels : h \in Group})
        /\ l.asked = [lo |-> l.lo, hi |-> l.hi]
        /\ \A k \in StartData[g].labels : k.n = l.n => k = l

VARIABLES
    revs,        \* the committed versions: text and label data by group
    tx,          \* what each writer has open
    minted,      \* label rows ever made
    auto,        \* the chapter's row of each autolabel run, its request, its worker
    queue,       \* runs whose message waits at the broker
    died,        \* runs that lost their request, their message or their worker
    log          \* the text edits that succeeded, with the version the client named

vars == <<revs, tx, minted, auto, queue, died, log>>
db == <<revs, minted, log>>
jobs == <<auto, queue, died>>

Latest == Len(revs)
Labels(v, g) == revs[v].data[g].labels

\* A row: its number, interval and word, the version of its optimistic lock, and
\* the bounds its editors were told it has.
Row(n, lo, hi, word) ==
    [n |-> n, lo |-> lo, hi |-> hi, word |-> word, ver |-> 1, asked |-> [lo |-> lo, hi |-> hi]]

Idle == [kind |-> "idle"]
Is(w, kind) == tx[w].kind = kind
Begin(w, t) == tx[w] = Idle /\ tx' = [tx EXCEPT ![w] = t]
Finish(w) == tx' = [tx EXCEPT ![w] = Idle]

-----------------------------------------------------------------------------
(* modify_chapter_content: the latest version, its labels, the new version,   *)
(* the copies.                                                              *)

\* Mutant: the operation is applied to whichever text is latest.
CurrentAny(base) == TRUE

Current(base) == base = Latest

EditBegin(w, base, op) ==
    /\ base \in DOMAIN revs /\ Current(base)
    /\ Valid(revs[Latest].text, op)
    /\ Begin(w, [kind |-> "edit", at |-> "checked", base |-> base, rev |-> Latest, op |-> op,
                 labels |-> [g \in Group |-> {}], on |-> {}])
    /\ UNCHANGED <<db, jobs>>

EditRead(w) ==
    /\ Is(w, "edit") /\ tx[w].at = "checked"
    /\ tx' = [tx EXCEPT ![w].at = "read", ![w].labels = [g \in Group |-> Labels(tx[w].rev, g)]]
    /\ UNCHANGED <<db, jobs>>

\* (chapter, version) is unique: who comes second waits for the first, and fails
\* when that one commits.
Inserting(u, v) == Is(u, "edit") /\ tx[u].at \in {"inserted", "ported"} /\ tx[u].rev + 1 = v

\* Mutant: no unique constraint.
NobodyInsertsLoose(v) == TRUE

NobodyInserts(v) == \A u \in Writer : ~Inserting(u, v)

EditInsert(w) ==
    /\ Is(w, "edit") /\ tx[w].at = "read" /\ NobodyInserts(tx[w].rev + 1)
    /\ IF tx[w].rev = Latest THEN tx' = [tx EXCEPT ![w].at = "inserted"] ELSE Finish(w)
    /\ UNCHANGED <<db, jobs>>

Copied(ls, op) == {Row(l.n, l.lo, l.hi, l.word) : l \in ApplyTextOp(ls, op)}

\* Every label data of the old version gets a copy, with the labels read before.
EditPort(w) ==
    /\ Is(w, "edit") /\ tx[w].at = "inserted"
    /\ tx' = [tx EXCEPT ![w].at = "ported", ![w].on = {g \in Group : revs[tx[w].rev].data[g].on}]
    /\ UNCHANGED <<db, jobs>>

Ported(t) ==
    [g \in Group |-> [on |-> g \in t.on, labels |-> IF g \in t.on THEN Copied(t.labels[g], t.op) ELSE {}]]

EditCommit(w) ==
    /\ Is(w, "edit") /\ tx[w].at = "ported"
    /\ revs' = Append(revs, [text |-> Edited(revs[tx[w].rev].text, tx[w].op), data |-> Ported(tx[w])])
    /\ log' = Append(log, [by |-> w, base |-> tx[w].base, op |-> tx[w].op])
    /\ Finish(w) /\ UNCHANGED <<minted, jobs>>

-----------------------------------------------------------------------------
(* modify_label_data_by_stream, on the label data of any version.            *)
SetLabels(v, g, ls) == revs' = [revs EXCEPT ![v].data[g].labels = ls]
FitsIn(v, g, lo, hi, besides) ==
    lo < hi /\ hi <= Len(revs[v].text) /\ ~Overlaps(Labels(v, g) \ besides, lo, hi)

AddLabel(v, g, lo, hi) ==
    /\ revs[v].data[g].on /\ FitsIn(v, g, lo, hi, {})
    /\ SetLabels(v, g, Labels(v, g) \cup {Row(minted + 1, lo, hi, Slice(revs[v].text, lo, hi))})
    /\ minted' = minted + 1
    /\ UNCHANGED <<tx, log, jobs>>

DeleteLabel(v, g, l) ==
    /\ SetLabels(v, g, Labels(v, g) \ {l})
    /\ UNCHANGED <<tx, minted, log, jobs>>

\* An update names the bounds it changes; the others are read first.
UpdateBegin(w, v, g, l, bound, at) ==
    LET new == [l EXCEPT ![bound] = at] IN
    /\ new.lo < new.hi /\ new.hi <= Len(revs[v].text)
    /\ Begin(w, [kind |-> "update", v |-> v, g |-> g, old |-> l, new |-> new, bound |-> bound])
    /\ UNCHANGED <<db, jobs>>

\* Mutant: no optimistic lock.
SameAny(l, t) == l.n = t.old.n

Same(l, t) == l.n = t.old.n /\ l.ver = t.old.ver

UpdateEnd(w) ==
    LET t == tx[w] IN
    /\ Is(w, "update") /\ Finish(w)
    /\ \/ \E l \in Labels(t.v, t.g) :
            /\ Same(l, t) /\ FitsIn(t.v, t.g, t.new.lo, t.new.hi, {l})
            /\ SetLabels(t.v, t.g, (Labels(t.v, t.g) \ {l}) \cup
                   {[t.new EXCEPT !.ver = @ + 1, !.word = Slice(revs[t.v].text, t.new.lo, t.new.hi),
                                  !.asked = [l.asked EXCEPT ![t.bound] = t.new[t.bound]]]})
       \/ /\ \A l \in Labels(t.v, t.g) : ~(Same(l, t) /\ FitsIn(t.v, t.g, t.new.lo, t.new.hi, {l}))
          /\ UNCHANGED revs
    /\ UNCHANGED <<minted, log, jobs>>

\* insert_label_data, and the label data a read of the latest version makes.
InsertLabelData(v, g) ==
    /\ revs' = [revs EXCEPT ![v].data[g].on = TRUE]
    /\ UNCHANGED <<tx, minted, log, jobs>>
ReadBegin(w, g) ==
    /\ Begin(w, [kind |-> "read", v |-> Latest, g |-> g])
    /\ UNCHANGED <<db, jobs>>
ReadEnd(w) ==
    /\ Is(w, "read") /\ Finish(w)
    /\ revs' = [revs EXCEPT ![tx[w].v].data[tx[w].g].on = TRUE]
    /\ UNCHANGED <<minted, log, jobs>>

-----------------------------------------------------------------------------
(* Autolabel runs: the row, the job, the message, the report of the request;  *)
(* the worker's claim and its result.                                       *)
NoRun == [status |-> "none", rev |-> 0, job |-> FALSE, api |-> "none", busy |-> FALSE, found |-> {}]
JobsUnchanged == UNCHANGED <<db, tx>>

CreateRun(r) ==
    /\ auto[r].status = "none"
    /\ auto' = [auto EXCEPT ![r].status = "pending", ![r].rev = Latest, ![r].api = "rows"]
    /\ UNCHANGED <<queue, died>> /\ JobsUnchanged

AssignJob(r) ==
    /\ auto[r].api = "rows"
    /\ auto' = [auto EXCEPT ![r].job = TRUE, ![r].api = "jobs"]
    /\ UNCHANGED <<queue, died>> /\ JobsUnchanged

\* The broker may have accepted a message whose sending fails.
Enqueue(r) ==
    /\ auto[r].api = "jobs"
    /\ \/ auto' = [auto EXCEPT ![r].api = "sent"] /\ queue' = queue \cup {r}
       \/ auto' = [auto EXCEPT ![r].api = "failed"] /\ queue' \in {queue, queue \cup {r}}
    /\ UNCHANGED died /\ JobsUnchanged

\* Mutant: a message that could not be sent is only logged.
ReportedQuiet(a) == a.status

Reported(a) == IF a.api = "failed" THEN "failed" ELSE a.status

Report(r) ==
    /\ auto[r].api \in {"sent", "failed"}
    /\ auto' = [auto EXCEPT ![r].status = Reported(auto[r]), ![r].api = "done"]
    /\ UNCHANGED <<queue, died>> /\ JobsUnchanged

Claim(r) ==
    /\ r \in queue /\ queue' = queue \ {r}
    /\ auto' = IF auto[r].status = "pending" /\ auto[r].job
               THEN [auto EXCEPT ![r].status = "processing", ![r].busy = TRUE] ELSE auto
    /\ UNCHANGED died /\ JobsUnchanged

\* The run, its parameters or its model cannot be loaded.
SetupFails(r) ==
    /\ r \in queue /\ queue' = queue \ {r}
    /\ auto' = [auto EXCEPT ![r].status = "failed"]
    /\ UNCHANGED died /\ JobsUnchanged

\* What the model may find in a text.
Results(t) == {{}} \cup (IF t = <<>> THEN {} ELSE {{[lo |-> 0, hi |-> 1, word |-> Slice(t, 0, 1)]}})

Infer(r) ==
    /\ auto[r].busy
    /\ \/ \E found \in Results(revs[auto[r].rev].text) :
            auto' = [auto EXCEPT ![r].status = "done", ![r].busy = FALSE, ![r].found = found]
       \/ auto' = [auto EXCEPT ![r].status = "failed", ![r].busy = FALSE]
    /\ UNCHANGED <<queue, died>> /\ JobsUnchanged

\* insert_label_datas_by_autolabels: the latest version is chosen, then written.
PromoteBegin(w, r, g) ==
    /\ auto[r].status = "done" /\ auto[r].rev = Latest
    /\ Begin(w, [kind |-> "promote", r |-> r, g |-> g])
    /\ UNCHANGED <<db, jobs>>

\* Mutant: only the results are compared with each other.
ClashesLoose(ls, found) == \E a, b \in found : a # b /\ Overlaps({a}, b.lo, b.hi)

Clashes(ls, found) ==
    \/ \E a \in found : Overlaps(ls, a.lo, a.hi)
    \/ \E a, b \in found : a # b /\ Overlaps({a}, b.lo, b.hi)

PromoteEnd(w) ==
    LET v == auto[tx[w].r].rev
        g == tx[w].g
        found == auto[tx[w].r].found IN
    /\ Is(w, "promote") /\ Finish(w)
    /\ IF \/ \E a \in found : a.word # Slice(revs[v].text, a.lo, a.hi)
          \/ Clashes(Labels(v, g), found)
       THEN UNCHANGED <<revs, minted>>
       ELSE /\ revs' = [revs EXCEPT ![v].data[g] =
                          [on |-> TRUE, labels |-> @.labels \cup
                             {Row(minted + 1 + Cardinality({b \in found : b.lo < a.lo}), a.lo, a.hi, a.word)
                              : a \in found}]]
            /\ minted' = minted + Cardinality(found)
    /\ UNCHANGED <<log, jobs>>

-----------------------------------------------------------------------------
(* Faults: a transaction is rolled back; a request, a message, a worker dies. *)
Abort(w) == tx[w] # Idle /\ Finish(w) /\ UNCHANGED <<db, jobs>>
RunDies(r) ==
    /\ \/ auto[r].api \in {"rows", "jobs", "sent", "failed"} /\ auto' = [auto EXCEPT ![r].api = "dead"]
          /\ UNCHANGED queue
       \/ auto[r].busy /\ auto' = [auto EXCEPT ![r].busy = FALSE] /\ UNCHANGED queue
       \/ r \in queue /\ queue' = queue \ {r} /\ UNCHANGED auto
    /\ died' = died \cup {r} /\ JobsUnchanged

-----------------------------------------------------------------------------
Init ==
    /\ revs = <<[text |-> StartText, data |-> StartData]>>
    /\ tx = [w \in Writer |-> Idle]
    /\ minted = Cardinality(UNION {StartData[g].labels : g \in Group})
    /\ auto = [r \in Run |-> NoRun] /\ queue = {} /\ died = {}
    /\ log = <<>>

Interval(v) == {x \in (0..Len(revs[v].text)) \X (0..Len(revs[v].text)) : x[1] < x[2]}

\* A request begins; the short ones are one transaction of one statement.
Request ==
    \/ \E w \in Writer, base \in DOMAIN revs, op \in Op : EditBegin(w, base, op)
    \/ \E v \in DOMAIN revs, g \in Group :
         \/ InsertLabelData(v, g)
         \/ \E x \in Interval(v) : AddLabel(v, g, x[1], x[2])
         \/ \E l \in Labels(v, g) :
              \/ DeleteLabel(v, g, l)
              \/ \E w \in Writer, b \in {"lo", "hi"}, at \in 0..Len(revs[v].text) :
                   UpdateBegin(w, v, g, l, b, at)
    \/ \E w \in Writer, g \in Group : ReadBegin(w, g) \/ \E r \in Run : PromoteBegin(w, r, g)
    \/ \E r \in Run : CreateRun(r)

Continue == \E w \in Writer :
    EditRead(w) \/ EditInsert(w) \/ EditPort(w) \/ EditCommit(w) \/ UpdateEnd(w) \/ ReadEnd(w) \/ PromoteEnd(w)
RunStep(r) == AssignJob(r) \/ Enqueue(r) \/ Report(r) \/ Claim(r) \/ SetupFails(r) \/ Infer(r)
Fault == (\E w \in Writer : Abort(w)) \/ \E r \in Run : RunDies(r)

Next == Request \/ Continue \/ (\E r \in Run : RunStep(r)) \/ Fault
Spec == Init /\ [][Next]_vars /\ \A r \in Run : WF_vars(RunStep(r))

-----------------------------------------------------------------------------
(* The text of the latest version is a document that is edited one operation  *)
(* at a time: no edit is lost, and none is applied to a text its writer had   *)
(* not seen.                                                                *)
Text == INSTANCE Document WITH text <- revs[Latest].text
ImplementsDocument == Text!Spec

(* In every version a label covers the word it was made for, lies within the  *)
(* text and overlaps no other of its group; so do the results of a run.       *)
LabelsFit ==
    /\ \A v \in DOMAIN revs, g \in Group : Fits(Labels(v, g), revs[v].text)
    /\ \A r \in Run : \A l \in auto[r].found : FitsText(l, revs[auto[r].rev].text)

(* Two updates of one label that both succeed are both in effect, though each *)
(* writes the bounds it only read.                                          *)
UpdatesMerge ==
    \A v \in DOMAIN revs, g \in Group : \A l \in Labels(v, g) : l.asked = [lo |-> l.lo, hi |-> l.hi]

(* A run that is not hit by a crash ends: it is never left pending.           *)
RunsEnd == \A r \in Run : auto[r].status = "pending" ~> (auto[r].status \in {"done", "failed"} \/ r \in died)
=============================================================================
