---------------------------- MODULE ChapterEditor ----------------------------
(***************************************************************************)
(* One open chapter of the editor (frontend/src/edit/controller):           *)
(* chapterDataManager.ts keeps the text and the labels of every label group *)
(* and changes them at once; what the user did is queued, flushed once a    *)
(* second as requests, sent when the ids they reserve are free, and the      *)
(* server's answer rebinds those ids.  novelDataManager.ts opens and closes  *)
(* the chapter.  The backend is the chapter's latest revision with its       *)
(* label data; transport, keys and retries are RequestManager's, here a      *)
(* request that is sent is answered, answered late, or given up.             *)
(* The autolabel panel may promote a run's labels into a group meanwhile:    *)
(* the backend inserts them next to the labels the group has.               *)
(* A label is its interval: entity group, score and word are left out.       *)
(***************************************************************************)
EXTENDS ServerIds, TextOps

CONSTANTS
    Group,       \* label groups, numbered
    Used,        \* those that have label data when the chapter is first opened
    Char, Typed, \* characters, and those the user types
    StartText, StartLabels,   \* the first revision: its text, its labels by group
    Found,       \* the label that an autolabel run found in the first revision
    MaxText      \* bound: length of the text

ASSUME GroupAssumption == Group \subseteq Nat /\ Used \subseteq Group
ASSUME TextAssumption ==
    Typed \subseteq Char /\ StartText \in Seq(Char) /\ Len(StartText) <= MaxText

VARIABLES
    server,      \* latest revision: ver, text, label data by group; minted counts
                 \* labels, promoted are those that came from the run
    ids,         \* the id repository; a provisional id is its index
    open,        \* the chapter: idle, loading, ready, closing, cancelled (while it
                 \* loads) or error
    text, cc,    \* the text shown; provisional id of its revision
    slot,        \* label data index: status, ld (provisional id), labels
    ops,         \* opQueue: what the user did since the last flush
    orphans,     \* labels a text operation has cut
    pending, gen,    \* text requests not finished; text requests ever made
    held,        \* inactive requests that wait for an active one
    queue,       \* the request manager's queue
    sent,        \* requests that are out, oldest first, and their answers
    passing,     \* a pass of the send loop waits for its answers
    reloads,     \* groups whose reload was outdated and is asked again
    lost,        \* a change or a refresh was given up
    promoting,   \* the panel promotes: the workspace is inert until it is told the end
    fatal        \* "none", or why a request failed for good

local == <<text, cc, slot, ops, orphans, pending, gen, held, reloads>>
net == <<queue, sent, passing>>
vars == <<server, ids, open, local, net, lost, promoting, fatal>>

-----------------------------------------------------------------------------
(* The editor's labels after a text operation.                               *)
\* Mutant: a label that is cut in part survives in the editor.
CutWhole(ls, op) == {l \in ls : l.hi > op.at /\ l.lo < End(op) /\ l.hi - l.lo <= Len(op.text)}

\* The editor's labels after an operation, and those it orphans.
Cut(ls, op) == {l \in ls : l.hi > op.at /\ l.lo < End(op)}

Shift(ls, op) == {IF l.lo >= End(op) THEN Moved(l, op) ELSE l : l \in ls \ Cut(ls, op)}

Sorted(ls) == SetToSortSeq(ls, LAMBDA a, b : a.lo < b.lo)

-----------------------------------------------------------------------------
(* The backend.  Label data is named by its group and revision; a label by    *)
(* its revision and its number, so a ported label has a new id.             *)
LdId(g, v) == <<"labelData", g, v>>
LabelId(v, n) == <<"label", v, n>>
CcId(v) == <<"chapterContent", v>>

\* modify_chapter_content: every text operation on the latest revision, or none.
AfterTextOp(s, op) ==
    IF s = <<>> \/ ~Valid(s[1].text, op) THEN <<>>
    ELSE <<[s[1] EXCEPT !.text = Edited(@, op),
                        !.data = [g \in Group |-> [@[g] EXCEPT !.labels = ApplyTextOp(@, op)]]]>>

ModifyContent(r) ==
    LET after == FoldLeft(AfterTextOp, <<server>>, r.ops) IN
    IF r.serv # CcId(server.ver) \/ after = <<>> THEN [ok |-> FALSE, at |-> server]
    ELSE [ok |-> TRUE, at |-> [after[1] EXCEPT !.ver = @ + 1]]

\* modify_label_data_by_stream: all operations in one transaction, or none.
AfterLabelOp(g, a, op) ==
    LET ls == a.at.data[g].labels
        mine == {l \in ls : op.op # "add" /\ LabelId(a.at.ver, l.n) = ids[op.id].serv}
        n == IF op.op = "add" THEN a.at.minted + 1 ELSE (CHOOSE l \in mine : TRUE).n IN
    IF \/ ~a.ok
       \/ op.op # "add" /\ mine = {}
       \/ op.op # "delete" /\ (op.hi > Len(a.at.text) \/ Overlaps(ls \ mine, op.lo, op.hi))
    THEN [ok |-> FALSE, at |-> server, ids |-> <<>>]
    ELSE [ok |-> TRUE, ids |-> Append(a.ids, LabelId(a.at.ver, n)),
          at |-> [a.at EXCEPT !.minted = IF op.op = "add" THEN n ELSE @,
                    !.data[g].labels = (@ \ mine) \cup (IF op.op = "delete" THEN {}
                                         ELSE {[n |-> n, lo |-> op.lo, hi |-> op.hi]})]]

\* Operations on the label data of an older revision change that revision only.
ModifyLabels(r) ==
    IF ids[r.ld].serv = LdId(r.g, server.ver)
    THEN FoldLeft(LAMBDA a, op : AfterLabelOp(r.g, a, op),
                  [ok |-> TRUE, at |-> server, ids |-> <<>>], r.ops)
    ELSE [ok |-> TRUE, at |-> server, ids |-> [i \in DOMAIN r.ops |-> LabelId(0, i)]]

\* query_edit_chapter_data_only_label_data creates the label data that is missing.
ReadLabels(gs) ==
    [ok |-> TRUE, at |-> [server EXCEPT !.data =
        [g \in Group |-> IF g \in gs THEN [server.data[g] EXCEPT !.on = TRUE] ELSE server.data[g]]]]

\* insert_label_datas_by_autolabels: into the latest revision only; when a label
\* overlaps one of the group none is inserted, which is no failure.
InsertFound(g) ==
    LET n == server.minted + 1
        new == [n |-> n, lo |-> Found.lo, hi |-> Found.hi] IN
    IF Overlaps(server.data[g].labels, Found.lo, Found.hi) THEN server
    ELSE [server EXCEPT !.minted = n, !.promoted = @ \cup {n},
                        !.data[g] = [on |-> TRUE, labels |-> @.labels \cup {new}]]

PromoteLabels(g) == [ok |-> TRUE, at |-> IF server.ver = 1 THEN InsertFound(g) ELSE server]

-----------------------------------------------------------------------------
(* The ids of the chapter. *)
LabelIds(ls) == {l.id : l \in ls}
Chapter == 1     \* the chapter's provisional id
GroupId(g) == 1 + Cardinality({h \in Group : h <= g})
LockChapter == Res({Chapter}, "locked")

-----------------------------------------------------------------------------
(* _flush: the queued operations as requests. *)
NoOps == [tag |-> "neither", todo |-> <<>>]
ReadyGroups(sl) == {g \in Group : sl[g].status = "ready"}
Tracked(sl) == {g \in Group : sl[g].status # "none"}

\* Mutant: one request per group.
BatchesWhole(todo) == IF todo = <<>> THEN <<>> ELSE <<todo>>

\* splitLabelOpBatches: a label is changed in a later request than it is added.
Batches(todo) ==
    FoldLeft(LAMBDA bs, op :
        IF bs = <<>> THEN <<<<op>>>>
        ELSE LET last == bs[Len(bs)] IN
             IF op.op # "add" /\ \E i \in DOMAIN last : last[i].op = "add" /\ last[i].id = op.id
             THEN Append(bs, <<op>>) ELSE [bs EXCEPT ![Len(bs)] = Append(last, op)],
        <<>>, todo)

Does(b, p, what) == \E i \in DOMAIN b : b[i].id = p /\ b[i].op = what
LabelMode(b, p) == IF Does(b, p, "add") THEN "creating"
                   ELSE IF Does(b, p, "delete") THEN "deleting" ELSE "updating"

LabelRequest(sl, g, b) ==
    [type |-> "label", g |-> g, ld |-> sl[g].ld, ops |-> b,
     res |-> LockChapter \cup Res({cc}, "locked") \cup Res({sl[g].ld}, "updating")
               \cup UNION {Res({b[i].id}, LabelMode(b, b[i].id)) : i \in DOMAIN b}]

LabelRequests(sl) ==
    LET of(g) == SelectSeq(ops.todo, LAMBDA o : o.g = g)
        reqs(g) == [i \in DOMAIN Batches(of(g)) |-> LabelRequest(sl, g, Batches(of(g))[i])]
    IN FlattenSeq([i \in 1..Cardinality(Group) |-> reqs(SetToSortSeq(Group, <)[i])])

\* Mutant: the labels that were cut keep their ids.
TextRequestNoDetach(sl) ==
    [type |-> "text", ops |-> ops.todo, tracked |-> [g \in Tracked(sl) |-> sl[g].ld],
     res |-> LockChapter \cup Res({cc}, "updating") \cup Res({sl[g].ld : g \in ReadyGroups(sl)}, "idUpdating")
               \cup UNION {Res(LabelIds(sl[g].labels), "updating") : g \in ReadyGroups(sl)}]

TextRequest(sl) ==
    [type |-> "text", ops |-> ops.todo, tracked |-> [g \in Tracked(sl) |-> sl[g].ld],
     res |-> LockChapter \cup Res({cc}, "updating") \cup Res({sl[g].ld : g \in Tracked(sl)}, "idUpdating")
               \cup UNION {Res(LabelIds(sl[g].labels), "updating") : g \in ReadyGroups(sl)}
               \cup Res(orphans, "detaching")]

RefreshRequest(sl) ==
    [type |-> "refresh", loaded |-> [g \in ReadyGroups(sl) |-> sl[g]],
     res |-> LockChapter \cup Res({sl[g].ld : g \in ReadyGroups(sl)}, "locked")
               \cup UNION {Res(LabelIds(sl[g].labels), "idUpdating") : g \in ReadyGroups(sl)}]

Flushed(sl) ==
    CASE ops.tag = "label" -> LabelRequests(sl)
      [] ops.tag = "text"  -> <<TextRequest(sl)>> \o
                              (IF ReadyGroups(sl) = {} THEN <<>> ELSE <<RefreshRequest(sl)>>)
      [] OTHER -> <<>>

\* What a flush does besides: a text request counts, and takes the orphans.
Count(tag) ==
    /\ pending' = pending + (IF tag = "text" THEN 1 ELSE 0)
    /\ gen' = gen + (IF tag = "text" THEN 1 ELSE 0)

\* The dispatcher: inactive requests wait for the next active one, or for a flush.
Active(r) == r.type \in {"label", "text", "close"}
Dispatched(reqs) ==
    FoldLeft(LAMBDA d, r : IF Active(r) THEN [out |-> d.out \o d.held \o <<r>>, held |-> <<>>]
                           ELSE [d EXCEPT !.held = Append(@, r)],
             [out |-> <<>>, held |-> held], reqs)
Enqueue(reqs) ==
    /\ held' = Dispatched(reqs).held
    /\ queue' = queue \o Dispatched(reqs).out
EnqueueNow(reqs) ==
    /\ held' = <<>>
    /\ queue' = queue \o Dispatched(reqs).out \o Dispatched(reqs).held

-----------------------------------------------------------------------------
(* The user. *)
Running == fatal = "none"
Loaded == Running /\ open = "ready"
Editing == Loaded /\ ~promoting
UserUnchanged == UNCHANGED <<server, open, cc, sent, passing, reloads, lost, promoting, fatal>>

\* autoFlushIfTagMismatch, then the operation joins the queue of its kind.
Record(tag, op) ==
    LET other == ops.tag \notin {"neither", tag} IN
    /\ ops' = IF other THEN [tag |-> tag, todo |-> <<op>>]
                       ELSE [tag |-> tag, todo |-> Append(ops.todo, op)]
    /\ Enqueue(IF other THEN Flushed(slot) ELSE <<>>)
    /\ Count(IF other THEN ops.tag ELSE "neither")

EditText(op) ==
    /\ Editing
    /\ text' = Edited(text, op)
    /\ slot' = [g \in Group |-> [slot[g] EXCEPT !.labels = Shift(@, op)]]
    /\ orphans' = orphans \cup UNION {LabelIds(Cut(slot[g].labels, op)) : g \in Group}
    /\ Record("text", op)
    /\ UNCHANGED ids /\ UserUnchanged

InsertText(at, c) ==
    Len(text) < MaxText /\ EditText([op |-> "insert", at |-> at, text |-> <<c>>])
DeleteText(a, b) ==
    a < b /\ EditText([op |-> "delete", at |-> a, text |-> SubSeq(text, a + 1, b)])

\* A group without an entry in the index gets one, and the label is refused.
MissGroup(g) ==
    /\ Editing /\ slot[g].status = "none"
    /\ ids' = Append(ids, Unbound)
    /\ slot' = [slot EXCEPT ![g] = [status |-> "idle", ld |-> Len(ids) + 1, labels |-> {}]]
    /\ UNCHANGED <<text, ops, orphans, pending, gen, held, queue>> /\ UserUnchanged

EditLabels(g, new, op) ==
    /\ Editing /\ slot[g].status = "ready"
    /\ slot' = [slot EXCEPT ![g].labels = new]
    /\ Record("label", op)
    /\ orphans' = IF ops.tag = "text" THEN {} ELSE orphans
    /\ UNCHANGED text /\ UserUnchanged

AddLabel(g, lo, hi) ==
    LET p == Len(ids) + 1 IN
    /\ lo < hi /\ ~Overlaps(slot[g].labels, lo, hi)
    /\ ids' = Append(ids, Unbound)
    /\ EditLabels(g, slot[g].labels \cup {[id |-> p, lo |-> lo, hi |-> hi]},
                  [g |-> g, op |-> "add", id |-> p, lo |-> lo, hi |-> hi])

UpdateLabel(g, l, lo, hi) ==
    /\ lo < hi /\ ~Overlaps(slot[g].labels \ {l}, lo, hi)
    /\ EditLabels(g, (slot[g].labels \ {l}) \cup {[l EXCEPT !.lo = lo, !.hi = hi]},
                  [g |-> g, op |-> "update", id |-> l.id, lo |-> lo, hi |-> hi])
    /\ UNCHANGED ids

DeleteLabel(g, l) ==
    /\ EditLabels(g, slot[g].labels \ {l}, [g |-> g, op |-> "delete", id |-> l.id])
    /\ UNCHANGED ids

\* reloadGroup, now: the group's labels go away at once; their ids are detached
\* by a second request that waits for the answer of the first.
ReloadRequest(g, ld, rep) ==
    [type |-> "reload", g |-> g, ld |-> ld, old |-> LabelIds(slot[g].labels), wasBound |-> rep[ld].bound,
     gen |-> 0, texting |-> FALSE,
     res |-> LockChapter \cup Res({GroupId(g)}, "locked")
               \cup Res({ld}, IF rep[ld].bound THEN "idUpdating" ELSE "loading")
               \cup Res(LabelIds(slot[g].labels), "locked")]
DetachRequest(g) == [type |-> "detach", g |-> g, wait |-> TRUE, res |-> LockChapter]

Reload(g) ==
    LET rep == IF slot[g].status = "none" THEN Append(ids, Unbound) ELSE ids
        ld == IF slot[g].status = "none" THEN Len(rep) ELSE slot[g].ld
        sl == [slot EXCEPT ![g] = [status |-> "loading", ld |-> ld, labels |-> {}]]
        flushes == ops.tag # "neither"
    IN /\ Loaded /\ slot[g].status # "loading"
       /\ ids' = rep /\ slot' = sl
       /\ EnqueueNow(Flushed(sl) \o <<ReloadRequest(g, ld, rep), DetachRequest(g)>>)
       /\ ops' = NoOps /\ Count(ops.tag)
       /\ orphans' = IF ops.tag = "text" THEN {} ELSE orphans
       /\ UNCHANGED <<server, open, text, cc, sent, passing, lost, promoting, fatal>>

\* The user asks for a group, or the label panel asks again.
LoadGroup(g) == Editing /\ Reload(g) /\ UNCHANGED reloads
LoadAgain(g) ==
    /\ g \in reloads /\ reloads' = reloads \ {g}
    /\ \/ Reload(g)
       \/ ~(Loaded /\ slot[g].status # "loading") /\ UNCHANGED <<server, ids, open, text, cc, slot,
             ops, orphans, pending, gen, held, net, lost, promoting, fatal>>

FlushOps ==
    /\ ops' = NoOps /\ Count(ops.tag)
    /\ orphans' = IF ops.tag = "text" THEN {} ELSE orphans

\* Once a second.
Tick ==
    /\ Loaded /\ ops.tag # "neither"
    /\ FlushOps /\ Enqueue(Flushed(slot))
    /\ UNCHANGED <<ids, text, slot>> /\ UserUnchanged

CloseRequest == [type |-> "close", res |-> Res({Chapter}, "updating")]

\* A tab that is closed is not shown again before the close request is sent.
CloseChapter ==
    /\ Running /\ ~promoting
    /\ \/ /\ open = "ready" /\ open' = "closing"
          /\ FlushOps /\ held' = <<>>
          /\ queue' = queue \o Dispatched(Flushed(slot)).out \o Dispatched(Flushed(slot)).held
                        \o <<CloseRequest>>
       \/ /\ open = "loading" /\ open' = "cancelled"
          /\ queue' = Append(queue, CloseRequest)
          /\ UNCHANGED <<ops, orphans, pending, gen, held>>
    /\ UNCHANGED <<server, ids, text, cc, slot, sent, passing, reloads, lost, promoting, fatal>>

OpenChapter(eager) ==
    /\ Running /\ ~promoting /\ open \in {"idle", "error"} /\ open' = "loading"
    /\ queue' = Append(queue, [type |-> "open", eager |-> eager, res |-> LockChapter])
    /\ UNCHANGED <<server, ids, local, sent, passing, lost, promoting, fatal>>

\* The operations of the user are neither flushed nor waited for.
Promote(g) ==
    /\ Running /\ ~promoting /\ promoting' = TRUE
    /\ queue' = Append(queue, [type |-> "promote", g |-> g, res |-> Res({GroupId(g)}, "updating")])
    /\ UNCHANGED <<server, ids, open, local, sent, passing, lost, fatal>>

-----------------------------------------------------------------------------
(* The send loop.  A pass takes requests from the queue until one has to      *)
(* wait, reserves their ids and sends them together.                        *)
\* A promotion locks the chapter's revision as it is when its turn comes.
Reserved(r) == IF r.type = "promote" /\ open \in {"ready", "closing"}
               THEN r.res \cup Res({cc}, "locked") ELSE r.res
Wanted(r) == IF r.type = "text" THEN r.res \cup Res({cc}, "updating") ELSE Reserved(r)
CanSend(rep, r) ==
    /\ r.type = "detach" => ~r.wait
    /\ \A x \in Wanted(r) : IsReserveable(rep[x.id], x.mode)

Take(st, r) ==
    IF st.stop \/ ~CanSend(st.ids, r) THEN [st EXCEPT !.stop = TRUE]
    ELSE [st EXCEPT !.ids = ReserveAll(@, Reserved(r)), !.taken = Append(@, [r EXCEPT !.res = Reserved(r)])]
Taken == FoldLeft(Take, [ids |-> ids, taken |-> <<>>, stop |-> FALSE], queue)

\* preSend: a reload notes whether text is on its way.
Sent(r) ==
    CASE r.type = "reload" -> [r EXCEPT !.gen = gen, !.texting = ops.tag = "text" \/ pending > 0]
      [] r.type = "text"   -> r @@ [serv |-> ids[cc].serv]
      [] OTHER             -> r
Needless(r) == r.type \in {"detach", "close"}     \* nothing to send

StartPass ==
    /\ Running /\ ~passing
    /\ Taken.taken # <<>> \/ sent # <<>>
    /\ passing' = TRUE
    /\ ids' = Taken.ids
    /\ queue' = SubSeq(queue, Len(Taken.taken) + 1, Len(queue))
    /\ sent' = sent \o [i \in DOMAIN Taken.taken |->
                 [r |-> Sent(Taken.taken[i]), done |-> Needless(Taken.taken[i]), answer |-> [ok |-> TRUE]]]
    /\ open' = IF \E i \in DOMAIN Taken.taken : Taken.taken[i].type = "close" THEN "idle" ELSE open
    /\ UNCHANGED <<server, local, lost, promoting, fatal>>

\* The backend answers, in any order.
Answer(r) ==
    CASE r.type = "label"   -> ModifyLabels(r)
      [] r.type = "text"    -> ModifyContent(r)
      [] r.type = "refresh" -> ReadLabels(DOMAIN r.loaded)
      [] r.type = "reload"  -> ReadLabels({r.g})
      [] r.type = "open"    -> [ok |-> TRUE, at |-> server]
      [] r.type = "promote" -> PromoteLabels(r.g)

Serve(i) ==
    /\ Running /\ i \in DOMAIN sent /\ ~sent[i].done
    /\ LET a == Answer(sent[i].r) IN
         /\ server' = a.at
         /\ sent' = [sent EXCEPT ![i].done = TRUE, ![i].answer = a]
    /\ UNCHANGED <<ids, open, local, queue, passing, lost, promoting, fatal>>

-----------------------------------------------------------------------------
(* The answers of a pass, one postSend after the other.  c is the client:     *)
(* ids, open, text, cc, slot, pending, queue, reloads, promoting, fatal.      *)
Fails(c, why) == [c EXCEPT !.fatal = IF @ = "none" THEN why ELSE @]

PostLabel(c, r, a) ==
    [c EXCEPT !.ids = FoldLeft(LAMBDA rep, i :
        IF r.ops[i].op = "add" THEN Rebound(rep, r.ops[i].id, a.ids[i]) ELSE rep,
        @, [i \in DOMAIN r.ops |-> i])]

\* Every label data that was tracked when the operation was flushed gets the id
\* of its copy.
PostText(c, r, a) ==
    LET rep == NewId(c.ids, CcId(a.at.ver))
        ported(g) == c.ids[r.tracked[g]].serv = LdId(g, a.at.ver - 1) /\ a.at.data[g].on
        tracked == DOMAIN r.tracked
        copied == [p \in DOMAIN rep |->
                     IF \E g \in tracked : r.tracked[g] = p
                     THEN [rep[p] EXCEPT !.serv = LdId(CHOOSE g \in tracked : r.tracked[g] = p, a.at.ver)]
                     ELSE rep[p]]
    IN IF \E g \in tracked : ~ported(g) THEN Fails(c, "omitted")
       ELSE [c EXCEPT !.ids = copied, !.cc = IdOf(rep, CcId(a.at.ver)), !.pending = @ - 1]

\* The labels as flushed must be those of the new revision; they get its ids.
PostRefresh(c, r, a) ==
    LET fresh(g) == Sorted(a.at.data[g].labels)
        old(g) == Sorted(r.loaded[g].labels)
        same(g) == /\ c.ids[r.loaded[g].ld].serv = LdId(g, a.at.ver)
                   /\ Len(fresh(g)) = Len(old(g))
                   /\ \A i \in DOMAIN old(g) : old(g)[i].lo = fresh(g)[i].lo /\ old(g)[i].hi = fresh(g)[i].hi
        pairs == UNION {{<<old(g)[i].id, LabelId(a.at.ver, fresh(g)[i].n)>> : i \in DOMAIN old(g)} :
                        g \in DOMAIN r.loaded}
    IN IF \E g \in DOMAIN r.loaded : ~same(g) THEN Fails(c, "mismatch")
       ELSE IF \E x \in pairs : ~ReplaceOk(c.ids, x[1], x[2]) THEN Fails(c, "rebind")
       ELSE [c EXCEPT !.ids = [p \in DOMAIN @ |->
               IF \E x \in pairs : x[1] = p THEN [@[p] EXCEPT !.serv = (CHOOSE x \in pairs : x[1] = p)[2]]
               ELSE @[p]]]

\* Mutant: only a reload that removes labels lets its second request go on.
DetachSome(q, g, old) ==
    [i \in DOMAIN q |->
        IF q[i].type = "detach" /\ q[i].g = g /\ q[i].wait /\ old # {}
        THEN [q[i] EXCEPT !.wait = FALSE, !.res = @ \cup Res(old, "detaching")] ELSE q[i]]

\* The second request of a reload learns which labels it has to detach.
Detach(q, g, old) ==
    LET mine == {i \in DOMAIN q : q[i].type = "detach" /\ q[i].g = g /\ q[i].wait} IN
    [i \in DOMAIN q |-> IF i \in mine THEN [q[i] EXCEPT !.wait = FALSE, !.res = @ \cup Res(old, "detaching")]
                       ELSE q[i]]

\* Mutant: text that is queued or under way does not matter.
OutdatedAtSend(c, r) == r.texting \/ r.gen # gen

Outdated(c, r) == r.texting \/ r.gen # gen \/ ops.tag = "text" \/ c.pending > 0

\* Mutant: it is not told.
AskNever(rs, g) == rs

\* The label panel is told that the labels are outdated, and asks again.
AskAgain(rs, g) == rs \cup {g}

PostReload(c, r, a) ==
    LET ld == LdId(r.g, a.at.ver)
        found == Sorted(a.at.data[r.g].labels)
        svs == [i \in DOMAIN found |-> LabelId(a.at.ver, found[i].n)]
        rep == Rebound(c.ids, r.ld, ld)
        with == NewIds(rep, svs)
        labels == {[id |-> IdOf(with, svs[i]), lo |-> found[i].lo, hi |-> found[i].hi] : i \in DOMAIN found}
    IN IF ~(IF r.wasBound THEN ReplaceOk(c.ids, r.ld, ld) ELSE BindOk(c.ids, r.ld, ld))
       THEN Fails(c, "rebind")
       ELSE IF Outdated(c, r)
       THEN [c EXCEPT !.ids = rep, !.slot[r.g].status = "idle", !.reloads = AskAgain(@, r.g),
                      !.queue = Detach(@, r.g, r.old)]
       ELSE IF \E i \in DOMAIN svs : ~NewIdOk(rep, svs[i]) THEN Fails(c, "rebind")
       ELSE [c EXCEPT !.ids = with, !.slot[r.g].status = "ready", !.slot[r.g].labels = labels,
                      !.queue = Detach(@, r.g, r.old \ LabelIds(labels))]

\* The chapter data manager is built anew; ids that are known are kept.
NoSlot == [status |-> "none", ld |-> 0, labels |-> {}]
PostOpen(c, r, a) ==
    LET on == {g \in Group : a.at.data[g].on}
        found(g) == IF g \in on \cap r.eager THEN Sorted(a.at.data[g].labels) ELSE <<>>
        svs(g) == [i \in DOMAIN found(g) |-> LabelId(a.at.ver, found(g)[i].n)]
        all == <<CcId(a.at.ver)>> \o FlattenSeq(SetToSeq({<<LdId(g, a.at.ver)>> \o svs(g) : g \in on}))
        rep == NewIds(c.ids, all)
    IN IF \E i \in DOMAIN all : ~NewIdOk(c.ids, all[i]) THEN Fails([c EXCEPT !.open = "error"], "rebind")
       ELSE [c EXCEPT !.ids = rep, !.text = a.at.text, !.cc = IdOf(rep, CcId(a.at.ver)),
               !.open = IF @ = "loading" THEN "ready" ELSE "closing", !.pending = 0,
               !.slot = [g \in Group |->
                 IF g \notin on THEN NoSlot
                 ELSE [status |-> IF g \in r.eager THEN "ready" ELSE "idle", ld |-> IdOf(rep, LdId(g, a.at.ver)),
                       labels |-> {[id |-> IdOf(rep, svs(g)[i]), lo |-> found(g)[i].lo, hi |-> found(g)[i].hi] :
                                    i \in DOMAIN svs(g)}]]]

\* Mutant: the panel is told of a failure only.
PostPromoteSilent(c) == c

\* The panel ends the promotion; no group is loaded again.
PostPromote(c) == [c EXCEPT !.promoting = FALSE]

Post(c, x) ==
    CASE ~x.answer.ok         -> Fails(c, "refused")
      [] x.r.type = "label"   -> PostLabel(c, x.r, x.answer)
      [] x.r.type = "text"    -> PostText(c, x.r, x.answer)
      [] x.r.type = "refresh" -> PostRefresh(c, x.r, x.answer)
      [] x.r.type = "reload"  -> PostReload(c, x.r, x.answer)
      [] x.r.type = "open"    -> PostOpen(c, x.r, x.answer)
      [] x.r.type = "promote" -> PostPromote(c)
      [] OTHER                -> c

Client == [ids |-> ids, open |-> open, text |-> text, cc |-> cc, slot |-> slot, pending |-> pending,
           queue |-> queue, reloads |-> reloads, promoting |-> promoting, fatal |-> fatal]

\* A pass ends; the requests that are not answered go on in the next one.
EndPass ==
    LET done == SelectSeq(sent, LAMBDA x : x.done)
        c == FoldLeft(Post, Client, done) IN
    /\ Running /\ passing /\ passing' = FALSE
    /\ sent' = SelectSeq(sent, LAMBDA x : ~x.done)
    /\ ids' = FoldLeft(LAMBDA rep, x : ReleaseAll(rep, x.r.res, TRUE), c.ids, done)
    /\ open' = c.open /\ text' = c.text /\ cc' = c.cc /\ slot' = c.slot /\ pending' = c.pending
    /\ queue' = c.queue /\ reloads' = c.reloads /\ promoting' = c.promoting /\ fatal' = c.fatal
    /\ IF \E i \in DOMAIN done : done[i].r.type = "open"
       THEN ops' = NoOps /\ orphans' = {} /\ gen' = 0 /\ held' = <<>>
       ELSE UNCHANGED <<ops, orphans, gen, held>>
    /\ UNCHANGED <<server, lost>>

Settle == (\A i \in DOMAIN sent : sent[i].done) /\ EndPass
SettleLate == (\E i \in DOMAIN sent : ~sent[i].done) /\ EndPass

\* A request has no retries left, whether the backend ran it or not.
GiveUp(i) ==
    /\ Running /\ ~passing /\ i \in DOMAIN sent
    /\ LET r == sent[i].r IN
         /\ sent' = RemoveAt(sent, i)
         /\ ids' = ReleaseAll(ids, r.res, FALSE)
         /\ pending' = IF r.type = "text" THEN pending - 1 ELSE pending
         /\ lost' = (lost \/ r.type \in {"label", "text", "refresh"})
         /\ open' = IF r.type = "open" /\ open = "loading" THEN "error" ELSE open
         /\ slot' = IF r.type = "reload" THEN [slot EXCEPT ![r.g].status = "error"] ELSE slot
         /\ queue' = IF r.type = "reload" THEN Detach(queue, r.g, {}) ELSE queue
         /\ promoting' = (promoting /\ r.type # "promote")
    /\ UNCHANGED <<server, text, cc, ops, orphans, gen, held, reloads, passing, fatal>>

-----------------------------------------------------------------------------
\* The chapter is closed; its used groups have label data.
Init ==
    /\ server = [ver |-> 1, text |-> StartText, promoted |-> {},
                 minted |-> Cardinality(UNION {StartLabels[g] : g \in Group}),
                 data |-> [g \in Group |-> [on |-> g \in Used, labels |-> StartLabels[g]]]]
    /\ ids = <<BoundTo(<<"chapter">>)>> \o [i \in 1..Cardinality(Group) |-> BoundTo(<<"labelGroup", i>>)]
    /\ open = "idle"
    /\ text = <<>> /\ cc = 0 /\ slot = [g \in Group |-> NoSlot]
    /\ ops = NoOps /\ orphans = {} /\ pending = 0 /\ gen = 0 /\ held = <<>>
    /\ queue = <<>> /\ sent = <<>> /\ passing = FALSE
    /\ reloads = {} /\ lost = FALSE /\ promoting = FALSE /\ fatal = "none"

Interval == {<<lo, hi>> \in (0..MaxText) \X (0..MaxText) : lo < hi /\ hi <= Len(text)}

Edit ==
    \/ \E at \in 0..Len(text), c \in Typed : InsertText(at, c)
    \/ \E a, b \in 0..Len(text) : DeleteText(a, b)
    \/ \E g \in Group :
         \/ MissGroup(g) \/ LoadGroup(g) \/ Promote(g)
         \/ \E x \in Interval : AddLabel(g, x[1], x[2])
         \/ \E l \in slot[g].labels :
              DeleteLabel(g, l) \/ \E x \in Interval : UpdateLabel(g, l, x[1], x[2])
    \/ CloseChapter

Reopen == \E eager \in {{}, Group} : OpenChapter(eager)
Progress ==
    \/ Tick \/ StartPass \/ Settle
    \/ \E g \in Group : LoadAgain(g)
    \/ \E i \in DOMAIN sent : Serve(i)
Fault == SettleLate \/ \E i \in DOMAIN sent : GiveUp(i)

-----------------------------------------------------------------------------
(* With nothing under way and nothing given up, the editor shows what the     *)
(* server stores: the text of the latest revision and, for each loaded group, *)
(* its labels, save those a promotion put there.  Unless a refresh of their   *)
(* ids waits for the next request, each is bound to its number on the server. *)
Quiet == queue = <<>> /\ sent = <<>> /\ ops.tag = "neither" /\ Running /\ ~lost /\ open = "ready"
Shown(g) == {<<l.lo, l.hi>> : l \in slot[g].labels}
Stored(g) == {<<l.lo, l.hi>> : l \in server.data[g].labels}
Own(g) == {l \in server.data[g].labels : l.n \notin server.promoted}
BoundShown(g) == {<<ids[l.id].serv, l.lo, l.hi>> : l \in slot[g].labels}
Numbered(ls) == {<<LabelId(server.ver, l.n), l.lo, l.hi>> : l \in ls}
Converged ==
    Quiet => /\ text = server.text /\ ids[cc].serv = CcId(server.ver)
             /\ \A g \in ReadyGroups(slot) :
                  /\ ids[slot[g].ld].serv = LdId(g, server.ver)
                  /\ Shown(g) \subseteq Stored(g)
                  /\ {<<l.lo, l.hi>> : l \in Own(g)} \subseteq Shown(g)
                  /\ held = <<>> => /\ BoundShown(g) \subseteq Numbered(server.data[g].labels)
                                    /\ Numbered(Own(g)) \subseteq BoundShown(g)

(* A group that has an entry in the index but was never loaded. *)
NeverLoaded(p) == ~ids[p].bound

(* A request that reaches the server is accepted and its answer fits what the *)
(* editor did meanwhile.  The exceptions: a group whose first load runs beside *)
(* a text operation that does not track it, and labels that a promotion put   *)
(* next to those the editor shows.                                           *)
AnswersFit ==
    ~lost => \/ fatal \in {"none", "omitted"}
             \/ fatal \in {"mismatch", "refused"} /\ server.promoted # {}

(* The send queue never stands still: with nothing under way its first        *)
(* request can be sent.  The exception: a text operation that tracks a group  *)
(* that was never loaded.                                                    *)
Blocked == queue # <<>> /\ sent = <<>> /\ ~passing /\ ~CanSend(ids, Head(queue))
BlockedByNewGroup ==
    Running /\ ~lost /\ Blocked =>
      /\ Head(queue).type = "text"
      /\ \E g \in DOMAIN Head(queue).tracked : NeverLoaded(Head(queue).tracked[g])

(* A group that is being loaded is shown in the end, however often text made  *)
(* the answer outdated, and a promotion ends and gives the workspace back,    *)
(* unless the chapter is closed or the queue is stuck.                       *)
Stuck == Blocked \/ ~Running \/ lost \/ open # "ready"
WaitsEnd ==
    /\ \A g \in Group : slot[g].status = "loading" ~> (slot[g].status \in {"ready", "error"} \/ Stuck)
    /\ promoting ~> (~promoting \/ Blocked \/ ~Running)

Next == Edit \/ Reopen \/ Progress \/ Fault

\* The editor is one event loop: what its timers and the network have ready is
\* done some time.  This is WF_vars(Progress) with its ENABLED written out (the
\* answers of a pass are long to evaluate).  The user and the faults owe nothing.
CanProgress ==
    Running /\ \/ open = "ready" /\ ops.tag # "neither"
               \/ ~passing /\ (sent # <<>> \/ (queue # <<>> /\ CanSend(ids, Head(queue))))
               \/ passing
               \/ reloads # {}
Fair == []<>~CanProgress \/ []<><<Progress>>_vars

Spec == Init /\ [][Next]_vars /\ Fair
=============================================================================
