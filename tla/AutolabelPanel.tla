---------------------------- MODULE AutolabelPanel ----------------------------
(***************************************************************************)
(* The autolabel panel beside one open chapter: what the user clicks, the    *)
(* manager's reactions (frontend/src/edit/managers/autolabelManager.ts), the *)
(* index of runs and the requests of autolabelDataManager.ts, and the text   *)
(* of the chapter, whose labels a selected run may preview.  A run has one    *)
(* autolabel, that of the chapter; it is known by the version it was made    *)
(* for and by whether it is done.  Which labels it holds, the promotion's    *)
(* effect on them and the editor's mode are left out; text and labels are    *)
(* ChapterEditor's, keys and retries RequestManager's.                       *)
(***************************************************************************)
EXTENDS ServerIds

VARIABLES
    server,    \* contents: the operations in each version; runs: version and progress
    ids,       \* the id repository: runs and versions
    cc,        \* provisional id of the version that is shown
    typed,     \* operations shown; unsent are those not flushed yet
    unsent,
    index,     \* the run index: provisional id to slot
    panel,     \* what the manager keeps and the hooks show
    posted,    \* events for the controller, handled one after the other
    queue, sent, passing,    \* as in ChapterEditor
    lost,      \* a refresh or load was given up, or a pass that failed forgot or resends a request
    unmarked   \* text was typed that left no mark that lasts, or was lost

net == <<queue, sent, passing>>
vars == <<server, ids, cc, typed, unsent, index, panel, posted, net, lost, unmarked>>

Latest == Len(server.contents)
CcId(v) == <<"chapterContent", v>>
RunId(r) == <<"autoLabelRun", r>>
Run(p) == ids[p].serv[2]

NoLabel == [at |-> 0, done |-> FALSE, data |-> "idle"]
IdleSlot == [status |-> "idle", inFlight |-> 0, made |-> 0, label |-> NoLabel]
ReadySlot(slot, at, done) ==
    [slot EXCEPT !.status = "ready", !.made = @ + 1, !.label = [at |-> at, done |-> done, data |-> "idle"]]

NewPanel == [listed |-> {2}, selected |-> 0, enabled |-> FALSE, loading |-> FALSE, preview |-> 0,
             refreshing |-> FALSE, mark |-> 0]

-----------------------------------------------------------------------------
(* The manager.  c is the client: ids, cc, index, panel, posted.             *)
NoPreview(c) == [c EXCEPT !.panel.preview = 0, !.panel.loading = FALSE]
ShowLoading(c) ==
    IF c.panel.enabled THEN [c EXCEPT !.panel.preview = 0, !.panel.loading = TRUE] ELSE c
Told(c, event) == [c EXCEPT !.posted = Append(@, event)]

\* Mutant: the mark of text that was typed is not looked at.
SyncUnmarked(c) ==
    LET pn == c.panel
        slot == c.index[pn.selected] IN
    IF ~pn.enabled THEN c
    ELSE IF pn.selected \notin DOMAIN c.index THEN NoPreview(c)
    ELSE IF slot.status # "ready" \/ slot.label.at # c.cc \/ ~slot.label.done THEN NoPreview(c)
    ELSE IF slot.label.data = "ready" THEN [NoPreview(c) EXCEPT !.panel.preview = slot.label.at]
    ELSE IF slot.label.data = "loading" THEN ShowLoading(c)
    ELSE Told(ShowLoading(c), [type |-> "load", run |-> pn.selected])

\* syncPreview: shows the selected run's labels if they are those of the version
\* shown and no text was typed over it, and has them loaded if they are missing.
Sync(c) ==
    LET pn == c.panel
        unmark == [c EXCEPT !.panel.mark = 0]
        slot == c.index[pn.selected] IN
    IF ~pn.enabled THEN c
    ELSE IF pn.selected = 0 \/ pn.mark = c.cc THEN NoPreview(c)
    ELSE IF pn.selected \notin DOMAIN c.index THEN NoPreview(unmark)
    ELSE IF slot.status # "ready" \/ slot.label.at # c.cc \/ ~slot.label.done THEN NoPreview(unmark)
    ELSE IF slot.label.data = "ready" THEN [NoPreview(unmark) EXCEPT !.panel.preview = slot.label.at]
    ELSE IF slot.label.data = "loading" THEN ShowLoading(unmark)
    ELSE Told(ShowLoading(unmark), [type |-> "load", run |-> pn.selected])

\* An error in handling an event; errorOccured, from the data manager.
Confused(c) == NoPreview([c EXCEPT !.panel.refreshing = FALSE])
Refused(c) == IF c.panel.loading THEN Confused(c) ELSE [c EXCEPT !.panel.refreshing = FALSE]

\* refreshSelectedRunAndMatches fails when the selected run is not in the index.
SelectedGone(c) == c.panel.selected \notin {0} \cup DOMAIN c.index

OnTextChanged(c) ==
    IF SelectedGone(c) THEN Confused(c) ELSE [NoPreview(c) EXCEPT !.panel.mark = c.cc]
OnChapterOpened(c) == IF SelectedGone(c) THEN Confused(c) ELSE Sync(c)

Client == [ids |-> ids, cc |-> cc, index |-> index, panel |-> panel, posted |-> posted]
Becomes(c) == ids' = c.ids /\ cc' = c.cc /\ index' = c.index /\ panel' = c.panel /\ posted' = c.posted

-----------------------------------------------------------------------------
(* The user.                                                                *)
Clicks(c) ==
    /\ Becomes(c)
    /\ UNCHANGED <<server, typed, unsent, net, lost, unmarked>>

CreateRun == ~panel.refreshing /\ Clicks(Told(Client, [type |-> "create"]))

SelectRun(p) ==
    LET c == [Client EXCEPT !.panel.selected = p] IN
    Clicks(IF p \in DOMAIN index /\ index[p].status \in {"idle", "error"}
           THEN Sync(Told(c, [type |-> "reload", run |-> p])) ELSE Sync(c))

DeselectRun == panel.selected # 0 /\ Clicks(NoPreview([Client EXCEPT !.panel.selected = 0]))

SetPreviewEnabled(on) ==
    LET c == [Client EXCEPT !.panel.enabled = on] IN
    on # panel.enabled /\ Clicks(IF on THEN Sync(c) ELSE NoPreview(c))

RefreshAllRuns ==
    /\ ~panel.refreshing
    /\ Clicks(Told(ShowLoading([Client EXCEPT !.panel.refreshing = TRUE]), [type |-> "refresh"]))

ReloadRun(p) ==
    Clicks(Told(IF panel.selected = p THEN ShowLoading(Client) ELSE Client, [type |-> "reload", run |-> p]))

\* A click on the chapter that is open.
OpenAgain == Clicks(OnChapterOpened(Client))

Texting == \E i \in DOMAIN queue : queue[i].type = "text"
TextOut == \E i \in DOMAIN sent : sent[i].r.type = "text"

EditText ==
    /\ typed' = typed + 1 /\ unsent' = unsent \cup {typed + 1}
    /\ Becomes(OnTextChanged(Client))
    /\ unmarked' = (unmarked \/ SelectedGone(Client) \/ Texting \/ TextOut)
    /\ UNCHANGED <<server, net, lost>>

-----------------------------------------------------------------------------
(* The data manager.  The events are handled; text is flushed once a second. *)
Locks(ps) == Res(ps, "locked")

Asks(c, r) == Becomes(c) /\ queue' = Append(queue, r)

HandleCreate(c, e) == e.type = "create" /\ Asks(c, [type |-> "create", res |-> {}])
HandleRefresh(c, e) == e.type = "refresh" /\ Asks(c, [type |-> "refresh", res |-> Locks(DOMAIN index)])

HandleReload(c, e) ==
    LET slot == index[e.run]
        asked == [slot EXCEPT !.inFlight = @ + 1, !.status = "loading"] IN
    /\ e.type = "reload"
    /\ \/ /\ e.run \notin DOMAIN index
          /\ Becomes(Refused(c)) /\ UNCHANGED queue
       \/ /\ e.run \in DOMAIN index /\ (slot.status = "loading" \/ slot.inFlight > 0)
          /\ Becomes(c) /\ UNCHANGED queue
       \/ /\ e.run \in DOMAIN index /\ slot.status # "loading" /\ slot.inFlight <= 0
          /\ Asks([c EXCEPT !.index[e.run] = asked], [type |-> "reload", run |-> e.run, res |-> Locks({e.run})])

HandleLoad(c, e) ==
    LET slot == index[e.run]
        there == e.run \in DOMAIN index /\ slot.status = "ready" IN
    /\ e.type = "load"
    /\ \/ ~there /\ Becomes(Refused(c)) /\ UNCHANGED queue
       \/ there /\ slot.label.data = "loading" /\ Becomes(c) /\ UNCHANGED queue
       \/ /\ there /\ slot.label.data # "loading"
          /\ Asks([c EXCEPT !.index[e.run].label.data = "loading"],
                  [type |-> "load", run |-> e.run, made |-> slot.made, res |-> Locks({e.run})])

Handle ==
    LET e == Head(posted)
        c == [Client EXCEPT !.posted = Tail(@)] IN
    /\ posted # <<>>
    /\ HandleCreate(c, e) \/ HandleRefresh(c, e) \/ HandleReload(c, e) \/ HandleLoad(c, e)
    /\ UNCHANGED <<server, typed, unsent, sent, passing, lost, unmarked>>

Tick ==
    /\ unsent # {} /\ unsent' = {}
    /\ queue' = Append(queue, [type |-> "text", ops |-> unsent, res |-> Res({cc}, "updating")])
    /\ UNCHANGED <<server, ids, cc, typed, index, panel, posted, sent, passing, lost, unmarked>>

-----------------------------------------------------------------------------
(* The send loop.  A request that names an id that is forgotten is never sent  *)
(* (the code's pass fails at it, and forgets what it had taken: not modelled).  *)
Reserved(r) == IF r.type = "create" THEN r.res \cup Locks({cc}) ELSE r.res
Wanted(r) == IF r.type = "text" THEN r.res \cup Res({cc}, "updating") ELSE Reserved(r)
Jams(rep, r) == \E x \in Wanted(r) : ~rep[x.id].bound

Take(st, r) ==
    IF st.stop \/ Jams(st.ids, r) \/ \E x \in Wanted(r) : ~IsReserveable(st.ids[x.id], x.mode)
    THEN [st EXCEPT !.stop = TRUE]
    ELSE [st EXCEPT !.ids = ReserveAll(@, Reserved(r)), !.taken = Append(@, [r EXCEPT !.res = Reserved(r)])]
Taken == FoldLeft(Take, [ids |-> ids, taken |-> <<>>, stop |-> FALSE], queue)
CanPass == ~passing /\ (Taken.taken # <<>> \/ sent # <<>>)

Sent(r) == IF r.type = "text" THEN r @@ [base |-> ids[cc].serv]
           ELSE IF r.type \in {"reload", "load"} THEN r @@ [asks |-> Run(r.run)] ELSE r

StartPass ==
    /\ CanPass /\ passing' = TRUE
    /\ ids' = Taken.ids
    /\ queue' = SubSeq(queue, Len(Taken.taken) + 1, Len(queue))
    /\ sent' = sent \o [i \in DOMAIN Taken.taken |->
                           [r |-> Sent(Taken.taken[i]), late |-> FALSE, done |-> FALSE, answer |-> <<>>]]
    /\ UNCHANGED <<server, cc, typed, unsent, index, panel, posted, lost, unmarked>>

\* The backend.
Served(r) ==
    CASE r.type = "create"  -> [at |-> [server EXCEPT !.runs = Append(@, [at |-> Latest, done |-> FALSE])],
                                answer |-> [run |-> Len(server.runs) + 1, at |-> Latest]]
      [] r.type = "refresh" -> [at |-> server, answer |-> [runs |-> Len(server.runs)]]
      [] r.type = "reload"  -> [at |-> server, answer |-> server.runs[r.asks]]
      [] r.type = "text"    ->
           IF r.base = CcId(Latest)
           THEN [at |-> [server EXCEPT !.contents = Append(@, server.contents[Latest] \cup r.ops)],
                 answer |-> [ok |-> TRUE, ver |-> Latest + 1]]
           ELSE [at |-> server, answer |-> [ok |-> FALSE]]
      [] r.type = "load"    -> [at |-> server, answer |-> <<>>]

Serve(i) ==
    /\ passing /\ ~sent[i].done
    /\ server' = Served(sent[i].r).at
    /\ sent' = [sent EXCEPT ![i].done = TRUE, ![i].answer = Served(sent[i].r).answer]
    /\ UNCHANGED <<ids, cc, typed, unsent, index, panel, posted, queue, passing, lost, unmarked>>

\* The worker that makes a run's autolabel (ChapterVersions) is done with it.
Infer(n) ==
    /\ ~server.runs[n].done
    /\ server' = [server EXCEPT !.runs[n].done = TRUE]
    /\ UNCHANGED <<ids, cc, typed, unsent, index, panel, posted, net, lost, unmarked>>

-----------------------------------------------------------------------------
(* The answers of a pass; c has its client and the requests that failed.     *)
Fails(c, x) == [c EXCEPT !.failed = Append(@, x)]

PostCreate(c, x) ==
    LET a == x.answer
        rep == NewIds(c.ids, <<RunId(a.run), CcId(a.at)>>)
        p == IdOf(rep, RunId(a.run))
        new == p :> ReadySlot(IdleSlot, IdOf(rep, CcId(a.at)), FALSE)
        with == [c EXCEPT !.ids = rep, !.index = new @@ @, !.panel.listed = @ \cup {p}, !.panel.selected = p] IN
    IF ~NewIdOk(c.ids, CcId(a.at)) \/ p \in DOMAIN c.index THEN Fails([c EXCEPT !.ids = rep], x)
    ELSE Sync(Told(with, [type |-> "reload", run |-> p]))

\* The index is made anew.
PostRefresh(c, x) ==
    LET rep == NewIds(c.ids, [n \in 1..x.answer.runs |-> RunId(n)])
        runs == {IdOf(rep, RunId(n)) : n \in 1..x.answer.runs} IN
    Sync([c EXCEPT !.ids = rep, !.index = [p \in runs |-> IdleSlot],
                   !.panel.listed = runs, !.panel.refreshing = FALSE])

PostReload(c, x) ==
    LET rep == NewId(c.ids, CcId(x.answer.at))
        p == x.r.run
        slot == ReadySlot(c.index[p], IdOf(rep, CcId(x.answer.at)), x.answer.done) IN
    IF ~NewIdOk(c.ids, CcId(x.answer.at)) THEN Fails(c, x)
    ELSE IF p \notin DOMAIN c.index THEN Fails([c EXCEPT !.ids = rep], x)
    ELSE Sync([c EXCEPT !.ids = rep, !.index[p] = [slot EXCEPT !.inFlight = @ - 1]])

\* Mutant: the manager is not told that the load was for a preview.
PostLoadUnshown(c, x) ==
    IF x.r.run \notin DOMAIN c.index \/ c.index[x.r.run].status # "ready" THEN Fails(c, x)
    ELSE [c EXCEPT !.index[x.r.run].label.data = "ready"]

PostLoad(c, x) ==
    IF x.r.run \notin DOMAIN c.index \/ c.index[x.r.run].status # "ready" THEN Fails(c, x)
    ELSE Sync([c EXCEPT !.index[x.r.run].label.data = "ready"])

PostText(c, x) ==
    LET rep == NewId(c.ids, CcId(x.answer.ver)) IN
    IF ~x.answer.ok THEN Fails(c, x) ELSE [c EXCEPT !.ids = rep, !.cc = IdOf(rep, CcId(x.answer.ver))]

Post(c, x) ==
    CASE x.r.type = "create"  -> PostCreate(c, x)
      [] x.r.type = "refresh" -> PostRefresh(c, x)
      [] x.r.type = "reload"  -> PostReload(c, x)
      [] x.r.type = "load"    -> PostLoad(c, x)
      [] x.r.type = "text"    -> PostText(c, x)

\* onFatalError.  A run that cannot be made again is taken out, and its id is
\* detached; if that is not free, one of the locks on it is taken away.
Detached(e) ==
    IF IsReserveable(e, "detaching") THEN [Release(Reserve(e, "detaching"), 1, TRUE) EXCEPT !.bound = FALSE, !.serv = <<>>]
    ELSE Release(e, 1, TRUE)

SetError(ix, p) == IF p \in DOMAIN ix THEN [ix EXCEPT ![p].status = "error", ![p].inFlight = @ - 1] ELSE ix

OnFatal(c, x) ==
    LET p == IdOf(c.ids, RunId(x.answer.run)) IN
    CASE x.r.type = "create" ->
           [c EXCEPT !.index = [q \in DOMAIN @ \ {p} |-> @[q]], !.ids[p] = Detached(@)]
      [] x.r.type = "reload" -> [c EXCEPT !.index = SetError(@, x.r.run)]
      [] OTHER -> c

Released(c, xs, ok) == [c EXCEPT !.ids = FoldLeft(LAMBDA rep, x : ReleaseAll(rep, x.r.res, ok), @, xs)]

\* errorOccured, from the request manager.
OnError(c) ==
    IF \E i \in DOMAIN c.failed : c.failed[i].r.type = "load" THEN Confused(c)
    ELSE [c EXCEPT !.panel.refreshing = FALSE]

Cached(x) == x.r.type \in {"create", "text"}
Order(xs) == SelectSeq(xs, LAMBDA x : x.late /\ Cached(x)) \o SelectSeq(xs, LAMBDA x : x.late /\ ~Cached(x))
               \o SelectSeq(xs, LAMBDA x : ~x.late)

\* A pass in which a request fails forgets those that became late in it, and
\* sends the reads that were late before once more.
EndPass ==
    LET done == SelectSeq(sent, LAMBDA x : x.done)
        late == SelectSeq(sent, LAMBDA x : ~x.done)
        again == SelectSeq([i \in DOMAIN sent |-> [sent[i] EXCEPT !.done = FALSE]],
                           LAMBDA x : x.late /\ ~Cached(x))
        posts == FoldLeft(Post, Client @@ [failed |-> <<>>], Order(done))
        passed == SelectSeq(done, LAMBDA x : ~ \E i \in DOMAIN posts.failed : posts.failed[i] = x)
        c == Released(posts, passed, TRUE)
        failed == OnError(FoldLeft(LAMBDA d, x : Released(OnFatal(d, x), <<x>>, FALSE), c, c.failed))
    IN /\ passing /\ passing' = FALSE
       /\ \/ /\ c.failed = <<>>
             /\ Becomes(c)
             /\ sent' = [i \in DOMAIN late |-> [late[i] EXCEPT !.late = TRUE]]
             /\ UNCHANGED <<lost, unmarked>>
          \/ /\ c.failed # <<>>
             /\ Becomes(failed)
             /\ sent' = again
             /\ lost' = (lost \/ late # <<>> \/ again # <<>>)
             /\ unmarked' = (unmarked \/ \E i \in DOMAIN late : late[i].r.type = "text")
       /\ UNCHANGED <<server, typed, unsent, queue>>

AllDone == \A i \in DOMAIN sent : sent[i].done
Settle == AllDone /\ EndPass
SettleLate == ~AllDone /\ EndPass

\* onFailure: a request has no retries left, whether the backend ran it or not.
GiveUp(i) ==
    LET x == sent[i]
        slot == index[x.r.run]
        c == Released(Client, <<x>>, FALSE) IN
    /\ ~passing
    /\ sent' = RemoveAt(sent, i) /\ lost' = (lost \/ x.r.type \in {"refresh", "load"})
    /\ unmarked' = (unmarked \/ x.r.type = "text")
    /\ \/ x.r.type = "reload" /\ Becomes([c EXCEPT !.index = SetError(@, x.r.run)])
       \/ /\ x.r.type = "load"
          /\ IF x.r.run \in DOMAIN index /\ slot.status = "ready" /\ slot.made = x.r.made
             THEN Becomes([c EXCEPT !.index[x.r.run].label.data = "error"]) ELSE Becomes(c)
       \/ x.r.type \in {"create", "refresh", "text"} /\ Becomes(c)
    /\ UNCHANGED <<server, typed, unsent, queue, passing>>

-----------------------------------------------------------------------------
\* The chapter has been opened: nothing of the run made for it is loaded yet, or
\* it has been selected and its labels are shown.
Init ==
    /\ server \in {[contents |-> <<{}>>, runs |-> <<[at |-> 1, done |-> d]>>] : d \in BOOLEAN}
    /\ ids = <<BoundTo(CcId(1)), BoundTo(RunId(1))>>
    /\ cc = 1 /\ typed = 0 /\ unsent = {}
    /\ \/ index = (2 :> IdleSlot) /\ panel = NewPanel
       \/ /\ server.runs[1].done
          /\ index = (2 :> [ReadySlot(IdleSlot, 1, TRUE) EXCEPT !.label.data = "ready"])
          /\ panel = [NewPanel EXCEPT !.selected = 2, !.enabled = TRUE, !.preview = 1]
    /\ posted = <<>> /\ queue = <<>> /\ sent = <<>> /\ passing = FALSE
    /\ lost = FALSE /\ unmarked = FALSE

User ==
    \/ CreateRun \/ DeselectRun \/ RefreshAllRuns \/ OpenAgain \/ EditText
    \/ \E on \in BOOLEAN : SetPreviewEnabled(on)
    \/ \E p \in panel.listed : SelectRun(p) \/ ReloadRun(p)

Serving == \E i \in DOMAIN sent : Serve(i)
Progress == Handle \/ Tick \/ StartPass \/ Settle \/ Serving
Worker == \E n \in DOMAIN server.runs : Infer(n)
Fault == SettleLate \/ \E i \in DOMAIN sent : GiveUp(i)

Next == User \/ Progress \/ Worker \/ Fault

\* The event loop takes up its events and timers, and a request that is sent is
\* served or has its pass settled; a pass begins by StartPass alone, and ends
\* with every request served by Settle alone.  The user, the worker and the
\* faults owe nothing.
Fairness ==
    /\ WF_posted(Handle)
    /\ WF_unsent(Tick)
    /\ WF_passing(CanPass /\ passing' = TRUE)
    /\ WF_sent(Serving)
    /\ WF_passing(passing /\ AllDone /\ passing' = FALSE)
Spec == Init /\ [][Next]_vars /\ Fairness

-----------------------------------------------------------------------------
(* Labels are drawn only over the text they were found in.  The exceptions:   *)
(* text typed while an earlier text request is not answered marks the version *)
(* that request replaces, and text typed while the selected run is not in the *)
(* index leaves no mark.                                                     *)
PreviewFitsText ==
    panel.preview # 0 /\ ~unmarked => server.contents[ids[panel.preview].serv[2]] = 1..typed

(* No spinner turns for ever, unless a request was given up, forgotten or sent *)
(* twice, or the queue is jammed.  The preview's *)
(* spinner is also left turning when the reload it waits for fails: then the   *)
(* selected run is shown as one in error.                                      *)
Jammed == queue # <<>> /\ Jams(ids, Head(queue))
SelectedInError == panel.selected \in DOMAIN index /\ index[panel.selected].status = "error"
SpinnersEnd ==
    /\ panel.refreshing ~> (~panel.refreshing \/ lost \/ Jammed)
    /\ panel.loading ~> (~panel.loading \/ lost \/ Jammed \/ SelectedInError)
=============================================================================
