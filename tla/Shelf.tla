--------------------------------- MODULE Shelf ---------------------------------
(***************************************************************************)
(* What the library promises: every request is carried out in one step, in    *)
(* which its answer is given; it changes all the rows it should or none.  An   *)
(* answer may be less than that only where it says so.                       *)
(***************************************************************************)
EXTENDS LibraryReads, Sequences

CONSTANT Call
VARIABLE answers

vars == <<tables, answers>>
NoAnswer == [at |-> "idle"]

Fails(a, status) == a.status = status /\ a.rows = {} /\ UNCHANGED tables
Succeeds(a, rows) == a.status = 200 /\ a.rows = rows

\* A refusal: 401 to whom may read the row, 404 to anybody else.
Refused(a, reply) == Fails(a, IF reply.status = 200 THEN 401 ELSE 404)
Misfit(a) == a.ask.bad # "none"

Works(a, u) ==
    IF Misfit(a) THEN Fails(a, 400)
    ELSE \E w \in Work \ source_works :
            /\ Succeeds(a, {w}) /\ source_works' = source_works \cup {w}
            /\ UNCHANGED <<novels, novel_contributors, chapters, chapter_contents,
                           label_groups, label_contributors, label_datas>>

NewNovel(a, u) ==
    LET given == a.ask.on # None IN
    IF a.ask.bad = "text" THEN Fails(a, 400)
    ELSE IF Misfit(a) \/ (given /\ a.ask.on \notin source_works) THEN Fails(a, 404)
    ELSE \E n \in Novel, w \in IF given THEN {a.ask.on} ELSE Work \ source_works :
            /\ ~IsNovel(n) /\ Succeeds(a, {n})
            /\ source_works' = source_works \cup {w}
            /\ novels' = [novels EXCEPT ![n] = [visibility |-> a.ask.arg, work |-> w]]
            /\ novel_contributors' = [novel_contributors EXCEPT ![n][u] = "owner"]
            /\ UNCHANGED <<chapters, chapter_contents, label_groups, label_contributors, label_datas>>

NumbersOf(n) == {chapters[c].num : c \in {d \in Chapter : IsChapter(d) /\ chapters[d].novel = n}}
Unique(file, n) ==
    /\ \A i \in DOMAIN file : file[i].num \notin NumbersOf(n)
    /\ \A i, j \in DOMAIN file : i # j => file[i].num # file[j].num

\* All the rows of a file with their contents, or none of them.
NewChapters(a, u, n, file) ==
    IF ~Unique(file, n) THEN Fails(a, 409)
    ELSE IF ~IsNovel(n) THEN Fails(a, 404)
    ELSE \E id \in [DOMAIN file -> {c \in Chapter : ~IsChapter(c)}] :
            LET new == {id[i] : i \in DOMAIN file} IN
            /\ \A i, j \in DOMAIN file : i # j => id[i] # id[j]
            /\ Succeeds(a, new)
            /\ \A i \in DOMAIN file :
                 chapters'[id[i]] = [novel |-> n, num |-> file[i].num, public |-> file[i].public]
            /\ \A c \in Chapter \ new : chapters'[c] = chapters[c]
            /\ chapter_contents' = chapter_contents \cup {<<c, 1>> : c \in new}
            /\ UNCHANGED <<source_works, novels, novel_contributors,
                           label_groups, label_contributors, label_datas>>

\* Where requests wait for each other, one may fail.
GivenUp(a) == Fails(a, 500)

OneChapter(a, u) ==
    IF ~chapter_mod_access_insert(u, a.ask.on) THEN Refused(a, read_novel(u, a.ask.on))
    ELSE GivenUp(a) \/ (~Misfit(a) /\ NewChapters(a, u, a.ask.on, a.ask.arg))

ManyChapters(a, u) ==
    IF Misfit(a) THEN Fails(a, 400)
    ELSE IF ~chapter_mod_access_insert(u, a.ask.on) THEN Fails(a, 401)
    ELSE GivenUp(a) \/ NewChapters(a, u, a.ask.on, a.ask.arg)
-----------------------------------------------------------------------------
NewVisibility(a, u, n) ==
    IF ~IsNovel(n) \/ ~novel_mod_access_update(u, n) THEN Refused(a, read_novel(u, n))
    ELSE IF Misfit(a) THEN Fails(a, 400)
    ELSE /\ Succeeds(a, {n}) /\ novels' = [novels EXCEPT ![n].visibility = a.ask.arg]
         /\ UNCHANGED <<source_works, novel_contributors, chapters, chapter_contents,
                        label_groups, label_contributors, label_datas>>

\* A change of columns that no condition reads.
Titles(a, may, reply) ==
    IF ~may THEN Refused(a, reply)
    ELSE IF Misfit(a) THEN Fails(a, 400)
    ELSE Succeeds(a, {a.ask.on}) /\ UNCHANGED tables

\* The right to a source work comes with a novel: a refusal may be older than the novel.
WorkTitle(a, u, w) ==
    \/ Titles(a, w \in source_works /\ source_work_mod_access_update(u, w), read_source_work(u, w))
    \/ u \notin Admin /\ Refused(a, read_source_work(u, w))

Publication(a, u, c) ==
    IF ~IsChapter(c) \/ ~chapter_mod_access_update(u, c) THEN Refused(a, read_chapter_by_id(u, c))
    ELSE /\ Succeeds(a, {c}) /\ chapters' = [chapters EXCEPT ![c].public = TRUE]
         /\ UNCHANGED <<source_works, novels, novel_contributors, chapter_contents,
                        label_groups, label_contributors, label_datas>>

\* A chapter goes with its contents, unless label data or autolabels keep it.
Removal(a, u, c) ==
    IF ~IsChapter(c) \/ ~chapter_mod_access_delete(u, c) THEN Refused(a, read_chapter_by_id(u, c))
    ELSE \/ Fails(a, 500)
         \/ /\ \A d \in label_datas : d[2] # c
            /\ Succeeds(a, {"success"}) /\ chapters' = [chapters EXCEPT ![c] = None]
            /\ chapter_contents' = chapter_contents \ {cc \in chapter_contents : cc[1] = c}
            /\ UNCHANGED <<source_works, novels, novel_contributors,
                           label_groups, label_contributors, label_datas>>

\* Outdated or not readable: what the status of the contents says, or a failure where
\* another edit or a deletion came in between; 401 if it is neither.  Label data may
\* have come too late to be copied; the answer names those that are.
Revision(a, u, c) ==
    LET current == read_chapter_content_status(u, c, a.ask.arg)
        next == <<c, a.ask.arg[2] + 1>> IN
    IF current.status # 200 THEN Fails(a, current.status) \/ Fails(a, 500)
    ELSE IF ~chapter_mod_access_update(u, c) THEN Fails(a, 401)
    ELSE /\ \E ported \in SUBSET {d \in label_datas : <<d[2], d[3]>> = a.ask.arg} :
              /\ Succeeds(a, {<<next, ported>>})
              /\ label_datas' = label_datas \cup {<<d[1], c, next[2]>> : d \in ported}
         /\ chapter_contents' = chapter_contents \cup {next}
         /\ UNCHANGED <<source_works, novels, novel_contributors, chapters,
                        label_groups, label_contributors>>

\* Its reader may have been admitted before the novel became private.
NewLabelGroup(a, u, n) ==
    IF Misfit(a) THEN Fails(a, 422)
    ELSE \/ read_novel(u, n).status # 200 /\ Fails(a, 404)
         \/ /\ IsNovel(n)
            /\ \E g \in Group :
                 /\ ~IsGroup(g) /\ Succeeds(a, {g})
                 /\ label_groups' = [label_groups EXCEPT ![g] = n]
                 /\ label_contributors' = [label_contributors EXCEPT ![g][u] = "owner"]
            /\ UNCHANGED <<source_works, novels, novel_contributors, chapters, chapter_contents, label_datas>>

NewLabelData(a, u, g) ==
    LET d == <<g, a.ask.arg[1], a.ask.arg[2]>> IN
    IF ~label_data_mod_access_insert(u, g) \/ ~IsGroup(g) \/ a.ask.arg \notin chapter_contents
    THEN Fails(a, 404)
    ELSE IF d \in label_datas THEN Fails(a, 409)
    ELSE /\ Succeeds(a, {d}) /\ label_datas' = label_datas \cup {d}
         /\ UNCHANGED <<source_works, novels, novel_contributors, chapters, chapter_contents,
                        label_groups, label_contributors>>
-----------------------------------------------------------------------------
(* Reads.  A list may be empty although rows have become readable since it was   *)
(* read, and contents may not be found for the same reason.                   *)
Listed(a, rows, reply) ==
    /\ UNCHANGED tables
    /\ \/ rows # {} /\ Succeeds(a, rows)
       \/ reply.status = 200 /\ Succeeds(a, {})
       \/ reply.status # 200 /\ a.status = 404 /\ a.rows = {}

Opened(a, rows) ==
    /\ UNCHANGED tables
    /\ \/ rows # {} /\ Succeeds(a, rows)
       \/ a.status = 404 /\ a.rows = {}

Searched(a, u) ==
    /\ UNCHANGED tables
    /\ \E found \in SUBSET (source_works \cap a.ask.arg) :
          Succeeds(a, {<<w, {n \in NovelsOf(w) : read_novel(u, n).status = 200}>> : w \in found})
-----------------------------------------------------------------------------
Serve(a) ==
    LET u == a.ask.user
        x == a.ask.on IN
    CASE a.ask.op = "create_source_work" -> Works(a, u)
      [] a.ask.op = "create_novel" -> NewNovel(a, u)
      [] a.ask.op = "create_chapter" -> OneChapter(a, u)
      [] a.ask.op = "create_chapters_by_upload" -> ManyChapters(a, u)
      [] a.ask.op = "update_novel" -> NewVisibility(a, u, x)
      [] a.ask.op = "update_source_work" -> WorkTitle(a, u, x)
      [] a.ask.op = "update_chapter" ->
            Titles(a, IsChapter(x) /\ chapter_mod_access_update(u, x), read_chapter_by_id(u, x))
      [] a.ask.op = "update_label_group" ->
            IF Misfit(a) THEN Fails(a, 422)
            ELSE Titles(a, IsGroup(x) /\ label_group_mod_access_update(u, x), [status |-> 404])
      [] a.ask.op = "action_publish_chapter" -> Publication(a, u, x)
      [] a.ask.op = "delete_chapter" -> Removal(a, u, x)
      [] a.ask.op = "update_chapter_content" -> Revision(a, u, x)
      [] a.ask.op = "create_label_group" -> NewLabelGroup(a, u, x)
      [] a.ask.op = "create_label_data" -> NewLabelData(a, u, x)
      [] a.ask.op = "read_chapters_by_novel" ->
            Listed(a, ChapterRows(u, x, a.ask.arg), read_novel(u, x))
      [] a.ask.op = "read_novels_by_source_work" ->
            Listed(a, {n \in NovelsOf(x) : read_novel(u, n).status = 200}, read_source_work(u, x))
      [] a.ask.op = "read_chapter_content" -> Opened(a, LatestRows(u, x))
      [] a.ask.op = "read_source_works" -> Searched(a, u)

Answer(r) ==
    /\ answers[r] = NoAnswer /\ answers'[r] # NoAnswer
    /\ answers' = [answers EXCEPT ![r] = answers'[r]]
    /\ Serve(answers'[r])

Return(r) == answers' = [answers EXCEPT ![r] = NoAnswer] /\ UNCHANGED tables

Init == answers = [r \in Call |-> NoAnswer]
Next == \E r \in Call : Answer(r) \/ Return(r)
Spec == Init /\ [][Next]_vars
=============================================================================
