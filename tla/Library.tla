-------------------------------- MODULE Library --------------------------------
(***************************************************************************)
(* The novels, labels and source works of the library and the requests that  *)
(* change them (novels/service.py, novels/imports.py, labels/service.py and   *)
(* their routers).  Requests run at the same time, as in several processes    *)
(* of the API.  A statement sees what is committed when it runs (READ         *)
(* COMMITTED), so a request with a second statement is several steps; a       *)
(* request that reads in one statement is an operator of LibraryReads.        *)
(***************************************************************************)
EXTENDS LibraryReads, Sequences, FiniteSets

CONSTANTS
    Call,        \* requests that may be served at once
    Match,       \* searches: sets of source works whose title contains a text
    Span,        \* ranges of chapter numbers that are asked for
    Upload,      \* files that are uploaded: sequences of [num, public]
    Wanted,      \* the visibilities that are asked for
    MaxVersion   \* bound on the versions of a chapter's contents

FileRow == [num : Number, public : BOOLEAN]
ASSUME LibraryAssumption == Upload \subseteq Seq(FileRow) /\ Wanted \subseteq Visibility

VARIABLE call    \* what each request is doing

vars == <<tables, call>>

NoCall == [at |-> "idle"]

\* What a request asks for: an endpoint, its user, the row it names and the rest;
\* and what is wrong with its data, a text too long for its column or no such language.
Asked(op, u, on, arg, bad) == [op |-> op, user |-> u, on |-> on, arg |-> arg, bad |-> bad]
Bad == {"none", "text"}

Starts(r) == call[r] = NoCall
Busy(r, at) == call[r].at = at
Becomes(r, state) == call' = [call EXCEPT ![r] = state]

Answers(r, ask, reply) ==
    Becomes(r, [at |-> "answered", ask |-> ask, status |-> reply.status, rows |-> reply.rows])
Raises(r, ask, exception, errors) == Answers(r, ask, Reply(Raise(exception), errors))

\* A statement found no row to change: the transaction is rolled back and a query
\* tells whether the user may read what the request named.
Asks(r, ask, kind, found, errors) ==
    Becomes(r, [at |-> "query", ask |-> ask, kind |-> kind, found |-> found, errors |-> errors])

\* An edit of a chapter's contents is under way; its new version is inserted.
Edits(r) == call[r].at \in {"revise", "port", "store"}
Stores(r) == call[r].at \in {"port", "store"}

\* Ids are random: a new row gets one that nobody uses.
Pending == {call[r] : r \in {s \in Call : Busy(s, "insert")}}
Fresh(S, used) == IF S \subseteq used THEN {} ELSE {CHOOSE x \in S : x \notin used}
NewWork == Fresh(Work, source_works \cup {p.work : p \in Pending})
NewNovel == Fresh(Novel, {n \in Novel : IsNovel(n)} \cup {p.id : p \in Pending})
NewGroup == Fresh(Group, {g \in Group : IsGroup(g)} \cup {p.id : p \in Pending})
Inserted(p) == {p.done[i].id : i \in DOMAIN p.done}
NewChapter ==
    Fresh(Chapter, {c \in Chapter : IsChapter(c)} \cup (UNION {Inserted(p) : p \in Pending})
                   \cup {call[r].ask.on : r \in {s \in Call : Busy(s, "query") \/ Edits(s)}})

\* The ids that a client can name.
SomeWork == source_works \cup {Absent}
SomeNovel == {n \in Novel : IsNovel(n)} \cup {Absent}
SomeChapter == {c \in Chapter : IsChapter(c)} \cup {Absent}
SomeGroup == {g \in Group : IsGroup(g)} \cup {Absent}
SomeContents == chapter_contents \cup {<<Absent, 1>>}
-----------------------------------------------------------------------------
(* Rows that are written in several statements: what is inserted and not yet   *)
(* committed.                                                               *)
Insertion(ask, work, id, todo, errors) ==
    [at |-> "insert", ask |-> ask, work |-> work, id |-> id, todo |-> todo, done |-> <<>>, errors |-> errors]

insert_source_work(r, ask, errors) ==
    \/ /\ ask.bad = "text" /\ Raises(r, ask, "DataTooLong", errors) /\ UNCHANGED tables
    \/ /\ ask.bad = "none"
       /\ \E w \in NewWork : /\ source_works' = source_works \cup {w}
                             /\ Answers(r, ask, Reply(Ok({w}), errors))
       /\ UNCHANGED <<novels, novel_contributors, chapters, chapter_contents,
                      label_groups, label_contributors, label_datas>>

\* Without a source work the novel gets one of its own, which is inserted first.
insert_novel(r, ask, errors) ==
    LET given == ask.on # None IN
    /\ UNCHANGED tables
    /\ \/ ask.bad = "text" /\ Raises(r, ask, "DataTooLong", errors)
       \/ ask.bad = "language" /\ Raises(r, ask, "LanguageNotFound", errors)
       \/ /\ ask.bad = "none" /\ given /\ ask.on \notin source_works
          /\ Raises(r, ask, "SourceWorkNotFound", errors)
       \/ /\ ask.bad = "none" /\ (given => ask.on \in source_works)
          /\ \E n \in NewNovel, w \in IF given THEN {ask.on} ELSE NewWork :
                Becomes(r, Insertion(ask, w, n, <<>>, errors))

\* Mutant: a novel without its owner.
CommitNovelAlone(r) ==
    LET p == call[r] IN
    /\ source_works' = source_works \cup {p.work}
    /\ novels' = [novels EXCEPT ![p.id] = [visibility |-> p.ask.arg, work |-> p.work]]
    /\ Answers(r, p.ask, Reply(Ok({p.id}), p.errors))
    /\ UNCHANGED <<novel_contributors, chapters, chapter_contents,
                   label_groups, label_contributors, label_datas>>

\* The creator becomes the owner in the same transaction.
CommitNovel(r) ==
    LET p == call[r]
        n == p.id IN
    /\ source_works' = source_works \cup {p.work}
    /\ novels' = [novels EXCEPT ![n] = [visibility |-> p.ask.arg, work |-> p.work]]
    /\ novel_contributors' = [novel_contributors EXCEPT ![n][p.ask.user] = "owner"]
    /\ Answers(r, p.ask, Reply(Ok({n}), p.errors))
    /\ UNCHANGED <<chapters, chapter_contents, label_groups, label_contributors, label_datas>>

insert_label_group(r, ask, errors) ==
    /\ UNCHANGED tables
    /\ \/ /\ ~label_group_mod_access_insert(ask.user, ask.on)
          /\ Raises(r, ask, "NovelNotFound", errors)
       \/ /\ label_group_mod_access_insert(ask.user, ask.on)
          /\ \E g \in NewGroup : Becomes(r, Insertion(ask, Absent, g, <<>>, errors))

CommitGroup(r) ==
    LET p == call[r]
        g == p.id IN
    /\ label_groups' = [label_groups EXCEPT ![g] = p.ask.on]
    /\ label_contributors' = [label_contributors EXCEPT ![g][p.ask.user] = "owner"]
    /\ Answers(r, p.ask, Reply(Ok({g}), p.errors))
    /\ UNCHANGED <<source_works, novels, novel_contributors, chapters, chapter_contents, label_datas>>
-----------------------------------------------------------------------------
(* Chapters are inserted row by row.  (num, novel) is unique: a row that        *)
(* another transaction has inserted is waited for.                           *)
insert_chapter(r, ask, errors) ==
    /\ UNCHANGED tables
    /\ IF ~chapter_mod_access_insert(ask.user, ask.on)
       THEN Asks(r, ask, "novel", "InsufficientPermissions", errors)
       ELSE IF ask.bad = "text" THEN Raises(r, ask, "DataTooLong", errors)
       ELSE Becomes(r, Insertion(ask, Absent, Absent, ask.arg, errors))

\* An upload that inserts nothing does not ask whether the novel exists.
upload_v1(r, ask, errors) ==
    /\ UNCHANGED tables
    /\ IF ~chapter_mod_access_insert(ask.user, ask.on)
       THEN Raises(r, ask, "InsufficientPermissions", errors)
       ELSE Becomes(r, Insertion(ask, Absent, Absent, ask.arg, errors))

ChapterKinds == {"create_chapter", "create_chapters_by_upload"}
InsertsChapters(r) == Busy(r, "insert") /\ call[r].ask.op \in ChapterKinds
Holds(r, n, num) ==
    /\ InsertsChapters(r) /\ call[r].ask.on = n
    /\ \E i \in DOMAIN call[r].done : call[r].done[i].num = num
Waits(r, s) ==
    /\ r # s /\ InsertsChapters(r) /\ call[r].todo # <<>>
    /\ Holds(s, call[r].ask.on, Head(call[r].todo).num)
Taken(n, num) == \E c \in Chapter : IsChapter(c) /\ chapters[c].novel = n /\ chapters[c].num = num

InsertRow(r) ==
    LET p == call[r]
        row == Head(p.todo) IN
    /\ InsertsChapters(r) /\ p.todo # <<>> /\ \A s \in Call : ~Waits(r, s)
    /\ UNCHANGED tables
    /\ IF Taken(p.ask.on, row.num) \/ Holds(r, p.ask.on, row.num)
       THEN Raises(r, p.ask, "ChapterNumDuplicate", p.errors)
       ELSE \E c \in NewChapter :
              Becomes(r, [p EXCEPT !.todo = Tail(@), !.done = Append(@, [id |-> c, num |-> row.num, public |-> row.public])])

\* The foreign key is checked when all rows are there; the contents follow.
CommitChapters(r) ==
    LET p == call[r]
        Row(c) == CHOOSE i \in DOMAIN p.done : p.done[i].id = c IN
    IF ~IsNovel(p.ask.on)
    THEN Raises(r, p.ask, "NovelNotFound", p.errors) /\ UNCHANGED tables
    ELSE /\ chapters' = [c \in Chapter |->
                IF c \in Inserted(p)
                THEN [novel |-> p.ask.on, num |-> p.done[Row(c)].num, public |-> p.done[Row(c)].public]
                ELSE chapters[c]]
         /\ chapter_contents' = chapter_contents \cup {<<c, 1>> : c \in Inserted(p)}
         /\ Answers(r, p.ask, Reply(Ok(Inserted(p)), p.errors))
         /\ UNCHANGED <<source_works, novels, novel_contributors,
                        label_groups, label_contributors, label_datas>>

Commit(r) ==
    /\ Busy(r, "insert")
    /\ \/ call[r].ask.op = "create_novel" /\ CommitNovel(r)
       \/ call[r].ask.op = "create_label_group" /\ CommitGroup(r)
       \/ InsertsChapters(r) /\ call[r].todo = <<>> /\ CommitChapters(r)

\* Uploads that wait for each other: the database ends one of them.
Deadlock(r) ==
    /\ \E S \in SUBSET Call :
          /\ r \in S
          /\ \A x \in S : (\E y \in S : Waits(x, y)) /\ (\E y \in S : Waits(y, x))
    /\ Raises(r, call[r].ask, "OperationalError", call[r].errors)
    /\ UNCHANGED tables
-----------------------------------------------------------------------------
(* Rows that are changed by one statement.                                  *)
modify_source_work(r, ask, errors) ==
    /\ UNCHANGED tables
    /\ IF ask.on \in source_works /\ source_work_mod_access_update(ask.user, ask.on)
       THEN Answers(r, ask, Reply(IF ask.bad = "none" THEN Ok({ask.on}) ELSE Raise("DataTooLong"), errors))
       ELSE Asks(r, ask, "source_work", "InsufficientPermissions", errors)

modify_novel(r, ask, errors) ==
    IF ~IsNovel(ask.on) \/ ~novel_mod_access_update(ask.user, ask.on)
    THEN Asks(r, ask, "novel", "InsufficientPermissions", errors) /\ UNCHANGED tables
    ELSE IF ask.bad = "text" THEN Raises(r, ask, "DataTooLong", errors) /\ UNCHANGED tables
    ELSE /\ novels' = [novels EXCEPT ![ask.on].visibility = ask.arg]
         /\ Answers(r, ask, Reply(Ok({ask.on}), errors))
         /\ UNCHANGED <<source_works, novel_contributors, chapters, chapter_contents,
                        label_groups, label_contributors, label_datas>>

MayChange(u, c) == IsChapter(c) /\ chapter_mod_access_update(u, c)

modify_chapter(r, ask, errors) ==
    /\ UNCHANGED tables
    /\ IF MayChange(ask.user, ask.on)
       THEN Answers(r, ask, Reply(IF ask.bad = "none" THEN Ok({ask.on}) ELSE Raise("DataTooLong"), errors))
       ELSE Asks(r, ask, "chapter", "InsufficientPermissions", errors)

make_public_chapter(r, ask, errors) ==
    IF ~MayChange(ask.user, ask.on)
    THEN Asks(r, ask, "chapter", "InsufficientPermissions", errors) /\ UNCHANGED tables
    ELSE /\ chapters' = [chapters EXCEPT ![ask.on].public = TRUE]
         /\ Answers(r, ask, Reply(Ok({ask.on}), errors))
         /\ UNCHANGED <<source_works, novels, novel_contributors, chapter_contents,
                        label_groups, label_contributors, label_datas>>

\* Mutant: contents are deleted under their label data.
ReferredNever(c) == c = Absent

\* The contents go with the chapter, but label data keep them.
Referred(c) == \E d \in label_datas : d[2] = c

\* Autolabels keep them too.  They are no table of this module, so that any chapter may
\* have some.  An edit that has inserted a version of the chapter is waited for.
remove_chapter(r, ask, errors) ==
    IF ~IsChapter(ask.on) \/ ~chapter_mod_access_delete(ask.user, ask.on)
    THEN Asks(r, ask, "chapter", "InsufficientPermissions", errors) /\ UNCHANGED tables
    ELSE \/ Raises(r, ask, "ChapterDeleteFailed", errors) /\ UNCHANGED tables
         \/ /\ ~Referred(ask.on) /\ \A s \in Call : ~(Stores(s) /\ call[s].ask.on = ask.on)
            /\ chapters' = [chapters EXCEPT ![ask.on] = None]
            /\ chapter_contents' = {cc \in chapter_contents : cc[1] # ask.on}
            /\ Answers(r, ask, Reply(Ok({"success"}), errors))
            /\ UNCHANGED <<source_works, novels, novel_contributors,
                           label_groups, label_contributors, label_datas>>
-----------------------------------------------------------------------------
(* An edit makes a new version, with a copy of every label data of the latest   *)
(* one.  Nothing is locked between its statements: the version that the first   *)
(* one found may be overtaken by another edit, or deleted, before the new one   *)
(* is inserted.  (The texts and the labels are those of ChapterVersions.)      *)
modify_chapter_content(r, ask, errors) ==
    /\ UNCHANGED tables
    /\ IF ~chapter_content_mod_access_select(ask.user, ask.on, TRUE)
       THEN Asks(r, ask, "content_status", "InsufficientPermissions", errors)
       ELSE IF ask.arg # <<ask.on, Latest(ask.on)>>
       THEN Raises(r, ask, "ChapterContentOutdated", errors)
       ELSE Becomes(r, [at |-> "revise", ask |-> ask, ported |-> {}, errors |-> errors])

Revised(cc) == <<cc[1], cc[2] + 1>>

\* (chapter, version) is unique: the insert waits for another one of the same version,
\* and fails when that is committed.  The chapter may be gone before the statement,
\* which then inserts nothing for anybody but an administrator, or during it.
InsertVersion(r) ==
    LET p == call[r]
        next == Revised(p.ask.arg) IN
    /\ Busy(r, "revise") /\ \A s \in Call : ~(Stores(s) /\ Revised(call[s].ask.arg) = next)
    /\ UNCHANGED tables
    /\ \/ /\ ~IsChapter(p.ask.on) /\ p.ask.user \notin Admin
          /\ Asks(r, p.ask, "content_status", "InsufficientPermissions", p.errors)
       \/ /\ ~IsChapter(p.ask.on) \/ next \in chapter_contents
          /\ Raises(r, p.ask, "IntegrityError", p.errors)
       \/ /\ IsChapter(p.ask.on) /\ next \notin chapter_contents
          /\ Becomes(r, [p EXCEPT !.at = "port"])

\* Label data that come later are not copied.
FindLabelDatas(r) ==
    LET p == call[r] IN
    /\ Busy(r, "port") /\ UNCHANGED tables
    /\ Becomes(r, [at |-> "store", ask |-> p.ask, errors |-> p.errors,
                   ported |-> {d \in label_datas : <<d[2], d[3]>> = p.ask.arg}])

CommitVersion(r) ==
    LET p == call[r]
        next == Revised(p.ask.arg) IN
    /\ Busy(r, "store")
    /\ chapter_contents' = chapter_contents \cup {next}
    /\ label_datas' = label_datas \cup {<<d[1], next[1], next[2]>> : d \in p.ported}
    /\ Answers(r, p.ask, Reply(Ok({<<next, p.ported>>}), p.errors))
    /\ UNCHANGED <<source_works, novels, novel_contributors, chapters,
                   label_groups, label_contributors>>
-----------------------------------------------------------------------------
\* A refused update of a group is not told from a missing one.
modify_label_group(r, ask, errors) ==
    /\ UNCHANGED tables
    /\ IF IsGroup(ask.on) /\ label_group_mod_access_update(ask.user, ask.on)
       THEN Answers(r, ask, Reply(Ok({ask.on}), errors))
       ELSE Raises(r, ask, "LabelGroupNotFound", errors)

\* One label data for each group and contents.
insert_label_data(r, ask, errors) ==
    LET d == <<ask.on, ask.arg[1], ask.arg[2]>> IN
    IF ~label_data_mod_access_insert(ask.user, ask.on)
    THEN Raises(r, ask, "LabelGroupNotFound", errors) /\ UNCHANGED tables
    ELSE IF d \in label_datas THEN Raises(r, ask, "LabelDataRevisionDuplicate", errors) /\ UNCHANGED tables
    ELSE IF ~IsGroup(ask.on) \/ ask.arg \notin chapter_contents
    THEN Raises(r, ask, "NotFound", errors) /\ UNCHANGED tables
    ELSE /\ label_datas' = label_datas \cup {d}
         /\ Answers(r, ask, Reply(Ok({d}), errors))
         /\ UNCHANGED <<source_works, novels, novel_contributors, chapters, chapter_contents,
                        label_groups, label_contributors>>
-----------------------------------------------------------------------------
(* Reads of two statements: what the first one finds decides on the second.    *)
Select(r, ask, rows, kind, found, errors) ==
    /\ UNCHANGED tables
    /\ IF rows # {} THEN Answers(r, ask, Reply(Ok(rows), errors))
       ELSE Asks(r, ask, kind, found, errors)

query_novels_by_source_work(r, ask, errors) ==
    Select(r, ask, {n \in NovelsOf(ask.on) : novel_mod_access_select(ask.user, n, FALSE)},
           "source_work", "none", errors)

query_chapters_by_novel(r, ask, errors) ==
    Select(r, ask, ChapterRows(ask.user, ask.on, ask.arg), "novel", "none", errors)

query_chapter_content_by_most_recent(r, ask, errors) ==
    Select(r, ask, LatestRows(ask.user, ask.on), "chapter", "ChapterContentNotFound", errors)

\* The source works first, then their novels.
query_source_works_with_novels(r, ask, errors) ==
    /\ Becomes(r, [at |-> "novels", ask |-> ask, errors |-> errors,
                   works |-> query_source_works_by_title(ask.user, ask.arg).rows])
    /\ UNCHANGED tables

NovelsOfWorks(r) ==
    LET p == call[r] IN
    /\ Busy(r, "novels")
    /\ Answers(r, p.ask, Reply(Ok({<<w, {n \in NovelsOf(w) : novel_mod_access_select(p.ask.user, n, FALSE)}>>
                                    : w \in p.works}), p.errors))
    /\ UNCHANGED tables

\* Mutant: whether the contents are outdated is not asked.
ReadingRow(u, kind, on, arg) ==
    CASE kind = "source_work" -> query_source_work_by_id(u, on)
      [] kind = "novel" -> query_novel_by_id(u, on)
      [] OTHER -> query_chapter_by_id(u, on)

\* The second statement: may the user read what the request named?
Reading(u, kind, on, arg) ==
    CASE kind = "source_work" -> query_source_work_by_id(u, on)
      [] kind = "novel" -> query_novel_by_id(u, on)
      [] kind = "chapter" -> query_chapter_by_id(u, on)
      [] kind = "content_status" -> query_chapter_content_status(u, on, arg)

Requery(r) ==
    LET p == call[r]
        reading == Reading(p.ask.user, p.kind, p.ask.on, p.ask.arg) IN
    /\ Busy(r, "query")
    /\ Raises(r, p.ask, IF reading.raised = "none" THEN p.found ELSE reading.raised, p.errors)
    /\ UNCHANGED tables
-----------------------------------------------------------------------------
(* The endpoints of novels/router.py: who may call, which function it calls,    *)
(* and the status of each exception it knows.                                *)
Anyone == User \cup {Guest}

\* Data that the schema of a request refuses do not reach the service.
RefusedBySchema(r, ask, status) ==
    Raises(r, ask, "ValidationError", [ValidationError |-> status]) /\ UNCHANGED tables

read_source_works(r) ==
    \E u \in Anyone, match \in Match :
        query_source_works_with_novels(r, Asked("read_source_works", u, None, match, "none"), <<>>)

read_novels_by_source_work(r) ==
    \E u \in Anyone, w \in SomeWork :
        query_novels_by_source_work(r, Asked("read_novels_by_source_work", u, w, None, "none"),
                                    [SourceWorkNotFound |-> 404])

create_source_work(r) ==
    \E u \in User, bad \in Bad :
        insert_source_work(r, Asked("create_source_work", u, None, None, bad), [DataTooLong |-> 400])

update_source_work(r) ==
    \E u \in User, w \in SomeWork, bad \in Bad :
        modify_source_work(r, Asked("update_source_work", u, w, None, bad),
            [SourceWorkNotFound |-> 404, InsufficientPermissions |-> 401, DataTooLong |-> 400])

create_novel(r) ==
    \E u \in User, w \in SomeWork \cup {None}, v \in Wanted, bad \in Bad \cup {"language"} :
        insert_novel(r, Asked("create_novel", u, w, v, bad),
            [SourceWorkNotFound |-> 404, LanguageNotFound |-> 404, DataTooLong |-> 400])

update_novel(r) ==
    \E u \in User, n \in SomeNovel, v \in Wanted, bad \in Bad :
        modify_novel(r, Asked("update_novel", u, n, v, bad),
            [NovelNotFound |-> 404, InsufficientPermissions |-> 401, DataTooLong |-> 400])

read_chapters_by_novel(r) ==
    \E u \in Anyone, n \in SomeNovel, range \in Span :
        query_chapters_by_novel(r, Asked("read_chapters_by_novel", u, n, range, "none"), [NovelNotFound |-> 404])

create_chapter(r) ==
    \E u \in User, n \in SomeNovel, num \in Number, public \in BOOLEAN, bad \in Bad :
        insert_chapter(r, Asked("create_chapter", u, n, <<[num |-> num, public |-> public]>>, bad),
            [NovelNotFound |-> 404, ChapterNumDuplicate |-> 409, InsufficientPermissions |-> 401])

create_chapters_by_upload(r) ==
    \E u \in User, n \in SomeNovel, file \in Upload, bad \in Bad :
        LET ask == Asked("create_chapters_by_upload", u, n, file, bad) IN
        IF bad # "none" THEN RefusedBySchema(r, ask, 400)
        ELSE upload_v1(r, ask,
            [NovelNotFound |-> 404, ChapterNumDuplicate |-> 409, InsufficientPermissions |-> 401,
             ValueError |-> 400])

update_chapter(r) ==
    \E u \in User, c \in SomeChapter, bad \in Bad :
        modify_chapter(r, Asked("update_chapter", u, c, None, bad),
            [ChapterNotFound |-> 404, InsufficientPermissions |-> 401, DataTooLong |-> 400])

delete_chapter(r) ==
    \E u \in User, c \in SomeChapter :
        remove_chapter(r, Asked("delete_chapter", u, c, None, "none"),
            [ChapterNotFound |-> 404, InsufficientPermissions |-> 401, ChapterDeleteFailed |-> 500])

action_publish_chapter(r) ==
    \E u \in User, c \in SomeChapter :
        make_public_chapter(r, Asked("action_publish_chapter", u, c, None, "none"),
            [ChapterNotFound |-> 404, InsufficientPermissions |-> 401])

read_chapter_content(r) ==
    \E u \in Anyone, c \in SomeChapter :
        query_chapter_content_by_most_recent(r, Asked("read_chapter_content", u, c, None, "none"),
            [ChapterNotFound |-> 404, ChapterContentNotFound |-> 404])

update_chapter_content(r) ==
    \E u \in User, c \in SomeChapter, cc \in SomeContents :
        /\ \A x \in chapter_contents : x[2] < MaxVersion
        /\ modify_chapter_content(r, Asked("update_chapter_content", u, c, cc, "none"),
               [ChapterContentNotFound |-> 404, ChapterContentOutdated |-> 409,
                InsufficientPermissions |-> 401])
-----------------------------------------------------------------------------
(* The endpoints of labels/router.py.                                       *)
create_label_group(r) ==
    \E u \in User, n \in SomeNovel, bad \in Bad :
        LET ask == Asked("create_label_group", u, n, None, bad) IN
        IF bad # "none" THEN RefusedBySchema(r, ask, 422)
        ELSE insert_label_group(r, ask, [NovelNotFound |-> 404, DataTooLong |-> 400])

update_label_group(r) ==
    \E u \in User, g \in SomeGroup, bad \in Bad :
        LET ask == Asked("update_label_group", u, g, None, bad) IN
        IF bad # "none" THEN RefusedBySchema(r, ask, 422)
        ELSE modify_label_group(r, ask, [LabelGroupNotFound |-> 404, DataTooLong |-> 400])

create_label_data(r) ==
    \E u \in User, g \in SomeGroup, cc \in SomeContents :
        insert_label_data(r, Asked("create_label_data", u, g, cc, "none"),
            [LabelGroupNotFound |-> 404, LabelDataRevisionDuplicate |-> 409, NotFound |-> 404])
-----------------------------------------------------------------------------
\* The client has its answer.
Return(r) == Busy(r, "answered") /\ Becomes(r, NoCall) /\ UNCHANGED tables

\* A process of the API dies: what it has not committed is gone.
Die(r) ==
    /\ Edits(r) \/ \E at \in {"insert", "query", "novels"} : Busy(r, at)
    /\ Becomes(r, NoCall) /\ UNCHANGED tables

ReadRequest(r) ==
    \/ read_source_works(r)
    \/ read_novels_by_source_work(r)
    \/ read_chapters_by_novel(r)
    \/ read_chapter_content(r)

WriteRequest(r) ==
    \/ create_source_work(r)
    \/ update_source_work(r)
    \/ create_novel(r)
    \/ update_novel(r)
    \/ create_chapter(r)
    \/ create_chapters_by_upload(r)
    \/ update_chapter(r)
    \/ delete_chapter(r)
    \/ action_publish_chapter(r)
    \/ update_chapter_content(r)
    \/ create_label_group(r)
    \/ update_label_group(r)
    \/ create_label_data(r)

Request(r) == Starts(r) /\ (ReadRequest(r) \/ WriteRequest(r))

\* Mutant: nothing ends uploads that wait for each other.
ProceedPatiently(r) ==
    \/ InsertRow(r) \/ Commit(r) \/ Requery(r) \/ NovelsOfWorks(r)
    \/ InsertVersion(r) \/ FindLabelDatas(r) \/ CommitVersion(r)

Proceed(r) ==
    \/ InsertRow(r) \/ Commit(r) \/ Deadlock(r) \/ Requery(r) \/ NovelsOfWorks(r)
    \/ InsertVersion(r) \/ FindLabelDatas(r) \/ CommitVersion(r)

Next == \E r \in Call : Request(r) \/ Proceed(r) \/ Return(r) \/ Die(r)
-----------------------------------------------------------------------------
(* Properties.                                                              *)
TablesOK ==
    /\ source_works \subseteq Work
    /\ novels \in [Novel -> NovelRow \cup {None}]
    /\ novel_contributors \in [Novel -> [User -> Role \cup {None}]]
    /\ chapters \in [Chapter -> ChapterRow \cup {None}]
    /\ chapter_contents \subseteq Chapter \X (Nat \ {0}) /\ IsFiniteSet(chapter_contents)
    /\ label_groups \in [Group -> Novel \cup {None}]
    /\ label_contributors \in [Group -> [User -> Role \cup {None}]]
    /\ label_datas \subseteq Group \X Chapter \X (Nat \ {0})

\* Rows never stand without the rows they need, whatever requests are refused, collide
\* or die between two statements: a novel has its source work and an owner, a
\* chapter its novel, a first version and a number of its own, a group its novel and
\* an owner, and label data their group and contents that nothing has deleted.
WholeRows ==
    /\ \A n \in Novel : IsNovel(n) => /\ novels[n].work \in source_works
                                      /\ \E u \in User : novel_contributors[n][u] = "owner"
    /\ \A c \in Chapter : IsChapter(c) => IsNovel(chapters[c].novel) /\ <<c, 1>> \in chapter_contents
    /\ \A c, d \in Chapter : /\ IsChapter(c) /\ IsChapter(d)
                             /\ chapters[c].novel = chapters[d].novel /\ chapters[c].num = chapters[d].num
                             => c = d
    /\ \A cc \in chapter_contents : IsChapter(cc[1])
    /\ \A g \in Group : IsGroup(g) => /\ IsNovel(label_groups[g])
                                      /\ \E u \in User : label_contributors[g][u] = "owner"
    /\ \A d \in label_datas : IsGroup(d[1]) /\ <<d[2], d[3]>> \in chapter_contents

Init == TablesOK /\ WholeRows /\ call = [r \in Call |-> NoCall]

\* A request that runs goes on; nobody has to make one or to take its answer.
Spec == Init /\ [][Next]_vars /\ \A r \in Call : WF_vars(Proceed(r))

\* What a request has written its author can read at once.  A source work that no novel
\* uses and label data on the chapter of another novel are exceptions, and a group in a
\* novel that has become private since its reader was admitted.
ReadBack(a) ==
    LET u == a.ask.user IN
    CASE a.ask.op \in {"create_novel", "update_novel"} ->
            \A n \in a.rows : /\ read_novel(u, n).status = 200
                             /\ read_novel_with_contributors(u, n).status = 200
                             /\ read_source_work(u, novels[n].work).status = 200
      [] a.ask.op \in ChapterKinds \cup {"update_chapter", "action_publish_chapter"} ->
            \A c \in a.rows : /\ read_chapter_by_id(u, c).status = 200
                             /\ read_chapter_content_status(u, c, <<c, Latest(c)>>).status = 200
      [] a.ask.op = "update_chapter_content" ->
            \A row \in a.rows : read_chapter_content_status(u, a.ask.on, row[1]).status = 200
      [] a.ask.op \in {"create_label_group", "update_label_group"} ->
            \A g \in a.rows : read_novel(u, label_groups[g]).status = 200 =>
                /\ read_label_group(u, g).status = 200
                /\ g \in read_label_groups(u, label_groups[g]).rows
      [] OTHER -> TRUE

OwnWritesRead ==
    [][\A r \in Call : ~Busy(r, "answered") /\ Busy(r, "answered")' => ReadBack(call[r])']_vars

\* Every request that has begun is answered, or its process dies, although rows are
\* waited for and uploads may wait for each other.
Running(r) == Edits(r) \/ \E at \in {"insert", "query", "novels"} : Busy(r, at)
CallsEnd == \A r \in Call : Running(r) ~> ~Running(r)

\* Every request is answered as if it were carried out in one step at one moment.
Answered(r) == IF Busy(r, "answered") THEN call[r] ELSE NoCall
InOneStep == INSTANCE Shelf WITH answers <- [r \in Call |-> Answered(r)]
ImplementsShelf == InOneStep!Spec
=============================================================================
