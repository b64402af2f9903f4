------------------------------ MODULE LibraryReads ------------------------------
(***************************************************************************)
(* What the library answers to a request that reads (novels/service.py,      *)
(* labels/service.py): the queries, and the endpoints of the two routers that *)
(* consist of one of them.  A search text is the set of the rows whose title   *)
(* contains it.                                                             *)
(***************************************************************************)
EXTENDS LibraryAccess

\* A query returns rows or raises an exception; an endpoint turns the exceptions
\* it knows into a status, and any other one is an internal error.
Ok(rows) == [raised |-> "none", rows |-> rows]
Raise(exception) == [raised |-> exception, rows |-> {}]
OneRow(rows, exception) == IF rows = {} THEN Raise(exception) ELSE Ok(rows)

Status(exception, errors) ==
    CASE exception = "none" -> 200
      [] exception \in DOMAIN errors -> errors[exception]
      [] OTHER -> 500

Reply(result, errors) == [status |-> Status(result.raised, errors), rows |-> result.rows]

\* An endpoint that is not open to guests.
SignedIn(u, reply) == IF u \in User THEN reply ELSE [status |-> 401, rows |-> {}]
-----------------------------------------------------------------------------
(* Source works and novels.                                                 *)
query_source_works_by_title(u, match) ==
    Ok({w \in match \cap source_works : source_work_mod_access_select(u, w)})

query_source_work_by_id(u, w) ==
    OneRow({x \in source_works : x = w /\ source_work_mod_access_select(u, x)}, "SourceWorkNotFound")

query_novels_by_title(match) ==
    Ok({n \in match : IsNovel(n) /\ novels[n].visibility = PUBLIC})

query_novels_by_current_user(u, editable, match) ==
    Ok({n \in match : IsNovel(n) /\ Contributes(u, n, IF editable THEN Writers ELSE Role)})

query_novel_by_id(u, n) ==
    OneRow({x \in Novel : x = n /\ IsNovel(x) /\ novel_mod_access_select(u, x, FALSE)}, "NovelNotFound")

\* Mutant: joined with the contribution of the user who asks.
NovelAndMeById(u, n) ==
    OneRow({<<n, v>> : v \in {w \in User : /\ w = u /\ IsNovel(n) /\ Contributes(w, n, Role)
                                          /\ novel_mod_access_select(u, n, FALSE)}}, "NovelNotFound")

\* The novel is joined with its contributors: one row for each of them.
query_novel_and_users_by_id(u, n) ==
    OneRow({<<n, v>> : v \in {w \in User : /\ IsNovel(n) /\ Contributes(w, n, Role)
                                          /\ novel_mod_access_select(u, n, FALSE)}}, "NovelNotFound")

read_source_work(u, w) == Reply(query_source_work_by_id(u, w), [SourceWorkNotFound |-> 404])
read_novels(match) == Reply(query_novels_by_title(match), <<>>)
read_novels_mine(u, editable, match) ==
    SignedIn(u, Reply(query_novels_by_current_user(u, editable, match), <<>>))
read_novel(u, n) == Reply(query_novel_by_id(u, n), [NovelNotFound |-> 404])
read_novel_with_contributors(u, n) ==
    SignedIn(u, Reply(query_novel_and_users_by_id(u, n), [NovelNotFound |-> 404]))
-----------------------------------------------------------------------------
(* Chapters and their contents.  A range is a start and an end, or None.       *)
InRange(num, range) ==
    /\ range[1] # None => num >= range[1]
    /\ range[2] # None => num < range[2]

ChapterRows(u, n, range) ==
    {c \in Chapter : /\ IsChapter(c) /\ chapters[c].novel = n
                     /\ InRange(chapters[c].num, range) /\ chapter_mod_access_select(u, c, FALSE)}

VersionsOf(c) == {cc[2] : cc \in {x \in chapter_contents : x[1] = c}}
Latest(c) == CHOOSE v \in VersionsOf(c) : \A w \in VersionsOf(c) : w <= v

LatestRows(u, c) ==
    {cc \in chapter_contents : /\ cc[1] = c /\ cc[2] = Latest(c)
                               /\ chapter_content_mod_access_select(u, c, FALSE)}

query_chapter_by_id(u, c) ==
    OneRow({x \in Chapter : x = c /\ IsChapter(x) /\ chapter_mod_access_select(u, x, FALSE)},
           "ChapterNotFound")

query_chapter_content_by_id(u, cc) ==
    OneRow({x \in chapter_contents : x = cc /\ chapter_content_mod_access_select(u, x[1], FALSE)},
           "ChapterContentNotFound")

query_chapter_content_ids_by_chapter_id(u, c) ==
    Ok({cc \in chapter_contents : cc[1] = c /\ chapter_content_mod_access_select(u, c, FALSE)})

query_chapter_content_status(u, c, cc) ==
    IF LatestRows(u, c) = {} THEN Raise("ChapterContentNotFound")
    ELSE IF LatestRows(u, c) # {cc} THEN Raise("ChapterContentOutdated")
    ELSE Ok({"success"})

read_chapter_by_id(u, c) == Reply(query_chapter_by_id(u, c), [ChapterNotFound |-> 404])
read_chapter_content_by_id(u, cc) ==
    SignedIn(u, Reply(query_chapter_content_by_id(u, cc), [ChapterContentNotFound |-> 404]))
read_chapter_content_versions(u, c) ==
    SignedIn(u, Reply(query_chapter_content_ids_by_chapter_id(u, c), <<>>))
read_chapter_content_status(u, c, cc) ==
    Reply(query_chapter_content_status(u, c, cc),
          [ChapterContentNotFound |-> 404, ChapterContentOutdated |-> 409])
-----------------------------------------------------------------------------
(* Label groups, their contributors and label data.                          *)
GroupRows(u, n) ==
    {g \in Group : IsGroup(g) /\ label_groups[g] = n /\ label_group_mod_access_select(u, g, FALSE, FALSE)}

query_label_groups(u, n) == Ok(GroupRows(u, n))

query_label_groups_with_contributor_info(u, n) ==
    Ok({<<g, label_contributors[g][u]>> : g \in {h \in GroupRows(u, n) : Labels(u, h, Role)}})

query_label_group_by_id(u, g) ==
    OneRow({h \in Group : h = g /\ IsGroup(h) /\ label_group_mod_access_select(u, h, FALSE, FALSE)},
           "LabelGroupNotFound")

\* The label data of the latest contents only; the chapters' own conditions do not apply.
query_label_datas(u, g, range) ==
    Ok({d \in label_datas : /\ d[1] = g /\ d[3] = Latest(d[2]) /\ InRange(chapters[d[2]].num, range)
                            /\ label_group_mod_access_select(u, g, FALSE, FALSE)})

query_label_data_by_id(u, d) ==
    OneRow({x \in label_datas : x = d /\ label_data_mod_access_select(u, x, FALSE, FALSE)},
           "LabelDataNotFound")

\* A label data stands for its labels; one that may not be read has none.
query_labels_by_label_data_id(u, d) ==
    Ok({x \in label_datas : x = d /\ label_data_mod_access_select(u, x, FALSE, FALSE)})

query_label_by_id(u, d) ==
    OneRow({x \in label_datas : x = d /\ label_data_mod_access_select(u, x, FALSE, FALSE)},
           "LabelNotFound")

query_label_contributors_of_label_group(u, g) ==
    OneRow({v \in User : IsGroup(g) /\ Labels(v, g, Role) /\ label_contributors_mod_access_select(u, g)},
           "LabelGroupNotFound")

read_label_groups(u, n) ==
    SignedIn(u, Reply(query_label_groups(u, n), <<>>))
read_label_groups_with_role(u, n) ==
    SignedIn(u, Reply(query_label_groups_with_contributor_info(u, n), <<>>))
read_label_group(u, g) ==
    SignedIn(u, Reply(query_label_group_by_id(u, g), [LabelGroupNotFound |-> 404]))
read_label_datas_by_group_chapters(u, g, range) ==
    SignedIn(u, Reply(query_label_datas(u, g, range), <<>>))
read_label_data(u, d) ==
    SignedIn(u, Reply(query_label_data_by_id(u, d), [LabelDataNotFound |-> 404]))
read_labels_by_label_data(u, d) ==
    SignedIn(u, Reply(query_labels_by_label_data_id(u, d), <<>>))
read_label(u, d) ==
    SignedIn(u, Reply(query_label_by_id(u, d), [LabelNotFound |-> 404]))
read_label_contributors(u, g) ==
    SignedIn(u, Reply(query_label_contributors_of_label_group(u, g), [LabelGroupNotFound |-> 404]))
-----------------------------------------------------------------------------
(* Properties.                                                              *)
Readers == User \cup {Guest}

\* Who may change a row may read it: a refused change is followed by a query whose
\* answer would otherwise be wrong, and a change would be answered with a row that
\* cannot be read again.
RightsNest ==
    \A u \in User :
        /\ \A n \in Novel : IsNovel(n) =>
              /\ novel_mod_access_update(u, n) => novel_mod_access_select(u, n, FALSE)
              /\ novel_mod_access_select(u, n, TRUE) <=> novel_mod_access_update(u, n)
              /\ chapter_mod_access_insert(u, n) <=> chapter_content_mod_access_insert(u, n)
        /\ \A w \in source_works :
              NovelsOf(w) # {} /\ source_work_mod_access_update(u, w) => source_work_mod_access_select(u, w)
        /\ \A c \in Chapter : IsChapter(c) =>
              /\ chapter_mod_access_delete(u, c) => chapter_mod_access_update(u, c)
              /\ chapter_mod_access_update(u, c) => chapter_mod_access_select(u, c, FALSE)
              /\ chapter_mod_access_select(u, c, TRUE) <=> chapter_mod_access_update(u, c)
        /\ \A g \in Group : IsGroup(g) =>
              /\ label_group_mod_access_update(u, g) => label_group_mod_access_select(u, g, FALSE, TRUE)
              /\ label_group_mod_access_select(u, g, FALSE, TRUE) => label_data_mod_access_insert(u, g)
        /\ \A d \in label_datas :
              /\ label_mod_access_delete(u, d) <=> label_mod_access_update(u, d)
              /\ label_mod_access_insert(u, d) => label_data_mod_access_select(u, d, FALSE, TRUE)

\* Two ways to read one thing agree.  For everybody: a chapter that is listed is in a
\* novel that is found and can be opened, in its latest version; a source work is found
\* just when one of its novels is; what is listed as public is found by its id.  For a
\* user: a novel is found with its contributors whenever it is found alone, contents that
\* can be opened are listed and found by their id, what is listed as mine or as a group of
\* a novel is found by its id, and contents and label data of which the id is known are
\* read by those, and only those, who read the chapter.
ReadsAgree ==
    /\ \A u \in Readers :
        /\ \A n \in Novel : \A c \in ChapterRows(u, n, <<None, None>>) :
              /\ read_novel(u, n).status = 200 /\ read_chapter_by_id(u, c).status = 200
              /\ \E cc \in chapter_contents :
                    LatestRows(u, c) = {cc} /\ read_chapter_content_status(u, c, cc).status = 200
        /\ \A w \in Work : read_source_work(u, w).status = 200
                            <=> \E n \in NovelsOf(w) : read_novel(u, n).status = 200
        /\ \A n \in read_novels(Novel).rows : read_novel(u, n).status = 200
    /\ \A u \in User :
        /\ \A n \in Novel : read_novel(u, n).status = read_novel_with_contributors(u, n).status
        /\ \A n \in read_novels_mine(u, FALSE, Novel).rows :
              read_novel(u, n).status = 200 /\ read_source_work(u, novels[n].work).status = 200
        /\ \A c \in Chapter : \A cc \in LatestRows(u, c) :
              /\ read_chapter_content_by_id(u, cc).status = 200
              /\ cc \in read_chapter_content_versions(u, c).rows
        /\ \A n \in Novel : \A g \in Group : g \in read_label_groups(u, n).rows
              <=> read_label_group(u, g).status = 200 /\ label_groups[g] = n
        /\ \A n \in Novel : \A p \in read_label_groups_with_role(u, n).rows :
              /\ p[1] \in read_label_groups(u, n).rows
              /\ u \in read_label_contributors(u, p[1]).rows
        /\ \A d \in label_datas :
              /\ read_label(u, d).status = read_label_data(u, d).status
              /\ read_labels_by_label_data(u, d).rows # {} <=> read_label_data(u, d).status = 200
              /\ read_label_data(u, d).status = 200
                    => read_chapter_content_by_id(u, <<d[2], d[3]>>).status = 200
=============================================================================
