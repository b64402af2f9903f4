----------------------------- MODULE LibraryAccess -----------------------------
(***************************************************************************)
(* The tables of the library and who may read or change which row           *)
(* (novels/models.py, labels/models.py, novels/permissions.py,              *)
(* labels/permissions.py).  The permission functions of the code add         *)
(* conditions to a statement; here each is the condition it adds for one      *)
(* row.  Titles, texts and labels are left out: no condition reads them.      *)
(***************************************************************************)
EXTENDS Naturals

CONSTANTS
    User,        \* the accounts
    Admin,       \* those with user_type ADMIN
    Guest,       \* a request without a token
    Work, Novel, Chapter, Group,       \* the ids that may be given to rows
    Number,      \* chapter numbers
    Absent,      \* an id that no row has
    None         \* no row

ASSUME AccessAssumption ==
    /\ Admin \subseteq User /\ Guest \notin User
    /\ \A S \in {Work, Novel, Chapter, Group} : Absent \notin S /\ None \notin S

VARIABLES
    source_works,         \* the ids that exist
    novels,               \* visibility and source work of each novel
    novel_contributors,   \* the role of each user in each novel
    chapters,             \* novel, number and publication of each chapter
    chapter_contents,     \* <<chapter, version>>
    label_groups,         \* the novel of each group
    label_contributors,   \* the role of each user in each group
    label_datas           \* <<group, chapter, version>>

tables == <<source_works, novels, novel_contributors, chapters, chapter_contents,
            label_groups, label_contributors, label_datas>>

PRIVATE == 0
RESTRICTED == 1
UNLISTED == 2
PUBLIC == 3
Visibility == PRIVATE .. PUBLIC
Role == {"owner", "editor", "viewer"}

NovelRow == [visibility : Visibility, work : Work]
ChapterRow == [novel : Novel, num : Number, public : BOOLEAN]

ASSUME RowAssumption == None \notin NovelRow \cup ChapterRow

IsNovel(n) == n \in Novel /\ novels[n] # None
IsChapter(c) == c \in Chapter /\ chapters[c] # None
IsGroup(g) == g \in Group /\ label_groups[g] # None
Writers == {"owner", "editor"}

\* u has one of the roles in novel n, in group g.
Contributes(u, n, roles) == u \in User /\ n \in Novel /\ novel_contributors[n][u] \in roles
Labels(u, g, roles) == u \in User /\ g \in Group /\ label_contributors[g][u] \in roles
-----------------------------------------------------------------------------
(* Novels and source works.                                                 *)
novel_mod_access_select(u, n, edit_only) ==
    IF edit_only
    THEN u \in Admin \/ Contributes(u, n, Writers)
    ELSE \/ u \in Admin
         \/ novels[n].visibility >= UNLISTED
         \/ Contributes(u, n, Role)

novel_mod_access_update(u, n) == u \in Admin \/ Contributes(u, n, Writers)

NovelsOf(w) == {n \in Novel : IsNovel(n) /\ novels[n].work = w}

source_work_mod_access_select(u, w) ==
    \E n \in NovelsOf(w) : novel_mod_access_select(u, n, FALSE)

source_work_mod_access_update(u, w) ==
    u \in Admin \/ \E n \in NovelsOf(w) : Contributes(u, n, {"owner"})
-----------------------------------------------------------------------------
(* Chapters and their contents.                                             *)

chapter_mod_access_select(u, c, edit_only) ==
    LET n == chapters[c].novel IN
    /\ novel_mod_access_select(u, n, edit_only)
    /\ edit_only \/ u \in Admin \/ chapters[c].public \/ Contributes(u, n, Role)

chapter_mod_access_update(u, c) == u \in Admin \/ Contributes(u, chapters[c].novel, Writers)
chapter_mod_access_insert(u, n) == u \in Admin \/ Contributes(u, n, Writers)
chapter_mod_access_delete(u, c) == u \in Admin \/ Contributes(u, chapters[c].novel, {"owner"})

chapter_content_mod_access_select(u, c, edit_only) ==
    IsChapter(c) /\ chapter_mod_access_select(u, c, edit_only)

chapter_content_mod_access_insert(u, n) == u \in Admin \/ Contributes(u, n, Writers)
-----------------------------------------------------------------------------
(* Label groups, label data and labels.  The novel's condition applies to     *)
(* administrators as well, and lets them pass.                               *)
Among(label_edit_only) == IF label_edit_only THEN Writers ELSE Role

label_group_mod_access_select(u, g, novel_edit_only, label_edit_only) ==
    /\ novel_mod_access_select(u, label_groups[g], novel_edit_only)
    /\ u \in Admin \/ Labels(u, g, Among(label_edit_only))

label_group_mod_access_insert(u, n) == IsNovel(n) /\ novel_mod_access_select(u, n, FALSE)

label_group_mod_access_update(u, g) ==
    /\ novel_mod_access_select(u, label_groups[g], FALSE)
    /\ u \in Admin \/ Labels(u, g, Writers)

label_data_mod_access_select(u, d, novel_edit_only, label_edit_only) ==
    /\ chapter_content_mod_access_select(u, d[2], novel_edit_only)
    /\ u \in Admin \/ Labels(u, d[1], Among(label_edit_only))

label_data_mod_access_update(u, d) ==
    /\ chapter_content_mod_access_select(u, d[2], FALSE)
    /\ u \in Admin \/ Labels(u, d[1], Writers)

\* The group's novel counts, not the chapter's.
label_data_mod_access_insert(u, g) ==
    \/ u \in Admin
    \/ /\ IsGroup(g) /\ Labels(u, g, Writers)
       /\ \/ Contributes(u, label_groups[g], Role)
          \/ novels[label_groups[g]].visibility >= UNLISTED

\* A label is inserted, changed and deleted by whom its label data admits.
label_mod_access_insert(u, d) ==
    /\ chapter_content_mod_access_select(u, d[2], FALSE)
    /\ u \in Admin \/ Labels(u, d[1], Writers)

label_mod_access_update(u, d) ==
    /\ chapter_content_mod_access_select(u, d[2], FALSE)
    /\ u \in Admin \/ Labels(u, d[1], Writers)

label_mod_access_delete(u, d) ==
    /\ chapter_content_mod_access_select(u, d[2], FALSE)
    /\ u \in Admin \/ Labels(u, d[1], Writers)

label_contributors_mod_access_select(u, g) == u \in Admin \/ Labels(u, g, Role)
=============================================================================
