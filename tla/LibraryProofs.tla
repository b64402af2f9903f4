----------------------------- MODULE LibraryProofs -----------------------------
(***************************************************************************)
(* Proofs about Library: rows never stand without the rows they need, who may *)
(* change a row may read it, the ways to read one thing agree, and Library    *)
(* implements Shelf.                                                        *)
(*                                                                         *)
(* The tables alone are not inductive: a request that inserts rows decides in *)
(* one statement what it commits in a later one.  CallsOK says what such a    *)
(* request knows until it ends, whatever the others commit in between.       *)
(***************************************************************************)
EXTENDS Library, FiniteSetTheorems, WellFoundedInduction, TLAPS

IsCreate(p) == p.ask.op = "create_novel"
IsGrouping(p) == p.ask.op = "create_label_group"
IsUpload(p) == p.ask.op \in ChapterKinds

CreateErrors == [NovelNotFound |-> 404, ChapterNumDuplicate |-> 409, InsufficientPermissions |-> 401]
UploadErrors == [NovelNotFound |-> 404, ChapterNumDuplicate |-> 409, InsufficientPermissions |-> 401,
                 ValueError |-> 400]

\* A novel that is not committed: its id is unused, and so is that of its own source work.
CreateOK(p) ==
    /\ p.id \in Novel /\ ~IsNovel(p.id) /\ p.ask.arg \in Visibility /\ "none" \notin DOMAIN p.errors
    /\ IF p.ask.on = None THEN p.work \in Work /\ p.work \notin source_works
       ELSE p.work = p.ask.on /\ p.work \in source_works

GroupingOK(p) ==
    p.id \in Group /\ ~IsGroup(p.id) /\ IsNovel(p.ask.on) /\ "none" \notin DOMAIN p.errors

\* The rows of a file up to now: they are the first ones of what was asked for, their
\* ids are unused and their numbers free and all different.
DoneRow == [id : Chapter, num : Number, public : BOOLEAN]
UploadOK(p) ==
    /\ p.ask.arg \in Seq(FileRow) /\ p.todo \in Seq(FileRow) /\ p.done \in Seq(DoneRow)
    /\ Len(p.done) + Len(p.todo) = Len(p.ask.arg)
    /\ \A i \in 1 .. Len(p.done) : /\ p.done[i].num = p.ask.arg[i].num
                                   /\ p.done[i].public = p.ask.arg[i].public
    /\ \A i \in 1 .. Len(p.todo) : p.todo[i] = p.ask.arg[Len(p.done) + i]
    /\ \A i \in 1 .. Len(p.done) : ~IsChapter(p.done[i].id) /\ ~Taken(p.ask.on, p.done[i].num)
    /\ \A i, j \in 1 .. Len(p.done) :
          i # j => p.done[i].id # p.done[j].id /\ p.done[i].num # p.done[j].num
    /\ p.ask.on = Absent \/ IsNovel(p.ask.on)
    /\ chapter_mod_access_insert(p.ask.user, p.ask.on)
    /\ p.errors = IF p.ask.op = "create_chapter" THEN CreateErrors ELSE UploadErrors

InsertOK(p) ==
    /\ p = [at |-> "insert", ask |-> p.ask, work |-> p.work, id |-> p.id, todo |-> p.todo,
            done |-> p.done, errors |-> p.errors]
    /\ p.ask.user \in User /\ p.ask.bad = "none"
    /\ IsCreate(p) \/ IsGrouping(p) \/ IsUpload(p)
    /\ IsCreate(p) => CreateOK(p)
    /\ IsGrouping(p) => GroupingOK(p)
    /\ IsUpload(p) => UploadOK(p)

\* A request that is to be refused: what refused it still does, for rights change only
\* with new novels and a row that is gone does not come back.
Asking(p, op, kind, found, errors) ==
    p.ask.op = op /\ p.kind = kind /\ p.found = found /\ p.errors = errors

NovelQueryOK(p) ==
    /\ p.ask.on = Absent \/ IsNovel(p.ask.on)
    /\ \/ /\ Asking(p, "update_novel", "novel", "InsufficientPermissions",
                    [NovelNotFound |-> 404, InsufficientPermissions |-> 401, DataTooLong |-> 400])
          /\ p.ask.on = Absent \/ ~novel_mod_access_update(p.ask.user, p.ask.on)
       \/ /\ Asking(p, "create_chapter", "novel", "InsufficientPermissions", CreateErrors)
          /\ ~chapter_mod_access_insert(p.ask.user, p.ask.on)
       \/ Asking(p, "read_chapters_by_novel", "novel", "none", [NovelNotFound |-> 404])

ChapterChanges == {"update_chapter", "delete_chapter", "action_publish_chapter", "update_chapter_content"}

ChapterQueryOK(p) ==
    \/ /\ Asking(p, "update_chapter", "chapter", "InsufficientPermissions",
                 [ChapterNotFound |-> 404, InsufficientPermissions |-> 401, DataTooLong |-> 400])
       /\ ~MayChange(p.ask.user, p.ask.on)
    \/ /\ Asking(p, "delete_chapter", "chapter", "InsufficientPermissions",
                 [ChapterNotFound |-> 404, InsufficientPermissions |-> 401, ChapterDeleteFailed |-> 500])
       /\ ~(IsChapter(p.ask.on) /\ chapter_mod_access_delete(p.ask.user, p.ask.on))
    \/ /\ Asking(p, "action_publish_chapter", "chapter", "InsufficientPermissions",
                 [ChapterNotFound |-> 404, InsufficientPermissions |-> 401])
       /\ ~MayChange(p.ask.user, p.ask.on)
    \/ /\ Asking(p, "update_chapter_content", "content_status", "InsufficientPermissions",
                 [ChapterContentNotFound |-> 404, ChapterContentOutdated |-> 409,
                  InsufficientPermissions |-> 401])
       /\ ~MayChange(p.ask.user, p.ask.on)
    \/ Asking(p, "read_chapter_content", "chapter", "ChapterContentNotFound",
              [ChapterNotFound |-> 404, ChapterContentNotFound |-> 404])

WorkQueryOK(p) ==
    \/ /\ Asking(p, "update_source_work", "source_work", "InsufficientPermissions",
                 [SourceWorkNotFound |-> 404, InsufficientPermissions |-> 401, DataTooLong |-> 400])
       /\ p.ask.user \in Admin => p.ask.on = Absent
    \/ Asking(p, "read_novels_by_source_work", "source_work", "none", [SourceWorkNotFound |-> 404])

\* An edit: the version that it found is there as long as the chapter is, and is the
\* latest one or followed by the version that the edit is about to insert; once that is
\* inserted, the chapter stays and no other version comes.
EditAt == {"revise", "port", "store"}
StoreAt == {"port", "store"}
ContentErrors ==
    [ChapterContentNotFound |-> 404, ChapterContentOutdated |-> 409, InsufficientPermissions |-> 401]
Newest(c, v) == \A cc \in chapter_contents : cc[1] = c => cc[2] <= v

VersionOK(p) ==
    /\ chapters[p.ask.on] # None =>
          /\ p.ask.arg \in chapter_contents
          /\ Revised(p.ask.arg) \in chapter_contents \/ Newest(p.ask.on, p.ask.arg[2])
    /\ p.at \in StoreAt => chapters[p.ask.on] # None /\ Newest(p.ask.on, p.ask.arg[2])
    /\ p.at = "store" => p.ported \subseteq {d \in label_datas : <<d[2], d[3]>> = p.ask.arg}

EditOK(p) ==
    /\ p = [at |-> p.at, ask |-> p.ask, ported |-> p.ported, errors |-> p.errors]
    /\ p.ask.op = "update_chapter_content" /\ p.ask.user \in User /\ p.errors = ContentErrors
    /\ p.ask.on \in Chapter /\ p.ask.arg[2] \in Nat \ {0} /\ p.ask.arg = <<p.ask.on, p.ask.arg[2]>>
    /\ chapters[p.ask.on] # None => MayChange(p.ask.user, p.ask.on)
    /\ VersionOK(p)

CallOK(p) ==
    /\ p.at = "insert" => InsertOK(p)
    /\ p.at = "query" => NovelQueryOK(p) \/ ChapterQueryOK(p) \/ WorkQueryOK(p)
    /\ p.at \in EditAt => EditOK(p)
    /\ p.at = "novels" => /\ p.ask.op = "read_source_works" /\ p.errors = <<>>
                          /\ p.works \subseteq source_works \cap p.ask.arg

\* Requests insert neither the same id nor the same number of a novel, no chapter that a
\* refused request or an edit named, and no two versions of one chapter.
NameAt == {"query", "revise", "port", "store"}
NumsOf(p) == {p.done[i].num : i \in DOMAIN p.done}
Apart(p, q) ==
    /\ p.at = "insert" /\ q.at = "insert" =>
          /\ IsCreate(p) /\ IsCreate(q) =>
                p.id # q.id /\ (p.ask.on = None /\ q.ask.on = None => p.work # q.work)
          /\ IsGrouping(p) /\ IsGrouping(q) => p.id # q.id
          /\ IsUpload(p) /\ IsUpload(q) =>
                /\ Inserted(p) \cap Inserted(q) = {}
                /\ p.ask.on = q.ask.on => NumsOf(p) \cap NumsOf(q) = {}
    /\ p.at = "insert" /\ q.at \in NameAt /\ IsUpload(p) /\ q.ask.op \in ChapterChanges =>
          q.ask.on \notin Inserted(p)
    /\ p.at \in StoreAt /\ q.at \in StoreAt => p.ask.on # q.ask.on

CallsOK ==
    /\ call = [r \in Call |-> call[r]]
    /\ \A r \in Call : \A p \in {call[r]} : CallOK(p)
    /\ \A r, s \in Call : r # s => Apart(call[r], call[s])

IInv == TablesOK /\ WholeRows /\ CallsOK
-----------------------------------------------------------------------------
(* Versions: a finite table has a latest one.                               *)

\* A finite set of numbers has a greatest one.
LEMMA GreatestOf ==
  ASSUME NEW S \in SUBSET Nat, IsFiniteSet(S), S # {}
  PROVE  \E m \in S : \A i \in S : i <= m
<1> DEFINE Endless(U) == U # {} /\ IsFiniteSet(U) /\ \A m \in U : \E i \in U : ~(i <= m)
           T == {n \in Nat : \E U \in SUBSET Nat : Endless(U) /\ Cardinality(U) = n}
<1>1. SUFFICES ASSUME Endless(S) PROVE FALSE
  OBVIOUS
<1>2. Cardinality(S) \in T
  BY <1>1, FS_CardinalityType
<1>3. PICK n \in T : \A y \in T : ~(<<y, n>> \in OpToRel(<, Nat))
  BY <1>2, NatLessThanWellFounded, WFMin
<1>4. PICK U \in SUBSET Nat : Endless(U) /\ Cardinality(U) = n
  BY <1>3
<1>5. PICK m \in U : TRUE
  BY <1>4
<1>6. PICK k \in U : ~(k <= m)
  BY <1>4
<1> DEFINE V == U \ {m}
<1>7. k \in V /\ V \in SUBSET Nat
  BY <1>6
<1>8. IsFiniteSet(V) /\ Cardinality(V) = n - 1
  BY <1>4, FS_RemoveElement
<1>9. n - 1 \in Nat /\ n - 1 < n
  <2>1. Cardinality(V) \in Nat
    BY <1>8, FS_CardinalityType
  <2>2. n \in Nat
    OBVIOUS
  <2> QED
    BY <1>8, <2>1, <2>2
<1>10. \A a \in V : \E i \in V : ~(i <= a)
  <2> SUFFICES ASSUME NEW a \in V PROVE \E i \in V : ~(i <= a)
    OBVIOUS
  <2>1. PICK i \in U : ~(i <= a)
    BY <1>4
  <2>2. CASE i # m
    BY <2>1, <2>2
  <2>3. CASE i = m
    <3>1. ~(k <= a)
      BY <2>1, <2>3, <1>6
    <3> QED
      BY <3>1, <1>7
  <2> QED
    BY <2>2, <2>3
<1>11. n - 1 \in T
  BY <1>7, <1>8, <1>9, <1>10
<1>12. ~(n - 1 < n)
  BY <1>3, <1>11, <1>9 DEF OpToRel
<1> QED
  BY <1>9, <1>12

LEMMA VersionsFinite ==
  ASSUME TablesOK, NEW c
  PROVE  VersionsOf(c) \subseteq Nat \ {0} /\ IsFiniteSet(VersionsOf(c))
<1> DEFINE X == {x \in chapter_contents : x[1] = c}
           f == [x \in X |-> x[2]]
<1>1. IsFiniteSet(X)
  BY FS_Subset DEF TablesOK
<1>2. f \in Surjection(X, VersionsOf(c))
  BY DEF VersionsOf, Surjection
<1> QED
  BY <1>1, <1>2, FS_Surjection DEF TablesOK, VersionsOf

LEMMA LatestIs ==
  ASSUME TablesOK, NEW c, NEW v, <<c, v>> \in chapter_contents
  PROVE  /\ <<c, Latest(c)>> \in chapter_contents /\ Latest(c) \in Nat \ {0}
         /\ \A w : <<c, w>> \in chapter_contents => w <= Latest(c)
<1>1. v \in VersionsOf(c)
  BY DEF VersionsOf
<1>2. \E m \in VersionsOf(c) : \A i \in VersionsOf(c) : i <= m
  BY <1>1, VersionsFinite, GreatestOf
<1>3. Latest(c) \in VersionsOf(c) /\ \A i \in VersionsOf(c) : i <= Latest(c)
  BY <1>2 DEF Latest
<1>4. \A w : <<c, w>> \in chapter_contents => w \in VersionsOf(c)
  BY DEF VersionsOf
<1>5. \A w \in VersionsOf(c) : <<c, w>> \in chapter_contents
  BY DEF VersionsOf, TablesOK
<1> QED
  BY <1>3, <1>4, <1>5, VersionsFinite
-----------------------------------------------------------------------------
(* What a request knows outlives the steps of the others.                     *)

\* A step of r that changes the tables: novels, their contributors, groups and source
\* works stay, a chapter stays in its novel, and what other requests are about to
\* insert, or have seen gone, is not there.
FreeFor(p) ==
    /\ p.at = "insert" =>
          /\ IsCreate(p) => novels'[p.id] = None /\ (p.ask.on = None => p.work \notin source_works')
          /\ IsGrouping(p) => label_groups'[p.id] = None
          /\ IsUpload(p) => \A i \in 1 .. Len(p.done) :
                /\ chapters'[p.done[i].id] = None
                /\ \A c \in Chapter : chapters'[c] # None =>
                      ~(chapters'[c].novel = p.ask.on /\ chapters'[c].num = p.done[i].num)
    /\ p.at \in NameAt /\ p.ask.op \in ChapterChanges /\ p.ask.on \in Chapter =>
          (chapters'[p.ask.on] # None => chapters[p.ask.on] # None)
    /\ p.at \in EditAt => VersionOK(p)'

Keeps(r) ==
    /\ source_works \subseteq source_works'
    /\ \A n \in Novel : novels[n] # None => /\ novels'[n] # None
                                            /\ novel_contributors'[n] = novel_contributors[n]
    /\ \A g \in Group : label_groups[g] # None => label_groups'[g] # None
    /\ \A c \in Chapter : chapters[c] # None /\ chapters'[c] # None =>
          chapters'[c].novel = chapters[c].novel
    /\ \A s \in Call \ {r} : FreeFor(call[s])

LEMMA CallIs ==
  ASSUME IInv, NEW r \in Call
  PROVE  CallOK(call[r])
BY DEF IInv, CallsOK

\* The rights of a contributor in a novel that exists.
LEMMA ContributesKept ==
  ASSUME IInv, NEW r, Keeps(r), NEW u, NEW n, NEW roles, n = Absent \/ IsNovel(n)
  PROVE  Contributes(u, n, roles)' <=> Contributes(u, n, roles)
BY AccessAssumption DEF Keeps, Contributes, IsNovel

LEMMA MayChangeKept ==
  ASSUME IInv, TablesOK', NEW r, Keeps(r), NEW u, NEW c,
         c \in Chapter => (chapters'[c] # None => chapters[c] # None)
  PROVE  /\ MayChange(u, c)' => MayChange(u, c)
         /\ (IsChapter(c) /\ chapter_mod_access_delete(u, c))'
              => IsChapter(c) /\ chapter_mod_access_delete(u, c)
         /\ IsChapter(c)' /\ MayChange(u, c) => MayChange(u, c)'
<1>1. CASE c \in Chapter /\ chapters'[c] # None
  <2>0. PICK n : n = chapters[c].novel
    OBVIOUS
  <2>1. chapters'[c].novel = n /\ IsChapter(c)
    BY <1>1, <2>0 DEF Keeps, IsChapter
  <2>2. IsNovel(n)
    BY <2>0, <2>1 DEF IInv, WholeRows, IsChapter
  <2>3. \A roles : Contributes(u, n, roles)' <=> Contributes(u, n, roles)
    BY <2>2, ContributesKept
  <2>4. \A roles : /\ Contributes(u, chapters[c].novel, roles)' <=> Contributes(u, n, roles)'
                   /\ Contributes(u, chapters[c].novel, roles) <=> Contributes(u, n, roles)
    BY <2>0, <2>1 DEF Contributes
  <2> QED
    BY <2>1, <2>3, <2>4 DEF MayChange, chapter_mod_access_update, chapter_mod_access_delete
<1>2. CASE ~(c \in Chapter /\ chapters'[c] # None)
  BY <1>2 DEF MayChange, IsChapter
<1> QED
  BY <1>1, <1>2
LEMMA DoneIs ==
  ASSUME NEW p, UploadOK(p), NEW i \in 1 .. Len(p.done)
  PROVE  p.done[i].id \in Chapter /\ p.done[i].num \in Number /\ p.done[i].public \in BOOLEAN
<1>1. p.done \in Seq(DoneRow)
  BY DEF UploadOK
<1>2. p.done[i] \in DoneRow
  BY <1>1
<1> QED
  BY <1>2 DEF DoneRow

LEMMA InsertKept ==
  ASSUME IInv, TablesOK', NEW r \in Call, Keeps(r), NEW s \in Call \ {r},
         NEW p, p = call[s], p.at = "insert"
  PROVE  InsertOK(p)'
<1>1. InsertOK(p)
  BY CallIs DEF CallOK
<1>2. FreeFor(p)
  BY DEF Keeps
<1>3. ASSUME IsCreate(p) PROVE CreateOK(p)'
  BY <1>1, <1>2, <1>3 DEF InsertOK, CreateOK, FreeFor, Keeps, IsNovel
<1>4. ASSUME IsGrouping(p) PROVE GroupingOK(p)'
  BY <1>1, <1>2, <1>4 DEF InsertOK, GroupingOK, FreeFor, Keeps, IsNovel, IsGroup
<1>5. ASSUME IsUpload(p) PROVE UploadOK(p)'
  <2>1. UploadOK(p)
    BY <1>1, <1>5 DEF InsertOK
  <2>2. p.ask.on = Absent \/ IsNovel(p.ask.on)
    BY <2>1 DEF UploadOK
  <2>3. (p.ask.on = Absent \/ IsNovel(p.ask.on))'
    BY <2>2 DEF Keeps, IsNovel
  <2>4. chapter_mod_access_insert(p.ask.user, p.ask.on)'
    BY <2>1, <2>2, ContributesKept DEF UploadOK, chapter_mod_access_insert
  <2>5. ASSUME NEW i \in 1 .. Len(p.done)
        PROVE  ~IsChapter(p.done[i].id)' /\ ~Taken(p.ask.on, p.done[i].num)'
    BY <1>2, <1>5, <2>5 DEF FreeFor, IsChapter, Taken
  <2> QED
    BY <2>1, <2>3, <2>4, <2>5 DEF UploadOK
<1> QED
  BY <1>1, <1>3, <1>4, <1>5 DEF InsertOK, IsCreate, IsGrouping, IsUpload

LEMMA QueryKept ==
  ASSUME IInv, TablesOK', NEW r \in Call, Keeps(r), NEW s \in Call \ {r},
         NEW p, p = call[s], p.at = "query"
  PROVE  (NovelQueryOK(p) \/ ChapterQueryOK(p) \/ WorkQueryOK(p))'
<1>1. CASE NovelQueryOK(p)
  <2>1. p.ask.on = Absent \/ IsNovel(p.ask.on)
    BY <1>1 DEF NovelQueryOK
  <2>2. (p.ask.on = Absent \/ IsNovel(p.ask.on))'
    BY <2>1 DEF Keeps, IsNovel
  <2>3. \A roles : Contributes(p.ask.user, p.ask.on, roles)' <=> Contributes(p.ask.user, p.ask.on, roles)
    BY <2>1, ContributesKept
  <2> QED
    BY <1>1, <2>2, <2>3 DEF NovelQueryOK, Asking, novel_mod_access_update, chapter_mod_access_insert
<1>2. CASE ChapterQueryOK(p)
  <2>1. FreeFor(p)
    BY DEF Keeps
  <2>2. CASE p.ask.op \in ChapterChanges
    <3>1. p.ask.on \in Chapter => (chapters'[p.ask.on] # None => chapters[p.ask.on] # None)
      BY <2>1, <2>2 DEF FreeFor, NameAt
    <3>2. /\ MayChange(p.ask.user, p.ask.on)' => MayChange(p.ask.user, p.ask.on)
          /\ (IsChapter(p.ask.on) /\ chapter_mod_access_delete(p.ask.user, p.ask.on))'
               => IsChapter(p.ask.on) /\ chapter_mod_access_delete(p.ask.user, p.ask.on)
      BY <3>1, MayChangeKept
    <3> QED
      BY <1>2, <3>2 DEF ChapterQueryOK, Asking
  <2>3. CASE p.ask.op \notin ChapterChanges
    BY <1>2, <2>3 DEF ChapterQueryOK, Asking, ChapterChanges
  <2> QED
    BY <2>2, <2>3
<1>3. CASE WorkQueryOK(p)
  BY <1>3 DEF WorkQueryOK, Asking
<1> QED
  BY <1>1, <1>2, <1>3, CallIs DEF CallOK

LEMMA EditKept ==
  ASSUME IInv, TablesOK', NEW r \in Call, Keeps(r), NEW s \in Call \ {r},
         NEW p, p = call[s], p.at \in EditAt
  PROVE  EditOK(p)'
<1>1. EditOK(p)
  BY CallIs DEF CallOK
<1>2. VersionOK(p)' /\ (chapters'[p.ask.on] # None => chapters[p.ask.on] # None)
  <2>1. FreeFor(p)
    BY DEF Keeps
  <2>2. p.at \in NameAt /\ p.ask.op \in ChapterChanges /\ p.ask.on \in Chapter
    BY <1>1 DEF EditAt, NameAt, ChapterChanges, EditOK
  <2> QED
    BY <2>1, <2>2 DEF FreeFor
<1>3. chapters'[p.ask.on] # None => MayChange(p.ask.user, p.ask.on)'
  BY <1>1, <1>2, MayChangeKept DEF EditOK, IsChapter
<1> QED
  BY <1>1, <1>2, <1>3 DEF EditOK

\* A step of r leaves what the others know.
LEMMA CallsKept ==
  ASSUME IInv, TablesOK', NEW r \in Call, Keeps(r), NEW x, Becomes(r, x),
         CallOK(x)', \A s \in Call \ {r} : Apart(x, call[s]) /\ Apart(call[s], x)
  PROVE  CallsOK'
<1>1. call' = [s \in Call |-> IF s = r THEN x ELSE call[s]]
  BY DEF Becomes, IInv, CallsOK
<1>2. ASSUME NEW s \in Call, NEW p \in {call'[s]} PROVE CallOK(p)'
  <2>1. CASE s = r
    BY <1>1, <1>2, <2>1
  <2>2. CASE s # r
    <3>1. p = call[s]
      BY <1>1, <1>2, <2>2
    <3>2. p.at = "insert" => InsertOK(p)'
      BY <2>2, <3>1, InsertKept
    <3>3. p.at = "query" => (NovelQueryOK(p) \/ ChapterQueryOK(p) \/ WorkQueryOK(p))'
      BY <2>2, <3>1, QueryKept
    <3>4. p.at = "novels" => /\ p.ask.op = "read_source_works" /\ p.errors = <<>>
                             /\ p.works \subseteq source_works' \cap p.ask.arg
      BY <3>1, CallIs DEF CallOK, Keeps
    <3>5. p.at \in EditAt => EditOK(p)'
      BY <2>2, <3>1, EditKept
    <3> QED
      BY <3>2, <3>3, <3>4, <3>5 DEF CallOK
  <2> QED
    BY <2>1, <2>2
<1>3. ASSUME NEW s \in Call, NEW t \in Call, s # t PROVE Apart(call'[s], call'[t])
  <2>1. CASE s # r /\ t # r
    BY <1>1, <1>3, <2>1 DEF IInv, CallsOK
  <2>2. CASE s = r \/ t = r
    BY <1>1, <1>3, <2>2
  <2> QED
    BY <2>1, <2>2
<1> QED
  BY <1>1, <1>2, <1>3 DEF CallsOK

LEMMA CallsKeptAtEnd ==
  ASSUME IInv, TablesOK', NEW r \in Call, Keeps(r), NEW x, x.at \in {"answered", "idle"},
         Becomes(r, x)
  PROVE  CallsOK'
<1>1. CallOK(x)' /\ \A s \in Call \ {r} : Apart(x, call[s]) /\ Apart(call[s], x)
  BY DEF CallOK, Apart, EditAt, NameAt, StoreAt
<1> QED
  BY <1>1, CallsKept

\* What an edit knows of the tables outlives a step that adds nothing to the contents of
\* a chapter that stays, keeps the label data, and keeps the chapter of a new version.
LEMMA VersionKept ==
  ASSUME IInv, NEW s \in Call, NEW p, p = call[s], p.at \in EditAt,
         \A c \in Chapter : chapters'[c] # None => chapters[c] # None,
         \A cc : cc[1] \in Chapter /\ chapters'[cc[1]] # None =>
                   (cc \in chapter_contents' <=> cc \in chapter_contents),
         label_datas \subseteq label_datas',
         p.at \in StoreAt /\ p.ask.on \in Chapter =>
            (chapters[p.ask.on] # None => chapters'[p.ask.on] # None)
  PROVE  VersionOK(p)'
<1>1. EditOK(p) /\ VersionOK(p)
  BY CallIs DEF CallOK, EditOK
<1>2. /\ p.ask.on \in Chapter /\ p.ask.arg[1] = p.ask.on /\ Revised(p.ask.arg)[1] = p.ask.on
      /\ chapters'[p.ask.on] # None => chapters[p.ask.on] # None
  BY <1>1 DEF EditOK, Revised
<1>3. chapters'[p.ask.on] # None =>
        /\ p.ask.arg \in chapter_contents' <=> p.ask.arg \in chapter_contents
        /\ Revised(p.ask.arg) \in chapter_contents' <=> Revised(p.ask.arg) \in chapter_contents
        /\ Newest(p.ask.on, p.ask.arg[2]) => Newest(p.ask.on, p.ask.arg[2])'
  BY <1>2 DEF Newest
<1>4. p.at \in StoreAt => chapters'[p.ask.on] # None
  BY <1>1, <1>2 DEF VersionOK
<1> QED
  BY <1>1, <1>2, <1>3, <1>4 DEF VersionOK

LEMMA QuietKeeps ==
  ASSUME IInv, NEW r \in Call, UNCHANGED tables
  PROVE  TablesOK' /\ WholeRows' /\ Keeps(r)
<1>1. TablesOK'
  BY DEF IInv, TablesOK, tables
<1>2. WholeRows'
  BY DEF IInv, WholeRows, tables, IsNovel, IsChapter, IsGroup
<1>3. ASSUME NEW s \in Call \ {r}, NEW p, p = call[s] PROVE FreeFor(p)
  <2>1. CallOK(p)
    BY <1>3, CallIs
  <2>2. ASSUME p.at = "insert" PROVE InsertOK(p)
    BY <2>1, <2>2 DEF CallOK
  <2>3. ASSUME p.at = "insert", IsCreate(p)
        PROVE  novels'[p.id] = None /\ (p.ask.on = None => p.work \notin source_works')
    BY <2>2, <2>3 DEF InsertOK, CreateOK, IsNovel, tables
  <2>4. ASSUME p.at = "insert", IsGrouping(p) PROVE label_groups'[p.id] = None
    BY <2>2, <2>4 DEF InsertOK, GroupingOK, IsGroup, tables
  <2>5. ASSUME p.at = "insert", IsUpload(p), NEW i \in 1 .. Len(p.done)
        PROVE  /\ chapters'[p.done[i].id] = None
               /\ \A c \in Chapter : chapters'[c] # None =>
                     ~(chapters'[c].novel = p.ask.on /\ chapters'[c].num = p.done[i].num)
    <3>1. UploadOK(p)
      BY <2>2, <2>5 DEF InsertOK
    <3>2. p.done[i].id \in Chapter
      BY <3>1, DoneIs
    <3>3. ~IsChapter(p.done[i].id) /\ ~Taken(p.ask.on, p.done[i].num)
      BY <3>1 DEF UploadOK
    <3> QED
      BY <3>2, <3>3 DEF IsChapter, Taken, tables
  <2>6. /\ chapters' = chapters /\ chapter_contents' = chapter_contents
        /\ label_datas' = label_datas
    BY DEF tables
  <2>7. p.at \in EditAt => VersionOK(p)'
    BY <1>3, <2>6, VersionKept
  <2> QED
    BY <2>3, <2>4, <2>5, <2>6, <2>7 DEF FreeFor
<1> QED
  BY <1>1, <1>2, <1>3 DEF Keeps, tables

\* A step that changes no table and ends the request or leaves it free.
LEMMA Ends ==
  ASSUME IInv, NEW r \in Call, UNCHANGED tables, NEW x, x.at \in {"answered", "idle"},
         Becomes(r, x)
  PROVE  IInv'
BY QuietKeeps, CallsKeptAtEnd DEF IInv

\* A step that changes no table, after which the request goes on.
LEMMA GoesOn ==
  ASSUME IInv, NEW r \in Call, UNCHANGED tables, NEW x, Becomes(r, x),
         CallOK(x)', \A s \in Call \ {r} : Apart(x, call[s]) /\ Apart(call[s], x)
  PROVE  IInv'
BY QuietKeeps, CallsKept DEF IInv

LEMMA AnswersEnds ==
  ASSUME IInv, NEW r \in Call, UNCHANGED tables, NEW ask, NEW reply, Answers(r, ask, reply)
  PROVE  IInv'
<1> DEFINE x == [at |-> "answered", ask |-> ask, status |-> reply.status, rows |-> reply.rows]
<1>1. x.at = "answered" /\ Becomes(r, x)
  BY DEF Answers
<1> QED
  BY <1>1, Ends

LEMMA RaisesEnds ==
  ASSUME IInv, NEW r \in Call, UNCHANGED tables, NEW ask, NEW exception, NEW errors,
         Raises(r, ask, exception, errors)
  PROVE  IInv'
BY AnswersEnds DEF Raises
-----------------------------------------------------------------------------
(* The ids of new rows.                                                     *)
LEMMA FreshIs ==
  ASSUME NEW S, NEW used, NEW x \in Fresh(S, used)
  PROVE  x \in S /\ x \notin used
BY DEF Fresh

LEMMA NewWorkIs ==
  ASSUME NEW w \in NewWork
  PROVE  /\ w \in Work /\ w \notin source_works
         /\ \A s \in Call : call[s].at = "insert" => call[s].work # w
BY FreshIs DEF NewWork, Pending, Busy

LEMMA NewNovelIs ==
  ASSUME NEW n \in NewNovel
  PROVE  /\ n \in Novel /\ ~IsNovel(n)
         /\ \A s \in Call : call[s].at = "insert" => call[s].id # n
BY FreshIs DEF NewNovel, Pending, Busy

LEMMA NewGroupIs ==
  ASSUME NEW g \in NewGroup
  PROVE  /\ g \in Group /\ ~IsGroup(g)
         /\ \A s \in Call : call[s].at = "insert" => call[s].id # g
BY FreshIs DEF NewGroup, Pending, Busy

LEMMA NewChapterIs ==
  ASSUME NEW c \in NewChapter
  PROVE  /\ c \in Chapter /\ ~IsChapter(c)
         /\ \A s \in Call : call[s].at = "insert" => c \notin Inserted(call[s])
         /\ \A s \in Call : call[s].at \in NameAt => call[s].ask.on # c
<1> DEFINE used == {d \in Chapter : IsChapter(d)} \cup (UNION {Inserted(p) : p \in Pending})
                     \cup {call[s].ask.on : s \in {t \in Call : Busy(t, "query") \/ Edits(t)}}
<1>1. c \in Chapter /\ c \notin used
  BY FreshIs DEF NewChapter
<1>0. c \notin {call[t].ask.on : t \in {v \in Call : Busy(v, "query") \/ Edits(v)}}
  BY <1>1
<1>2. ASSUME NEW s \in Call, call[s].at = "insert" PROVE c \notin Inserted(call[s])
  <2>1. call[s] \in Pending
    BY <1>2 DEF Pending, Busy
  <2> QED
    BY <1>1, <2>1
<1>3. ASSUME NEW s \in Call, call[s].at \in NameAt PROVE call[s].ask.on # c
  <2>1. s \in {t \in Call : Busy(t, "query") \/ Edits(t)}
    BY <1>3 DEF Busy, Edits, NameAt
  <2>2. call[s].ask.on \in {call[t].ask.on : t \in {v \in Call : Busy(v, "query") \/ Edits(v)}}
    BY <2>1
  <2> QED
    BY <1>0, <2>2
<1> QED
  BY <1>1, <1>2, <1>3

-----------------------------------------------------------------------------
(* The steps that change the tables.                                        *)

\* What FreeFor asks of a step that leaves some of the tables.
LEMMA FreeByInsert ==
  ASSUME IInv, NEW s \in Call, NEW p, p = call[s],
         p.at = "insert" /\ IsCreate(p) => novels'[p.id] = novels[p.id],
         p.at = "insert" /\ IsCreate(p) /\ p.ask.on = None => p.work \notin source_works' \ source_works,
         p.at = "insert" /\ IsGrouping(p) => label_groups'[p.id] = label_groups[p.id],
         \A c \in Chapter : chapters'[c] # None => chapters[c] # None,
         \A c \in Chapter : chapters'[c] # None => /\ chapters'[c].novel = chapters[c].novel
                                                   /\ chapters'[c].num = chapters[c].num,
         \A cc : cc[1] \in Chapter /\ chapters'[cc[1]] # None =>
                   (cc \in chapter_contents' <=> cc \in chapter_contents),
         label_datas \subseteq label_datas',
         p.at \in StoreAt /\ p.ask.on \in Chapter =>
            (chapters[p.ask.on] # None => chapters'[p.ask.on] # None)
  PROVE  FreeFor(p)
<1>1. CallOK(p)
  BY CallIs
<1>2. ASSUME p.at = "insert" PROVE InsertOK(p)
  BY <1>1, <1>2 DEF CallOK
<1>3. ASSUME p.at = "insert", IsCreate(p)
      PROVE  novels'[p.id] = None /\ (p.ask.on = None => p.work \notin source_works')
  BY <1>2, <1>3 DEF InsertOK, CreateOK, IsNovel
<1>4. ASSUME p.at = "insert", IsGrouping(p) PROVE label_groups'[p.id] = None
  BY <1>2, <1>4 DEF InsertOK, GroupingOK, IsGroup
<1>5. ASSUME p.at = "insert", IsUpload(p), NEW i \in 1 .. Len(p.done)
      PROVE  /\ chapters'[p.done[i].id] = None
             /\ \A c \in Chapter : chapters'[c] # None =>
                   ~(chapters'[c].novel = p.ask.on /\ chapters'[c].num = p.done[i].num)
  <2>1. UploadOK(p)
    BY <1>2, <1>5 DEF InsertOK
  <2>2. p.done[i].id \in Chapter
    BY <2>1, DoneIs
  <2>3. ~IsChapter(p.done[i].id) /\ ~Taken(p.ask.on, p.done[i].num)
    BY <2>1 DEF UploadOK
  <2> QED
    BY <2>2, <2>3 DEF IsChapter, Taken
<1>6. ASSUME p.at \in NameAt, p.ask.op \in ChapterChanges, p.ask.on \in Chapter
      PROVE  chapters'[p.ask.on] # None => chapters[p.ask.on] # None
  BY <1>6
<1>7. p.at \in EditAt => VersionOK(p)'
  BY VersionKept
<1> QED
  BY <1>3, <1>4, <1>5, <1>6, <1>7 DEF FreeFor

LEMMA InsertSourceWorkStep ==
  ASSUME IInv, NEW r \in Call, NEW ask, NEW errors, insert_source_work(r, ask, errors)
  PROVE  IInv'
<1>1. CASE UNCHANGED tables /\ Raises(r, ask, "DataTooLong", errors)
  BY <1>1, RaisesEnds
<1>2. CASE /\ \E w \in NewWork : /\ source_works' = source_works \cup {w}
                                 /\ Answers(r, ask, Reply(Ok({w}), errors))
           /\ UNCHANGED <<novels, novel_contributors, chapters, chapter_contents,
                          label_groups, label_contributors, label_datas>>
  <2>1. PICK w \in NewWork : /\ source_works' = source_works \cup {w}
                             /\ Answers(r, ask, Reply(Ok({w}), errors))
    BY <1>2
  <2>2. /\ w \in Work
        /\ \A s \in Call : call[s].at = "insert" => call[s].work # w
    BY NewWorkIs
  <2>3. TablesOK'
    BY <1>2, <2>1, <2>2 DEF IInv, TablesOK
  <2>4. WholeRows'
    BY <1>2, <2>1 DEF IInv, WholeRows, IsNovel, IsChapter, IsGroup
  <2>5. \A s \in Call : FreeFor(call[s])
    BY <1>2, <2>1, <2>2, FreeByInsert
  <2>6. Keeps(r)
    BY <1>2, <2>1, <2>5 DEF Keeps
  <2> QED
    BY <2>1, <2>3, <2>4, <2>6, CallsKeptAtEnd DEF Answers, IInv
<1> QED
  BY <1>1, <1>2 DEF insert_source_work

\* Other tables than those of novels, groups, source works and chapters say nothing of
\* what a request knows.
LEMMA ModifyNovelStep ==
  ASSUME IInv, NEW r \in Call, NEW ask, NEW errors, ask.arg \in Visibility,
         /\ IsNovel(ask.on) /\ novels' = [novels EXCEPT ![ask.on].visibility = ask.arg]
         /\ Answers(r, ask, Reply(Ok({ask.on}), errors))
         /\ UNCHANGED <<source_works, novel_contributors, chapters, chapter_contents,
                        label_groups, label_contributors, label_datas>>
  PROVE  IInv'
<1> DEFINE row == [novels[ask.on] EXCEPT !.visibility = ask.arg]
<1>1. novels[ask.on] \in NovelRow /\ ask.on \in Novel
  BY DEF IInv, TablesOK, IsNovel
<1>2. row \in NovelRow /\ row.work = novels[ask.on].work /\ row # None
  BY <1>1, RowAssumption DEF NovelRow
<1>3. novels' = [n \in Novel |-> IF n = ask.on THEN row ELSE novels[n]]
  BY DEF IInv, TablesOK
<1> HIDE DEF row
<1>4. TablesOK'
  BY <1>2, <1>3 DEF IInv, TablesOK
<1>5. \A n \in Novel : /\ IsNovel(n)' <=> IsNovel(n)
                       /\ IsNovel(n) => novels'[n].work = novels[n].work
  BY <1>1, <1>2, <1>3 DEF IsNovel
<1>6. WholeRows'
  BY <1>5 DEF IInv, WholeRows, IsNovel, IsChapter, IsGroup
<1>7. ASSUME NEW s \in Call, NEW p, p = call[s] PROVE FreeFor(p)
  <2>1. CallOK(p)
    BY <1>7, CallIs
  <2>2. p.at = "insert" /\ IsCreate(p) => novels'[p.id] = novels[p.id]
    BY <2>1, <1>3 DEF CallOK, InsertOK, CreateOK, IsNovel
  <2> QED
    BY <1>7, <2>2, FreeByInsert
<1>8. Keeps(r)
  BY <1>3, <1>2, <1>7 DEF Keeps
<1> QED
  BY <1>4, <1>6, <1>8, CallsKeptAtEnd DEF Answers, IInv

LEMMA PublishStep ==
  ASSUME IInv, NEW r \in Call, NEW ask, NEW errors,
         /\ IsChapter(ask.on) /\ chapters' = [chapters EXCEPT ![ask.on].public = TRUE]
         /\ Answers(r, ask, Reply(Ok({ask.on}), errors))
         /\ UNCHANGED <<source_works, novels, novel_contributors, chapter_contents,
                        label_groups, label_contributors, label_datas>>
  PROVE  IInv'
<1> DEFINE row == [chapters[ask.on] EXCEPT !.public = TRUE]
<1>1. chapters[ask.on] \in ChapterRow /\ ask.on \in Chapter
  BY DEF IInv, TablesOK, IsChapter
<1>2. /\ row \in ChapterRow /\ row.novel = chapters[ask.on].novel /\ row.num = chapters[ask.on].num
      /\ row # None
  BY <1>1, RowAssumption DEF ChapterRow
<1>3. chapters' = [c \in Chapter |-> IF c = ask.on THEN row ELSE chapters[c]]
  BY DEF IInv, TablesOK
<1> HIDE DEF row
<1>4. TablesOK'
  BY <1>2, <1>3 DEF IInv, TablesOK
<1>5. \A c \in Chapter : /\ chapters'[c] # None <=> chapters[c] # None
                         /\ chapters[c] # None => /\ chapters'[c].novel = chapters[c].novel
                                                  /\ chapters'[c].num = chapters[c].num
  BY <1>1, <1>2, <1>3 DEF IsChapter
<1>6. WholeRows'
  BY <1>5 DEF IInv, WholeRows, TablesOK, IsNovel, IsChapter, IsGroup
<1>7. \A s \in Call : FreeFor(call[s])
  BY <1>5, FreeByInsert
<1>8. Keeps(r)
  BY <1>5, <1>7 DEF Keeps
<1> QED
  BY <1>4, <1>6, <1>8, CallsKeptAtEnd DEF Answers, IInv

LEMMA RemoveChapterStep ==
  ASSUME IInv, NEW r \in Call, NEW ask, NEW errors,
         /\ IsChapter(ask.on) /\ ~Referred(ask.on)
         /\ \A s \in Call : ~(Stores(s) /\ call[s].ask.on = ask.on)
         /\ chapters' = [chapters EXCEPT ![ask.on] = None]
         /\ chapter_contents' = {cc \in chapter_contents : cc[1] # ask.on}
         /\ Answers(r, ask, Reply(Ok({"success"}), errors))
         /\ UNCHANGED <<source_works, novels, novel_contributors,
                        label_groups, label_contributors, label_datas>>
  PROVE  IInv'
<1>1. chapters' = [c \in Chapter |-> IF c = ask.on THEN None ELSE chapters[c]]
  BY DEF IInv, TablesOK
<1>2. IsFiniteSet(chapter_contents')
  BY FS_Subset DEF IInv, TablesOK
<1>3. TablesOK'
  BY <1>1, <1>2 DEF IInv, TablesOK
<1>4. \A c \in Chapter : chapters'[c] # None => c # ask.on /\ chapters'[c] = chapters[c]
  BY <1>1
<1>5. WholeRows'
  <2>1. \A d \in label_datas' : IsGroup(d[1])' /\ <<d[2], d[3]>> \in chapter_contents'
    BY DEF IInv, WholeRows, TablesOK, Referred, IsGroup
  <2>2. \A c \in Chapter : chapters'[c] # None =>
           IsNovel(chapters[c].novel)' /\ <<c, 1>> \in chapter_contents'
    BY <1>4 DEF IInv, WholeRows, IsNovel, IsChapter
  <2>3. \A cc \in chapter_contents' : IsChapter(cc[1])'
    BY <1>1 DEF IInv, WholeRows, IsChapter
  <2> QED
    BY <1>4, <2>1, <2>2, <2>3 DEF IInv, WholeRows, IsNovel, IsChapter, IsGroup
<1>6. ASSUME NEW s \in Call, NEW p, p = call[s] PROVE FreeFor(p)
  <2>1. \A cc : cc[1] \in Chapter /\ chapters'[cc[1]] # None =>
                   (cc \in chapter_contents' <=> cc \in chapter_contents)
    BY <1>4
  <2>2. ASSUME p.at \in StoreAt, chapters[p.ask.on] # None PROVE chapters'[p.ask.on] # None
    <3>1. p.ask.on # ask.on
      BY <1>6, <2>2 DEF Stores, StoreAt
    <3>2. p.ask.on \in Chapter
      BY <1>6, <2>2, CallIs DEF CallOK, EditOK, EditAt, StoreAt
    <3> QED
      BY <1>1, <2>2, <3>1, <3>2
  <2> QED
    BY <1>4, <1>6, <2>1, <2>2, FreeByInsert
<1>7. Keeps(r)
  BY <1>4, <1>6 DEF Keeps
<1> QED
  BY <1>3, <1>5, <1>7, CallsKeptAtEnd DEF Answers, IInv

\* Label data only: novels, groups, source works, chapters and their contents stay.
LEMMA KeepsRows ==
  ASSUME IInv, NEW r \in Call, label_datas \subseteq label_datas',
         UNCHANGED <<source_works, novels, novel_contributors, chapters, chapter_contents, label_groups>>
  PROVE  Keeps(r)
<1>1. \A s \in Call : FreeFor(call[s])
  BY FreeByInsert
<1> QED
  BY <1>1 DEF Keeps

LEMMA CommitVersionStep ==
  ASSUME IInv, NEW r \in Call, CommitVersion(r)
  PROVE  IInv'
<1> DEFINE p == call[r]
           c == p.ask.on
           v == p.ask.arg[2]
<1>a. /\ EditOK(p) /\ VersionOK(p) /\ p.at = "store" /\ chapters[c] # None
      /\ c \in Chapter /\ v \in Nat \ {0} /\ p.ask.arg = <<c, v>> /\ Revised(p.ask.arg) = <<c, v + 1>>
  BY CallIs DEF CommitVersion, Busy, CallOK, EditAt, StoreAt, EditOK, VersionOK, Revised
<1>b. /\ <<c, v>> \in chapter_contents /\ Newest(c, v)
      /\ p.ported \subseteq label_datas
  BY <1>a DEF VersionOK, StoreAt
<1>c. /\ chapter_contents' = chapter_contents \cup {<<c, v + 1>>}
      /\ label_datas' = label_datas \cup {<<d[1], c, v + 1>> : d \in p.ported}
      /\ Answers(r, p.ask, Reply(Ok({<<Revised(p.ask.arg), p.ported>>}), p.errors))
      /\ UNCHANGED <<source_works, novels, novel_contributors, chapters,
                     label_groups, label_contributors>>
  BY <1>a DEF CommitVersion
<1> HIDE DEF p, c, v
<1>1. IsFiniteSet(chapter_contents')
  BY <1>c, FS_AddElement DEF IInv, TablesOK
<1>2. chapter_contents' \subseteq Chapter \X (Nat \ {0})
  BY <1>a, <1>c DEF IInv, TablesOK
<1>3. \A d \in label_datas' : d \in Group \X Chapter \X (Nat \ {0})
  BY <1>a, <1>b, <1>c DEF IInv, TablesOK
<1>4. TablesOK'
  BY <1>1, <1>2, <1>3, <1>c DEF IInv, TablesOK
<1>5. IsChapter(c)
  BY <1>a DEF IsChapter
<1>6. ASSUME NEW d \in label_datas' PROVE IsGroup(d[1])' /\ <<d[2], d[3]>> \in chapter_contents'
  <2>1. CASE d \in label_datas
    BY <1>c, <2>1 DEF IInv, WholeRows, IsGroup
  <2>2. CASE d \notin label_datas
    <3>1. PICK x \in label_datas : d = <<x[1], c, v + 1>>
      BY <1>b, <1>c, <1>6, <2>2
    <3>2. IsGroup(x[1]) /\ d[1] = x[1] /\ d[2] = c /\ d[3] = v + 1
      BY <3>1 DEF IInv, WholeRows
    <3> QED
      BY <1>c, <3>2 DEF IsGroup
  <2> QED
    BY <2>1, <2>2
<1>7. \A cc \in chapter_contents' : IsChapter(cc[1])'
  BY <1>5, <1>c DEF IInv, WholeRows, IsChapter
<1>8. WholeRows'
  BY <1>6, <1>7, <1>c DEF IInv, WholeRows, IsNovel, IsChapter, IsGroup
<1>9. ASSUME NEW s \in Call \ {r}, NEW q, q = call[s], q.at \in EditAt PROVE VersionOK(q)'
  <2>1. EditOK(q) /\ VersionOK(q)
    BY <1>9, CallIs DEF CallOK, EditOK
  <2>2. q.ask.on = c => q.at \notin StoreAt
    BY <1>a, <1>9 DEF p, c, IInv, CallsOK, Apart, StoreAt
  <2>3. CASE q.ask.on = c
    <3>1. q.ask.arg[2] \in Nat /\ Revised(q.ask.arg) = <<c, q.ask.arg[2] + 1>> /\ q.ask.arg \in chapter_contents
      BY <1>a, <2>1, <2>3 DEF EditOK, VersionOK, Revised
    <3>2. q.ask.arg[2] <= v
      BY <1>b, <2>1, <2>3, <3>1 DEF Newest, EditOK
    <3>3. Revised(q.ask.arg) \in chapter_contents \/ q.ask.arg[2] = v
      BY <1>a, <1>b, <2>1, <2>3, <3>1, <3>2 DEF VersionOK, Newest
    <3>4. Revised(q.ask.arg) \in chapter_contents'
      BY <1>c, <3>1, <3>3
    <3>5. q.at # "store" /\ q.ask.arg \in chapter_contents'
      BY <1>c, <2>2, <2>3, <3>1 DEF StoreAt
    <3> QED
      BY <2>2, <2>3, <3>4, <3>5 DEF VersionOK
  <2>4. CASE q.ask.on # c
    <3>1. Newest(q.ask.on, q.ask.arg[2]) => Newest(q.ask.on, q.ask.arg[2])'
      BY <1>c, <2>4 DEF Newest
    <3> QED
      BY <1>c, <2>1, <3>1 DEF VersionOK
  <2> QED
    BY <2>3, <2>4
<1>10. ASSUME NEW s \in Call \ {r}, NEW q, q = call[s] PROVE FreeFor(q)
  <2>1. CallOK(q)
    BY <1>10, CallIs
  <2>2. q.at = "insert" => InsertOK(q)
    BY <2>1 DEF CallOK
  <2>3. q.at = "insert" /\ IsCreate(q) => novels'[q.id] = None /\ (q.ask.on = None => q.work \notin source_works')
    BY <1>c, <2>2 DEF InsertOK, CreateOK, IsNovel
  <2>4. q.at = "insert" /\ IsGrouping(q) => label_groups'[q.id] = None
    BY <1>c, <2>2 DEF InsertOK, GroupingOK, IsGroup
  <2>5. ASSUME q.at = "insert", IsUpload(q), NEW i \in 1 .. Len(q.done)
        PROVE  /\ chapters'[q.done[i].id] = None
               /\ \A d \in Chapter : chapters'[d] # None =>
                     ~(chapters'[d].novel = q.ask.on /\ chapters'[d].num = q.done[i].num)
    <3>1. UploadOK(q)
      BY <2>2, <2>5 DEF InsertOK
    <3>2. q.done[i].id \in Chapter
      BY <3>1, DoneIs
    <3>3. ~IsChapter(q.done[i].id) /\ ~Taken(q.ask.on, q.done[i].num)
      BY <3>1 DEF UploadOK
    <3> QED
      BY <1>c, <3>2, <3>3 DEF IsChapter, Taken
  <2> QED
    BY <1>c, <1>9, <1>10, <2>3, <2>4, <2>5 DEF FreeFor
<1>11. Keeps(r)
  BY <1>c, <1>10 DEF Keeps
<1> QED
  BY <1>4, <1>8, <1>11, <1>c, CallsKeptAtEnd DEF Answers, IInv

LEMMA InsertLabelDataStep ==
  ASSUME IInv, NEW r \in Call, NEW ask, NEW errors, NEW g, NEW c, NEW v,
         /\ IsGroup(g) /\ <<c, v>> \in chapter_contents
         /\ label_datas' = label_datas \cup {<<g, c, v>>}
         /\ Answers(r, ask, Reply(Ok({<<g, c, v>>}), errors))
         /\ UNCHANGED <<source_works, novels, novel_contributors, chapters, chapter_contents,
                        label_groups, label_contributors>>
  PROVE  IInv'
<1>1. c \in Chapter /\ v \in Nat \ {0} /\ g \in Group
  BY DEF IInv, TablesOK, IsGroup
<1>2. TablesOK'
  BY <1>1 DEF IInv, TablesOK
<1>3. ASSUME NEW d \in label_datas' PROVE IsGroup(d[1])' /\ <<d[2], d[3]>> \in chapter_contents'
  <2>1. CASE d \in label_datas
    BY <2>1 DEF IInv, WholeRows, IsGroup
  <2>2. CASE d = <<g, c, v>>
    <3>1. d[1] = g /\ d[2] = c /\ d[3] = v
      BY <2>2
    <3> QED
      BY <3>1 DEF IsGroup
  <2> QED
    BY <2>1, <2>2
<1>4. WholeRows'
  BY <1>3 DEF IInv, WholeRows, IsNovel, IsChapter, IsGroup
<1> QED
  BY <1>2, <1>4, KeepsRows, CallsKeptAtEnd DEF Answers, IInv

LEMMA CommitNovelStep ==
  ASSUME IInv, NEW r \in Call, Busy(r, "insert"), call[r].ask.op = "create_novel", CommitNovel(r)
  PROVE  IInv'
<1>0. PICK p : p = call[r]
  OBVIOUS
<1>1. CallOK(p) /\ InsertOK(p) /\ CreateOK(p) /\ p.at = "insert" /\ IsCreate(p)
  BY <1>0, CallIs DEF Busy, CallOK, InsertOK, IsCreate
<1>2. p.id \in Novel /\ ~IsNovel(p.id) /\ p.ask.user \in User /\ p.work \in Work /\ p.ask.arg \in Visibility
  BY <1>1 DEF InsertOK, CreateOK, IInv, TablesOK
<1> DEFINE row == [visibility |-> p.ask.arg, work |-> p.work]
<1>3. row \in NovelRow /\ row # None /\ row.work = p.work
  BY <1>2, RowAssumption DEF NovelRow
<1>4. /\ source_works' = source_works \cup {p.work}
      /\ novels' = [n \in Novel |-> IF n = p.id THEN row ELSE novels[n]]
      /\ novel_contributors' = [n \in Novel |-> IF n = p.id
            THEN [novel_contributors[n] EXCEPT ![p.ask.user] = "owner"] ELSE novel_contributors[n]]
      /\ Answers(r, p.ask, Reply(Ok({p.id}), p.errors))
      /\ UNCHANGED <<chapters, chapter_contents, label_groups, label_contributors, label_datas>>
  BY <1>0 DEF CommitNovel, IInv, TablesOK
<1> HIDE DEF row
<1>5. TablesOK'
  <2>1. \A n \in Novel : novel_contributors'[n] \in [User -> Role \cup {None}]
    BY <1>2, <1>4 DEF IInv, TablesOK, Role
  <2>2. novel_contributors' \in [Novel -> [User -> Role \cup {None}]]
    BY <1>4, <2>1
  <2>3. novels' \in [Novel -> NovelRow \cup {None}]
    BY <1>3, <1>4 DEF IInv, TablesOK
  <2> QED
    BY <1>2, <1>4, <2>2, <2>3 DEF IInv, TablesOK
<1>6. \A n \in Novel : n # p.id => novels'[n] = novels[n] /\ novel_contributors'[n] = novel_contributors[n]
  BY <1>4
<1>7. novels'[p.id] = row /\ novel_contributors'[p.id][p.ask.user] = "owner"
  BY <1>2, <1>4 DEF IInv, TablesOK
<1>8. \A n \in Novel : novels[n] # None => novels'[n] # None
  BY <1>3, <1>6, <1>7
<1>9. WholeRows'
  <2>1. \A n \in Novel : IsNovel(n)' => /\ novels'[n].work \in source_works'
                                        /\ \E u \in User : novel_contributors'[n][u] = "owner"
    BY <1>2, <1>3, <1>4, <1>6, <1>7 DEF IInv, WholeRows, IsNovel
  <2>2. \A c \in Chapter : IsChapter(c)' => IsNovel(chapters[c].novel)' /\ <<c, 1>> \in chapter_contents'
    BY <1>4, <1>8 DEF IInv, WholeRows, IsNovel, IsChapter
  <2>3. \A g \in Group : IsGroup(g)' => /\ IsNovel(label_groups[g])'
                                        /\ \E u \in User : label_contributors'[g][u] = "owner"
    BY <1>4, <1>8 DEF IInv, WholeRows, IsNovel, IsGroup
  <2> QED
    BY <1>4, <2>1, <2>2, <2>3 DEF IInv, WholeRows, IsChapter, IsGroup
<1>10. ASSUME NEW s \in Call \ {r}, NEW q, q = call[s] PROVE FreeFor(q)
  <2>1. Apart(q, p)
    BY <1>0, <1>10 DEF IInv, CallsOK
  <2>2. CallOK(q)
    BY <1>10, CallIs
  <2>3. q.at = "insert" /\ IsCreate(q) => novels'[q.id] = novels[q.id]
    BY <1>1, <1>6, <2>1, <2>2 DEF Apart, CallOK, InsertOK, CreateOK
  <2>4. q.at = "insert" /\ IsCreate(q) /\ q.ask.on = None => q.work \notin source_works'
    BY <1>1, <1>4, <2>1, <2>2 DEF Apart, CallOK, InsertOK, CreateOK
  <2> QED
    BY <1>4, <1>10, <2>3, <2>4, FreeByInsert
<1>11. Keeps(r)
  BY <1>2, <1>4, <1>6, <1>8, <1>10 DEF Keeps, IsNovel
<1> QED
  BY <1>4, <1>5, <1>9, <1>11, CallsKeptAtEnd DEF Answers, IInv

LEMMA CommitGroupStep ==
  ASSUME IInv, NEW r \in Call, Busy(r, "insert"), call[r].ask.op = "create_label_group", CommitGroup(r)
  PROVE  IInv'
<1>0. PICK p : p = call[r]
  OBVIOUS
<1>1. CallOK(p) /\ InsertOK(p) /\ GroupingOK(p) /\ p.at = "insert" /\ IsGrouping(p)
  BY <1>0, CallIs DEF Busy, CallOK, InsertOK, IsGrouping
<1>2. p.id \in Group /\ p.ask.user \in User /\ IsNovel(p.ask.on) /\ p.ask.on \in Novel /\ p.ask.on # None
  BY <1>1, AccessAssumption DEF InsertOK, GroupingOK, IsNovel
<1>3. /\ label_groups' = [g \in Group |-> IF g = p.id THEN p.ask.on ELSE label_groups[g]]
      /\ label_contributors' = [g \in Group |-> IF g = p.id
            THEN [label_contributors[g] EXCEPT ![p.ask.user] = "owner"] ELSE label_contributors[g]]
      /\ Answers(r, p.ask, Reply(Ok({p.id}), p.errors))
      /\ UNCHANGED <<source_works, novels, novel_contributors, chapters, chapter_contents, label_datas>>
  BY <1>0 DEF CommitGroup, IInv, TablesOK
<1>4. TablesOK'
  <2>1. \A g \in Group : label_contributors'[g] \in [User -> Role \cup {None}]
    BY <1>2, <1>3 DEF IInv, TablesOK, Role
  <2>2. label_contributors' \in [Group -> [User -> Role \cup {None}]]
    BY <1>3, <2>1
  <2>3. label_groups' \in [Group -> Novel \cup {None}]
    BY <1>2, <1>3 DEF IInv, TablesOK
  <2> QED
    BY <1>3, <2>2, <2>3 DEF IInv, TablesOK
<1>5. \A g \in Group : g # p.id => label_groups'[g] = label_groups[g] /\ label_contributors'[g] = label_contributors[g]
  BY <1>3
<1>6. label_groups'[p.id] = p.ask.on /\ label_contributors'[p.id][p.ask.user] = "owner"
  BY <1>2, <1>3 DEF IInv, TablesOK
<1>7. \A g \in Group : label_groups[g] # None => label_groups'[g] # None
  BY <1>2, <1>5, <1>6
<1>8. WholeRows'
  <2>1. \A g \in Group : label_groups'[g] # None => /\ label_groups'[g] \in Novel
                                                    /\ novels[label_groups'[g]] # None
                                                    /\ \E u \in User : label_contributors'[g][u] = "owner"
    BY <1>2, <1>5, <1>6 DEF IInv, WholeRows, IsNovel, IsGroup
  <2>2. \A d \in label_datas' : IsGroup(d[1])' /\ <<d[2], d[3]>> \in chapter_contents'
    BY <1>3, <1>7 DEF IInv, WholeRows, IsGroup
  <2> QED
    BY <1>3, <2>1, <2>2 DEF IInv, WholeRows, IsNovel, IsChapter, IsGroup
<1>9. ASSUME NEW s \in Call \ {r}, NEW q, q = call[s] PROVE FreeFor(q)
  <2>1. Apart(q, p) /\ CallOK(q)
    BY <1>0, <1>9, CallIs DEF IInv, CallsOK
  <2>2. q.at = "insert" /\ IsGrouping(q) => label_groups'[q.id] = label_groups[q.id]
    BY <1>1, <1>5, <2>1 DEF Apart, CallOK, InsertOK, GroupingOK
  <2> QED
    BY <1>3, <1>9, <2>2, FreeByInsert
<1>10. Keeps(r)
  BY <1>3, <1>7, <1>9 DEF Keeps
<1> QED
  BY <1>3, <1>4, <1>8, <1>10, CallsKeptAtEnd DEF Answers, IInv

\* The chapters that a file becomes.
RowOf(p, c) == CHOOSE i \in DOMAIN p.done : p.done[i].id = c

LEMMA RowOfIs ==
  ASSUME NEW p, UploadOK(p), NEW c \in Inserted(p)
  PROVE  /\ RowOf(p, c) \in 1 .. Len(p.done) /\ p.done[RowOf(p, c)].id = c
         /\ c \in Chapter /\ ~IsChapter(c) /\ ~Taken(p.ask.on, p.done[RowOf(p, c)].num)
<1>1. DOMAIN p.done = 1 .. Len(p.done)
  BY DEF UploadOK
<1>2. \E i \in DOMAIN p.done : p.done[i].id = c
  BY DEF Inserted
<1>3. RowOf(p, c) \in DOMAIN p.done /\ p.done[RowOf(p, c)].id = c
  BY <1>2 DEF RowOf
<1>4. c \in Chapter
  BY <1>1, <1>3, DoneIs
<1> QED
  BY <1>1, <1>3, <1>4 DEF UploadOK

LEMMA CommitChaptersStep ==
  ASSUME IInv, NEW r \in Call, InsertsChapters(r), CommitChapters(r)
  PROVE  IInv'
<1>0. PICK p : p = call[r]
  OBVIOUS
<1>1. CallOK(p) /\ InsertOK(p) /\ UploadOK(p) /\ p.at = "insert" /\ IsUpload(p)
  BY <1>0, CallIs DEF InsertsChapters, Busy, CallOK, InsertOK, IsUpload
<1>2. CASE ~IsNovel(p.ask.on)
  BY <1>0, <1>2, RaisesEnds DEF CommitChapters
<1>3. CASE IsNovel(p.ask.on)
  <2> DEFINE row(c) == [novel |-> p.ask.on, num |-> p.done[RowOf(p, c)].num, public |-> p.done[RowOf(p, c)].public]
  <2>1. /\ chapters' = [c \in Chapter |-> IF c \in Inserted(p) THEN row(c) ELSE chapters[c]]
        /\ chapter_contents' = chapter_contents \cup {<<c, 1>> : c \in Inserted(p)}
        /\ Answers(r, p.ask, Reply(Ok(Inserted(p)), p.errors))
        /\ UNCHANGED <<source_works, novels, novel_contributors,
                       label_groups, label_contributors, label_datas>>
    BY <1>0, <1>3 DEF CommitChapters, RowOf
  <2>2. ASSUME NEW c \in Inserted(p)
        PROVE  /\ c \in Chapter /\ ~IsChapter(c) /\ row(c) \in ChapterRow /\ row(c) # None
               /\ row(c).novel = p.ask.on /\ row(c).num = p.done[RowOf(p, c)].num
               /\ ~Taken(p.ask.on, row(c).num) /\ row(c).num \in NumsOf(p)
    <3>1. /\ RowOf(p, c) \in 1 .. Len(p.done)
          /\ c \in Chapter /\ ~IsChapter(c) /\ ~Taken(p.ask.on, p.done[RowOf(p, c)].num)
      BY <1>1, RowOfIs
    <3>2. p.done[RowOf(p, c)].num \in Number /\ p.done[RowOf(p, c)].public \in BOOLEAN
      BY <1>1, <3>1, DoneIs
    <3>3. row(c) \in ChapterRow
      BY <1>3, <3>2 DEF ChapterRow, IsNovel
    <3>4. p.done[RowOf(p, c)].num \in NumsOf(p)
      BY <1>1, <3>1 DEF NumsOf, UploadOK
    <3> QED
      BY <3>1, <3>3, <3>4, RowAssumption
  <2>3. ASSUME NEW c \in Inserted(p), NEW d \in Inserted(p), c # d PROVE row(c).num # row(d).num
    <3>1. /\ RowOf(p, c) \in 1 .. Len(p.done) /\ p.done[RowOf(p, c)].id = c
          /\ RowOf(p, d) \in 1 .. Len(p.done) /\ p.done[RowOf(p, d)].id = d
      BY <1>1, RowOfIs
    <3> QED
      BY <1>1, <2>3, <3>1 DEF UploadOK
  <2>4. /\ \A c \in Inserted(p) : chapters'[c] = row(c)
        /\ \A c \in Chapter \ Inserted(p) : chapters'[c] = chapters[c]
    BY <2>1, <2>2
  <2> HIDE DEF row
  <2>5. chapters' \in [Chapter -> ChapterRow \cup {None}]
    BY <2>1, <2>2 DEF IInv, TablesOK
  <2>6. IsFiniteSet(chapter_contents')
    <3> DEFINE f == [i \in 1 .. Len(p.done) |-> <<p.done[i].id, 1>>]
    <3>1. DOMAIN p.done = 1 .. Len(p.done) /\ Len(p.done) \in Nat
      BY <1>1 DEF UploadOK
    <3>2. f \in Surjection(1 .. Len(p.done), {<<c, 1>> : c \in Inserted(p)})
      BY <3>1 DEF Surjection, Inserted
    <3>3. IsFiniteSet({<<c, 1>> : c \in Inserted(p)})
      BY <3>1, <3>2, FS_Interval, FS_Surjection
    <3> QED
      BY <2>1, <3>3, FS_Union DEF IInv, TablesOK
  <2>7. TablesOK'
    BY <2>1, <2>2, <2>5, <2>6 DEF IInv, TablesOK
  <2>8. WholeRows'
    <3>1. \A c \in Chapter : chapters'[c] # None => IsNovel(chapters[c].novel)' /\ <<c, 1>> \in chapter_contents'
      BY <1>3, <2>1, <2>2, <2>4 DEF IInv, WholeRows, IsNovel, IsChapter
    <3>2. ASSUME NEW c \in Chapter, NEW d \in Chapter, chapters'[c] # None, chapters'[d] # None,
                 chapters'[c].novel = chapters'[d].novel, chapters'[c].num = chapters'[d].num
          PROVE  c = d
      <4>1. CASE c \in Inserted(p) /\ d \in Inserted(p)
        BY <2>3, <2>4, <3>2, <4>1
      <4>2. CASE c \in Inserted(p) /\ d \notin Inserted(p)
        BY <2>2, <2>4, <3>2, <4>2 DEF Taken, IsChapter
      <4>3. CASE c \notin Inserted(p) /\ d \in Inserted(p)
        BY <2>2, <2>4, <3>2, <4>3 DEF Taken, IsChapter
      <4>4. CASE c \notin Inserted(p) /\ d \notin Inserted(p)
        BY <2>4, <3>2, <4>4 DEF IInv, WholeRows, IsChapter
      <4> QED
        BY <4>1, <4>2, <4>3, <4>4
    <3>3. \A cc \in chapter_contents' : IsChapter(cc[1])'
      BY <2>1, <2>2, <2>4 DEF IInv, WholeRows, IsChapter
    <3> QED
      BY <2>1, <3>1, <3>2, <3>3 DEF IInv, WholeRows, IsNovel, IsChapter, IsGroup
  <2>9. ASSUME NEW s \in Call \ {r}, NEW q, q = call[s] PROVE FreeFor(q)
    <3>1. Apart(p, q) /\ Apart(q, p) /\ CallOK(q)
      BY <1>0, <2>9, CallIs DEF IInv, CallsOK
    <3>2. ASSUME q.at = "insert", IsUpload(q), NEW i \in 1 .. Len(q.done)
          PROVE  /\ chapters'[q.done[i].id] = None
                 /\ \A c \in Chapter : chapters'[c] # None =>
                       ~(chapters'[c].novel = q.ask.on /\ chapters'[c].num = q.done[i].num)
      <4>1. UploadOK(q)
        BY <3>1, <3>2 DEF CallOK, InsertOK
      <4>2. q.done[i].id \in Chapter /\ ~IsChapter(q.done[i].id) /\ ~Taken(q.ask.on, q.done[i].num)
        BY <4>1, DoneIs DEF UploadOK
      <4>3. q.done[i].id \in Inserted(q) /\ q.done[i].num \in NumsOf(q)
        BY <4>1 DEF UploadOK, Inserted, NumsOf
      <4>4. /\ Inserted(p) \cap Inserted(q) = {}
            /\ p.ask.on = q.ask.on => NumsOf(p) \cap NumsOf(q) = {}
        BY <1>1, <3>1, <3>2 DEF Apart
      <4>5. chapters'[q.done[i].id] = None
        BY <2>4, <4>2, <4>3, <4>4 DEF IsChapter
      <4>6. ASSUME NEW c \in Chapter, chapters'[c] # None, chapters'[c].novel = q.ask.on,
                   chapters'[c].num = q.done[i].num
            PROVE  FALSE
        <5>1. CASE c \in Inserted(p)
          BY <2>2, <2>4, <4>3, <4>4, <4>6, <5>1
        <5>2. CASE c \notin Inserted(p)
          BY <2>4, <4>2, <4>6, <5>2 DEF Taken, IsChapter
        <5> QED
          BY <5>1, <5>2
      <4> QED
        BY <4>5, <4>6
    <3>3. q.at \in NameAt /\ q.ask.op \in ChapterChanges => q.ask.on \notin Inserted(p)
      BY <1>1, <3>1 DEF Apart
    <3>6. ASSUME q.at \in EditAt PROVE VersionOK(q)'
      <4>1. EditOK(q) /\ VersionOK(q)
        BY <3>1, <3>6 DEF CallOK, EditOK
      <4>2. q.ask.on \in Chapter /\ q.ask.on \notin Inserted(p)
        BY <3>3, <3>6, <4>1 DEF EditOK, EditAt, NameAt, ChapterChanges
      <4>3. chapters'[q.ask.on] = chapters[q.ask.on]
        BY <2>4, <4>2
      <4>4. Newest(q.ask.on, q.ask.arg[2]) => Newest(q.ask.on, q.ask.arg[2])'
        BY <2>1, <4>2 DEF Newest
      <4> QED
        BY <2>1, <4>1, <4>3, <4>4 DEF VersionOK
    <3>4. q.at = "insert" /\ IsCreate(q) => novels'[q.id] = None /\ (q.ask.on = None => q.work \notin source_works')
      BY <2>1, <3>1 DEF CallOK, InsertOK, CreateOK, IsNovel
    <3>5. q.at = "insert" /\ IsGrouping(q) => label_groups'[q.id] = None
      BY <2>1, <3>1 DEF CallOK, InsertOK, GroupingOK, IsGroup
    <3> QED
      BY <1>1, <2>4, <3>2, <3>3, <3>4, <3>5, <3>6 DEF FreeFor
  <2>10. \A c \in Chapter : chapters[c] # None => chapters'[c] = chapters[c]
    BY <2>2, <2>4 DEF IsChapter
  <2>11. Keeps(r)
    BY <2>1, <2>9, <2>10 DEF Keeps
  <2> QED
    BY <2>1, <2>7, <2>8, <2>11, CallsKeptAtEnd DEF Answers, IInv
<1> QED
  BY <1>2, <1>3
-----------------------------------------------------------------------------
(* The steps that change no table.                                          *)
LEMMA CallSame ==
  ASSUME UNCHANGED tables, NEW p, CallOK(p)
  PROVE  CallOK(p)'
<1>0. /\ source_works' = source_works /\ novels' = novels /\ novel_contributors' = novel_contributors
      /\ chapters' = chapters /\ label_groups' = label_groups
      /\ chapter_contents' = chapter_contents /\ label_datas' = label_datas
  BY DEF tables
<1>1. ASSUME p.at = "insert" PROVE InsertOK(p)'
  <2>1. InsertOK(p)
    BY <1>1 DEF CallOK
  <2>2. IsCreate(p) => CreateOK(p)'
    BY <1>0, <2>1 DEF InsertOK, CreateOK, IsNovel
  <2>3. IsGrouping(p) => GroupingOK(p)'
    BY <1>0, <2>1 DEF InsertOK, GroupingOK, IsNovel, IsGroup
  <2>4. IsUpload(p) => UploadOK(p)'
    <3>1. \A c : IsChapter(c)' <=> IsChapter(c)
      BY <1>0 DEF IsChapter
    <3>2. \A n, num : Taken(n, num)' <=> Taken(n, num)
      BY <1>0 DEF IsChapter, Taken
    <3>3. \A u, n : /\ IsNovel(n)' <=> IsNovel(n)
                    /\ chapter_mod_access_insert(u, n)' <=> chapter_mod_access_insert(u, n)
      BY <1>0 DEF IsNovel, chapter_mod_access_insert, Contributes
    <3> QED
      BY <2>1, <3>1, <3>2, <3>3 DEF InsertOK, UploadOK
  <2> QED
    BY <2>1, <2>2, <2>3, <2>4 DEF InsertOK, IsCreate, IsGrouping, IsUpload
<1>2. ASSUME p.at = "query" PROVE (NovelQueryOK(p) \/ ChapterQueryOK(p) \/ WorkQueryOK(p))'
  <2>1. \A u, x : /\ IsNovel(x)' <=> IsNovel(x)
                  /\ IsChapter(x)' <=> IsChapter(x)
                  /\ MayChange(u, x)' <=> MayChange(u, x)
                  /\ novel_mod_access_update(u, x)' <=> novel_mod_access_update(u, x)
                  /\ chapter_mod_access_insert(u, x)' <=> chapter_mod_access_insert(u, x)
                  /\ chapter_mod_access_delete(u, x)' <=> chapter_mod_access_delete(u, x)
    BY <1>0 DEF IsNovel, IsChapter, MayChange, chapter_mod_access_update, novel_mod_access_update,
       chapter_mod_access_insert, chapter_mod_access_delete, Contributes
  <2> QED
    BY <1>2, <2>1 DEF CallOK, NovelQueryOK, ChapterQueryOK, WorkQueryOK, Asking
<1>3. ASSUME p.at \in EditAt PROVE EditOK(p)'
  <2>1. EditOK(p)
    BY <1>3 DEF CallOK
  <2>2. MayChange(p.ask.user, p.ask.on)' <=> MayChange(p.ask.user, p.ask.on)
    BY <1>0 DEF IsChapter, MayChange, chapter_mod_access_update, Contributes
  <2>3. VersionOK(p)'
    BY <1>0, <2>1 DEF EditOK, VersionOK, Newest
  <2> QED
    BY <1>0, <2>1, <2>2, <2>3 DEF EditOK
<1> QED
  BY <1>0, <1>1, <1>2, <1>3 DEF CallOK

LEMMA AsksGoesOn ==
  ASSUME IInv, NEW r \in Call, UNCHANGED tables, NEW ask, NEW kind, NEW found, NEW errors,
         Asks(r, ask, kind, found, errors), NEW p,
         p = [at |-> "query", ask |-> ask, kind |-> kind, found |-> found, errors |-> errors],
         NovelQueryOK(p) \/ ChapterQueryOK(p) \/ WorkQueryOK(p),
         ask.op \in ChapterChanges =>
            ask.on = Absent \/ IsChapter(ask.on) \/ (call[r].at \in NameAt /\ call[r].ask = ask)
  PROVE  IInv'
<1>1. CallOK(p)'
  BY CallSame DEF CallOK, EditAt
<1>2. ASSUME NEW s \in Call \ {r}, NEW q, q = call[s] PROVE Apart(p, q) /\ Apart(q, p)
  <2>0. Apart(q, call[r])
    BY <1>2 DEF IInv, CallsOK
  <2>1. ASSUME q.at = "insert", IsUpload(q), ask.op \in ChapterChanges PROVE ask.on \notin Inserted(q)
    <3>1. UploadOK(q)
      BY <1>2, <2>1, CallIs DEF CallOK, InsertOK
    <3>2. \A c \in Inserted(q) : c \in Chapter /\ ~IsChapter(c)
      BY <3>1, RowOfIs
    <3>3. CASE call[r].at \in NameAt /\ call[r].ask = ask
      BY <2>0, <2>1, <3>3 DEF Apart
    <3> QED
      BY <2>1, <3>2, <3>3, AccessAssumption
  <2> QED
    BY <2>1 DEF Apart, StoreAt, NameAt
<1>3. Becomes(r, p)
  BY DEF Asks
<1> QED
  BY <1>1, <1>2, <1>3, GoesOn

\* A request that is about to insert rows.
LEMMA InsertGoesOn ==
  ASSUME IInv, NEW r \in Call, UNCHANGED tables, NEW p, p.at = "insert", InsertOK(p), Becomes(r, p),
         \A s \in Call \ {r} : call[s].at = "insert" =>
            /\ IsCreate(p) \/ IsGrouping(p) => p.id # call[s].id
            /\ IsCreate(p) /\ p.ask.on = None => p.work # call[s].work
            /\ IsUpload(p) /\ IsUpload(call[s]) =>
                  /\ Inserted(p) \cap Inserted(call[s]) = {}
                  /\ p.ask.on = call[s].ask.on => NumsOf(p) \cap NumsOf(call[s]) = {},
         \A s \in Call \ {r} : call[s].at \in NameAt /\ IsUpload(p) /\ call[s].ask.op \in ChapterChanges =>
            call[s].ask.on \notin Inserted(p)
  PROVE  IInv'
<1>1. CallOK(p)'
  BY CallSame DEF CallOK, EditAt
<1>2. ASSUME NEW s \in Call \ {r}, NEW q, q = call[s] PROVE Apart(p, q) /\ Apart(q, p)
  BY <1>2 DEF Apart, NameAt, StoreAt
<1> QED
  BY <1>1, <1>2, GoesOn

\* An edit that goes on: its chapter is there, and when it has inserted a version no
\* other edit has inserted one of that chapter.
LEMMA EditGoesOn ==
  ASSUME IInv, NEW r \in Call, UNCHANGED tables, NEW p, p.at \in EditAt, EditOK(p), Becomes(r, p),
         IsChapter(p.ask.on),
         p.at \in StoreAt =>
            \A s \in Call \ {r} : call[s].at \in StoreAt => call[s].ask.on # p.ask.on
  PROVE  IInv'
<1>1. CallOK(p)'
  BY CallSame DEF CallOK, EditAt
<1>2. ASSUME NEW s \in Call \ {r}, NEW q, q = call[s] PROVE Apart(p, q) /\ Apart(q, p)
  <2>1. ASSUME q.at = "insert", IsUpload(q) PROVE p.ask.on \notin Inserted(q)
    <3>1. UploadOK(q)
      BY <1>2, <2>1, CallIs DEF CallOK, InsertOK
    <3> QED
      BY <3>1, RowOfIs
  <2> QED
    BY <1>2, <2>1 DEF Apart, StoreAt, NameAt, EditAt
<1> QED
  BY <1>1, <1>2, GoesOn

LEMMA InsertNovelStep ==
  ASSUME IInv, NEW r \in Call, NEW ask, NEW errors, insert_novel(r, ask, errors),
         ask.op = "create_novel", ask.user \in User, ask.arg \in Visibility, "none" \notin DOMAIN errors
  PROVE  IInv'
<1>1. CASE \E exception : Raises(r, ask, exception, errors)
  BY <1>1, RaisesEnds DEF insert_novel
<1>2. CASE /\ ask.bad = "none" /\ (ask.on # None => ask.on \in source_works)
           /\ \E n \in NewNovel, w \in IF ask.on # None THEN {ask.on} ELSE NewWork :
                 Becomes(r, Insertion(ask, w, n, <<>>, errors))
  <2>1. PICK n \in NewNovel, w \in IF ask.on # None THEN {ask.on} ELSE NewWork :
             Becomes(r, Insertion(ask, w, n, <<>>, errors))
    BY <1>2
  <2>2. PICK p : p = Insertion(ask, w, n, <<>>, errors)
    OBVIOUS
  <2>3. /\ p = [at |-> "insert", ask |-> ask, work |-> w, id |-> n, todo |-> <<>>, done |-> <<>>, errors |-> errors]
        /\ p.at = "insert" /\ p.ask = ask /\ p.work = w /\ p.id = n /\ p.errors = errors
    BY <2>2 DEF Insertion
  <2>4. /\ n \in Novel /\ ~IsNovel(n)
        /\ \A s \in Call : call[s].at = "insert" => call[s].id # n
    BY NewNovelIs
  <2>5. ask.on = None => /\ w \in Work /\ w \notin source_works
                         /\ \A s \in Call : call[s].at = "insert" => call[s].work # w
    BY NewWorkIs
  <2>6. CreateOK(p)
    BY <1>2, <2>3, <2>4, <2>5 DEF CreateOK
  <2>7. IsCreate(p) /\ ~IsGrouping(p) /\ ~IsUpload(p)
    BY <2>3 DEF IsCreate, IsGrouping, IsUpload, ChapterKinds
  <2>8. InsertOK(p)
    BY <1>2, <2>3, <2>6, <2>7 DEF InsertOK
  <2> QED
    BY <2>1, <2>2, <2>3, <2>4, <2>5, <2>7, <2>8, InsertGoesOn DEF insert_novel
<1> QED
  BY <1>1, <1>2 DEF insert_novel

LEMMA InsertGroupStep ==
  ASSUME IInv, NEW r \in Call, NEW ask, NEW errors, insert_label_group(r, ask, errors),
         ask.op = "create_label_group", ask.user \in User, ask.bad = "none", "none" \notin DOMAIN errors
  PROVE  IInv'
<1>1. CASE \E exception : Raises(r, ask, exception, errors)
  BY <1>1, RaisesEnds DEF insert_label_group
<1>2. CASE /\ label_group_mod_access_insert(ask.user, ask.on)
           /\ \E g \in NewGroup : Becomes(r, Insertion(ask, Absent, g, <<>>, errors))
  <2>1. PICK g \in NewGroup : Becomes(r, Insertion(ask, Absent, g, <<>>, errors))
    BY <1>2
  <2>2. PICK p : p = Insertion(ask, Absent, g, <<>>, errors)
    OBVIOUS
  <2>3. /\ p = [at |-> "insert", ask |-> ask, work |-> Absent, id |-> g, todo |-> <<>>, done |-> <<>>, errors |-> errors]
        /\ p.at = "insert" /\ p.ask = ask /\ p.id = g /\ p.errors = errors
    BY <2>2 DEF Insertion
  <2>4. /\ g \in Group /\ ~IsGroup(g)
        /\ \A s \in Call : call[s].at = "insert" => call[s].id # g
    BY NewGroupIs
  <2>5. IsGrouping(p) /\ ~IsCreate(p) /\ ~IsUpload(p)
    BY <2>3 DEF IsCreate, IsGrouping, IsUpload, ChapterKinds
  <2>6. InsertOK(p)
    BY <1>2, <2>3, <2>4, <2>5 DEF InsertOK, GroupingOK, label_group_mod_access_insert
  <2> QED
    BY <2>1, <2>2, <2>3, <2>4, <2>5, <2>6, InsertGoesOn DEF insert_label_group
<1> QED
  BY <1>1, <1>2 DEF insert_label_group

\* A file is uploaded: nothing is inserted yet.
LEMMA BeginUploadStep ==
  ASSUME IInv, NEW r \in Call, UNCHANGED tables, NEW ask, NEW errors,
         ask.op \in ChapterKinds, ask.user \in User, ask.bad = "none", ask.arg \in Seq(FileRow),
         ask.on = Absent \/ IsNovel(ask.on), chapter_mod_access_insert(ask.user, ask.on),
         errors = IF ask.op = "create_chapter" THEN CreateErrors ELSE UploadErrors,
         Becomes(r, Insertion(ask, Absent, Absent, ask.arg, errors))
  PROVE  IInv'
<1>1. PICK p : p = Insertion(ask, Absent, Absent, ask.arg, errors)
  OBVIOUS
<1>2. /\ p = [at |-> "insert", ask |-> ask, work |-> Absent, id |-> Absent, todo |-> ask.arg, done |-> <<>>, errors |-> errors]
      /\ p.at = "insert" /\ p.ask = ask /\ p.todo = ask.arg /\ p.done = <<>> /\ p.errors = errors
  BY <1>1 DEF Insertion
<1>3. IsUpload(p) /\ ~IsCreate(p) /\ ~IsGrouping(p)
  BY <1>2 DEF IsCreate, IsGrouping, IsUpload, ChapterKinds
<1>4. UploadOK(p)
  <2>1. /\ p.done \in Seq(DoneRow) /\ Len(p.done) = 0 /\ DOMAIN p.done = {}
        /\ Len(ask.arg) \in Nat /\ p.todo = ask.arg
    BY <1>2
  <2>2. \A i \in 1 .. Len(p.done) : FALSE
    BY <2>1
  <2>3. Len(p.done) + Len(p.todo) = Len(p.ask.arg)
    BY <1>2, <2>1
  <2>4. \A i \in 1 .. Len(p.todo) : p.todo[i] = p.ask.arg[Len(p.done) + i]
    BY <1>2, <2>1
  <2> QED
    BY <1>2, <2>1, <2>2, <2>3, <2>4 DEF UploadOK
<1>5. InsertOK(p)
  BY <1>2, <1>3, <1>4 DEF InsertOK
<1>6. Inserted(p) = {} /\ NumsOf(p) = {}
  BY <1>2 DEF Inserted, NumsOf
<1> QED
  BY <1>1, <1>2, <1>3, <1>5, <1>6, InsertGoesOn

LEMMA InsertRowStep ==
  ASSUME IInv, NEW r \in Call, InsertRow(r)
  PROVE  IInv'
<1>0. PICK p : p = call[r]
  OBVIOUS
<1>1. CallOK(p) /\ InsertOK(p) /\ UploadOK(p) /\ p.at = "insert" /\ IsUpload(p) /\ p.todo # <<>>
  BY <1>0, CallIs DEF InsertRow, InsertsChapters, Busy, CallOK, InsertOK, IsUpload
<1>00. PICK row, rest, m, n : row = Head(p.todo) /\ rest = Tail(p.todo) /\ m = Len(p.done) /\ n = Len(p.todo)
  OBVIOUS
<1>2. /\ p.todo \in Seq(FileRow) /\ p.done \in Seq(DoneRow) /\ p.ask.arg \in Seq(FileRow)
      /\ m + n = Len(p.ask.arg)
  BY <1>00, <1>1 DEF UploadOK
<1>3. /\ row \in FileRow /\ row = p.todo[1] /\ rest \in Seq(FileRow)
      /\ Len(rest) = n - 1 /\ n \in Nat \ {0} /\ m \in Nat
      /\ \A i \in 1 .. n - 1 : rest[i] = p.todo[i + 1]
  BY <1>00, <1>1, <1>2
<1>30. /\ \A i \in 1 .. m : /\ p.done[i].num = p.ask.arg[i].num /\ p.done[i].public = p.ask.arg[i].public
                            /\ ~IsChapter(p.done[i].id) /\ ~Taken(p.ask.on, p.done[i].num)
       /\ \A i \in 1 .. n : p.todo[i] = p.ask.arg[m + i]
       /\ \A i, j \in 1 .. m : i # j => p.done[i].id # p.done[j].id /\ p.done[i].num # p.done[j].num
  BY <1>00, <1>1 DEF UploadOK
<1>4. CASE Taken(p.ask.on, row.num) \/ Holds(r, p.ask.on, row.num)
  BY <1>0, <1>00, <1>4, RaisesEnds DEF InsertRow
<1>5. CASE ~(Taken(p.ask.on, row.num) \/ Holds(r, p.ask.on, row.num))
  <2>1. UNCHANGED tables
    BY DEF InsertRow
  <2>2. PICK c \in NewChapter :
          Becomes(r, [p EXCEPT !.todo = rest,
                               !.done = Append(p.done, [id |-> c, num |-> row.num, public |-> row.public])])
    BY <1>0, <1>00, <1>5 DEF InsertRow
  <2>3. PICK new : new = [id |-> c, num |-> row.num, public |-> row.public]
    OBVIOUS
  <2>4. PICK q : q = [p EXCEPT !.todo = rest, !.done = Append(p.done, new)]
    OBVIOUS
  <2>5. /\ q = [at |-> "insert", ask |-> p.ask, work |-> p.work, id |-> p.id, todo |-> rest,
                done |-> Append(p.done, new), errors |-> p.errors]
        /\ q.at = "insert" /\ q.ask = p.ask /\ q.work = p.work /\ q.id = p.id
        /\ q.todo = rest /\ q.done = Append(p.done, new) /\ q.errors = p.errors
    BY <1>1, <2>4 DEF InsertOK
  <2>6. /\ c \in Chapter /\ ~IsChapter(c)
        /\ \A s \in Call : call[s].at = "insert" => c \notin Inserted(call[s])
        /\ \A s \in Call : call[s].at \in NameAt => call[s].ask.on # c
    BY NewChapterIs
  <2>7. new \in DoneRow /\ new.id = c /\ new.num = row.num /\ new.public = row.public
    BY <1>3, <2>3, <2>6 DEF DoneRow, FileRow
  <2>8. /\ q.done \in Seq(DoneRow) /\ Len(q.done) = m + 1 /\ q.done[m + 1] = new
        /\ \A i \in 1 .. m : q.done[i] = p.done[i]
        /\ DOMAIN p.done = 1 .. m /\ DOMAIN q.done = 1 .. m + 1
    BY <1>00, <1>2, <1>3, <2>5, <2>7
  <2>9. \A i \in 1 .. m : p.done[i].id # c /\ p.done[i].num # row.num
    <3>1. \A i \in 1 .. m : p.done[i].id # c
      BY <1>0, <1>1, <2>6, <2>8 DEF Inserted
    <3>2. InsertsChapters(r) /\ call[r].ask.on = p.ask.on
      BY <1>0, <1>1 DEF InsertsChapters, Busy, IsUpload
    <3> QED
      BY <1>0, <1>5, <2>8, <3>1, <3>2 DEF Holds
  <2>10. ~Taken(p.ask.on, row.num)
    BY <1>5
  <2>11. UploadOK(q)
    <3>1. Len(q.done) + Len(q.todo) = Len(q.ask.arg)
      <4>1. Len(q.todo) = n - 1 /\ Len(q.done) = m + 1 /\ Len(q.ask.arg) = m + n
        BY <1>2, <1>3, <2>5, <2>8
      <4>2. m + 1 + (n - 1) = m + n
        BY <1>3
      <4> QED
        BY <4>1, <4>2
    <3>2. ASSUME NEW i \in 1 .. Len(q.done)
          PROVE  /\ q.done[i].num = q.ask.arg[i].num /\ q.done[i].public = q.ask.arg[i].public
                 /\ ~IsChapter(q.done[i].id) /\ ~Taken(q.ask.on, q.done[i].num)
      <4>1. CASE i \in 1 .. m
        BY <1>30, <2>5, <2>8, <4>1
      <4>2. CASE i = m + 1
        <5>1. p.todo[1] = p.ask.arg[m + 1]
          BY <1>3, <1>30
        <5> QED
          BY <1>3, <2>5, <2>6, <2>7, <2>8, <2>10, <4>2, <5>1
      <4> QED
        BY <1>3, <2>8, <3>2, <4>1, <4>2
    <3>3. ASSUME NEW i \in 1 .. Len(q.todo) PROVE q.todo[i] = q.ask.arg[Len(q.done) + i]
      <4>1. q.todo[i] = p.todo[i + 1] /\ i + 1 \in 1 .. n
        BY <1>3, <2>5, <3>3
      <4>2. p.todo[i + 1] = p.ask.arg[m + (i + 1)]
        BY <1>30, <4>1
      <4>3. m + (i + 1) = Len(q.done) + i
        BY <1>3, <2>8, <3>3
      <4> QED
        BY <2>5, <4>1, <4>2, <4>3
    <3>4. ASSUME NEW i \in 1 .. Len(q.done), NEW j \in 1 .. Len(q.done), i # j
          PROVE  q.done[i].id # q.done[j].id /\ q.done[i].num # q.done[j].num
      <4>1. CASE i \in 1 .. m /\ j \in 1 .. m
        BY <1>30, <2>8, <3>4, <4>1
      <4>2. CASE i = m + 1 /\ j \in 1 .. m
        BY <2>7, <2>8, <2>9, <4>2
      <4>3. CASE j = m + 1 /\ i \in 1 .. m
        BY <2>7, <2>8, <2>9, <4>3
      <4> QED
        BY <1>3, <2>8, <3>4, <4>1, <4>2, <4>3
    <3>5. /\ q.ask.on = Absent \/ IsNovel(q.ask.on)
          /\ chapter_mod_access_insert(q.ask.user, q.ask.on)
          /\ q.errors = IF q.ask.op = "create_chapter" THEN CreateErrors ELSE UploadErrors
      BY <1>1, <2>5 DEF UploadOK
    <3> QED
      BY <1>2, <1>3, <2>5, <2>8, <3>1, <3>2, <3>3, <3>4, <3>5 DEF UploadOK
  <2>12. IsUpload(q) /\ ~IsCreate(q) /\ ~IsGrouping(q)
    BY <1>1, <2>5 DEF IsUpload, IsCreate, IsGrouping, ChapterKinds
  <2>13. InsertOK(q)
    BY <1>1, <2>5, <2>11, <2>12 DEF InsertOK
  <2>14. Inserted(q) = Inserted(p) \cup {c} /\ NumsOf(q) = NumsOf(p) \cup {row.num}
    <3>1. \A i \in DOMAIN q.done : i \in DOMAIN p.done \/ i = m + 1
      BY <1>3, <2>8
    <3>2. DOMAIN p.done \subseteq DOMAIN q.done /\ m + 1 \in DOMAIN q.done
      BY <1>3, <2>8
    <3> QED
      BY <2>7, <2>8, <3>1, <3>2 DEF Inserted, NumsOf
  <2>15. ASSUME NEW s \in Call \ {r}, call[s].at = "insert", IsUpload(call[s])
         PROVE  /\ Inserted(q) \cap Inserted(call[s]) = {}
                /\ q.ask.on = call[s].ask.on => NumsOf(q) \cap NumsOf(call[s]) = {}
    <3>1. Apart(p, call[s])
      BY <1>0 DEF IInv, CallsOK
    <3>2. Inserted(q) \cap Inserted(call[s]) = {}
      BY <1>1, <2>6, <2>14, <2>15, <3>1 DEF Apart
    <3>3. q.ask.on = call[s].ask.on => row.num \notin NumsOf(call[s])
      <4>1. ~Waits(r, s)
        BY DEF InsertRow
      <4>2. ~Holds(s, p.ask.on, row.num)
        BY <1>0, <1>00, <1>1, <4>1 DEF Waits, InsertsChapters, Busy, IsUpload
      <4> QED
        BY <2>5, <2>15, <4>2 DEF Holds, InsertsChapters, Busy, IsUpload, NumsOf
    <3> QED
      BY <1>1, <2>5, <2>14, <2>15, <3>1, <3>2, <3>3 DEF Apart
  <2>16. ASSUME NEW s \in Call \ {r}, call[s].at \in NameAt, call[s].ask.op \in ChapterChanges
         PROVE  call[s].ask.on \notin Inserted(q)
    <3>1. Apart(p, call[s])
      BY <1>0 DEF IInv, CallsOK
    <3> QED
      BY <1>1, <2>6, <2>14, <2>16, <3>1 DEF Apart
  <2> QED
    BY <2>1, <2>2, <2>3, <2>4, <2>5, <2>12, <2>13, <2>15, <2>16, InsertGoesOn
<1> QED
  BY <1>4, <1>5

-----------------------------------------------------------------------------
(* The endpoints.                                                           *)
LEMMA AskedIs ==
  ASSUME NEW op, NEW u, NEW on, NEW arg, NEW bad, NEW ask, ask = Asked(op, u, on, arg, bad)
  PROVE  ask.op = op /\ ask.user = u /\ ask.on = on /\ ask.arg = arg /\ ask.bad = bad
BY DEF Asked

LEMMA RefusedStep ==
  ASSUME IInv, NEW r \in Call, NEW ask, NEW status, RefusedBySchema(r, ask, status)
  PROVE  IInv'
BY RaisesEnds DEF RefusedBySchema

LEMMA CreateSourceWorkStep ==
  ASSUME IInv, NEW r \in Call, create_source_work(r)
  PROVE  IInv'
BY InsertSourceWorkStep DEF create_source_work

LEMMA UpdateSourceWorkStep ==
  ASSUME IInv, NEW r \in Call, update_source_work(r)
  PROVE  IInv'
<1> DEFINE errors == [SourceWorkNotFound |-> 404, InsufficientPermissions |-> 401, DataTooLong |-> 400]
<1>1. PICK u \in User, w \in SomeWork, bad \in Bad :
         modify_source_work(r, Asked("update_source_work", u, w, None, bad), errors)
  BY DEF update_source_work
<1>2. PICK ask : ask = Asked("update_source_work", u, w, None, bad)
  OBVIOUS
<1>3. ask.op = "update_source_work" /\ ask.user = u /\ ask.on = w
  BY <1>2, AskedIs
<1>4. UNCHANGED tables
  BY <1>1 DEF modify_source_work
<1>5. CASE w \in source_works /\ source_work_mod_access_update(u, w)
  BY <1>1, <1>2, <1>3, <1>4, <1>5, AnswersEnds DEF modify_source_work
<1>6. CASE ~(w \in source_works /\ source_work_mod_access_update(u, w))
  <2>1. Asks(r, ask, "source_work", "InsufficientPermissions", errors)
    BY <1>1, <1>2, <1>3, <1>6 DEF modify_source_work
  <2>2. PICK p : p = [at |-> "query", ask |-> ask, kind |-> "source_work",
                      found |-> "InsufficientPermissions", errors |-> errors]
    OBVIOUS
  <2>3. u \in Admin => w = Absent
    BY <1>6 DEF SomeWork, source_work_mod_access_update
  <2>4. WorkQueryOK(p)
    BY <1>3, <2>2, <2>3 DEF WorkQueryOK, Asking
  <2> QED
    BY <1>3, <1>4, <2>1, <2>2, <2>4, AsksGoesOn DEF ChapterChanges
<1> QED
  BY <1>5, <1>6

LEMMA CreateNovelStep ==
  ASSUME IInv, NEW r \in Call, create_novel(r)
  PROVE  IInv'
<1> DEFINE errors == [SourceWorkNotFound |-> 404, LanguageNotFound |-> 404, DataTooLong |-> 400]
<1>1. PICK u \in User, w \in SomeWork \cup {None}, v \in Wanted, bad \in Bad \cup {"language"} :
         insert_novel(r, Asked("create_novel", u, w, v, bad), errors)
  BY DEF create_novel
<1>2. PICK ask : ask = Asked("create_novel", u, w, v, bad)
  OBVIOUS
<1>3. ask.op = "create_novel" /\ ask.user \in User /\ ask.arg \in Visibility
  BY <1>2, AskedIs, LibraryAssumption
<1>4. "none" \notin DOMAIN errors
  OBVIOUS
<1> QED
  BY <1>1, <1>2, <1>3, <1>4, InsertNovelStep

LEMMA UpdateNovelStep ==
  ASSUME IInv, NEW r \in Call, update_novel(r)
  PROVE  IInv'
<1> DEFINE errors == [NovelNotFound |-> 404, InsufficientPermissions |-> 401, DataTooLong |-> 400]
<1>1. PICK u \in User, n \in SomeNovel, v \in Wanted, bad \in Bad :
         modify_novel(r, Asked("update_novel", u, n, v, bad), errors)
  BY DEF update_novel
<1>2. PICK ask : ask = Asked("update_novel", u, n, v, bad)
  OBVIOUS
<1>3. ask.op = "update_novel" /\ ask.user = u /\ ask.on = n /\ ask.arg = v /\ v \in Visibility
  BY <1>1, <1>2, AskedIs, LibraryAssumption
<1>4. CASE ~IsNovel(n) \/ ~novel_mod_access_update(u, n)
  <2>1. Asks(r, ask, "novel", "InsufficientPermissions", errors) /\ UNCHANGED tables
    BY <1>1, <1>2, <1>3, <1>4 DEF modify_novel
  <2>2. PICK p : p = [at |-> "query", ask |-> ask, kind |-> "novel",
                      found |-> "InsufficientPermissions", errors |-> errors]
    OBVIOUS
  <2>3. NovelQueryOK(p)
    BY <1>3, <1>4, <2>2 DEF NovelQueryOK, Asking, SomeNovel
  <2> QED
    BY <1>3, <2>1, <2>2, <2>3, AsksGoesOn DEF ChapterChanges
<1>5. CASE IsNovel(n) /\ novel_mod_access_update(u, n) /\ ask.bad = "text"
  BY <1>1, <1>2, <1>3, <1>5, RaisesEnds DEF modify_novel
<1>6. CASE IsNovel(n) /\ novel_mod_access_update(u, n) /\ ask.bad # "text"
  <2>1. /\ novels' = [novels EXCEPT ![ask.on].visibility = ask.arg]
        /\ Answers(r, ask, Reply(Ok({ask.on}), errors))
        /\ UNCHANGED <<source_works, novel_contributors, chapters, chapter_contents,
                       label_groups, label_contributors, label_datas>>
    BY <1>1, <1>2, <1>3, <1>6 DEF modify_novel
  <2> HIDE DEF errors
  <2> QED
    BY <1>3, <1>6, <2>1, ModifyNovelStep
<1> QED
  BY <1>4, <1>5, <1>6

\* A chapter is created, or a file of chapters is uploaded.
LEMMA CreateChapterStep ==
  ASSUME IInv, NEW r \in Call, create_chapter(r)
  PROVE  IInv'
<1>1. PICK u \in User, n \in SomeNovel, num \in Number, public \in BOOLEAN, bad \in Bad :
         insert_chapter(r, Asked("create_chapter", u, n, <<[num |-> num, public |-> public]>>, bad), CreateErrors)
  BY DEF create_chapter, CreateErrors
<1>2. PICK ask : ask = Asked("create_chapter", u, n, <<[num |-> num, public |-> public]>>, bad)
  OBVIOUS
<1>3. ask.op = "create_chapter" /\ ask.user = u /\ ask.on = n /\ ask.bad = bad
      /\ ask.arg = <<[num |-> num, public |-> public]>>
  BY <1>2, AskedIs
<1>4. ask.arg \in Seq(FileRow)
  BY <1>3 DEF FileRow
<1>5. UNCHANGED tables
  BY <1>1 DEF insert_chapter
<1>6. CASE ~chapter_mod_access_insert(u, n)
  <2>1. Asks(r, ask, "novel", "InsufficientPermissions", CreateErrors)
    BY <1>1, <1>2, <1>3, <1>6 DEF insert_chapter
  <2>2. PICK p : p = [at |-> "query", ask |-> ask, kind |-> "novel",
                      found |-> "InsufficientPermissions", errors |-> CreateErrors]
    OBVIOUS
  <2>3. NovelQueryOK(p)
    BY <1>3, <1>6, <2>2 DEF NovelQueryOK, Asking, SomeNovel
  <2> QED
    BY <1>3, <1>5, <2>1, <2>2, <2>3, AsksGoesOn DEF ChapterChanges
<1>7. CASE chapter_mod_access_insert(u, n) /\ bad = "text"
  BY <1>1, <1>2, <1>3, <1>5, <1>7, RaisesEnds DEF insert_chapter
<1>8. CASE chapter_mod_access_insert(u, n) /\ bad # "text"
  <2>1. Becomes(r, Insertion(ask, Absent, Absent, ask.arg, CreateErrors))
    BY <1>1, <1>2, <1>3, <1>8 DEF insert_chapter
  <2> QED
    <3>1. ask.bad = "none" /\ ask.op \in ChapterKinds /\ ask.user \in User
      BY <1>3, <1>8 DEF Bad, ChapterKinds
    <3>2. ask.on = Absent \/ IsNovel(ask.on)
      BY <1>3 DEF SomeNovel
    <3>3. chapter_mod_access_insert(ask.user, ask.on)
      BY <1>3, <1>8
    <3>4. CreateErrors = IF ask.op = "create_chapter" THEN CreateErrors ELSE UploadErrors
      BY <1>3
    <3> QED
      BY <1>4, <1>5, <2>1, <3>1, <3>2, <3>3, <3>4, BeginUploadStep
<1> QED
  BY <1>6, <1>7, <1>8

LEMMA UploadStep ==
  ASSUME IInv, NEW r \in Call, create_chapters_by_upload(r)
  PROVE  IInv'
<1>1. PICK u \in User, n \in SomeNovel, file \in Upload, bad \in Bad :
         IF bad # "none" THEN RefusedBySchema(r, Asked("create_chapters_by_upload", u, n, file, bad), 400)
         ELSE upload_v1(r, Asked("create_chapters_by_upload", u, n, file, bad), UploadErrors)
  BY DEF create_chapters_by_upload, UploadErrors
<1>2. PICK ask : ask = Asked("create_chapters_by_upload", u, n, file, bad)
  OBVIOUS
<1>3. ask.op = "create_chapters_by_upload" /\ ask.user = u /\ ask.on = n /\ ask.bad = bad /\ ask.arg = file
  BY <1>2, AskedIs
<1>4. CASE bad # "none"
  BY <1>1, <1>4, RefusedStep
<1>5. CASE bad = "none" /\ ~chapter_mod_access_insert(u, n)
  BY <1>1, <1>2, <1>3, <1>5, RaisesEnds DEF upload_v1
<1>6. CASE bad = "none" /\ chapter_mod_access_insert(u, n)
  <2>1. Becomes(r, Insertion(ask, Absent, Absent, ask.arg, UploadErrors)) /\ UNCHANGED tables
    BY <1>1, <1>2, <1>3, <1>6 DEF upload_v1
  <2> QED
    BY <1>3, <1>6, <2>1, BeginUploadStep, LibraryAssumption DEF SomeNovel, ChapterKinds
<1> QED
  BY <1>4, <1>5, <1>6

\* A change of a chapter is refused.
LEMMA ChapterRefusedStep ==
  ASSUME IInv, NEW r \in Call, UNCHANGED tables, NEW ask, NEW kind, NEW errors, NEW p,
         p = [at |-> "query", ask |-> ask, kind |-> kind, found |-> "InsufficientPermissions", errors |-> errors],
         Asks(r, ask, kind, "InsufficientPermissions", errors),
         ChapterQueryOK(p), ask.on \in SomeChapter
  PROVE  IInv'
BY AsksGoesOn DEF SomeChapter

LEMMA UpdateChapterStep ==
  ASSUME IInv, NEW r \in Call, update_chapter(r)
  PROVE  IInv'
<1> DEFINE errors == [ChapterNotFound |-> 404, InsufficientPermissions |-> 401, DataTooLong |-> 400]
<1>1. PICK u \in User, c \in SomeChapter, bad \in Bad :
         modify_chapter(r, Asked("update_chapter", u, c, None, bad), errors)
  BY DEF update_chapter
<1>2. PICK ask : ask = Asked("update_chapter", u, c, None, bad)
  OBVIOUS
<1>3. ask.op = "update_chapter" /\ ask.user = u /\ ask.on = c
  BY <1>2, AskedIs
<1>4. UNCHANGED tables
  BY <1>1 DEF modify_chapter
<1>5. CASE MayChange(u, c)
  BY <1>1, <1>2, <1>3, <1>4, <1>5, AnswersEnds DEF modify_chapter
<1>6. CASE ~MayChange(u, c)
  <2>1. Asks(r, ask, "chapter", "InsufficientPermissions", errors)
    BY <1>1, <1>2, <1>3, <1>6 DEF modify_chapter
  <2>2. PICK p : p = [at |-> "query", ask |-> ask, kind |-> "chapter",
                      found |-> "InsufficientPermissions", errors |-> errors]
    OBVIOUS
  <2>3. ChapterQueryOK(p)
    BY <1>3, <1>6, <2>2 DEF ChapterQueryOK, Asking
  <2> HIDE DEF errors
  <2> QED
    BY <1>3, <1>4, <2>1, <2>2, <2>3, ChapterRefusedStep
<1> QED
  BY <1>5, <1>6

LEMMA DeleteChapterStep ==
  ASSUME IInv, NEW r \in Call, delete_chapter(r)
  PROVE  IInv'
<1> DEFINE errors == [ChapterNotFound |-> 404, InsufficientPermissions |-> 401, ChapterDeleteFailed |-> 500]
<1>1. PICK u \in User, c \in SomeChapter :
         remove_chapter(r, Asked("delete_chapter", u, c, None, "none"), errors)
  BY DEF delete_chapter
<1>2. PICK ask : ask = Asked("delete_chapter", u, c, None, "none")
  OBVIOUS
<1>3. ask.op = "delete_chapter" /\ ask.user = u /\ ask.on = c
  BY <1>2, AskedIs
<1>4. CASE ~(IsChapter(c) /\ chapter_mod_access_delete(u, c))
  <2>1. Asks(r, ask, "chapter", "InsufficientPermissions", errors) /\ UNCHANGED tables
    BY <1>1, <1>2, <1>3, <1>4 DEF remove_chapter
  <2>2. PICK p : p = [at |-> "query", ask |-> ask, kind |-> "chapter",
                      found |-> "InsufficientPermissions", errors |-> errors]
    OBVIOUS
  <2>3. ChapterQueryOK(p)
    BY <1>3, <1>4, <2>2 DEF ChapterQueryOK, Asking
  <2> HIDE DEF errors
  <2> QED
    BY <1>3, <2>1, <2>2, <2>3, ChapterRefusedStep
<1>5. CASE /\ IsChapter(c) /\ chapter_mod_access_delete(u, c)
           /\ Raises(r, ask, "ChapterDeleteFailed", errors) /\ UNCHANGED tables
  BY <1>5, RaisesEnds
<1>6. CASE /\ IsChapter(c) /\ chapter_mod_access_delete(u, c)
           /\ ~(Raises(r, ask, "ChapterDeleteFailed", errors) /\ UNCHANGED tables)
  <2>1. /\ ~Referred(ask.on) /\ \A s \in Call : ~(Stores(s) /\ call[s].ask.on = ask.on)
        /\ chapters' = [chapters EXCEPT ![ask.on] = None]
        /\ chapter_contents' = {cc \in chapter_contents : cc[1] # ask.on}
        /\ Answers(r, ask, Reply(Ok({"success"}), errors))
        /\ UNCHANGED <<source_works, novels, novel_contributors,
                       label_groups, label_contributors, label_datas>>
    BY <1>1, <1>2, <1>3, <1>6 DEF remove_chapter
  <2> HIDE DEF errors
  <2> QED
    BY <1>3, <1>6, <2>1, RemoveChapterStep
<1> QED
  BY <1>4, <1>5, <1>6

LEMMA PublishChapterStep ==
  ASSUME IInv, NEW r \in Call, action_publish_chapter(r)
  PROVE  IInv'
<1> DEFINE errors == [ChapterNotFound |-> 404, InsufficientPermissions |-> 401]
<1>1. PICK u \in User, c \in SomeChapter :
         make_public_chapter(r, Asked("action_publish_chapter", u, c, None, "none"), errors)
  BY DEF action_publish_chapter
<1>2. PICK ask : ask = Asked("action_publish_chapter", u, c, None, "none")
  OBVIOUS
<1>3. ask.op = "action_publish_chapter" /\ ask.user = u /\ ask.on = c
  BY <1>2, AskedIs
<1>4. CASE ~MayChange(u, c)
  <2>1. Asks(r, ask, "chapter", "InsufficientPermissions", errors) /\ UNCHANGED tables
    BY <1>1, <1>2, <1>3, <1>4 DEF make_public_chapter
  <2>2. PICK p : p = [at |-> "query", ask |-> ask, kind |-> "chapter",
                      found |-> "InsufficientPermissions", errors |-> errors]
    OBVIOUS
  <2>3. ChapterQueryOK(p)
    BY <1>3, <1>4, <2>2 DEF ChapterQueryOK, Asking
  <2> HIDE DEF errors
  <2> QED
    BY <1>3, <2>1, <2>2, <2>3, ChapterRefusedStep
<1>5. CASE MayChange(u, c)
  <2>1. /\ chapters' = [chapters EXCEPT ![ask.on].public = TRUE]
        /\ Answers(r, ask, Reply(Ok({ask.on}), errors))
        /\ UNCHANGED <<source_works, novels, novel_contributors, chapter_contents,
                       label_groups, label_contributors, label_datas>>
    BY <1>1, <1>2, <1>3, <1>5 DEF make_public_chapter
  <2>2. IsChapter(ask.on)
    BY <1>3, <1>5 DEF MayChange
  <2> HIDE DEF errors
  <2> QED
    BY <2>1, <2>2, PublishStep
<1> QED
  BY <1>4, <1>5

LEMMA InsertVersionStep ==
  ASSUME IInv, NEW r \in Call, InsertVersion(r)
  PROVE  IInv'
<1>0. PICK p : p = call[r]
  OBVIOUS
<1>1. EditOK(p) /\ VersionOK(p) /\ p.at = "revise" /\ UNCHANGED tables
  BY <1>0, CallIs DEF InsertVersion, Busy, CallOK, EditAt, EditOK
<1>2. CASE /\ ~IsChapter(p.ask.on)
           /\ Asks(r, p.ask, "content_status", "InsufficientPermissions", p.errors)
  <2>1. PICK q : q = [at |-> "query", ask |-> p.ask, kind |-> "content_status",
                      found |-> "InsufficientPermissions", errors |-> p.errors]
    OBVIOUS
  <2>2. ChapterQueryOK(q)
    BY <1>1, <1>2, <2>1 DEF ChapterQueryOK, Asking, EditOK, ContentErrors, MayChange
  <2> QED
    BY <1>0, <1>1, <1>2, <2>1, <2>2, AsksGoesOn DEF NameAt
<1>3. CASE Raises(r, p.ask, "IntegrityError", p.errors)
  BY <1>1, <1>3, RaisesEnds
<1>4. CASE /\ IsChapter(p.ask.on) /\ Revised(p.ask.arg) \notin chapter_contents
           /\ Becomes(r, [p EXCEPT !.at = "port"])
  <2>1. PICK q : q = [at |-> "port", ask |-> p.ask, ported |-> p.ported, errors |-> p.errors]
    OBVIOUS
  <2>2. Becomes(r, q)
    BY <1>1, <1>4, <2>1 DEF EditOK
  <2>3. Newest(p.ask.on, p.ask.arg[2]) /\ p.ask.arg \in chapter_contents /\ chapters[p.ask.on] # None
    BY <1>1, <1>4 DEF VersionOK, IsChapter
  <2>4. EditOK(q)
    BY <1>1, <1>4, <2>1, <2>3 DEF EditOK, VersionOK, IsChapter
  <2>5. ASSUME NEW s \in Call \ {r}, call[s].at \in StoreAt, call[s].ask.on = p.ask.on PROVE FALSE
    <3>1. PICK x : x = call[s]
      OBVIOUS
    <3>2. EditOK(x) /\ VersionOK(x)
      BY <2>5, <3>1, CallIs DEF CallOK, EditAt, StoreAt, EditOK
    <3>3. Newest(x.ask.on, x.ask.arg[2]) /\ x.ask.arg \in chapter_contents
      BY <2>3, <2>5, <3>1, <3>2 DEF VersionOK
    <3>4. x.ask.arg[2] <= p.ask.arg[2] /\ p.ask.arg[2] <= x.ask.arg[2]
      BY <1>1, <2>3, <2>5, <3>1, <3>2, <3>3 DEF Newest, EditOK
    <3>5. x.ask.arg = p.ask.arg
      BY <1>1, <2>5, <3>1, <3>2, <3>4 DEF EditOK
    <3> QED
      BY <1>0, <2>5, <3>1, <3>5 DEF InsertVersion, Stores, StoreAt
  <2> QED
    BY <1>1, <1>4, <2>1, <2>2, <2>4, <2>5, EditGoesOn DEF EditAt
<1> QED
  BY <1>0, <1>2, <1>3, <1>4 DEF InsertVersion

LEMMA FindLabelDatasStep ==
  ASSUME IInv, NEW r \in Call, FindLabelDatas(r)
  PROVE  IInv'
<1>0. PICK p : p = call[r]
  OBVIOUS
<1>1. EditOK(p) /\ VersionOK(p) /\ p.at = "port" /\ UNCHANGED tables
  BY <1>0, CallIs DEF FindLabelDatas, Busy, CallOK, EditAt, EditOK
<1>a. PICK found : found = {d \in label_datas : <<d[2], d[3]>> = p.ask.arg}
  OBVIOUS
<1>2. PICK q : q = [at |-> "store", ask |-> p.ask, ported |-> found, errors |-> p.errors]
  OBVIOUS
<1>3. Becomes(r, q)
  BY <1>0, <1>a, <1>2 DEF FindLabelDatas
<1>4. EditOK(q) /\ IsChapter(q.ask.on)
  BY <1>1, <1>a, <1>2 DEF EditOK, VersionOK, StoreAt, IsChapter
<1>5. \A s \in Call \ {r} : call[s].at \in StoreAt => call[s].ask.on # q.ask.on
  BY <1>0, <1>1, <1>2 DEF IInv, CallsOK, Apart, StoreAt
<1> QED
  BY <1>1, <1>2, <1>3, <1>4, <1>5, EditGoesOn DEF EditAt

\* Whoever may edit the contents of a chapter may change the chapter.
LEMMA EditsChange ==
  ASSUME NEW u, NEW c
  PROVE  chapter_content_mod_access_select(u, c, TRUE) <=> MayChange(u, c)
BY DEF chapter_content_mod_access_select, chapter_mod_access_select, novel_mod_access_select,
   MayChange, chapter_mod_access_update

LEMMA UpdateContentStep ==
  ASSUME IInv, NEW r \in Call, update_chapter_content(r)
  PROVE  IInv'
<1> DEFINE errors == [ChapterContentNotFound |-> 404, ChapterContentOutdated |-> 409, InsufficientPermissions |-> 401]
<1>1. PICK u \in User, c \in SomeChapter, cc \in SomeContents :
         modify_chapter_content(r, Asked("update_chapter_content", u, c, cc, "none"), errors)
  BY DEF update_chapter_content
<1>2. PICK ask : ask = Asked("update_chapter_content", u, c, cc, "none")
  OBVIOUS
<1>3. ask.op = "update_chapter_content" /\ ask.user = u /\ ask.on = c /\ ask.arg = cc
  BY <1>2, AskedIs
<1>4. CASE ~MayChange(u, c)
  <2>1. Asks(r, ask, "content_status", "InsufficientPermissions", errors) /\ UNCHANGED tables
    BY <1>1, <1>2, <1>3, <1>4, EditsChange DEF modify_chapter_content
  <2>2. PICK p : p = [at |-> "query", ask |-> ask, kind |-> "content_status",
                      found |-> "InsufficientPermissions", errors |-> errors]
    OBVIOUS
  <2>3. ChapterQueryOK(p)
    BY <1>3, <1>4, <2>2 DEF ChapterQueryOK, Asking
  <2> HIDE DEF errors
  <2> QED
    BY <1>3, <2>1, <2>2, <2>3, ChapterRefusedStep
<1>5. CASE MayChange(u, c) /\ cc # <<c, Latest(c)>>
  <2>1. chapter_content_mod_access_select(ask.user, ask.on, TRUE)
    BY <1>3, <1>5, EditsChange
  <2>2. ask.arg # <<ask.on, Latest(ask.on)>>
    BY <1>3, <1>5
  <2>3. modify_chapter_content(r, ask, errors)
    BY <1>1, <1>2
  <2>4. Raises(r, ask, "ChapterContentOutdated", errors) /\ UNCHANGED tables
    BY <2>1, <2>2, <2>3 DEF modify_chapter_content
  <2> QED
    BY <2>4, RaisesEnds
<1>6. CASE MayChange(u, c) /\ cc = <<c, Latest(c)>>
  <2>1. PICK v : v = Latest(c)
    OBVIOUS
  <2>2. PICK p : p = [at |-> "revise", ask |-> ask, ported |-> {}, errors |-> errors]
    OBVIOUS
  <2>3. Becomes(r, p) /\ UNCHANGED tables
    <3>1. chapter_content_mod_access_select(ask.user, ask.on, TRUE)
      BY <1>3, <1>6, EditsChange
    <3>2. ask.arg = <<ask.on, Latest(ask.on)>>
      BY <1>3, <1>6
    <3>3. modify_chapter_content(r, ask, errors)
      BY <1>1, <1>2
    <3> QED
      BY <2>2, <3>1, <3>2, <3>3 DEF modify_chapter_content
  <2>4. c \in Chapter /\ chapters[c] # None /\ <<c, 1>> \in chapter_contents
    BY <1>6 DEF MayChange, IsChapter, IInv, WholeRows
  <2>5. v \in Nat \ {0} /\ <<c, v>> \in chapter_contents
    BY <2>1, <2>4, LatestIs DEF IInv
  <2>6. Newest(c, v)
    <3>1. \A w : <<c, w>> \in chapter_contents => w <= v
      BY <2>1, <2>4, LatestIs DEF IInv
    <3>2. \A x \in chapter_contents : x = <<x[1], x[2]>>
      BY DEF IInv, TablesOK
    <3> QED
      BY <3>1, <3>2 DEF Newest
  <2>7. errors = ContentErrors
    BY DEF ContentErrors
  <2> HIDE DEF errors
  <2>8. EditOK(p)
    BY <1>3, <1>6, <2>1, <2>2, <2>4, <2>5, <2>6, <2>7 DEF EditOK, VersionOK, StoreAt
  <2>9. p.at \in EditAt /\ p.at \notin StoreAt /\ IsChapter(p.ask.on)
    BY <1>3, <2>2, <2>4 DEF EditAt, StoreAt, IsChapter
  <2> QED
    BY <2>3, <2>8, <2>9, EditGoesOn
<1> QED
  BY <1>4, <1>5, <1>6

LEMMA CreateGroupStep ==
  ASSUME IInv, NEW r \in Call, create_label_group(r)
  PROVE  IInv'
<1> DEFINE errors == [NovelNotFound |-> 404, DataTooLong |-> 400]
<1>1. PICK u \in User, n \in SomeNovel, bad \in Bad :
         IF bad # "none" THEN RefusedBySchema(r, Asked("create_label_group", u, n, None, bad), 422)
         ELSE insert_label_group(r, Asked("create_label_group", u, n, None, bad), errors)
  BY DEF create_label_group
<1>2. PICK ask : ask = Asked("create_label_group", u, n, None, bad)
  OBVIOUS
<1>3. ask.op = "create_label_group" /\ ask.user = u /\ ask.bad = bad
  BY <1>2, AskedIs
<1>4. CASE bad # "none"
  BY <1>1, <1>4, RefusedStep
<1>5. CASE bad = "none"
  BY <1>1, <1>2, <1>3, <1>5, InsertGroupStep
<1> QED
  BY <1>4, <1>5

LEMMA UpdateGroupStep ==
  ASSUME IInv, NEW r \in Call, update_label_group(r)
  PROVE  IInv'
<1>1. PICK ask, errors : modify_label_group(r, ask, errors) \/ RefusedBySchema(r, ask, 422)
  BY DEF update_label_group
<1> QED
  BY <1>1, AnswersEnds, RaisesEnds, RefusedStep DEF modify_label_group

LEMMA CreateLabelDataStep ==
  ASSUME IInv, NEW r \in Call, create_label_data(r)
  PROVE  IInv'
<1>1. PICK ask, errors : insert_label_data(r, ask, errors)
  BY DEF create_label_data
<1>2. CASE /\ IsGroup(ask.on) /\ ask.arg \in chapter_contents
           /\ label_datas' = label_datas \cup {<<ask.on, ask.arg[1], ask.arg[2]>>}
           /\ Answers(r, ask, Reply(Ok({<<ask.on, ask.arg[1], ask.arg[2]>>}), errors))
           /\ UNCHANGED <<source_works, novels, novel_contributors, chapters, chapter_contents,
                          label_groups, label_contributors>>
  <2>1. PICK g, c, v : g = ask.on /\ c = ask.arg[1] /\ v = ask.arg[2]
    OBVIOUS
  <2>2. <<c, v>> \in chapter_contents
    <3>1. ask.arg \in Chapter \X (Nat \ {0})
      BY <1>2 DEF IInv, TablesOK
    <3>2. ask.arg = <<c, v>>
      BY <2>1, <3>1
    <3> QED
      BY <1>2, <3>2
  <2> QED
    BY <1>2, <2>1, <2>2, InsertLabelDataStep
<1>3. CASE UNCHANGED tables /\ \E exception : Raises(r, ask, exception, errors)
  BY <1>3, RaisesEnds
<1> QED
  BY <1>1, <1>2, <1>3 DEF insert_label_data

-----------------------------------------------------------------------------
(* The reads.                                                               *)
LEMMA SelectStep ==
  ASSUME IInv, NEW r \in Call, NEW ask, NEW rows, NEW kind, NEW found, NEW errors,
         Select(r, ask, rows, kind, found, errors), ask.op \notin ChapterChanges, NEW p,
         p = [at |-> "query", ask |-> ask, kind |-> kind, found |-> found, errors |-> errors],
         NovelQueryOK(p) \/ ChapterQueryOK(p) \/ WorkQueryOK(p)
  PROVE  IInv'
<1>1. CASE rows # {}
  BY <1>1, AnswersEnds DEF Select
<1>2. CASE rows = {}
  BY <1>2, AsksGoesOn DEF Select
<1> QED
  BY <1>1, <1>2

LEMMA ReadNovelsStep ==
  ASSUME IInv, NEW r \in Call, read_novels_by_source_work(r)
  PROVE  IInv'
<1> DEFINE errors == [SourceWorkNotFound |-> 404]
<1>1. PICK u \in Anyone, w \in SomeWork :
         query_novels_by_source_work(r, Asked("read_novels_by_source_work", u, w, None, "none"), errors)
  BY DEF read_novels_by_source_work
<1>2. PICK ask : ask = Asked("read_novels_by_source_work", u, w, None, "none")
  OBVIOUS
<1>3. ask.op = "read_novels_by_source_work"
  BY <1>2, AskedIs
<1>4. PICK p : p = [at |-> "query", ask |-> ask, kind |-> "source_work", found |-> "none", errors |-> errors]
  OBVIOUS
<1>5. WorkQueryOK(p)
  BY <1>3, <1>4 DEF WorkQueryOK, Asking
<1>6. PICK rows : Select(r, ask, rows, "source_work", "none", errors)
  BY <1>1, <1>2 DEF query_novels_by_source_work
<1> HIDE DEF errors
<1> QED
  BY <1>3, <1>4, <1>5, <1>6, SelectStep DEF ChapterChanges

LEMMA ReadChaptersStep ==
  ASSUME IInv, NEW r \in Call, read_chapters_by_novel(r)
  PROVE  IInv'
<1> DEFINE errors == [NovelNotFound |-> 404]
<1>1. PICK u \in Anyone, n \in SomeNovel, range \in Span :
         query_chapters_by_novel(r, Asked("read_chapters_by_novel", u, n, range, "none"), errors)
  BY DEF read_chapters_by_novel
<1>2. PICK ask : ask = Asked("read_chapters_by_novel", u, n, range, "none")
  OBVIOUS
<1>3. ask.op = "read_chapters_by_novel" /\ ask.on = n
  BY <1>2, AskedIs
<1>4. PICK p : p = [at |-> "query", ask |-> ask, kind |-> "novel", found |-> "none", errors |-> errors]
  OBVIOUS
<1>5. NovelQueryOK(p)
  BY <1>3, <1>4 DEF NovelQueryOK, Asking, SomeNovel
<1>6. PICK rows : Select(r, ask, rows, "novel", "none", errors)
  BY <1>1, <1>2 DEF query_chapters_by_novel
<1> HIDE DEF errors
<1> QED
  BY <1>3, <1>4, <1>5, <1>6, SelectStep DEF ChapterChanges

LEMMA ReadContentStep ==
  ASSUME IInv, NEW r \in Call, read_chapter_content(r)
  PROVE  IInv'
<1> DEFINE errors == [ChapterNotFound |-> 404, ChapterContentNotFound |-> 404]
<1>1. PICK u \in Anyone, c \in SomeChapter :
         query_chapter_content_by_most_recent(r, Asked("read_chapter_content", u, c, None, "none"), errors)
  BY DEF read_chapter_content
<1>2. PICK ask : ask = Asked("read_chapter_content", u, c, None, "none")
  OBVIOUS
<1>3. ask.op = "read_chapter_content"
  BY <1>2, AskedIs
<1>4. PICK p : p = [at |-> "query", ask |-> ask, kind |-> "chapter",
                    found |-> "ChapterContentNotFound", errors |-> errors]
  OBVIOUS
<1>5. ChapterQueryOK(p)
  BY <1>3, <1>4 DEF ChapterQueryOK, Asking
<1>6. PICK rows : Select(r, ask, rows, "chapter", "ChapterContentNotFound", errors)
  BY <1>1, <1>2 DEF query_chapter_content_by_most_recent
<1> HIDE DEF errors
<1> QED
  BY <1>3, <1>4, <1>5, <1>6, SelectStep DEF ChapterChanges

LEMMA ReadWorksStep ==
  ASSUME IInv, NEW r \in Call, read_source_works(r)
  PROVE  IInv'
<1>1. PICK u \in Anyone, match \in Match :
         query_source_works_with_novels(r, Asked("read_source_works", u, None, match, "none"), <<>>)
  BY DEF read_source_works
<1>2. PICK ask : ask = Asked("read_source_works", u, None, match, "none")
  OBVIOUS
<1>3. ask.op = "read_source_works" /\ ask.arg = match
  BY <1>2, AskedIs
<1>4. PICK works : works = query_source_works_by_title(ask.user, ask.arg).rows
  OBVIOUS
<1>5. works \subseteq source_works \cap ask.arg
  BY <1>4 DEF query_source_works_by_title, Ok
<1>6. PICK p : p = [at |-> "novels", ask |-> ask, errors |-> <<>>, works |-> works]
  OBVIOUS
<1>7. Becomes(r, p) /\ UNCHANGED tables
  BY <1>1, <1>2, <1>4, <1>6 DEF query_source_works_with_novels
<1>8. CallOK(p)'
  BY <1>3, <1>5, <1>6, <1>7 DEF CallOK, EditAt, tables
<1>9. \A s \in Call \ {r} : Apart(p, call[s]) /\ Apart(call[s], p)
  BY <1>6 DEF Apart, NameAt, StoreAt
<1> QED
  BY <1>7, <1>8, <1>9, GoesOn

-----------------------------------------------------------------------------
(* The later steps of a request, and the whole system.                       *)
LEMMA ProceedStep ==
  ASSUME IInv, NEW r \in Call, Proceed(r)
  PROVE  IInv'
<1>1. CASE InsertRow(r)
  BY <1>1, InsertRowStep
<1>2. CASE Commit(r)
  BY <1>2, CommitNovelStep, CommitGroupStep, CommitChaptersStep DEF Commit
<1>3. CASE Deadlock(r)
  BY <1>3, RaisesEnds DEF Deadlock
<1>4. CASE Requery(r)
  BY <1>4, RaisesEnds DEF Requery
<1>5. CASE NovelsOfWorks(r)
  BY <1>5, AnswersEnds DEF NovelsOfWorks
<1>6. CASE InsertVersion(r) \/ FindLabelDatas(r) \/ CommitVersion(r)
  BY <1>6, InsertVersionStep, FindLabelDatasStep, CommitVersionStep
<1> QED
  BY <1>1, <1>2, <1>3, <1>4, <1>5, <1>6 DEF Proceed

LEMMA RequestStep ==
  ASSUME IInv, NEW r \in Call, Request(r)
  PROVE  IInv'
<1>1. CASE ReadRequest(r)
  BY <1>1, ReadWorksStep, ReadNovelsStep, ReadChaptersStep, ReadContentStep DEF ReadRequest
<1>2. CASE WriteRequest(r)
  BY <1>2, CreateSourceWorkStep, UpdateSourceWorkStep, CreateNovelStep, UpdateNovelStep, CreateChapterStep,
     UploadStep, UpdateChapterStep, DeleteChapterStep, PublishChapterStep, UpdateContentStep,
     CreateGroupStep, UpdateGroupStep, CreateLabelDataStep DEF WriteRequest
<1> QED
  BY <1>1, <1>2 DEF Request

LEMMA NextStep ==
  ASSUME IInv, [Next]_vars
  PROVE  IInv'
<1>1. CASE UNCHANGED vars
  <2>1. UNCHANGED tables /\ call' = call
    BY <1>1 DEF vars
  <2>2. TablesOK' /\ WholeRows'
    BY <2>1 DEF IInv, TablesOK, WholeRows, tables, IsNovel, IsChapter, IsGroup
  <2>3. ASSUME NEW s \in Call, NEW p \in {call'[s]} PROVE CallOK(p)'
    BY <2>1, <2>3, CallIs, CallSame
  <2>4. CallsOK'
    BY <2>1, <2>3 DEF IInv, CallsOK
  <2> QED
    BY <2>2, <2>4 DEF IInv
<1>2. ASSUME NEW r \in Call, Return(r) \/ Die(r) PROVE IInv'
  <2>1. NoCall.at = "idle"
    BY DEF NoCall
  <2> QED
    BY <1>2, <2>1, Ends DEF Return, Die
<1> QED
  BY <1>1, <1>2, RequestStep, ProceedStep DEF Next

LEMMA InitInv ==
  ASSUME Init
  PROVE  IInv
<1>1. \A r \in Call : call[r] = NoCall /\ NoCall.at = "idle"
  BY DEF Init, NoCall
<1>2. CallsOK
  BY <1>1 DEF Init, CallsOK, CallOK, Apart, EditAt, NameAt, StoreAt
<1> QED
  BY <1>2 DEF Init, IInv

THEOREM Invariance == Spec => []IInv
<1>1. IInv /\ [Next]_vars => IInv'
  BY NextStep
<1> QED
  BY <1>1, InitInv, PTL DEF Spec

(* The tables hold rows of their types, whatever requests write at once.      *)
THEOREM TypeCorrect == Spec => []TablesOK
<1>1. IInv => TablesOK
  BY DEF IInv
<1> QED
  BY <1>1, Invariance, PTL

(* Rows never stand without the rows they need: requests that insert, remove   *)
(* and extend rows at once, collide or die leave none alone.                  *)
THEOREM RowsWhole == Spec => []WholeRows
<1>1. IInv => WholeRows
  BY DEF IInv
<1> QED
  BY <1>1, Invariance, PTL

-----------------------------------------------------------------------------
(* Who may change a row may read it.                                         *)
LEMMA NovelRights ==
  ASSUME NEW u, NEW n, IsNovel(n)
  PROVE  /\ novel_mod_access_update(u, n) => novel_mod_access_select(u, n, FALSE)
         /\ novel_mod_access_select(u, n, TRUE) <=> novel_mod_access_update(u, n)
         /\ chapter_mod_access_insert(u, n) <=> chapter_content_mod_access_insert(u, n)
BY DEF novel_mod_access_update, novel_mod_access_select, chapter_mod_access_insert,
   chapter_content_mod_access_insert, Contributes, Writers, Role

LEMMA WorkRights ==
  ASSUME NEW u, NEW w, NovelsOf(w) # {}, source_work_mod_access_update(u, w)
  PROVE  source_work_mod_access_select(u, w)
BY DEF source_work_mod_access_update, source_work_mod_access_select, novel_mod_access_select,
   Contributes, Role

LEMMA ChapterRights ==
  ASSUME NEW u, NEW c, IsChapter(c)
  PROVE  /\ chapter_mod_access_delete(u, c) => chapter_mod_access_update(u, c)
         /\ chapter_mod_access_update(u, c) => chapter_mod_access_select(u, c, FALSE)
         /\ chapter_mod_access_select(u, c, TRUE) <=> chapter_mod_access_update(u, c)
BY DEF chapter_mod_access_delete, chapter_mod_access_update, chapter_mod_access_select,
   novel_mod_access_select, Contributes, Writers, Role

LEMMA GroupRights ==
  ASSUME NEW u, NEW g, IsGroup(g)
  PROVE  /\ label_group_mod_access_update(u, g) => label_group_mod_access_select(u, g, FALSE, TRUE)
         /\ label_group_mod_access_select(u, g, FALSE, TRUE) => label_data_mod_access_insert(u, g)
<1>1. label_group_mod_access_update(u, g) => label_group_mod_access_select(u, g, FALSE, TRUE)
  BY DEF label_group_mod_access_update, label_group_mod_access_select, Among
<1>2. label_group_mod_access_select(u, g, FALSE, TRUE) => label_data_mod_access_insert(u, g)
  BY DEF label_group_mod_access_select, label_data_mod_access_insert, novel_mod_access_select, Among
<1> QED
  BY <1>1, <1>2

LEMMA LabelRights ==
  ASSUME NEW u, NEW d
  PROVE  /\ label_mod_access_delete(u, d) <=> label_mod_access_update(u, d)
         /\ label_mod_access_insert(u, d) => label_data_mod_access_select(u, d, FALSE, TRUE)
BY DEF label_mod_access_delete, label_mod_access_update, label_mod_access_insert,
   label_data_mod_access_select, Among

(* Who may change a row may read it, and conditions that are written twice     *)
(* agree, whatever the tables have become.                                   *)
THEOREM RightsHold == Spec => []RightsNest
<1>1. RightsNest
  BY NovelRights, WorkRights, ChapterRights, GroupRights, LabelRights DEF RightsNest
<1> QED
  BY <1>1, PTL

-----------------------------------------------------------------------------
(* What the reads answer.                                                   *)
\* Who may read a row, as opposed to change it.
NovelSeen(u, n) == novel_mod_access_select(u, n, FALSE)
ChapterSeen(u, c) == chapter_mod_access_select(u, c, FALSE)
ContentSeen(u, c) == chapter_content_mod_access_select(u, c, FALSE)
GroupSeen(u, g) == label_group_mod_access_select(u, g, FALSE, FALSE)
LabelsSeen(u, d) == label_data_mod_access_select(u, d, FALSE, FALSE)

\* An endpoint that knows one exception answers 200 with a row or 404 without.
LEMMA ReadNovelIs ==
  ASSUME NEW u, NEW n
  PROVE  /\ IsNovel(n) /\ NovelSeen(u, n)
               => read_novel(u, n).status = 200
         /\ ~(IsNovel(n) /\ NovelSeen(u, n))
               => read_novel(u, n).status = 404
<1> DEFINE rows == {x \in Novel : x = n /\ IsNovel(x) /\ NovelSeen(u, x)}
<1>1. IsNovel(n) /\ NovelSeen(u, n) => n \in rows
  BY DEF IsNovel
<1>2. \A x \in rows : IsNovel(n) /\ NovelSeen(u, n)
  OBVIOUS
<1>3. read_novel(u, n) = Reply(OneRow(rows, "NovelNotFound"), [NovelNotFound |-> 404])
  BY DEF read_novel, query_novel_by_id, NovelSeen
<1> HIDE DEF rows
<1>4. /\ rows # {} => read_novel(u, n).status = 200
      /\ rows = {} => read_novel(u, n).status = 404
  BY <1>3 DEF Reply, OneRow, Raise, Ok, Status
<1>5. /\ IsNovel(n) /\ NovelSeen(u, n) => rows # {}
      /\ ~(IsNovel(n) /\ NovelSeen(u, n)) => rows = {}
  BY <1>1, <1>2
<1> QED
  BY <1>4, <1>5

LEMMA ReadNovelWithIs ==
  ASSUME NEW u \in User, NEW n
  PROVE  /\ (/\ IsNovel(n) /\ NovelSeen(u, n)
             /\ \E v \in User : Contributes(v, n, Role))
               => read_novel_with_contributors(u, n).status = 200
         /\ ~(IsNovel(n) /\ NovelSeen(u, n))
               => read_novel_with_contributors(u, n).status = 404
<1> DEFINE who == {v \in User : IsNovel(n) /\ Contributes(v, n, Role) /\ NovelSeen(u, n)}
           rows == {<<n, v>> : v \in who}
<1>1. \A v \in User : IsNovel(n) /\ NovelSeen(u, n) /\ Contributes(v, n, Role) => <<n, v>> \in rows
  OBVIOUS
<1>2. \A x \in rows : IsNovel(n) /\ NovelSeen(u, n)
  OBVIOUS
<1>3. read_novel_with_contributors(u, n) = Reply(OneRow(rows, "NovelNotFound"), [NovelNotFound |-> 404])
  BY DEF SignedIn, read_novel_with_contributors, query_novel_and_users_by_id, NovelSeen
<1> HIDE DEF who, rows
<1>4. /\ rows # {} => read_novel_with_contributors(u, n).status = 200
      /\ rows = {} => read_novel_with_contributors(u, n).status = 404
  BY <1>3 DEF Reply, OneRow, Raise, Ok, Status
<1>5. /\ IsNovel(n) /\ NovelSeen(u, n) /\ (\E v \in User : Contributes(v, n, Role)) => rows # {}
      /\ ~(IsNovel(n) /\ NovelSeen(u, n)) => rows = {}
  BY <1>1, <1>2
<1> QED
  BY ONLY <1>4, <1>5, Zenon

LEMMA ReadWorkIs ==
  ASSUME NEW u, NEW w
  PROVE  /\ w \in source_works /\ source_work_mod_access_select(u, w)
               => read_source_work(u, w).status = 200
         /\ ~(w \in source_works /\ source_work_mod_access_select(u, w))
               => read_source_work(u, w).status = 404
<1> DEFINE rows == {x \in source_works : x = w /\ source_work_mod_access_select(u, x)}
<1>1. w \in source_works /\ source_work_mod_access_select(u, w) => w \in rows
  OBVIOUS
<1>2. \A x \in rows : w \in source_works /\ source_work_mod_access_select(u, w)
  OBVIOUS
<1>3. read_source_work(u, w) = Reply(OneRow(rows, "SourceWorkNotFound"), [SourceWorkNotFound |-> 404])
  BY DEF read_source_work, query_source_work_by_id
<1> HIDE DEF rows
<1>4. /\ rows # {} => read_source_work(u, w).status = 200
      /\ rows = {} => read_source_work(u, w).status = 404
  BY <1>3 DEF Reply, OneRow, Raise, Ok, Status
<1>5. /\ w \in source_works /\ source_work_mod_access_select(u, w) => rows # {}
      /\ ~(w \in source_works /\ source_work_mod_access_select(u, w)) => rows = {}
  BY <1>1, <1>2
<1> QED
  BY <1>4, <1>5

LEMMA ReadChapterIs ==
  ASSUME NEW u, NEW c
  PROVE  /\ IsChapter(c) /\ ChapterSeen(u, c)
               => read_chapter_by_id(u, c).status = 200
         /\ ~(IsChapter(c) /\ ChapterSeen(u, c))
               => read_chapter_by_id(u, c).status = 404
<1> DEFINE rows == {x \in Chapter : x = c /\ IsChapter(x) /\ ChapterSeen(u, x)}
<1>1. IsChapter(c) /\ ChapterSeen(u, c) => c \in rows
  BY DEF IsChapter
<1>2. \A x \in rows : IsChapter(c) /\ ChapterSeen(u, c)
  OBVIOUS
<1>3. read_chapter_by_id(u, c) = Reply(OneRow(rows, "ChapterNotFound"), [ChapterNotFound |-> 404])
  BY DEF read_chapter_by_id, query_chapter_by_id, ChapterSeen
<1> HIDE DEF rows
<1>4. /\ rows # {} => read_chapter_by_id(u, c).status = 200
      /\ rows = {} => read_chapter_by_id(u, c).status = 404
  BY <1>3 DEF Reply, OneRow, Raise, Ok, Status
<1>5. /\ IsChapter(c) /\ ChapterSeen(u, c) => rows # {}
      /\ ~(IsChapter(c) /\ ChapterSeen(u, c)) => rows = {}
  BY <1>1, <1>2
<1> QED
  BY <1>4, <1>5

LEMMA ReadContentIs ==
  ASSUME NEW u \in User, NEW cc
  PROVE  /\ cc \in chapter_contents /\ ContentSeen(u, cc[1])
               => read_chapter_content_by_id(u, cc).status = 200
         /\ ~(cc \in chapter_contents /\ ContentSeen(u, cc[1]))
               => read_chapter_content_by_id(u, cc).status = 404
<1> DEFINE rows == {x \in chapter_contents : x = cc /\ ContentSeen(u, x[1])}
<1>1. cc \in chapter_contents /\ ContentSeen(u, cc[1]) => cc \in rows
  OBVIOUS
<1>2. \A x \in rows : cc \in chapter_contents /\ ContentSeen(u, cc[1])
  OBVIOUS
<1>3. read_chapter_content_by_id(u, cc) = Reply(OneRow(rows, "ChapterContentNotFound"), [ChapterContentNotFound |-> 404])
  BY DEF SignedIn, read_chapter_content_by_id, query_chapter_content_by_id, ContentSeen
<1> HIDE DEF rows
<1>4. /\ rows # {} => read_chapter_content_by_id(u, cc).status = 200
      /\ rows = {} => read_chapter_content_by_id(u, cc).status = 404
  BY <1>3 DEF Reply, OneRow, Raise, Ok, Status
<1>5. /\ cc \in chapter_contents /\ ContentSeen(u, cc[1]) => rows # {}
      /\ ~(cc \in chapter_contents /\ ContentSeen(u, cc[1])) => rows = {}
  BY <1>1, <1>2
<1> QED
  BY <1>4, <1>5

LEMMA ReadStatusIs ==
  ASSUME NEW u, NEW c, NEW cc
  PROVE  read_chapter_content_status(u, c, cc).status =
            IF LatestRows(u, c) = {} THEN 404 ELSE IF LatestRows(u, c) # {cc} THEN 409 ELSE 200
BY DEF read_chapter_content_status, query_chapter_content_status, Reply, Raise, Ok, Status

\* The latest contents of a chapter are one row, for those who read the chapter.
LEMMA LatestRowsIs ==
  ASSUME TablesOK, WholeRows, NEW u, NEW c, IsChapter(c)
  PROVE  /\ <<c, Latest(c)>> \in chapter_contents
         /\ LatestRows(u, c) = IF ChapterSeen(u, c) THEN {<<c, Latest(c)>>} ELSE {}
<1>1. <<c, 1>> \in chapter_contents
  BY DEF WholeRows, IsChapter
<1>2. <<c, Latest(c)>> \in chapter_contents
  BY <1>1, LatestIs
<1>3. \A cc \in chapter_contents : cc = <<cc[1], cc[2]>>
  BY DEF TablesOK
<1> QED
  BY <1>2, <1>3 DEF LatestRows, ContentSeen, ChapterSeen, chapter_content_mod_access_select

LEMMA ReadGroupIs ==
  ASSUME NEW u \in User, NEW g
  PROVE  /\ IsGroup(g) /\ GroupSeen(u, g)
               => read_label_group(u, g).status = 200
         /\ ~(IsGroup(g) /\ GroupSeen(u, g))
               => read_label_group(u, g).status = 404
<1> DEFINE rows == {h \in Group : h = g /\ IsGroup(h) /\ GroupSeen(u, h)}
<1>1. IsGroup(g) /\ GroupSeen(u, g) => g \in rows
  BY DEF IsGroup
<1>2. \A x \in rows : IsGroup(g) /\ GroupSeen(u, g)
  OBVIOUS
<1>3. read_label_group(u, g) = Reply(OneRow(rows, "LabelGroupNotFound"), [LabelGroupNotFound |-> 404])
  BY DEF SignedIn, read_label_group, query_label_group_by_id, GroupSeen
<1> HIDE DEF rows
<1>4. /\ rows # {} => read_label_group(u, g).status = 200
      /\ rows = {} => read_label_group(u, g).status = 404
  BY <1>3 DEF Reply, OneRow, Raise, Ok, Status
<1>5. /\ IsGroup(g) /\ GroupSeen(u, g) => rows # {}
      /\ ~(IsGroup(g) /\ GroupSeen(u, g)) => rows = {}
  BY <1>1, <1>2
<1> QED
  BY <1>4, <1>5

LEMMA ReadLabelDataIs ==
  ASSUME NEW u \in User, NEW d
  PROVE  /\ d \in label_datas /\ LabelsSeen(u, d)
               => read_label_data(u, d).status = 200
         /\ ~(d \in label_datas /\ LabelsSeen(u, d))
               => read_label_data(u, d).status = 404
<1> DEFINE rows == {x \in label_datas : x = d /\ LabelsSeen(u, x)}
<1>1. d \in label_datas /\ LabelsSeen(u, d) => d \in rows
  OBVIOUS
<1>2. \A x \in rows : d \in label_datas /\ LabelsSeen(u, d)
  OBVIOUS
<1>3. read_label_data(u, d) = Reply(OneRow(rows, "LabelDataNotFound"), [LabelDataNotFound |-> 404])
  BY DEF SignedIn, read_label_data, query_label_data_by_id, LabelsSeen
<1> HIDE DEF rows
<1>4. /\ rows # {} => read_label_data(u, d).status = 200
      /\ rows = {} => read_label_data(u, d).status = 404
  BY <1>3 DEF Reply, OneRow, Raise, Ok, Status
<1>5. /\ d \in label_datas /\ LabelsSeen(u, d) => rows # {}
      /\ ~(d \in label_datas /\ LabelsSeen(u, d)) => rows = {}
  BY <1>1, <1>2
<1> QED
  BY <1>4, <1>5

LEMMA ReadLabelIs ==
  ASSUME NEW u \in User, NEW d
  PROVE  /\ d \in label_datas /\ LabelsSeen(u, d)
               => read_label(u, d).status = 200
         /\ ~(d \in label_datas /\ LabelsSeen(u, d))
               => read_label(u, d).status = 404
<1> DEFINE rows == {x \in label_datas : x = d /\ LabelsSeen(u, x)}
<1>1. d \in label_datas /\ LabelsSeen(u, d) => d \in rows
  OBVIOUS
<1>2. \A x \in rows : d \in label_datas /\ LabelsSeen(u, d)
  OBVIOUS
<1>3. read_label(u, d) = Reply(OneRow(rows, "LabelNotFound"), [LabelNotFound |-> 404])
  BY DEF SignedIn, read_label, query_label_by_id, LabelsSeen
<1> HIDE DEF rows
<1>4. /\ rows # {} => read_label(u, d).status = 200
      /\ rows = {} => read_label(u, d).status = 404
  BY <1>3 DEF Reply, OneRow, Raise, Ok, Status
<1>5. /\ d \in label_datas /\ LabelsSeen(u, d) => rows # {}
      /\ ~(d \in label_datas /\ LabelsSeen(u, d)) => rows = {}
  BY <1>1, <1>2
<1> QED
  BY <1>4, <1>5

\* Reads that only list are refused to nobody.
LEMMA VersionsListed ==
  ASSUME NEW u \in User, NEW c
  PROVE  read_chapter_content_versions(u, c).rows
            = {cc \in chapter_contents : cc[1] = c /\ ContentSeen(u, c)}
BY DEF SignedIn, read_chapter_content_versions, query_chapter_content_ids_by_chapter_id, ContentSeen, Reply, Ok

LEMMA NovelsListed ==
  read_novels(Novel).rows = {m \in Novel : IsNovel(m) /\ novels[m].visibility = PUBLIC}
BY DEF read_novels, query_novels_by_title, Reply, Ok

LEMMA MyNovelsListed ==
  ASSUME NEW u \in User
  PROVE  \A m \in read_novels_mine(u, FALSE, Novel).rows : IsNovel(m) /\ Contributes(u, m, Role)
BY DEF SignedIn, read_novels_mine, query_novels_by_current_user, Reply, Ok

LEMMA GroupsListed ==
  ASSUME NEW u \in User, NEW n
  PROVE  /\ read_label_groups(u, n).rows
               = {g \in Group : IsGroup(g) /\ label_groups[g] = n /\ GroupSeen(u, g)}
         /\ \A p \in read_label_groups_with_role(u, n).rows :
               \E g \in read_label_groups(u, n).rows :
                  Labels(u, g, Role) /\ p = <<g, label_contributors[g][u]>>
<1>1. read_label_groups(u, n).rows = GroupRows(u, n)
  BY DEF SignedIn, read_label_groups, query_label_groups, Reply, Ok
<1>2. read_label_groups_with_role(u, n).rows
        = {<<g, label_contributors[g][u]>> : g \in {h \in GroupRows(u, n) : Labels(u, h, Role)}}
  BY DEF SignedIn, read_label_groups_with_role, query_label_groups_with_contributor_info, Reply, Ok
<1>3. GroupRows(u, n) = {g \in Group : IsGroup(g) /\ label_groups[g] = n /\ GroupSeen(u, g)}
  BY DEF GroupRows, GroupSeen
<1> QED
  BY <1>1, <1>2, <1>3

\* A novel is found with its contributors just when it is found alone: it has an owner.
LEMMA NovelsAgree ==
  ASSUME WholeRows, NEW u \in User, NEW n \in Novel
  PROVE  read_novel(u, n).status = read_novel_with_contributors(u, n).status
<1>1. IsNovel(n) => \E v \in User : Contributes(v, n, Role)
  BY DEF WholeRows, Contributes, Role
<1>2. CASE IsNovel(n) /\ NovelSeen(u, n)
  BY <1>1, <1>2, ReadNovelIs, ReadNovelWithIs
<1>3. CASE ~(IsNovel(n) /\ NovelSeen(u, n))
  BY <1>3, ReadNovelIs, ReadNovelWithIs
<1> QED
  BY <1>2, <1>3

\* A chapter that is listed can be opened, in its latest version.
LEMMA ChaptersAgree ==
  ASSUME TablesOK, WholeRows, NEW u, NEW n \in Novel, NEW c \in ChapterRows(u, n, <<None, None>>)
  PROVE  /\ read_novel(u, n).status = 200 /\ read_chapter_by_id(u, c).status = 200
         /\ \E cc \in chapter_contents :
               LatestRows(u, c) = {cc} /\ read_chapter_content_status(u, c, cc).status = 200
<1>1. c \in Chapter /\ IsChapter(c) /\ chapters[c].novel = n /\ ChapterSeen(u, c)
  BY DEF ChapterRows, ChapterSeen
<1>2. IsNovel(n) /\ NovelSeen(u, n)
  BY <1>1 DEF WholeRows, ChapterSeen, NovelSeen, chapter_mod_access_select
<1>3. read_novel(u, n).status = 200 /\ read_chapter_by_id(u, c).status = 200
  BY <1>1, <1>2, ReadNovelIs, ReadChapterIs
<1>4. PICK cc : cc = <<c, Latest(c)>>
  OBVIOUS
<1>5. cc \in chapter_contents /\ LatestRows(u, c) = {cc}
  BY <1>1, <1>4, LatestRowsIs
<1>6. read_chapter_content_status(u, c, cc).status = 200
  BY <1>5, ReadStatusIs
<1> QED
  BY <1>3, <1>5, <1>6

\* Contents that can be opened are found by their id and listed among the versions.
LEMMA ContentsAgree ==
  ASSUME NEW u \in User, NEW c, NEW cc \in LatestRows(u, c)
  PROVE  /\ read_chapter_content_by_id(u, cc).status = 200
         /\ cc \in read_chapter_content_versions(u, c).rows
<1>1. cc \in chapter_contents /\ cc[1] = c /\ ContentSeen(u, c)
  BY DEF LatestRows, ContentSeen
<1>2. read_chapter_content_by_id(u, cc).status = 200
  BY <1>1, ReadContentIs
<1>3. cc \in read_chapter_content_versions(u, c).rows
  BY <1>1, VersionsListed
<1> QED
  BY <1>2, <1>3

\* A source work is found just when one of its novels is.
LEMMA WorksAgree ==
  ASSUME WholeRows, NEW u, NEW w \in Work
  PROVE  read_source_work(u, w).status = 200 <=> \E n \in NovelsOf(w) : read_novel(u, n).status = 200
<1>1. ASSUME NEW n \in NovelsOf(w), NovelSeen(u, n)
      PROVE  read_source_work(u, w).status = 200 /\ read_novel(u, n).status = 200
  <2>1. IsNovel(n) /\ w \in source_works
    BY DEF NovelsOf, WholeRows
  <2>2. source_work_mod_access_select(u, w)
    BY <1>1 DEF source_work_mod_access_select, NovelSeen
  <2> QED
    BY <1>1, <2>1, <2>2, ReadNovelIs, ReadWorkIs
<1>2. ASSUME \A n \in NovelsOf(w) : ~NovelSeen(u, n)
      PROVE  /\ read_source_work(u, w).status = 404
             /\ \A n \in NovelsOf(w) : read_novel(u, n).status = 404
  <2>1. ~source_work_mod_access_select(u, w)
    BY <1>2 DEF source_work_mod_access_select, NovelSeen
  <2> QED
    BY <1>2, <2>1, ReadNovelIs, ReadWorkIs
<1> QED
  BY <1>1, <1>2

\* What is listed as public or as mine is found by its id.
LEMMA PublicNovelsAgree ==
  ASSUME NEW u, NEW n \in read_novels(Novel).rows
  PROVE  read_novel(u, n).status = 200
<1>1. IsNovel(n) /\ novels[n].visibility = PUBLIC
  BY NovelsListed
<1>2. NovelSeen(u, n)
  BY <1>1 DEF NovelSeen, novel_mod_access_select, PUBLIC, UNLISTED
<1> QED
  BY <1>1, <1>2, ReadNovelIs

LEMMA MyNovelsAgree ==
  ASSUME WholeRows, NEW u \in User, NEW n, IsNovel(n), Contributes(u, n, Role)
  PROVE  read_novel(u, n).status = 200 /\ read_source_work(u, novels[n].work).status = 200
<1>1. n \in NovelsOf(novels[n].work) /\ novels[n].work \in source_works
  BY DEF NovelsOf, WholeRows, IsNovel
<1>2. NovelSeen(u, n)
  BY DEF NovelSeen, novel_mod_access_select
<1>3. source_work_mod_access_select(u, novels[n].work)
  BY <1>1, <1>2 DEF source_work_mod_access_select, NovelSeen
<1> QED
  BY <1>1, <1>2, <1>3, ReadNovelIs, ReadWorkIs

\* A group is listed in its novel for those who find it by its id, and one that is listed
\* with a role has the asking user among its contributors.
LEMMA GroupsAgree ==
  ASSUME NEW u \in User, NEW n, NEW g \in Group
  PROVE  g \in read_label_groups(u, n).rows <=> read_label_group(u, g).status = 200 /\ label_groups[g] = n
<1>1. CASE IsGroup(g) /\ GroupSeen(u, g)
  BY <1>1, ReadGroupIs, GroupsListed
<1>2. CASE ~(IsGroup(g) /\ GroupSeen(u, g))
  BY <1>2, ReadGroupIs, GroupsListed
<1> QED
  BY <1>1, <1>2

LEMMA RolesAgree ==
  ASSUME NEW u \in User, NEW n, NEW p \in read_label_groups_with_role(u, n).rows
  PROVE  /\ p[1] \in read_label_groups(u, n).rows
         /\ u \in read_label_contributors(u, p[1]).rows
<1>1. PICK g \in read_label_groups(u, n).rows : Labels(u, g, Role) /\ p = <<g, label_contributors[g][u]>>
  BY GroupsListed
<1>2. p[1] = g
  BY <1>1
<1>3. IsGroup(g)
  BY GroupsListed
<1>4. label_contributors_mod_access_select(u, g)
  BY <1>1 DEF label_contributors_mod_access_select
<1> DEFINE rows == {v \in User : IsGroup(g) /\ Labels(v, g, Role) /\ label_contributors_mod_access_select(u, g)}
<1>5. u \in rows
  BY <1>1, <1>3, <1>4
<1>6. read_label_contributors(u, g) = Reply(OneRow(rows, "LabelGroupNotFound"), [LabelGroupNotFound |-> 404])
  BY DEF SignedIn, read_label_contributors, query_label_contributors_of_label_group
<1> HIDE DEF rows
<1>7. read_label_contributors(u, g).rows = rows
  BY <1>5, <1>6 DEF Reply, OneRow, Ok
<1> QED
  BY <1>2, <1>5, <1>7

\* Label data are read by some who read the chapter, and its labels by the same.
LEMMA LabelDatasAgree ==
  ASSUME TablesOK, WholeRows, NEW u \in User, NEW d \in label_datas
  PROVE  /\ read_label(u, d).status = read_label_data(u, d).status
         /\ read_labels_by_label_data(u, d).rows # {} <=> read_label_data(u, d).status = 200
         /\ read_label_data(u, d).status = 200
               => read_chapter_content_by_id(u, <<d[2], d[3]>>).status = 200
<1>1. ASSUME read_label_data(u, d).status = 200
      PROVE  read_chapter_content_by_id(u, <<d[2], d[3]>>).status = 200
  <2>1. LabelsSeen(u, d)
    BY <1>1, ReadLabelDataIs
  <2>2. PICK cc : cc = <<d[2], d[3]>>
    OBVIOUS
  <2>3. cc \in chapter_contents /\ ContentSeen(u, cc[1])
    BY <2>1, <2>2 DEF WholeRows, LabelsSeen, ContentSeen, label_data_mod_access_select
  <2> QED
    BY <2>2, <2>3, ReadContentIs
<1> DEFINE rows == {x \in label_datas : x = d /\ label_data_mod_access_select(u, x, FALSE, FALSE)}
<1>2. read_labels_by_label_data(u, d).rows = rows
  BY DEF SignedIn, read_labels_by_label_data, query_labels_by_label_data_id, Reply, Ok
<1>3. (LabelsSeen(u, d) => d \in rows) /\ (~LabelsSeen(u, d) => rows = {})
  BY DEF LabelsSeen
<1> HIDE DEF rows
<1>4. CASE LabelsSeen(u, d)
  BY <1>1, <1>2, <1>3, <1>4, ReadLabelDataIs, ReadLabelIs
<1>5. CASE ~LabelsSeen(u, d)
  BY <1>1, <1>2, <1>3, <1>5, ReadLabelDataIs, ReadLabelIs
<1> QED
  BY <1>4, <1>5

(* Two ways to read one thing agree, in every state of the library: those that *)
(* are open to guests for every reader, the others for every user.           *)
THEOREM ReadsAlwaysAgree == Spec => []ReadsAgree
<1>1. ASSUME TablesOK, WholeRows PROVE ReadsAgree
  <2>1. ASSUME NEW u \in User, NEW n \in Novel
        PROVE  read_novel(u, n).status = read_novel_with_contributors(u, n).status
    BY <1>1, NovelsAgree
  <2>2. ASSUME NEW u \in Readers, NEW w \in Work
        PROVE  read_source_work(u, w).status = 200 <=> \E n \in NovelsOf(w) : read_novel(u, n).status = 200
    BY <1>1, WorksAgree
  <2>3. ASSUME NEW u \in Readers, NEW n \in Novel, NEW c \in ChapterRows(u, n, <<None, None>>)
        PROVE  /\ read_novel(u, n).status = 200 /\ read_chapter_by_id(u, c).status = 200
               /\ \E cc \in chapter_contents :
                     LatestRows(u, c) = {cc} /\ read_chapter_content_status(u, c, cc).status = 200
    BY <1>1, ChaptersAgree
  <2>4. ASSUME NEW u \in Readers, NEW n \in read_novels(Novel).rows
        PROVE  read_novel(u, n).status = 200
    BY PublicNovelsAgree
  <2>5. ASSUME NEW u \in User, NEW n \in read_novels_mine(u, FALSE, Novel).rows
        PROVE  read_novel(u, n).status = 200 /\ read_source_work(u, novels[n].work).status = 200
    <3>1. IsNovel(n) /\ Contributes(u, n, Role)
      BY MyNovelsListed
    <3> QED
      BY <1>1, <3>1, MyNovelsAgree
  <2>6. ASSUME NEW u \in User, NEW n \in Novel, NEW g \in Group
        PROVE  g \in read_label_groups(u, n).rows <=>
                  read_label_group(u, g).status = 200 /\ label_groups[g] = n
    BY GroupsAgree
  <2>7. ASSUME NEW u \in User, NEW n \in Novel, NEW p \in read_label_groups_with_role(u, n).rows
        PROVE  /\ p[1] \in read_label_groups(u, n).rows
               /\ u \in read_label_contributors(u, p[1]).rows
    BY ONLY <2>7, RolesAgree, Zenon
  <2>8. ASSUME NEW u \in User, NEW d \in label_datas
        PROVE  /\ read_label(u, d).status = read_label_data(u, d).status
               /\ read_labels_by_label_data(u, d).rows # {} <=> read_label_data(u, d).status = 200
               /\ read_label_data(u, d).status = 200
                     => read_chapter_content_by_id(u, <<d[2], d[3]>>).status = 200
    BY <1>1, LabelDatasAgree
  <2>9. ASSUME NEW u \in User, NEW c \in Chapter, NEW cc \in LatestRows(u, c)
        PROVE  /\ read_chapter_content_by_id(u, cc).status = 200
               /\ cc \in read_chapter_content_versions(u, c).rows
    BY ContentsAgree
  <2> QED
    BY ONLY <2>1, <2>2, <2>3, <2>4, <2>5, <2>6, <2>7, <2>8, <2>9, ZenonT(60) DEF ReadsAgree
<1> QED
  BY <1>1, TypeCorrect, RowsWhole, PTL

-----------------------------------------------------------------------------
(* What a request has written its author may read: the rows of its answer are  *)
(* such that its author may change them, in the tables as they are then.      *)
NovelWrites == {"create_novel", "update_novel"}
ChapterWrites == ChapterKinds \cup {"update_chapter", "action_publish_chapter"}
GroupWrites == {"create_label_group", "update_label_group"}

Owned(a) ==
    /\ a.ask.op \in NovelWrites =>
          \A n \in a.rows : a.ask.user \in User /\ IsNovel(n) /\ novel_mod_access_update(a.ask.user, n)
    /\ a.ask.op \in ChapterWrites => \A c \in a.rows : MayChange(a.ask.user, c)
    /\ a.ask.op = "update_chapter_content" =>
          \A row \in a.rows :
             row[1] = <<a.ask.on, Latest(a.ask.on)>> /\ MayChange(a.ask.user, a.ask.on)
    /\ a.ask.op \in GroupWrites =>
          \A g \in a.rows : /\ a.ask.user \in User /\ IsGroup(g)
                             /\ (a.ask.user \in Admin \/ Labels(a.ask.user, g, Writers))

\* A chapter that one may change is found, and so is its latest version.
LEMMA ChangedRead ==
  ASSUME TablesOK, WholeRows, NEW u, NEW c, MayChange(u, c)
  PROVE  /\ read_chapter_by_id(u, c).status = 200
         /\ read_chapter_content_status(u, c, <<c, Latest(c)>>).status = 200
<1>1. IsChapter(c) /\ ChapterSeen(u, c)
  BY ChapterRights DEF MayChange, ChapterSeen
<1>2. LatestRows(u, c) = {<<c, Latest(c)>>}
  BY <1>1, LatestRowsIs
<1> QED
  BY <1>1, <1>2, ReadChapterIs, ReadStatusIs

OwnersRead == \A a : TablesOK /\ WholeRows /\ Owned(a) => ReadBack(a)

LEMMA OwnedRead == OwnersRead
<1> SUFFICES ASSUME NEW a, TablesOK, WholeRows, Owned(a) PROVE ReadBack(a)
  BY DEF OwnersRead
<1>1. PICK u, op : u = a.ask.user /\ op = a.ask.op
  OBVIOUS
<1>2. ASSUME op \in NovelWrites, NEW n \in a.rows
      PROVE  /\ read_novel(u, n).status = 200 /\ read_novel_with_contributors(u, n).status = 200
             /\ read_source_work(u, novels[n].work).status = 200
  <2>1. IsNovel(n) /\ NovelSeen(u, n) /\ n \in Novel /\ u \in User
    BY <1>1, <1>2, NovelRights DEF Owned, NovelSeen, IsNovel
  <2>2. read_novel(u, n).status = 200
    BY <2>1, ReadNovelIs
  <2>3. n \in NovelsOf(novels[n].work) /\ novels[n].work \in Work
    BY <2>1 DEF NovelsOf, TablesOK, NovelRow, IsNovel
  <2> QED
    BY <2>1, <2>2, <2>3, NovelsAgree, WorksAgree
<1>3. ASSUME op \in ChapterWrites, NEW c \in a.rows
      PROVE  /\ read_chapter_by_id(u, c).status = 200
             /\ read_chapter_content_status(u, c, <<c, Latest(c)>>).status = 200
  BY <1>1, <1>3, ChangedRead DEF Owned
<1>4. ASSUME op = "update_chapter_content", NEW row \in a.rows
      PROVE  read_chapter_content_status(u, a.ask.on, row[1]).status = 200
  <2>1. row[1] = <<a.ask.on, Latest(a.ask.on)>> /\ MayChange(u, a.ask.on)
    BY <1>1, <1>4 DEF Owned
  <2> QED
    BY <2>1, ChangedRead
<1>5. ASSUME op \in GroupWrites, NEW g \in a.rows, read_novel(u, label_groups[g]).status = 200
      PROVE  read_label_group(u, g).status = 200 /\ g \in read_label_groups(u, label_groups[g]).rows
  <2>0. u \in User /\ IsGroup(g) /\ (u \in Admin \/ Labels(u, g, Writers))
    <3>1. a.ask.op \in GroupWrites
      BY <1>1, <1>5
    <3>2. \A x \in a.rows : /\ a.ask.user \in User /\ IsGroup(x)
                             /\ (a.ask.user \in Admin \/ Labels(a.ask.user, x, Writers))
      BY <3>1 DEF Owned
    <3> QED
      BY <1>1, <1>5, <3>2
  <2>1. IsGroup(g) /\ g \in Group /\ (u \in Admin \/ Labels(u, g, Writers)) /\ u \in User
    BY <2>0 DEF IsGroup
  <2>2. NovelSeen(u, label_groups[g])
    BY <1>5, ReadNovelIs
  <2>3. GroupSeen(u, g)
    BY <2>1, <2>2 DEF GroupSeen, NovelSeen, label_group_mod_access_select, Labels, Writers, Role, Among
  <2>4. read_label_group(u, g).status = 200
    BY <2>1, <2>3, ReadGroupIs
  <2> QED
    BY <2>1, <2>4, GroupsAgree
<1>6. CASE op \in NovelWrites
  BY <1>1, <1>2, <1>6 DEF ReadBack, NovelWrites, ChapterKinds
<1>7. CASE op \in ChapterWrites
  BY <1>1, <1>3, <1>7 DEF ReadBack, ChapterWrites, ChapterKinds
<1>8. CASE op = "update_chapter_content"
  BY <1>1, <1>4, <1>8 DEF ReadBack, ChapterKinds
<1>9. CASE op \in GroupWrites
  BY <1>1, <1>5, <1>9 DEF ReadBack, GroupWrites, ChapterKinds
<1>10. CASE op \notin NovelWrites \cup ChapterWrites \cup GroupWrites \cup {"update_chapter_content"}
  BY <1>1, <1>10 DEF ReadBack, NovelWrites, ChapterWrites, GroupWrites
<1> QED
  BY <1>6, <1>7, <1>8, <1>9, <1>10

\* What a step makes of its own request.
LEMMA AnsweredIs ==
  ASSUME IInv, NEW r \in Call, NEW ask, NEW rows, NEW errors, Answers(r, ask, Reply(Ok(rows), errors))
  PROVE  call'[r].at = "answered" /\ call'[r].ask = ask /\ call'[r].rows = rows
BY DEF Answers, Becomes, Reply, Ok, IInv, CallsOK

LEMMA RefusesIs ==
  ASSUME IInv, NEW r \in Call, NEW ask, NEW exception, NEW errors,
         \/ Raises(r, ask, exception, errors)
         \/ Answers(r, ask, Reply(Raise(exception), errors))
         \/ \E kind : Asks(r, ask, kind, exception, errors)
  PROVE  /\ call'[r].ask = ask
         /\ call'[r].at = "answered" => call'[r].rows = {} /\ Owned(call[r])'
<1>1. ASSUME Raises(r, ask, exception, errors) \/ Answers(r, ask, Reply(Raise(exception), errors))
      PROVE  call'[r].ask = ask /\ call'[r].rows = {}
  BY <1>1 DEF Raises, Answers, Becomes, Reply, Raise, IInv, CallsOK
<1>2. ASSUME NEW kind, Asks(r, ask, kind, exception, errors)
      PROVE  call'[r].ask = ask /\ call'[r].at # "answered"
  BY <1>2 DEF Asks, Becomes, IInv, CallsOK
<1>3. call'[r].rows = {} => Owned(call[r])'
  BY DEF Owned
<1> QED
  BY <1>1, <1>2, <1>3

\* The rows that a request wrote in several statements.
LEMMA CommitOwned ==
  ASSUME IInv, NEW r \in Call, Commit(r)
  PROVE  call'[r].at = "answered" => Owned(call[r])'
<1>0. PICK p : p = call[r]
  OBVIOUS
<1>1. CallOK(p) /\ InsertOK(p) /\ p.at = "insert" /\ p.ask.user \in User
  BY <1>0, CallIs DEF Commit, Busy, CallOK, InsertOK
<1>2. ASSUME IsCreate(p), CommitNovel(r)
      PROVE  Owned(call[r])'
  <2>1. p.id \in Novel /\ CreateOK(p)
    BY <1>1, <1>2 DEF InsertOK, CreateOK
  <2>2. PICK row : row = [visibility |-> p.ask.arg, work |-> p.work]
    OBVIOUS
  <2>3. row # None
    BY <1>1, <2>1, <2>2, RowAssumption DEF NovelRow, CreateOK, IInv, TablesOK
  <2>4. /\ novels' = [novels EXCEPT ![p.id] = row]
        /\ novel_contributors' = [novel_contributors EXCEPT ![p.id][p.ask.user] = "owner"]
        /\ Answers(r, p.ask, Reply(Ok({p.id}), p.errors))
    BY <1>0, <1>2, <2>2 DEF CommitNovel
  <2>5. novels'[p.id] # None /\ novel_contributors'[p.id][p.ask.user] = "owner"
    BY <1>1, <2>1, <2>3, <2>4 DEF IInv, TablesOK
  <2>6. call'[r].ask = p.ask /\ call'[r].rows = {p.id}
    BY <2>4, AnsweredIs
  <2> QED
    BY <1>1, <1>2, <2>1, <2>5, <2>6
       DEF Owned, IsCreate, NovelWrites, ChapterWrites, ChapterKinds, GroupWrites, IsNovel,
           novel_mod_access_update, Contributes, Writers
<1>3. ASSUME IsGrouping(p), CommitGroup(r)
      PROVE  Owned(call[r])'
  <2>1. p.id \in Group /\ IsNovel(p.ask.on) /\ p.ask.on # None
    BY <1>1, <1>3, AccessAssumption DEF InsertOK, GroupingOK, IsNovel
  <2>2. /\ label_groups' = [label_groups EXCEPT ![p.id] = p.ask.on]
        /\ label_contributors' = [label_contributors EXCEPT ![p.id][p.ask.user] = "owner"]
        /\ Answers(r, p.ask, Reply(Ok({p.id}), p.errors))
    BY <1>0, <1>3 DEF CommitGroup
  <2>3. label_groups'[p.id] # None /\ label_contributors'[p.id][p.ask.user] = "owner"
    BY <1>1, <2>1, <2>2 DEF IInv, TablesOK
  <2>4. call'[r].ask = p.ask /\ call'[r].rows = {p.id}
    BY <2>2, AnsweredIs
  <2> QED
    BY <1>1, <1>3, <2>1, <2>3, <2>4
       DEF Owned, IsGrouping, NovelWrites, ChapterWrites, ChapterKinds, GroupWrites, IsGroup, Labels, Writers
<1>4. ASSUME IsUpload(p), CommitChapters(r), IsNovel(p.ask.on)
      PROVE  Owned(call[r])'
  <2> DEFINE row(c) == [novel |-> p.ask.on, num |-> p.done[RowOf(p, c)].num, public |-> p.done[RowOf(p, c)].public]
  <2>1. UploadOK(p)
    BY <1>1, <1>4 DEF InsertOK
  <2>2. /\ chapters' = [c \in Chapter |-> IF c \in Inserted(p) THEN row(c) ELSE chapters[c]]
        /\ Answers(r, p.ask, Reply(Ok(Inserted(p)), p.errors))
        /\ UNCHANGED novel_contributors
    BY <1>0, <1>4 DEF CommitChapters, RowOf
  <2>3. ASSUME NEW c \in Inserted(p) PROVE c \in Chapter /\ row(c).novel = p.ask.on /\ row(c) # None
    <3>1. RowOf(p, c) \in 1 .. Len(p.done) /\ c \in Chapter
      BY <2>1, RowOfIs
    <3>2. p.done[RowOf(p, c)].num \in Number /\ p.done[RowOf(p, c)].public \in BOOLEAN
      BY <2>1, <3>1, DoneIs
    <3>3. row(c) \in ChapterRow
      BY <1>4, <3>2 DEF ChapterRow, IsNovel
    <3> QED
      BY <3>1, <3>3, RowAssumption
  <2>4. \A c \in Inserted(p) : c \in Chapter /\ chapters'[c].novel = p.ask.on /\ chapters'[c] # None
    BY <2>2, <2>3
  <2> HIDE DEF row
  <2>5. p.ask.user \in Admin \/ Contributes(p.ask.user, p.ask.on, Writers)'
    BY <2>1, <2>2 DEF UploadOK, chapter_mod_access_insert, Contributes
  <2>6. \A c \in Inserted(p) : MayChange(p.ask.user, c)'
    BY <2>4, <2>5 DEF MayChange, IsChapter, chapter_mod_access_update, Contributes
  <2>7. call'[r].ask = p.ask /\ call'[r].rows = Inserted(p)
    BY <2>2, AnsweredIs
  <2> QED
    BY <1>4, <2>6, <2>7 DEF Owned, IsUpload, NovelWrites, ChapterKinds, GroupWrites
<1>5. ASSUME CommitChapters(r), ~IsNovel(p.ask.on)
      PROVE  call'[r].at = "answered" => Owned(call[r])'
  BY <1>0, <1>5, RefusesIs DEF CommitChapters
<1> QED
  BY <1>0, <1>2, <1>3, <1>4, <1>5 DEF Commit, IsCreate, IsGrouping, IsUpload, InsertsChapters

\* The version that a request has made is the latest one.
LEMMA CommitVersionOwned ==
  ASSUME IInv, TablesOK', NEW r \in Call, CommitVersion(r)
  PROVE  Owned(call[r])'
<1>0. PICK p, c, v, found : p = call[r] /\ c = p.ask.on /\ v = p.ask.arg[2] /\ found = p.ported
  OBVIOUS
<1>1. /\ EditOK(p) /\ p.at = "store" /\ chapters[c] # None
      /\ c \in Chapter /\ v \in Nat \ {0} /\ Revised(p.ask.arg) = <<c, v + 1>> /\ Newest(c, v)
  BY <1>0, CallIs DEF CommitVersion, Busy, CallOK, EditAt, StoreAt, EditOK, VersionOK, Revised
<1>2. /\ chapter_contents' = chapter_contents \cup {<<c, v + 1>>}
      /\ Answers(r, p.ask, Reply(Ok({<<<<c, v + 1>>, found>>}), p.errors))
      /\ UNCHANGED <<chapters, novel_contributors>>
  BY <1>0, <1>1 DEF CommitVersion
<1>3. \A w \in VersionsOf(c)' : w \in Nat /\ w <= v + 1
  <2> SUFFICES ASSUME NEW x \in chapter_contents', x[1] = c PROVE x[2] \in Nat /\ x[2] <= v + 1
    BY DEF VersionsOf
  <2>1. x = <<c, x[2]>> /\ x[2] \in Nat
    BY DEF TablesOK
  <2>2. CASE x \in chapter_contents
    BY <1>1, <2>1, <2>2 DEF Newest
  <2>3. CASE x = <<c, v + 1>>
    BY <1>1, <2>1, <2>3
  <2> QED
    BY <1>2, <2>2, <2>3
<1>4. v + 1 \in VersionsOf(c)'
  <2>1. PICK x : x = <<c, v + 1>>
    OBVIOUS
  <2>2. x \in chapter_contents' /\ x[1] = c /\ x[2] = v + 1
    BY <1>2, <2>1
  <2> QED
    BY <2>2 DEF VersionsOf
<1>5. Latest(c)' = v + 1
  <2>1. PICK l : l = Latest(c)'
    OBVIOUS
  <2>2. l \in VersionsOf(c)' /\ \A w \in VersionsOf(c)' : w <= l
    BY <1>3, <1>4, <2>1 DEF Latest
  <2> QED
    BY <1>1, <1>3, <1>4, <2>1, <2>2
<1>6. MayChange(p.ask.user, c)'
  BY <1>0, <1>1, <1>2 DEF EditOK, MayChange, IsChapter, chapter_mod_access_update, Contributes
<1>7. call'[r].ask = p.ask /\ call'[r].rows = {<<<<c, v + 1>>, found>>}
  BY <1>2, AnsweredIs
<1>8. \A row \in call'[r].rows : row[1] = <<c, v + 1>>
  BY <1>7
<1> QED
  BY <1>0, <1>1, <1>5, <1>6, <1>7, <1>8
     DEF EditOK, Owned, NovelWrites, ChapterWrites, ChapterKinds, GroupWrites

LEMMA ProceedOwned ==
  ASSUME IInv, TablesOK', NEW r \in Call, Proceed(r)
  PROVE  call'[r].at = "answered" => Owned(call[r])'
<1>1. CASE InsertRow(r)
  <2>1. ASSUME NEW c \in NewChapter, NEW p, p = call[r],
               Becomes(r, [p EXCEPT !.todo = Tail(@), !.done = Append(@, [id |-> c, num |-> Head(p.todo).num,
                                                                         public |-> Head(p.todo).public])])
        PROVE  call'[r].at # "answered"
    <3>1. p.at = "insert" /\ InsertOK(p)
      BY <1>1, <2>1, CallIs DEF InsertRow, InsertsChapters, Busy, CallOK
    <3> QED
      BY <2>1, <3>1 DEF Becomes, InsertOK, IInv, CallsOK
  <2>2. ASSUME NEW ask, NEW errors, Raises(r, ask, "ChapterNumDuplicate", errors)
        PROVE  call'[r].at = "answered" => Owned(call[r])'
    BY <2>2, RefusesIs
  <2> QED
    BY <1>1, <2>1, <2>2 DEF InsertRow
<1>2. CASE Commit(r)
  BY <1>2, CommitOwned
<1>3. CASE Deadlock(r)
  BY <1>3, RefusesIs DEF Deadlock
<1>4. CASE Requery(r)
  BY <1>4, RefusesIs DEF Requery
<1>5. CASE NovelsOfWorks(r)
  <2>1. call[r].ask.op = "read_source_works"
    BY <1>5, CallIs DEF NovelsOfWorks, Busy, CallOK
  <2>2. call'[r].ask = call[r].ask
    BY <1>5, AnsweredIs DEF NovelsOfWorks
  <2> QED
    BY <2>1, <2>2 DEF Owned, NovelWrites, ChapterWrites, ChapterKinds, GroupWrites
<1>6. CASE InsertVersion(r)
  <2>1. ASSUME NEW p, p = call[r], Becomes(r, [p EXCEPT !.at = "port"])
        PROVE  call'[r].at # "answered"
    <3>1. p = [at |-> p.at, ask |-> p.ask, ported |-> p.ported, errors |-> p.errors]
      BY <1>6, <2>1, CallIs DEF InsertVersion, Busy, CallOK, EditAt, EditOK
    <3>2. [p EXCEPT !.at = "port"].at = "port"
      BY <3>1
    <3> QED
      BY <2>1, <3>2 DEF Becomes, IInv, CallsOK
  <2>2. ASSUME NEW ask, NEW exception, NEW errors,
               Raises(r, ask, exception, errors) \/ Asks(r, ask, "content_status", exception, errors)
        PROVE  call'[r].at = "answered" => Owned(call[r])'
    BY <2>2, RefusesIs
  <2> QED
    BY <1>6, <2>1, <2>2 DEF InsertVersion
<1>7. CASE FindLabelDatas(r)
  <2>1. \E x, y, z : Becomes(r, [at |-> "store", ask |-> x, errors |-> y, ported |-> z])
    BY <1>7 DEF FindLabelDatas
  <2> QED
    BY <2>1 DEF Becomes, IInv, CallsOK
<1>8. CASE CommitVersion(r)
  BY <1>8, CommitVersionOwned
<1> QED
  BY <1>1, <1>2, <1>3, <1>4, <1>5, <1>6, <1>7, <1>8 DEF Proceed

\* Rows that are changed by one statement, which asks for the right to change them.
LEMMA UpdateNovelOwned ==
  ASSUME IInv, NEW r \in Call, update_novel(r), call'[r].at = "answered"
  PROVE  Owned(call[r])'
<1>1. PICK u, n, v, bad, errors :
         /\ u \in User /\ n \in SomeNovel /\ v \in Wanted /\ bad \in Bad
         /\ modify_novel(r, Asked("update_novel", u, n, v, bad), errors)
  BY DEF update_novel
<1>2. PICK ask : ask = Asked("update_novel", u, n, v, bad)
  OBVIOUS
<1>3. ask.op = "update_novel" /\ ask.user = u /\ ask.on = n /\ ask.arg = v /\ v \in Visibility
  BY <1>1, <1>2, AskedIs, LibraryAssumption
<1>4. CASE /\ IsNovel(n) /\ novel_mod_access_update(u, n)
           /\ novels' = [novels EXCEPT ![n].visibility = v]
           /\ Answers(r, ask, Reply(Ok({n}), errors)) /\ UNCHANGED novel_contributors
  <2>1. PICK row : row = [novels[n] EXCEPT !.visibility = v]
    OBVIOUS
  <2>2. n \in Novel /\ row # None
    BY <1>3, <1>4, <2>1, RowAssumption DEF IsNovel, IInv, TablesOK, NovelRow
  <2>3. novels'[n] = row
    BY <1>4, <2>1, <2>2 DEF IInv, TablesOK
  <2>4. call'[r].ask = ask /\ call'[r].rows = {n}
    BY <1>4, AnsweredIs
  <2> QED
    BY <1>1, <1>3, <1>4, <2>2, <2>3, <2>4
       DEF Owned, NovelWrites, ChapterWrites, ChapterKinds, GroupWrites, IsNovel,
           novel_mod_access_update, Contributes
<1>5. CASE \E exception : \/ Raises(r, ask, exception, errors)
                          \/ \E kind : Asks(r, ask, kind, exception, errors)
  BY <1>5, RefusesIs
<1>6. modify_novel(r, ask, errors)
  BY <1>1, <1>2
<1> QED
  BY <1>3, <1>4, <1>5, <1>6 DEF modify_novel

LEMMA UpdateChapterOwned ==
  ASSUME IInv, NEW r \in Call, update_chapter(r), call'[r].at = "answered"
  PROVE  Owned(call[r])'
<1>1. PICK u, c, bad, errors :
         /\ u \in User /\ c \in SomeChapter /\ bad \in Bad
         /\ modify_chapter(r, Asked("update_chapter", u, c, None, bad), errors)
  BY DEF update_chapter
<1>2. PICK ask : ask = Asked("update_chapter", u, c, None, bad)
  OBVIOUS
<1>3. ask.op = "update_chapter" /\ ask.user = u /\ ask.on = c
  BY <1>2, AskedIs
<1>4. CASE MayChange(u, c) /\ UNCHANGED tables /\ Answers(r, ask, Reply(Ok({c}), errors))
  <2>1. MayChange(u, c)'
    BY <1>4 DEF tables, MayChange, IsChapter, chapter_mod_access_update, Contributes
  <2>2. call'[r].ask = ask /\ call'[r].rows = {c}
    BY <1>4, AnsweredIs
  <2> QED
    BY <1>3, <2>1, <2>2 DEF Owned, NovelWrites, ChapterKinds, GroupWrites
<1>5. CASE \E exception : \/ Answers(r, ask, Reply(Raise(exception), errors))
                          \/ \E kind : Asks(r, ask, kind, exception, errors)
  BY <1>5, RefusesIs
<1>6. modify_chapter(r, ask, errors)
  BY <1>1, <1>2
<1> QED
  BY <1>3, <1>4, <1>5, <1>6 DEF modify_chapter

LEMMA PublishChapterOwned ==
  ASSUME IInv, NEW r \in Call, action_publish_chapter(r), call'[r].at = "answered"
  PROVE  Owned(call[r])'
<1>1. PICK u, c, errors :
         /\ u \in User /\ c \in SomeChapter
         /\ make_public_chapter(r, Asked("action_publish_chapter", u, c, None, "none"), errors)
  BY DEF action_publish_chapter
<1>2. PICK ask : ask = Asked("action_publish_chapter", u, c, None, "none")
  OBVIOUS
<1>3. ask.op = "action_publish_chapter" /\ ask.user = u /\ ask.on = c
  BY <1>2, AskedIs
<1>4. CASE /\ MayChange(u, c) /\ chapters' = [chapters EXCEPT ![c].public = TRUE]
           /\ Answers(r, ask, Reply(Ok({c}), errors)) /\ UNCHANGED novel_contributors
  <2>1. PICK row : row = [chapters[c] EXCEPT !.public = TRUE]
    OBVIOUS
  <2>2. c \in Chapter /\ row # None /\ row.novel = chapters[c].novel
    BY <1>4, <2>1, RowAssumption DEF MayChange, IsChapter, IInv, TablesOK, ChapterRow
  <2>3. chapters'[c] = row
    BY <1>4, <2>1, <2>2 DEF IInv, TablesOK
  <2>4. MayChange(u, c)'
    BY <1>4, <2>2, <2>3 DEF MayChange, IsChapter, chapter_mod_access_update, Contributes
  <2>5. call'[r].ask = ask /\ call'[r].rows = {c}
    BY <1>4, AnsweredIs
  <2> QED
    BY <1>3, <2>4, <2>5 DEF Owned, NovelWrites, ChapterKinds, GroupWrites
<1>5. CASE \E exception, kind : Asks(r, ask, kind, exception, errors)
  BY <1>5, RefusesIs
<1>6. make_public_chapter(r, ask, errors)
  BY <1>1, <1>2
<1> QED
  BY <1>3, <1>4, <1>5, <1>6 DEF make_public_chapter

\* The first statement of an edit answers nobody with rows.
LEMMA UpdateContentOwned ==
  ASSUME IInv, NEW r \in Call, update_chapter_content(r), call'[r].at = "answered"
  PROVE  Owned(call[r])'
<1>1. PICK ask, errors : modify_chapter_content(r, ask, errors)
  BY DEF update_chapter_content
<1>2. CASE \E exception : \/ Raises(r, ask, exception, errors)
                          \/ \E kind : Asks(r, ask, kind, exception, errors)
  BY <1>2, RefusesIs
<1>3. CASE Becomes(r, [at |-> "revise", ask |-> ask, ported |-> {}, errors |-> errors])
  BY <1>3 DEF Becomes, IInv, CallsOK
<1> QED
  BY <1>1, <1>2, <1>3 DEF modify_chapter_content

LEMMA UpdateGroupOwned ==
  ASSUME IInv, NEW r \in Call, update_label_group(r), call'[r].at = "answered"
  PROVE  Owned(call[r])'
<1>0. CASE \E ask, status : RefusedBySchema(r, ask, status)
  BY <1>0, RefusesIs DEF RefusedBySchema
<1> SUFFICES ASSUME ~\E ask, status : RefusedBySchema(r, ask, status) PROVE Owned(call[r])'
  BY <1>0
<1>1. PICK u, g, bad, errors :
         /\ u \in User /\ g \in SomeGroup /\ bad \in Bad
         /\ modify_label_group(r, Asked("update_label_group", u, g, None, bad), errors)
  BY DEF update_label_group
<1>2. PICK ask : ask = Asked("update_label_group", u, g, None, bad)
  OBVIOUS
<1>3. ask.op = "update_label_group" /\ ask.user = u /\ ask.on = g
  BY <1>2, AskedIs
<1>4. CASE /\ IsGroup(g) /\ label_group_mod_access_update(u, g) /\ UNCHANGED tables
           /\ Answers(r, ask, Reply(Ok({g}), errors))
  <2>1. (IsGroup(g) /\ (u \in Admin \/ Labels(u, g, Writers)))'
    BY <1>4 DEF tables, IsGroup, label_group_mod_access_update, Labels
  <2>2. call'[r].ask = ask /\ call'[r].rows = {g}
    BY <1>4, AnsweredIs
  <2> QED
    BY <1>1, <1>3, <2>1, <2>2 DEF Owned, NovelWrites, ChapterWrites, ChapterKinds, GroupWrites
<1>5. CASE \E exception : \/ Answers(r, ask, Reply(Raise(exception), errors))
                          \/ Raises(r, ask, exception, errors)
  BY <1>5, RefusesIs
<1>6. modify_label_group(r, ask, errors)
  BY <1>1, <1>2
<1> QED
  BY <1>3, <1>4, <1>5, <1>6 DEF modify_label_group

\* Requests of the other endpoints.
AllOwned == NovelWrites \cup ChapterWrites \cup GroupWrites \cup {"update_chapter_content"}

LEMMA OtherOwned ==
  ASSUME IInv, NEW r \in Call, NEW ask, ask.op \notin AllOwned,
         \/ \E reply : Answers(r, ask, reply)
         \/ \E exception, errors : Raises(r, ask, exception, errors)
         \/ \E kind, found, errors : Asks(r, ask, kind, found, errors)
         \/ \E errors : query_source_works_with_novels(r, ask, errors)
  PROVE  Owned(call[r])'
<1>1. call'[r].ask = ask
  BY DEF Answers, Raises, Asks, query_source_works_with_novels, Becomes, IInv, CallsOK
<1> QED
  BY <1>1 DEF Owned, AllOwned

LEMMA CreateWorkOwned ==
  ASSUME IInv, NEW r \in Call, create_source_work(r)
  PROVE  Owned(call[r])'
<1>1. PICK u, bad, errors :
         /\ u \in User /\ bad \in Bad
         /\ insert_source_work(r, Asked("create_source_work", u, None, None, bad), errors)
  BY DEF create_source_work
<1>2. PICK ask : ask = Asked("create_source_work", u, None, None, bad)
  OBVIOUS
<1>3. ask.op \notin AllOwned
  BY <1>2, AskedIs DEF AllOwned, NovelWrites, ChapterWrites, ChapterKinds, GroupWrites
<1>4. insert_source_work(r, ask, errors)
  BY <1>1, <1>2
<1>5. \/ \E reply : Answers(r, ask, reply)
      \/ \E exception : Raises(r, ask, exception, errors)
  BY <1>4 DEF insert_source_work
<1> QED
  BY <1>3, <1>5, OtherOwned

LEMMA UpdateWorkOwned ==
  ASSUME IInv, NEW r \in Call, update_source_work(r)
  PROVE  Owned(call[r])'
<1>1. PICK u, w, bad, errors :
         /\ u \in User /\ w \in SomeWork /\ bad \in Bad
         /\ modify_source_work(r, Asked("update_source_work", u, w, None, bad), errors)
  BY DEF update_source_work
<1>2. PICK ask : ask = Asked("update_source_work", u, w, None, bad)
  OBVIOUS
<1>3. ask.op \notin AllOwned
  BY <1>2, AskedIs DEF AllOwned, NovelWrites, ChapterWrites, ChapterKinds, GroupWrites
<1>4. modify_source_work(r, ask, errors)
  BY <1>1, <1>2
<1>5. \/ \E reply : Answers(r, ask, reply)
      \/ \E kind, found : Asks(r, ask, kind, found, errors)
  BY <1>4 DEF modify_source_work
<1> QED
  BY <1>3, <1>5, OtherOwned

LEMMA DeleteChapterOwned ==
  ASSUME IInv, NEW r \in Call, delete_chapter(r)
  PROVE  Owned(call[r])'
<1>1. PICK u, c, errors :
         /\ u \in User /\ c \in SomeChapter
         /\ remove_chapter(r, Asked("delete_chapter", u, c, None, "none"), errors)
  BY DEF delete_chapter
<1>2. PICK ask : ask = Asked("delete_chapter", u, c, None, "none")
  OBVIOUS
<1>3. ask.op \notin AllOwned
  BY <1>2, AskedIs DEF AllOwned, NovelWrites, ChapterWrites, ChapterKinds, GroupWrites
<1>4. remove_chapter(r, ask, errors)
  BY <1>1, <1>2
<1>5. \/ \E reply : Answers(r, ask, reply)
      \/ \E exception : Raises(r, ask, exception, errors)
      \/ \E kind, found : Asks(r, ask, kind, found, errors)
  BY <1>4 DEF remove_chapter
<1> QED
  BY <1>3, <1>5, OtherOwned

LEMMA CreateLabelDataOwned ==
  ASSUME IInv, NEW r \in Call, create_label_data(r)
  PROVE  Owned(call[r])'
<1>1. PICK u, g, cc, errors :
         /\ u \in User /\ g \in SomeGroup /\ cc \in SomeContents
         /\ insert_label_data(r, Asked("create_label_data", u, g, cc, "none"), errors)
  BY DEF create_label_data
<1>2. PICK ask : ask = Asked("create_label_data", u, g, cc, "none")
  OBVIOUS
<1>3. ask.op \notin AllOwned
  BY <1>2, AskedIs DEF AllOwned, NovelWrites, ChapterWrites, ChapterKinds, GroupWrites
<1>4. insert_label_data(r, ask, errors)
  BY <1>1, <1>2
<1>5. \/ \E reply : Answers(r, ask, reply)
      \/ \E exception : Raises(r, ask, exception, errors)
  BY <1>4 DEF insert_label_data
<1> QED
  BY <1>3, <1>5, OtherOwned

LEMMA ReadOwned ==
  ASSUME IInv, NEW r \in Call, ReadRequest(r)
  PROVE  Owned(call[r])'
<1> DEFINE ReadOps == {"read_source_works", "read_novels_by_source_work", "read_chapters_by_novel",
                       "read_chapter_content"}
<1>1. ASSUME NEW ask, NEW rows, NEW kind, NEW found, NEW errors, Select(r, ask, rows, kind, found, errors)
      PROVE  (\E reply : Answers(r, ask, reply)) \/ Asks(r, ask, kind, found, errors)
  BY <1>1 DEF Select
<1>2. \E op \in ReadOps : \E u, on, arg : \E ask \in {Asked(op, u, on, arg, "none")} :
         \/ \E errors : query_source_works_with_novels(r, ask, errors)
         \/ \E rows, kind, found, errors : Select(r, ask, rows, kind, found, errors)
  <2>1. CASE read_source_works(r)
    BY <2>1 DEF read_source_works
  <2>2. CASE read_novels_by_source_work(r)
    BY <2>2 DEF read_novels_by_source_work, query_novels_by_source_work
  <2>3. CASE read_chapters_by_novel(r)
    BY <2>3 DEF read_chapters_by_novel, query_chapters_by_novel
  <2>4. CASE read_chapter_content(r)
    BY <2>4 DEF read_chapter_content, query_chapter_content_by_most_recent
  <2> QED
    BY <2>1, <2>2, <2>3, <2>4 DEF ReadRequest
<1>3. PICK op, u, on, arg, ask :
         /\ op \in ReadOps /\ ask = Asked(op, u, on, arg, "none")
         /\ \/ \E errors : query_source_works_with_novels(r, ask, errors)
            \/ \E rows, kind, found, errors : Select(r, ask, rows, kind, found, errors)
  BY <1>2
<1>4. ask.op \notin AllOwned
  BY <1>3, AskedIs DEF AllOwned, NovelWrites, ChapterWrites, ChapterKinds, GroupWrites
<1> QED
  BY <1>1, <1>3, <1>4, OtherOwned

\* Requests that begin to insert rows have written nothing yet.
LEMMA CreateOwned ==
  ASSUME IInv, NEW r \in Call,
         create_novel(r) \/ create_label_group(r) \/ create_chapter(r) \/ create_chapters_by_upload(r)
  PROVE  call'[r].at = "answered" => Owned(call[r])'
<1>0. CASE \E ask, status : RefusedBySchema(r, ask, status)
  BY <1>0, RefusesIs DEF RefusedBySchema
<1> SUFFICES ASSUME ~\E ask, status : RefusedBySchema(r, ask, status)
             PROVE  call'[r].at = "answered" => Owned(call[r])'
  BY <1>0
<1>1. \E ask, errors : \/ insert_novel(r, ask, errors) \/ insert_label_group(r, ask, errors)
                       \/ insert_chapter(r, ask, errors) \/ upload_v1(r, ask, errors)
  <2>1. CASE create_novel(r)
    BY <2>1 DEF create_novel
  <2>2. CASE create_label_group(r)
    BY <2>2 DEF create_label_group
  <2>3. CASE create_chapter(r)
    BY <2>3 DEF create_chapter
  <2>4. CASE create_chapters_by_upload(r)
    BY <2>4 DEF create_chapters_by_upload
  <2> QED
    BY <2>1, <2>2, <2>3, <2>4
<1>2. PICK ask, errors : \/ insert_novel(r, ask, errors) \/ insert_label_group(r, ask, errors)
                         \/ insert_chapter(r, ask, errors) \/ upload_v1(r, ask, errors)
  BY <1>1
<1>3. ASSUME NEW work, NEW id, NEW todo, Becomes(r, Insertion(ask, work, id, todo, errors))
      PROVE  call'[r].at # "answered"
  BY <1>3 DEF Becomes, Insertion, IInv, CallsOK
<1>4. \/ \E work, id, todo : Becomes(r, Insertion(ask, work, id, todo, errors))
      \/ \E exception : \/ Raises(r, ask, exception, errors)
                        \/ \E kind : Asks(r, ask, kind, exception, errors)
  <2>1. CASE insert_novel(r, ask, errors)
    BY <2>1 DEF insert_novel
  <2>2. CASE insert_label_group(r, ask, errors)
    BY <2>2 DEF insert_label_group
  <2>3. CASE insert_chapter(r, ask, errors)
    BY <2>3 DEF insert_chapter
  <2>4. CASE upload_v1(r, ask, errors)
    BY <2>4 DEF upload_v1
  <2> QED
    BY <1>2, <2>1, <2>2, <2>3, <2>4
<1> QED
  BY <1>3, <1>4, RefusesIs

LEMMA RequestOwned ==
  ASSUME IInv, TablesOK', NEW r \in Call, Request(r)
  PROVE  call'[r].at = "answered" => Owned(call[r])'
BY ReadOwned, CreateWorkOwned, UpdateWorkOwned, DeleteChapterOwned, CreateLabelDataOwned, CreateOwned,
   UpdateNovelOwned, UpdateChapterOwned, PublishChapterOwned, UpdateContentOwned, UpdateGroupOwned
   DEF Request, WriteRequest

\* A step of a request is a step of that request alone.
LEMMA Moves ==
  ASSUME NEW r \in Call, Request(r) \/ Proceed(r)
  PROVE  \E p : Becomes(r, p)
<1> DEFINE goal == \E p : Becomes(r, p)
<1>1. ASSUME NEW ask, NEW errors,
             \/ \E reply : Answers(r, ask, reply)
             \/ \E exception : Raises(r, ask, exception, errors)
             \/ \E kind, found : Asks(r, ask, kind, found, errors)
      PROVE  goal
  BY <1>1 DEF Answers, Raises, Asks
<1> HIDE DEF goal
<1>2. ASSUME NEW ask, NEW errors,
             \/ insert_source_work(r, ask, errors) \/ modify_source_work(r, ask, errors)
             \/ remove_chapter(r, ask, errors) \/ insert_label_data(r, ask, errors)
      PROVE  goal
  BY <1>1, <1>2 DEF insert_source_work, modify_source_work, remove_chapter, insert_label_data
<1>3. ASSUME NEW ask, NEW errors, \/ modify_novel(r, ask, errors) \/ modify_chapter(r, ask, errors)
      PROVE  goal
  BY <1>1, <1>3 DEF modify_novel, modify_chapter
<1>4. ASSUME NEW ask, NEW errors,
             \/ make_public_chapter(r, ask, errors) \/ modify_chapter_content(r, ask, errors)
             \/ modify_label_group(r, ask, errors) \/ \E status : RefusedBySchema(r, ask, status)
      PROVE  goal
  BY <1>1, <1>4 DEF make_public_chapter, modify_chapter_content, modify_label_group, RefusedBySchema, goal
<1>5. ASSUME NEW ask, NEW errors,
             \/ insert_novel(r, ask, errors) \/ insert_label_group(r, ask, errors)
             \/ insert_chapter(r, ask, errors) \/ upload_v1(r, ask, errors)
      PROVE  goal
  BY <1>1, <1>5 DEF insert_novel, insert_label_group, insert_chapter, upload_v1, goal
<1>6. ASSUME NEW ask, NEW rows, NEW kind, NEW found, NEW errors,
             Select(r, ask, rows, kind, found, errors) \/ query_source_works_with_novels(r, ask, errors)
      PROVE  goal
  BY <1>1, <1>6 DEF Select, query_source_works_with_novels, goal
<1>7. CASE ReadRequest(r)
  <2>1. CASE read_source_works(r)
    BY <1>6, <2>1 DEF read_source_works, goal
  <2>2. CASE read_novels_by_source_work(r)
    BY <1>6, <2>2 DEF read_novels_by_source_work, query_novels_by_source_work, goal
  <2>3. CASE read_chapters_by_novel(r)
    BY <1>6, <2>3 DEF read_chapters_by_novel, query_chapters_by_novel, goal
  <2>4. CASE read_chapter_content(r)
    BY <1>6, <2>4 DEF read_chapter_content, query_chapter_content_by_most_recent, goal
  <2> QED
    BY <1>7, <2>1, <2>2, <2>3, <2>4 DEF ReadRequest
<1>8. CASE WriteRequest(r)
  <2>1. CASE \/ create_source_work(r) \/ update_source_work(r) \/ delete_chapter(r) \/ create_label_data(r)
    BY <1>2, <2>1 DEF create_source_work, update_source_work, delete_chapter, create_label_data, goal
  <2>2. CASE \/ update_novel(r) \/ update_chapter(r)
    BY <1>3, <2>2 DEF update_novel, update_chapter, goal
  <2>3. CASE \/ action_publish_chapter(r) \/ update_chapter_content(r) \/ update_label_group(r)
    BY <1>4, <2>3 DEF action_publish_chapter, update_chapter_content, update_label_group, goal
  <2>4. CASE create_novel(r) \/ create_label_group(r) \/ create_chapter(r) \/ create_chapters_by_upload(r)
    <3>1. CASE create_novel(r)
      BY <1>5, <3>1 DEF create_novel, goal
    <3>2. CASE create_label_group(r)
      BY <1>4, <1>5, <3>2 DEF create_label_group, goal
    <3>3. CASE create_chapter(r)
      BY <1>5, <3>3 DEF create_chapter, goal
    <3>4. CASE create_chapters_by_upload(r)
      BY <1>4, <1>5, <3>4 DEF create_chapters_by_upload, goal
    <3> QED
      BY <2>4, <3>1, <3>2, <3>3, <3>4
  <2> QED
    BY <1>8, <2>1, <2>2, <2>3, <2>4 DEF WriteRequest
<1>9. CASE Proceed(r)
  <2>1. CASE InsertRow(r)
    BY <1>1, <2>1 DEF InsertRow, goal
  <2>2. CASE Commit(r)
    BY <1>1, <2>2 DEF Commit, CommitNovel, CommitGroup, CommitChapters, goal
  <2>3. CASE Deadlock(r)
    BY <1>1, <2>3 DEF Deadlock, goal
  <2>4. CASE Requery(r)
    BY <1>1, <2>4 DEF Requery, goal
  <2>5. CASE NovelsOfWorks(r)
    BY <1>1, <2>5 DEF NovelsOfWorks, goal
  <2>6. CASE InsertVersion(r) \/ FindLabelDatas(r) \/ CommitVersion(r)
    BY <1>1, <2>6 DEF InsertVersion, FindLabelDatas, CommitVersion, goal
  <2> QED
    BY <1>9, <2>1, <2>2, <2>3, <2>4, <2>5, <2>6 DEF Proceed
<1> QED
  BY <1>7, <1>8, <1>9 DEF Request, goal

(* Whoever has created or changed a novel, a chapter, its contents or a group    *)
(* can read it as soon as the request is answered, whatever other requests do.   *)
THEOREM OwnWritesAlwaysRead == Spec => OwnWritesRead
<1>1. ASSUME IInv, [Next]_vars, OwnersRead', NEW r \in Call, ~Busy(r, "answered"), Busy(r, "answered")'
      PROVE  ReadBack(call[r])'
  <2>1. (TablesOK /\ WholeRows)'
    BY <1>1, NextStep DEF IInv
  <2>2. call'[r] # call[r]
    BY <1>1 DEF Busy
  <2>3. ASSUME NEW s \in Call, Return(s) \/ Die(s) PROVE FALSE
    BY <1>1, <2>2, <2>3 DEF Return, Die, Becomes, NoCall, Busy, IInv, CallsOK
  <2>4. PICK s \in Call : Request(s) \/ Proceed(s)
    BY <1>1, <2>2, <2>3 DEF Next, vars
  <2>5. s = r
    <3>1. \E p : Becomes(s, p)
      BY <2>4, Moves
    <3> QED
      BY <1>1, <2>2, <3>1 DEF Becomes, IInv, CallsOK
  <2>6. Owned(call[r])'
    BY <1>1, <2>1, <2>4, <2>5, RequestOwned, ProceedOwned DEF Busy
  <2>7. PICK a : a = call'[r]
    OBVIOUS
  <2>8. (Owned(call[r]))' => Owned(a)'
    BY <2>7 DEF Owned
  <2>9. ReadBack(a)'
    BY <1>1, <2>1, <2>6, <2>8 DEF OwnersRead
  <2> QED
    BY <2>7, <2>9 DEF ReadBack
<1>2. IInv /\ OwnersRead' /\ [Next]_vars
        => [\A r \in Call : ~Busy(r, "answered") /\ Busy(r, "answered")' => ReadBack(call[r])']_vars
  BY <1>1
<1> QED
  BY <1>2, OwnedRead, Invariance, PTL DEF Spec, OwnWritesRead

-----------------------------------------------------------------------------
(* Library implements Shelf: every request is answered as if it were carried *)
(* out in one step.  It is carried out in the step that answers it: its       *)
(* *Served lemma shows that this step does what Serve does, to tables that    *)
(* others may have changed since its first statement.  A refused request asks *)
(* a second statement why: CallsOK keeps what refused it, so the answer is    *)
(* right for the moment it is given.  Every other step leaves the tables and  *)
(* the answers alone.                                                       *)

(* Shelf reads the same tables by the same conditions.                       *)
LEMMA SameTables ==
  ASSUME NEW x
  PROVE  /\ InOneStep!IsNovel(x) = IsNovel(x)
         /\ InOneStep!IsChapter(x) = IsChapter(x)
         /\ InOneStep!IsGroup(x) = IsGroup(x)
BY DEF InOneStep!IsNovel, IsNovel, InOneStep!IsChapter, IsChapter, InOneStep!IsGroup, IsGroup

LEMMA SameRights ==
  ASSUME NEW u, NEW x
  PROVE  /\ InOneStep!novel_mod_access_update(u, x) = novel_mod_access_update(u, x)
         /\ InOneStep!chapter_mod_access_insert(u, x) = chapter_mod_access_insert(u, x)
         /\ InOneStep!chapter_mod_access_update(u, x) = chapter_mod_access_update(u, x)
         /\ InOneStep!chapter_mod_access_delete(u, x) = chapter_mod_access_delete(u, x)
         /\ InOneStep!source_work_mod_access_update(u, x) = source_work_mod_access_update(u, x)
         /\ InOneStep!label_group_mod_access_update(u, x) = label_group_mod_access_update(u, x)
         /\ InOneStep!label_data_mod_access_insert(u, x) = label_data_mod_access_insert(u, x)
BY DEF InOneStep!novel_mod_access_update, novel_mod_access_update, InOneStep!chapter_mod_access_insert,
   chapter_mod_access_insert, InOneStep!chapter_mod_access_update, chapter_mod_access_update,
   InOneStep!chapter_mod_access_delete, chapter_mod_access_delete,
   InOneStep!source_work_mod_access_update, source_work_mod_access_update,
   InOneStep!label_group_mod_access_update, label_group_mod_access_update,
   InOneStep!label_data_mod_access_insert, label_data_mod_access_insert,
   InOneStep!NovelsOf, NovelsOf, InOneStep!novel_mod_access_select, novel_mod_access_select,
   InOneStep!Contributes, Contributes, InOneStep!Labels, Labels, InOneStep!Writers, Writers,
   InOneStep!Role, Role, InOneStep!UNLISTED, UNLISTED, InOneStep!IsNovel, IsNovel, InOneStep!IsGroup, IsGroup

LEMMA SameReads ==
  ASSUME NEW u, NEW x
  PROVE  /\ InOneStep!read_novel(u, x) = read_novel(u, x)
         /\ InOneStep!read_source_work(u, x) = read_source_work(u, x)
         /\ InOneStep!read_chapter_by_id(u, x) = read_chapter_by_id(u, x)
BY DEF InOneStep!read_novel, InOneStep!query_novel_by_id, read_novel, query_novel_by_id,
   InOneStep!read_source_work, InOneStep!query_source_work_by_id, read_source_work, query_source_work_by_id,
   InOneStep!read_chapter_by_id, InOneStep!query_chapter_by_id, read_chapter_by_id, query_chapter_by_id,
   InOneStep!source_work_mod_access_select, source_work_mod_access_select, InOneStep!NovelsOf, NovelsOf,
   InOneStep!chapter_mod_access_select, chapter_mod_access_select,
   InOneStep!novel_mod_access_select, novel_mod_access_select, InOneStep!Contributes, Contributes,
   InOneStep!Writers, Writers, InOneStep!Role, Role, InOneStep!UNLISTED, UNLISTED,
   InOneStep!IsNovel, IsNovel, InOneStep!IsChapter, IsChapter, InOneStep!OneRow, InOneStep!Reply,
   InOneStep!Raise, InOneStep!Ok, InOneStep!Status, OneRow, Reply, Raise, Ok, Status

LEMMA SameContents ==
  ASSUME NEW u, NEW c, NEW cc
  PROVE  /\ InOneStep!LatestRows(u, c) = LatestRows(u, c)
         /\ InOneStep!read_chapter_content_status(u, c, cc) = read_chapter_content_status(u, c, cc)
BY DEF InOneStep!read_chapter_content_status, read_chapter_content_status,
   InOneStep!query_chapter_content_status, query_chapter_content_status,
   InOneStep!LatestRows, LatestRows, InOneStep!Latest, Latest, InOneStep!VersionsOf, VersionsOf,
   InOneStep!chapter_content_mod_access_select, chapter_content_mod_access_select,
   InOneStep!chapter_mod_access_select, chapter_mod_access_select,
   InOneStep!novel_mod_access_select, novel_mod_access_select, InOneStep!Contributes, Contributes,
   InOneStep!Writers, Writers, InOneStep!Role, Role, InOneStep!UNLISTED, UNLISTED,
   InOneStep!IsChapter, IsChapter, InOneStep!Reply, InOneStep!Raise, InOneStep!Ok, InOneStep!Status,
   Reply, Raise, Ok, Status

LEMMA SameLists ==
  ASSUME NEW u, NEW x, NEW range
  PROVE  /\ InOneStep!ChapterRows(u, x, range) = ChapterRows(u, x, range)
         /\ InOneStep!NovelsOf(x) = NovelsOf(x)
BY DEF InOneStep!ChapterRows, ChapterRows, InOneStep!InRange, InRange, InOneStep!NovelsOf, NovelsOf,
   InOneStep!chapter_mod_access_select, chapter_mod_access_select,
   InOneStep!novel_mod_access_select, novel_mod_access_select, InOneStep!Contributes, Contributes,
   InOneStep!Writers, Writers, InOneStep!Role, Role, InOneStep!UNLISTED, UNLISTED,
   InOneStep!IsNovel, IsNovel, InOneStep!IsChapter, IsChapter
-----------------------------------------------------------------------------
(* A request that is answered is a step of Shelf; any other step is none.       *)
LEMMA Same == tables = InOneStep!tables /\ NoCall = InOneStep!NoAnswer
BY DEF tables, InOneStep!tables, NoCall, InOneStep!NoAnswer

LEMMA AnswerStep ==
  ASSUME CallsOK, NEW r \in Call, ~Busy(r, "answered"), NEW x, x.at = "answered", Becomes(r, x),
         InOneStep!Serve(x)
  PROVE  InOneStep!Next
<1>1. [s \in Call |-> Answered(s)][r] = NoCall /\ [s \in Call |-> Answered(s)'][r] = x
  BY DEF Answered, Becomes, CallsOK, Busy
<1>2. x # NoCall
  BY DEF NoCall
<1>3. [s \in Call |-> Answered(s)'] = [[s \in Call |-> Answered(s)] EXCEPT ![r] = x]
  BY <1>1 DEF Answered, Becomes, CallsOK, Busy
<1>4. InOneStep!Answer(r)
  BY <1>1, <1>2, <1>3 DEF InOneStep!Answer, InOneStep!NoAnswer, NoCall
<1> QED
  BY <1>4 DEF InOneStep!Next

LEMMA QuietStep ==
  ASSUME CallsOK, NEW r \in Call, ~Busy(r, "answered"), NEW x, x.at # "answered", Becomes(r, x),
         UNCHANGED tables
  PROVE  UNCHANGED InOneStep!vars
BY DEF Answered, Becomes, CallsOK, Busy, InOneStep!vars, InOneStep!tables, tables

LEMMA ReturnStep ==
  ASSUME CallsOK, NEW r \in Call, Return(r)
  PROVE  InOneStep!Next
<1>1. [s \in Call |-> Answered(s)'] = [[s \in Call |-> Answered(s)] EXCEPT ![r] = NoCall]
  BY DEF Return, Answered, Becomes, CallsOK, Busy, NoCall
<1>2. InOneStep!Return(r)
  BY <1>1 DEF Return, InOneStep!Return, InOneStep!tables, tables, NoCall, InOneStep!NoAnswer
<1> QED
  BY <1>2 DEF InOneStep!Next
-----------------------------------------------------------------------------
(* What the answers are.                                                    *)
LEMMA ServeOf ==
  ASSUME NEW a
  PROVE  LET u == a.ask.user
             x == a.ask.on IN
         /\ a.ask.op = "create_source_work" /\ InOneStep!Works(a, u) => InOneStep!Serve(a)
         /\ a.ask.op = "create_novel" /\ InOneStep!NewNovel(a, u) => InOneStep!Serve(a)
         /\ a.ask.op = "create_chapter" /\ InOneStep!OneChapter(a, u) => InOneStep!Serve(a)
         /\ a.ask.op = "create_chapters_by_upload" /\ InOneStep!ManyChapters(a, u) => InOneStep!Serve(a)
         /\ a.ask.op = "update_novel" /\ InOneStep!NewVisibility(a, u, x) => InOneStep!Serve(a)
         /\ a.ask.op = "update_source_work" /\ InOneStep!WorkTitle(a, u, x) => InOneStep!Serve(a)
         /\ a.ask.op = "action_publish_chapter" /\ InOneStep!Publication(a, u, x) => InOneStep!Serve(a)
         /\ a.ask.op = "delete_chapter" /\ InOneStep!Removal(a, u, x) => InOneStep!Serve(a)
         /\ a.ask.op = "update_chapter_content" /\ InOneStep!Revision(a, u, x) => InOneStep!Serve(a)
         /\ a.ask.op = "create_label_group" /\ InOneStep!NewLabelGroup(a, u, x) => InOneStep!Serve(a)
         /\ a.ask.op = "create_label_data" /\ InOneStep!NewLabelData(a, u, x) => InOneStep!Serve(a)
BY DEF InOneStep!Serve

LEMMA ServeChapterTitle ==
  ASSUME NEW a, a.ask.op = "update_chapter",
         InOneStep!Titles(a, MayChange(a.ask.user, a.ask.on), read_chapter_by_id(a.ask.user, a.ask.on))
  PROVE  InOneStep!Serve(a)
<1>1. MayChange(a.ask.user, a.ask.on)
        = (InOneStep!IsChapter(a.ask.on) /\ InOneStep!chapter_mod_access_update(a.ask.user, a.ask.on))
  BY SameTables, SameRights DEF MayChange
<1> QED
  BY <1>1, SameReads DEF InOneStep!Serve

LEMMA ServeGroupTitle ==
  ASSUME NEW a, a.ask.op = "update_label_group", ~InOneStep!Misfit(a),
         InOneStep!Titles(a, IsGroup(a.ask.on) /\ label_group_mod_access_update(a.ask.user, a.ask.on),
                          [status |-> 404])
  PROVE  InOneStep!Serve(a)
BY SameTables, SameRights DEF InOneStep!Serve

LEMMA ServeChapters ==
  ASSUME NEW a, a.ask.op = "read_chapters_by_novel",
         InOneStep!Listed(a, ChapterRows(a.ask.user, a.ask.on, a.ask.arg), read_novel(a.ask.user, a.ask.on))
  PROVE  InOneStep!Serve(a)
BY SameLists, SameReads DEF InOneStep!Serve

LEMMA ServeNovels ==
  ASSUME NEW a, a.ask.op = "read_novels_by_source_work",
         InOneStep!Listed(a, {n \in NovelsOf(a.ask.on) : read_novel(a.ask.user, n).status = 200},
                          read_source_work(a.ask.user, a.ask.on))
  PROVE  InOneStep!Serve(a)
<1>1. PICK u : u = a.ask.user
  OBVIOUS
<1>2. PICK x : x = a.ask.on
  OBVIOUS
<1>3. PICK rows : rows = {n \in NovelsOf(x) : read_novel(u, n).status = 200}
  OBVIOUS
<1>4. rows = {n \in InOneStep!NovelsOf(x) : InOneStep!read_novel(u, n).status = 200}
  BY <1>3, SameLists, SameReads
<1>5. PICK reply : reply = read_source_work(u, x)
  OBVIOUS
<1>6. reply = InOneStep!read_source_work(u, x)
  BY <1>5, SameReads
<1>7. InOneStep!Listed(a, rows, reply)
  BY <1>1, <1>2, <1>3, <1>5
<1>8. a.ask.op = "read_novels_by_source_work" /\ a.ask.user = u /\ a.ask.on = x
  BY <1>1, <1>2
<1> QED
  BY <1>4, <1>6, <1>7, <1>8 DEF InOneStep!Serve

LEMMA ServeReads ==
  ASSUME NEW a,
         \/ a.ask.op = "read_chapter_content" /\ InOneStep!Opened(a, LatestRows(a.ask.user, a.ask.on))
         \/ a.ask.op = "read_source_works" /\ InOneStep!Searched(a, a.ask.user)
  PROVE  InOneStep!Serve(a)
BY SameContents DEF InOneStep!Serve

LEMMA RaisesIs ==
  ASSUME NEW r, NEW ask, NEW exception, NEW errors, Raises(r, ask, exception, errors)
  PROVE  \E a : /\ Becomes(r, a) /\ a.at = "answered" /\ a.ask = ask
                /\ a.status = Status(exception, errors) /\ a.rows = {}
<1> DEFINE a == [at |-> "answered", ask |-> ask, status |-> Status(exception, errors), rows |-> {}]
<1>1. Becomes(r, a)
  BY DEF Raises, Answers, Reply, Raise
<1> QED
  BY <1>1

LEMMA AnswersIs ==
  ASSUME NEW r, NEW ask, NEW rows, NEW errors, "none" \notin DOMAIN errors,
         Answers(r, ask, Reply(Ok(rows), errors))
  PROVE  \E a : /\ Becomes(r, a) /\ a.at = "answered" /\ a.ask = ask /\ a.status = 200 /\ a.rows = rows
<1> DEFINE a == [at |-> "answered", ask |-> ask, status |-> 200, rows |-> rows]
           reply == Reply(Ok(rows), errors)
<1>1. Ok(rows).raised = "none" /\ Ok(rows).rows = rows
  BY DEF Ok
<1>2. reply.status = 200 /\ reply.rows = rows
  BY <1>1 DEF Reply, Status
<1>3. Becomes(r, a)
  BY <1>2 DEF Answers
<1> QED
  BY <1>3

\* The queries that explain a refusal, and the reads of the same rows.
LEMMA QueriesAre ==
  ASSUME NEW u, NEW x
  PROVE  /\ \/ query_novel_by_id(u, x).raised = "none" /\ read_novel(u, x).status = 200
            \/ query_novel_by_id(u, x).raised = "NovelNotFound" /\ read_novel(u, x).status = 404
         /\ \/ query_source_work_by_id(u, x).raised = "none" /\ read_source_work(u, x).status = 200
            \/ query_source_work_by_id(u, x).raised = "SourceWorkNotFound" /\ read_source_work(u, x).status = 404
         /\ \/ query_chapter_by_id(u, x).raised = "none" /\ read_chapter_by_id(u, x).status = 200
            \/ query_chapter_by_id(u, x).raised = "ChapterNotFound" /\ read_chapter_by_id(u, x).status = 404
<1>1. ASSUME NEW q, q.raised \in {"none", "NovelNotFound"}
      PROVE  \/ q.raised = "none" /\ Reply(q, [NovelNotFound |-> 404]).status = 200
             \/ q.raised = "NovelNotFound" /\ Reply(q, [NovelNotFound |-> 404]).status = 404
  BY <1>1 DEF Reply, Status
<1>2. ASSUME NEW q, q.raised \in {"none", "SourceWorkNotFound"}
      PROVE  \/ q.raised = "none" /\ Reply(q, [SourceWorkNotFound |-> 404]).status = 200
             \/ q.raised = "SourceWorkNotFound" /\ Reply(q, [SourceWorkNotFound |-> 404]).status = 404
  BY <1>2 DEF Reply, Status
<1>3. ASSUME NEW q, q.raised \in {"none", "ChapterNotFound"}
      PROVE  \/ q.raised = "none" /\ Reply(q, [ChapterNotFound |-> 404]).status = 200
             \/ q.raised = "ChapterNotFound" /\ Reply(q, [ChapterNotFound |-> 404]).status = 404
  BY <1>3 DEF Reply, Status
<1>4. query_novel_by_id(u, x).raised \in {"none", "NovelNotFound"}
  BY DEF query_novel_by_id, OneRow, Raise, Ok
<1>5. query_source_work_by_id(u, x).raised \in {"none", "SourceWorkNotFound"}
  BY DEF query_source_work_by_id, OneRow, Raise, Ok
<1>6. query_chapter_by_id(u, x).raised \in {"none", "ChapterNotFound"}
  BY DEF query_chapter_by_id, OneRow, Raise, Ok
<1> QED
  BY <1>1, <1>2, <1>3, <1>4, <1>5, <1>6 DEF read_novel, read_source_work, read_chapter_by_id

LEMMA StatusQueryIs ==
  ASSUME NEW u, NEW c, NEW cc
  PROVE  LET q == query_chapter_content_status(u, c, cc)
             s == read_chapter_content_status(u, c, cc).status IN
         \/ q.raised = "none" /\ s = 200 /\ LatestRows(u, c) = {cc}
         \/ q.raised = "ChapterContentNotFound" /\ s = 404
         \/ q.raised = "ChapterContentOutdated" /\ s = 409
BY DEF query_chapter_content_status, read_chapter_content_status, Reply, Raise, Ok, Status

-----------------------------------------------------------------------------
(* Steps of Library as steps of Shelf.                                       *)
OneStep == InOneStep!Next \/ UNCHANGED InOneStep!vars

LEMMA FailsIs ==
  ASSUME NEW a, NEW status, a.status = status, a.rows = {}, UNCHANGED tables
  PROVE  InOneStep!Fails(a, status)
BY DEF InOneStep!Fails, InOneStep!tables, tables

LEMMA RaisedStep ==
  ASSUME IInv, NEW r \in Call, ~Busy(r, "answered"), NEW ask, NEW exception, NEW errors,
         Raises(r, ask, exception, errors),
         \A a : a.ask = ask /\ a.status = Status(exception, errors) /\ a.rows = {} => InOneStep!Serve(a)
  PROVE  OneStep
<1>1. PICK a : /\ Becomes(r, a) /\ a.at = "answered" /\ a.ask = ask
               /\ a.status = Status(exception, errors) /\ a.rows = {}
  BY RaisesIs
<1>2. InOneStep!Serve(a)
  BY <1>1
<1> QED
  BY <1>1, <1>2, AnswerStep DEF IInv, OneStep

LEMMA AnsweredStep ==
  ASSUME IInv, NEW r \in Call, ~Busy(r, "answered"), NEW ask, NEW rows, NEW errors, "none" \notin DOMAIN errors,
         Answers(r, ask, Reply(Ok(rows), errors)),
         \A a : a.ask = ask /\ a.status = 200 /\ a.rows = rows => InOneStep!Serve(a)
  PROVE  OneStep
<1>1. PICK a : Becomes(r, a) /\ a.at = "answered" /\ a.ask = ask /\ a.status = 200 /\ a.rows = rows
  BY AnswersIs
<1>2. InOneStep!Serve(a)
  BY <1>1
<1> QED
  BY <1>1, <1>2, AnswerStep DEF IInv, OneStep

LEMMA AsksStep ==
  ASSUME IInv, NEW r \in Call, ~Busy(r, "answered"), NEW ask, NEW kind, NEW found, NEW errors,
         Asks(r, ask, kind, found, errors), UNCHANGED tables
  PROVE  OneStep
<1>1. PICK x : /\ x = [at |-> "query", ask |-> ask, kind |-> kind, found |-> found, errors |-> errors]
               /\ Becomes(r, x)
  BY DEF Asks
<1>2. x.at # "answered"
  BY <1>1
<1> QED
  BY <1>1, <1>2, QuietStep DEF IInv, OneStep

LEMMA BeginsStep ==
  ASSUME IInv, NEW r \in Call, ~Busy(r, "answered"), NEW ask, NEW work, NEW id, NEW todo, NEW errors,
         Becomes(r, Insertion(ask, work, id, todo, errors)), UNCHANGED tables
  PROVE  OneStep
<1>1. PICK x : x = Insertion(ask, work, id, todo, errors)
  OBVIOUS
<1>2. x.at # "answered"
  BY <1>1 DEF Insertion
<1> QED
  BY <1>1, <1>2, QuietStep DEF IInv, OneStep

LEMMA CreateSourceWorkServed ==
  ASSUME IInv, NEW r \in Call, ~Busy(r, "answered"), create_source_work(r)
  PROVE  OneStep
<1> DEFINE errors == [DataTooLong |-> 400]
<1>1. PICK u \in User, bad \in Bad :
         insert_source_work(r, Asked("create_source_work", u, None, None, bad), errors)
  BY DEF create_source_work
<1>2. PICK ask : ask = Asked("create_source_work", u, None, None, bad)
  OBVIOUS
<1>3. ask.op = "create_source_work" /\ ask.user = u /\ ask.bad = bad
  BY <1>2, AskedIs
<1>4. "none" \notin DOMAIN errors /\ Status("DataTooLong", errors) = 400
  BY DEF Status
<1>5. insert_source_work(r, ask, errors)
  BY <1>1, <1>2
<1> HIDE DEF errors
<1>6. CASE ask.bad = "text"
  <2>1. Raises(r, ask, "DataTooLong", errors) /\ UNCHANGED tables
    BY <1>5, <1>6 DEF insert_source_work
  <2>2. ASSUME NEW a, a.ask = ask, a.status = 400, a.rows = {} PROVE InOneStep!Serve(a)
    <3>1. InOneStep!Works(a, u)
      BY <1>6, <2>1, <2>2, FailsIs DEF InOneStep!Works, InOneStep!Misfit
    <3> QED
      BY <1>3, <2>2, <3>1, ServeOf
  <2> QED
    BY <1>4, <2>1, <2>2, RaisedStep
<1>7. CASE ask.bad # "text"
  <2>1. PICK w \in NewWork : source_works' = source_works \cup {w} /\ Answers(r, ask, Reply(Ok({w}), errors))
    BY <1>5, <1>7 DEF insert_source_work
  <2>2. /\ UNCHANGED <<novels, novel_contributors, chapters, chapter_contents,
                       label_groups, label_contributors, label_datas>>
        /\ ask.bad = "none"
    BY <1>5, <1>7 DEF insert_source_work
  <2>3. w \in Work \ source_works
    BY NewWorkIs
  <2>4. ASSUME NEW a, a.ask = ask, a.status = 200, a.rows = {w} PROVE InOneStep!Serve(a)
    <3>1. InOneStep!Works(a, u)
      BY <2>1, <2>2, <2>3, <2>4 DEF InOneStep!Works, InOneStep!Misfit, InOneStep!Succeeds
    <3> QED
      BY <1>3, <2>4, <3>1, ServeOf
  <2> QED
    BY <1>4, <2>1, <2>4, AnsweredStep
<1> QED
  BY <1>6, <1>7

LEMMA CreateNovelServed ==
  ASSUME IInv, NEW r \in Call, ~Busy(r, "answered"), create_novel(r)
  PROVE  OneStep
<1> DEFINE errors == [SourceWorkNotFound |-> 404, LanguageNotFound |-> 404, DataTooLong |-> 400]
<1>1. PICK u \in User, w \in SomeWork \cup {None}, v \in Wanted, bad \in Bad \cup {"language"} :
         insert_novel(r, Asked("create_novel", u, w, v, bad), errors)
  BY DEF create_novel
<1>2. PICK ask : ask = Asked("create_novel", u, w, v, bad)
  OBVIOUS
<1>3. ask.op = "create_novel" /\ ask.user = u /\ ask.on = w /\ ask.bad = bad
  BY <1>2, AskedIs
<1>4. /\ Status("DataTooLong", errors) = 400 /\ Status("SourceWorkNotFound", errors) = 404
      /\ Status("LanguageNotFound", errors) = 404
  BY DEF Status
<1>5. insert_novel(r, ask, errors) /\ UNCHANGED tables
  BY <1>1, <1>2 DEF insert_novel
<1> HIDE DEF errors
<1>6. CASE ask.bad = "text"
  <2>1. Raises(r, ask, "DataTooLong", errors)
    BY <1>5, <1>6 DEF insert_novel
  <2>2. ASSUME NEW a, a.ask = ask, a.status = 400, a.rows = {} PROVE InOneStep!Serve(a)
    <3>1. InOneStep!NewNovel(a, u)
      BY <1>5, <1>6, <2>2, FailsIs DEF InOneStep!NewNovel
    <3> QED
      BY <1>3, <2>2, <3>1, ServeOf
  <2> QED
    BY <1>4, <2>1, <2>2, RaisedStep
<1>7. CASE ask.bad = "language" \/ (ask.bad = "none" /\ ask.on # None /\ ask.on \notin source_works)
  <2>1. PICK x \in {"LanguageNotFound", "SourceWorkNotFound"} : Raises(r, ask, x, errors)
    BY <1>5, <1>7 DEF insert_novel
  <2>2. ASSUME NEW a, a.ask = ask, a.status = 404, a.rows = {} PROVE InOneStep!Serve(a)
    <3>1. InOneStep!NewNovel(a, u)
      BY <1>5, <1>7, <2>2, FailsIs DEF InOneStep!NewNovel, InOneStep!Misfit
    <3> QED
      BY <1>3, <2>2, <3>1, ServeOf
  <2> QED
    BY <1>4, <2>1, <2>2, RaisedStep
<1>8. CASE ask.bad = "none" /\ (ask.on # None => ask.on \in source_works)
  BY <1>5, <1>8, BeginsStep DEF insert_novel
<1>9. bad \in {"none", "text", "language"}
  BY DEF Bad
<1> QED
  BY <1>3, <1>6, <1>7, <1>8, <1>9

LEMMA UpdateNovelServed ==
  ASSUME IInv, NEW r \in Call, ~Busy(r, "answered"), update_novel(r)
  PROVE  OneStep
<1> DEFINE errors == [NovelNotFound |-> 404, InsufficientPermissions |-> 401, DataTooLong |-> 400]
<1>1. PICK u \in User, n \in SomeNovel, v \in Wanted, bad \in Bad :
         modify_novel(r, Asked("update_novel", u, n, v, bad), errors)
  BY DEF update_novel
<1>2. PICK ask : ask = Asked("update_novel", u, n, v, bad)
  OBVIOUS
<1>3. ask.op = "update_novel" /\ ask.user = u /\ ask.on = n /\ ask.arg = v /\ ask.bad = bad
  BY <1>2, AskedIs
<1>4. "none" \notin DOMAIN errors /\ Status("DataTooLong", errors) = 400
  BY DEF Status
<1>5. modify_novel(r, ask, errors)
  BY <1>1, <1>2
<1> HIDE DEF errors
<1>6. CASE ~IsNovel(n) \/ ~novel_mod_access_update(u, n)
  BY <1>3, <1>5, <1>6, AsksStep DEF modify_novel
<1>7. CASE IsNovel(n) /\ novel_mod_access_update(u, n)
  <2>1. InOneStep!IsNovel(n) /\ InOneStep!novel_mod_access_update(u, n)
    BY <1>7, SameTables, SameRights
  <2>2. CASE bad = "text"
    <3>1. Raises(r, ask, "DataTooLong", errors) /\ UNCHANGED tables
      BY <1>3, <1>5, <1>7, <2>2 DEF modify_novel
    <3>2. ASSUME NEW a, a.ask = ask, a.status = 400, a.rows = {} PROVE InOneStep!Serve(a)
      <4>1. InOneStep!NewVisibility(a, u, n)
        BY <1>3, <2>1, <2>2, <3>1, <3>2, FailsIs DEF InOneStep!NewVisibility, InOneStep!Misfit
      <4> QED
        BY <1>3, <3>2, <4>1, ServeOf
    <3> QED
      BY <1>4, <3>1, <3>2, RaisedStep
  <2>3. CASE bad # "text"
    <3>1. /\ novels' = [novels EXCEPT ![n].visibility = v]
          /\ Answers(r, ask, Reply(Ok({n}), errors))
          /\ UNCHANGED <<source_works, novel_contributors, chapters, chapter_contents,
                         label_groups, label_contributors, label_datas>>
      BY <1>3, <1>5, <1>7, <2>3 DEF modify_novel
    <3>2. bad = "none"
      BY <2>3 DEF Bad
    <3>3. ASSUME NEW a, a.ask = ask, a.status = 200, a.rows = {n} PROVE InOneStep!Serve(a)
      <4>1. InOneStep!NewVisibility(a, u, n)
        BY <1>3, <2>1, <3>1, <3>2, <3>3
           DEF InOneStep!NewVisibility, InOneStep!Misfit, InOneStep!Succeeds
      <4> QED
        BY <1>3, <3>3, <4>1, ServeOf
    <3> QED
      BY <1>4, <3>1, <3>3, AnsweredStep
  <2> QED
    BY <2>2, <2>3
<1> QED
  BY <1>6, <1>7

\* An update of columns that no condition reads.
LEMMA TitlesAre ==
  ASSUME NEW ask, UNCHANGED tables, ask.bad \in Bad, NEW a, a.ask = ask,
         \/ ask.bad = "none" /\ a.status = 200 /\ a.rows = {ask.on}
         \/ ask.bad = "text" /\ a.status = 400 /\ a.rows = {}
  PROVE  \/ InOneStep!Misfit(a) /\ InOneStep!Fails(a, 400)
         \/ ~InOneStep!Misfit(a) /\ InOneStep!Succeeds(a, {a.ask.on}) /\ UNCHANGED InOneStep!tables
BY DEF InOneStep!Misfit, InOneStep!Succeeds, InOneStep!Fails, tables, InOneStep!tables, Bad

\* The answer of such an update.
LEMMA TitleStep ==
  ASSUME IInv, NEW r \in Call, ~Busy(r, "answered"), NEW ask, NEW errors, ask.bad \in Bad,
         "none" \notin DOMAIN errors, Status("DataTooLong", errors) = 400,
         Answers(r, ask, Reply(IF ask.bad = "none" THEN Ok({ask.on}) ELSE Raise("DataTooLong"), errors)),
         \A a : /\ a.ask = ask
                /\ \/ ask.bad = "none" /\ a.status = 200 /\ a.rows = {ask.on}
                   \/ ask.bad = "text" /\ a.status = 400 /\ a.rows = {}
                => InOneStep!Serve(a)
  PROVE  OneStep
<1>1. CASE ask.bad = "none"
  <2>1. Answers(r, ask, Reply(Ok({ask.on}), errors))
    BY <1>1
  <2>2. \A a : a.ask = ask /\ a.status = 200 /\ a.rows = {ask.on} => InOneStep!Serve(a)
    BY <1>1
  <2> QED
    BY <2>1, <2>2, AnsweredStep
<1>2. CASE ask.bad = "text"
  <2>1. Raises(r, ask, "DataTooLong", errors)
    BY <1>2 DEF Raises
  <2>2. \A a : a.ask = ask /\ a.status = 400 /\ a.rows = {} => InOneStep!Serve(a)
    BY <1>2
  <2> QED
    BY <2>1, <2>2, RaisedStep
<1> QED
  BY <1>1, <1>2 DEF Bad

LEMMA UpdateSourceWorkServed ==
  ASSUME IInv, NEW r \in Call, ~Busy(r, "answered"), update_source_work(r)
  PROVE  OneStep
<1> DEFINE errors == [SourceWorkNotFound |-> 404, InsufficientPermissions |-> 401, DataTooLong |-> 400]
<1>1. PICK u \in User, w \in SomeWork, bad \in Bad :
         modify_source_work(r, Asked("update_source_work", u, w, None, bad), errors)
  BY DEF update_source_work
<1>2. PICK ask : ask = Asked("update_source_work", u, w, None, bad)
  OBVIOUS
<1>3. ask.op = "update_source_work" /\ ask.user = u /\ ask.on = w /\ ask.bad = bad
  BY <1>2, AskedIs
<1>4. "none" \notin DOMAIN errors /\ Status("DataTooLong", errors) = 400
  BY DEF Status
<1>5. modify_source_work(r, ask, errors) /\ UNCHANGED tables
  BY <1>1, <1>2 DEF modify_source_work
<1> HIDE DEF errors
<1>6. CASE ~(w \in source_works /\ source_work_mod_access_update(u, w))
  BY <1>3, <1>5, <1>6, AsksStep DEF modify_source_work
<1>7. CASE w \in source_works /\ source_work_mod_access_update(u, w)
  <2>1. Answers(r, ask, Reply(IF ask.bad = "none" THEN Ok({ask.on}) ELSE Raise("DataTooLong"), errors))
    BY <1>3, <1>5, <1>7 DEF modify_source_work
  <2>2. ASSUME NEW a, a.ask = ask,
               \/ ask.bad = "none" /\ a.status = 200 /\ a.rows = {ask.on}
               \/ ask.bad = "text" /\ a.status = 400 /\ a.rows = {}
        PROVE  InOneStep!Serve(a)
    <3>1. w \in source_works /\ InOneStep!source_work_mod_access_update(u, w)
      BY <1>7, SameRights
    <3>2. \/ InOneStep!Misfit(a) /\ InOneStep!Fails(a, 400)
          \/ ~InOneStep!Misfit(a) /\ InOneStep!Succeeds(a, {a.ask.on}) /\ UNCHANGED InOneStep!tables
      BY <1>3, <1>5, <2>2, TitlesAre
    <3>4. InOneStep!WorkTitle(a, u, w)
      BY <3>1, <3>2 DEF InOneStep!WorkTitle, InOneStep!Titles
    <3> QED
      BY <1>3, <2>2, <3>4, ServeOf
  <2> QED
    BY <1>3, <1>4, <2>1, <2>2, TitleStep
<1> QED
  BY <1>6, <1>7

LEMMA UpdateChapterServed ==
  ASSUME IInv, NEW r \in Call, ~Busy(r, "answered"), update_chapter(r)
  PROVE  OneStep
<1> DEFINE errors == [ChapterNotFound |-> 404, InsufficientPermissions |-> 401, DataTooLong |-> 400]
<1>1. PICK u \in User, c \in SomeChapter, bad \in Bad :
         modify_chapter(r, Asked("update_chapter", u, c, None, bad), errors)
  BY DEF update_chapter
<1>2. PICK ask : ask = Asked("update_chapter", u, c, None, bad)
  OBVIOUS
<1>3. ask.op = "update_chapter" /\ ask.user = u /\ ask.on = c /\ ask.bad = bad
  BY <1>2, AskedIs
<1>4. "none" \notin DOMAIN errors /\ Status("DataTooLong", errors) = 400
  BY DEF Status
<1>5. modify_chapter(r, ask, errors) /\ UNCHANGED tables
  BY <1>1, <1>2 DEF modify_chapter
<1> HIDE DEF errors
<1>6. CASE ~MayChange(u, c)
  BY <1>3, <1>5, <1>6, AsksStep DEF modify_chapter
<1>7. CASE MayChange(u, c)
  <2>1. Answers(r, ask, Reply(IF ask.bad = "none" THEN Ok({ask.on}) ELSE Raise("DataTooLong"), errors))
    BY <1>3, <1>5, <1>7 DEF modify_chapter
  <2>2. ASSUME NEW a, a.ask = ask,
               \/ ask.bad = "none" /\ a.status = 200 /\ a.rows = {ask.on}
               \/ ask.bad = "text" /\ a.status = 400 /\ a.rows = {}
        PROVE  InOneStep!Serve(a)
    <3>1. InOneStep!Titles(a, MayChange(u, c), read_chapter_by_id(u, c))
      BY <1>3, <1>5, <1>7, <2>2, TitlesAre DEF InOneStep!Titles
    <3> QED
      BY <1>3, <2>2, <3>1, ServeChapterTitle
  <2> QED
    BY <1>3, <1>4, <2>1, <2>2, TitleStep
<1> QED
  BY <1>6, <1>7

\* Data that the schema of the request refuses.
LEMMA RefusedServed ==
  ASSUME IInv, NEW r \in Call, ~Busy(r, "answered"), NEW ask, NEW status, RefusedBySchema(r, ask, status),
         \A a : a.ask = ask /\ InOneStep!Fails(a, status) => InOneStep!Serve(a)
  PROVE  OneStep
<1> DEFINE errors == [ValidationError |-> status]
<1>1. Raises(r, ask, "ValidationError", errors) /\ UNCHANGED tables
  BY DEF RefusedBySchema
<1>2. Status("ValidationError", errors) = status
  BY DEF Status
<1> HIDE DEF errors
<1>3. ASSUME NEW a, a.ask = ask, a.status = status, a.rows = {} PROVE InOneStep!Serve(a)
  BY <1>1, <1>3, FailsIs
<1> QED
  BY <1>1, <1>2, <1>3, RaisedStep

LEMMA UpdateGroupServed ==
  ASSUME IInv, NEW r \in Call, ~Busy(r, "answered"), update_label_group(r)
  PROVE  OneStep
<1> DEFINE errors == [LabelGroupNotFound |-> 404, DataTooLong |-> 400]
<1>1. PICK u \in User, g \in SomeGroup, bad \in Bad :
         IF bad # "none" THEN RefusedBySchema(r, Asked("update_label_group", u, g, None, bad), 422)
         ELSE modify_label_group(r, Asked("update_label_group", u, g, None, bad), errors)
  BY DEF update_label_group
<1>2. PICK ask : ask = Asked("update_label_group", u, g, None, bad)
  OBVIOUS
<1>3. ask.op = "update_label_group" /\ ask.user = u /\ ask.on = g /\ ask.bad = bad
  BY <1>2, AskedIs
<1>4. "none" \notin DOMAIN errors /\ Status("LabelGroupNotFound", errors) = 404
  BY DEF Status
<1>a. CASE bad # "none"
  <2>1. RefusedBySchema(r, ask, 422)
    BY <1>1, <1>2, <1>a
  <2>2. ASSUME NEW a, a.ask = ask, InOneStep!Fails(a, 422) PROVE InOneStep!Serve(a)
    BY <1>3, <1>a, <2>2 DEF InOneStep!Serve, InOneStep!Misfit
  <2> QED
    BY <2>1, <2>2, RefusedServed
<1>b. CASE bad = "none"
  <2>1. modify_label_group(r, ask, errors) /\ UNCHANGED tables
    BY <1>1, <1>2, <1>b DEF modify_label_group
  <2> HIDE DEF errors
  <2>2. ASSUME NEW a, a.ask = ask PROVE ~InOneStep!Misfit(a)
    BY <1>3, <1>b, <2>2 DEF InOneStep!Misfit
  <2>3. CASE ~(IsGroup(g) /\ label_group_mod_access_update(u, g))
    <3>1. Raises(r, ask, "LabelGroupNotFound", errors)
      BY <1>3, <2>1, <2>3 DEF modify_label_group
    <3>2. ASSUME NEW a, a.ask = ask, a.status = 404, a.rows = {} PROVE InOneStep!Serve(a)
      <4>1. InOneStep!Fails(a, 404)
        BY <2>1, <3>2, FailsIs
      <4>2. InOneStep!Titles(a, IsGroup(g) /\ label_group_mod_access_update(u, g), [status |-> 404])
        BY <2>3, <4>1 DEF InOneStep!Titles, InOneStep!Refused
      <4> QED
        BY <1>3, <2>2, <3>2, <4>2, ServeGroupTitle
    <3> QED
      BY <1>4, <3>1, <3>2, RaisedStep
  <2>4. CASE IsGroup(g) /\ label_group_mod_access_update(u, g)
    <3>1. Answers(r, ask, Reply(Ok({g}), errors))
      BY <1>3, <2>1, <2>4 DEF modify_label_group
    <3>2. ASSUME NEW a, a.ask = ask, a.status = 200, a.rows = {g} PROVE InOneStep!Serve(a)
      <4>1. InOneStep!Succeeds(a, {a.ask.on}) /\ UNCHANGED InOneStep!tables
        BY <1>3, <2>1, <3>2 DEF InOneStep!Succeeds, tables, InOneStep!tables
      <4>2. InOneStep!Titles(a, IsGroup(g) /\ label_group_mod_access_update(u, g), [status |-> 404])
        BY <2>2, <2>4, <3>2, <4>1 DEF InOneStep!Titles
      <4> QED
        BY <1>3, <2>2, <3>2, <4>2, ServeGroupTitle
    <3> QED
      BY <1>4, <3>1, <3>2, AnsweredStep
  <2> QED
    BY <2>3, <2>4
<1> QED
  BY <1>a, <1>b

LEMMA PublishServed ==
  ASSUME IInv, NEW r \in Call, ~Busy(r, "answered"), action_publish_chapter(r)
  PROVE  OneStep
<1> DEFINE errors == [ChapterNotFound |-> 404, InsufficientPermissions |-> 401]
<1>1. PICK u \in User, c \in SomeChapter :
         make_public_chapter(r, Asked("action_publish_chapter", u, c, None, "none"), errors)
  BY DEF action_publish_chapter
<1>2. PICK ask : ask = Asked("action_publish_chapter", u, c, None, "none")
  OBVIOUS
<1>3. ask.op = "action_publish_chapter" /\ ask.user = u /\ ask.on = c
  BY <1>2, AskedIs
<1>4. "none" \notin DOMAIN errors
  OBVIOUS
<1>5. make_public_chapter(r, ask, errors)
  BY <1>1, <1>2
<1> HIDE DEF errors
<1>6. CASE ~MayChange(u, c)
  BY <1>3, <1>5, <1>6, AsksStep DEF make_public_chapter
<1>7. CASE MayChange(u, c)
  <2>1. InOneStep!IsChapter(c) /\ InOneStep!chapter_mod_access_update(u, c)
    BY <1>7, SameTables, SameRights DEF MayChange
  <2>2. /\ chapters' = [chapters EXCEPT ![c].public = TRUE]
        /\ Answers(r, ask, Reply(Ok({c}), errors))
        /\ UNCHANGED <<source_works, novels, novel_contributors, chapter_contents,
                       label_groups, label_contributors, label_datas>>
    BY <1>3, <1>5, <1>7 DEF make_public_chapter
  <2>3. ASSUME NEW a, a.ask = ask, a.status = 200, a.rows = {c} PROVE InOneStep!Serve(a)
    <3>1. InOneStep!Publication(a, u, c)
      BY <2>1, <2>2, <2>3 DEF InOneStep!Publication, InOneStep!Succeeds
    <3> QED
      BY <1>3, <2>3, <3>1, ServeOf
  <2> QED
    BY <1>4, <2>2, <2>3, AnsweredStep
<1> QED
  BY <1>6, <1>7

LEMMA DeleteChapterServed ==
  ASSUME IInv, NEW r \in Call, ~Busy(r, "answered"), delete_chapter(r)
  PROVE  OneStep
<1> DEFINE errors == [ChapterNotFound |-> 404, InsufficientPermissions |-> 401, ChapterDeleteFailed |-> 500]
<1>1. PICK u \in User, c \in SomeChapter :
         remove_chapter(r, Asked("delete_chapter", u, c, None, "none"), errors)
  BY DEF delete_chapter
<1>2. PICK ask : ask = Asked("delete_chapter", u, c, None, "none")
  OBVIOUS
<1>3. ask.op = "delete_chapter" /\ ask.user = u /\ ask.on = c
  BY <1>2, AskedIs
<1>4. "none" \notin DOMAIN errors /\ Status("ChapterDeleteFailed", errors) = 500
  BY DEF Status
<1>5. remove_chapter(r, ask, errors)
  BY <1>1, <1>2
<1> HIDE DEF errors
<1>6. CASE ~(IsChapter(c) /\ chapter_mod_access_delete(u, c))
  BY <1>3, <1>5, <1>6, AsksStep DEF remove_chapter
<1>7. CASE IsChapter(c) /\ chapter_mod_access_delete(u, c)
  <2>1. InOneStep!IsChapter(c) /\ InOneStep!chapter_mod_access_delete(u, c)
    BY <1>7, SameTables, SameRights
  <2>2. CASE Raises(r, ask, "ChapterDeleteFailed", errors) /\ UNCHANGED tables
    <3>1. ASSUME NEW a, a.ask = ask, a.status = 500, a.rows = {} PROVE InOneStep!Serve(a)
      <4>1. InOneStep!Removal(a, u, c)
        BY <2>1, <2>2, <3>1, FailsIs DEF InOneStep!Removal
      <4> QED
        BY <1>3, <3>1, <4>1, ServeOf
    <3> QED
      BY <1>4, <2>2, <3>1, RaisedStep
  <2>3. CASE /\ ~Referred(c)
             /\ chapters' = [chapters EXCEPT ![c] = None]
             /\ chapter_contents' = {cc \in chapter_contents : cc[1] # c}
             /\ Answers(r, ask, Reply(Ok({"success"}), errors))
             /\ UNCHANGED <<source_works, novels, novel_contributors,
                            label_groups, label_contributors, label_datas>>
    <3>1. /\ chapter_contents' = chapter_contents \ {cc \in chapter_contents : cc[1] = c}
          /\ \A d \in label_datas : d[2] # c
      BY <2>3 DEF Referred
    <3>2. ASSUME NEW a, a.ask = ask, a.status = 200, a.rows = {"success"} PROVE InOneStep!Serve(a)
      <4>1. InOneStep!Removal(a, u, c)
        BY <2>1, <2>3, <3>1, <3>2 DEF InOneStep!Removal, InOneStep!Succeeds
      <4> QED
        BY <1>3, <3>2, <4>1, ServeOf
    <3> QED
      BY <1>4, <2>3, <3>2, AnsweredStep
  <2> QED
    BY <1>3, <1>5, <1>7, <2>2, <2>3 DEF remove_chapter
<1> QED
  BY <1>6, <1>7

LEMMA UpdateContentServed ==
  ASSUME IInv, NEW r \in Call, ~Busy(r, "answered"), update_chapter_content(r)
  PROVE  OneStep
<1> DEFINE errors == [ChapterContentNotFound |-> 404, ChapterContentOutdated |-> 409, InsufficientPermissions |-> 401]
<1>1. PICK u \in User, c \in SomeChapter, cc \in SomeContents :
         modify_chapter_content(r, Asked("update_chapter_content", u, c, cc, "none"), errors)
  BY DEF update_chapter_content
<1>2. PICK ask : ask = Asked("update_chapter_content", u, c, cc, "none")
  OBVIOUS
<1>3. ask.op = "update_chapter_content" /\ ask.user = u /\ ask.on = c /\ ask.arg = cc
  BY <1>2, AskedIs
<1>4. "none" \notin DOMAIN errors /\ Status("ChapterContentOutdated", errors) = 409
  BY DEF Status
<1>5. modify_chapter_content(r, ask, errors)
  BY <1>1, <1>2
<1> HIDE DEF errors
<1>6. CASE ~MayChange(u, c)
  <2>1. ~chapter_content_mod_access_select(ask.user, ask.on, TRUE)
    BY <1>3, <1>6, EditsChange
  <2>2. Asks(r, ask, "content_status", "InsufficientPermissions", errors) /\ UNCHANGED tables
    BY <1>5, <2>1 DEF modify_chapter_content
  <2> QED
    BY <2>2, AsksStep
<1>7. CASE MayChange(u, c)
  <2>1. PICK v, s : v = Latest(c) /\ s = read_chapter_content_status(u, c, cc).status
    OBVIOUS
  <2>2. chapter_content_mod_access_select(ask.user, ask.on, TRUE)
    BY <1>3, <1>7, EditsChange
  <2>3. LatestRows(u, c) = {<<c, v>>}
    <3>1. IsChapter(c) /\ chapter_mod_access_update(u, c)
      BY <1>7 DEF MayChange
    <3>2. ChapterSeen(u, c)
      BY <3>1, ChapterRights DEF ChapterSeen
    <3> QED
      BY <2>1, <3>1, <3>2, LatestRowsIs DEF IInv
  <2>4. s = IF cc = <<c, v>> THEN 200 ELSE 409
    <3>1. PICK rows : rows = LatestRows(u, c)
      OBVIOUS
    <3>2. s = IF rows = {} THEN 404 ELSE IF rows # {cc} THEN 409 ELSE 200
      BY <2>1, <3>1, ReadStatusIs
    <3>3. rows = {<<c, v>>}
      BY <2>3, <3>1
    <3>4. rows # {} /\ (rows = {cc} <=> cc = <<c, v>>)
      BY <3>3
    <3> QED
      BY <3>2, <3>4
  <2>5. \A a : a.ask = ask => InOneStep!read_chapter_content_status(u, c, a.ask.arg).status = s
    BY <1>3, <2>1, SameContents
  <2>6. InOneStep!chapter_mod_access_update(u, c)
    BY <1>7, SameRights DEF MayChange
  <2>7. CASE cc # <<c, v>>
    <3>1. Raises(r, ask, "ChapterContentOutdated", errors) /\ UNCHANGED tables
      BY <1>3, <1>5, <2>1, <2>2, <2>7 DEF modify_chapter_content
    <3>2. ASSUME NEW a, a.ask = ask, a.status = 409, a.rows = {} PROVE InOneStep!Serve(a)
      <4>1. InOneStep!Fails(a, s) /\ s = 409
        BY <2>4, <2>7, <3>1, <3>2, FailsIs
      <4>2. InOneStep!Revision(a, u, c)
        BY <1>3, <2>5, <3>2, <4>1 DEF InOneStep!Revision
      <4> QED
        BY <1>3, <3>2, <4>2, ServeOf
    <3> QED
      BY <1>4, <3>1, <3>2, RaisedStep
  <2>8. CASE cc = <<c, v>>
    <3>1. PICK x : x = [at |-> "revise", ask |-> ask, ported |-> {}, errors |-> errors]
      OBVIOUS
    <3>2. Becomes(r, x) /\ x.at # "answered" /\ UNCHANGED tables
      BY <1>3, <1>5, <2>1, <2>2, <2>8, <3>1 DEF modify_chapter_content
    <3> QED
      BY <3>2, QuietStep DEF IInv, OneStep
  <2> QED
    BY <2>7, <2>8
<1> QED
  BY <1>6, <1>7

\* The later statements of an edit.
LEMMA InsertVersionServed ==
  ASSUME IInv, NEW r \in Call, InsertVersion(r)
  PROVE  OneStep
<1>0. PICK p, u, c, cc, s : /\ p = call[r] /\ u = p.ask.user /\ c = p.ask.on /\ cc = p.ask.arg
                            /\ s = read_chapter_content_status(u, c, cc).status
  OBVIOUS
<1>1. EditOK(p) /\ p.at = "revise" /\ ~Busy(r, "answered") /\ UNCHANGED tables
  BY <1>0, CallIs DEF InsertVersion, Busy, CallOK, EditAt
<1>2. CASE Asks(r, p.ask, "content_status", "InsufficientPermissions", p.errors)
  BY <1>1, <1>2, AsksStep
<1>3. CASE /\ ~IsChapter(c) \/ Revised(cc) \in chapter_contents
           /\ Raises(r, p.ask, "IntegrityError", p.errors)
  <2>1. PICK v : v = cc[2]
    OBVIOUS
  <2>2. v \in Nat /\ cc = <<c, v>> /\ Revised(cc) = <<c, v + 1>>
    BY <1>0, <1>1, <2>1 DEF EditOK, Revised
  <2>3. s # 200
    <3>1. SUFFICES ASSUME s = 200 PROVE FALSE
      OBVIOUS
    <3>2. cc \in LatestRows(u, c)
      <4>1. PICK q : q = query_chapter_content_status(u, c, cc)
        OBVIOUS
      <4>2. \/ q.raised = "none" /\ s = 200 /\ LatestRows(u, c) = {cc}
            \/ q.raised = "ChapterContentNotFound" /\ s = 404
            \/ q.raised = "ChapterContentOutdated" /\ s = 409
        BY <1>0, <4>1, StatusQueryIs
      <4> QED
        BY <3>1, <4>2
    <3>3. IsChapter(c) /\ v = Latest(c) /\ cc \in chapter_contents
      BY <2>1, <3>2 DEF LatestRows, chapter_content_mod_access_select
    <3>4. <<c, v + 1>> \in chapter_contents
      BY <1>3, <2>2, <3>3
    <3>5. v + 1 <= Latest(c)
      BY <3>4, LatestIs DEF IInv
    <3> QED
      BY <2>2, <3>3, <3>5
  <2>4. Status("IntegrityError", p.errors) = 500
    BY <1>1 DEF EditOK, ContentErrors, Status
  <2>5. ASSUME NEW a, a.ask = p.ask, a.status = 500, a.rows = {} PROVE InOneStep!Serve(a)
    <3>1. InOneStep!Fails(a, 500)
      BY <1>1, <2>5, FailsIs
    <3>2. InOneStep!read_chapter_content_status(u, c, a.ask.arg).status = s
      BY <1>0, <2>5, SameContents
    <3>3. InOneStep!Revision(a, u, c)
      BY <2>3, <3>1, <3>2 DEF InOneStep!Revision
    <3> QED
      BY <1>0, <1>1, <2>5, <3>3, ServeOf DEF EditOK
  <2> QED
    BY <1>1, <1>3, <2>4, <2>5, RaisedStep
<1>4. CASE Becomes(r, [p EXCEPT !.at = "port"])
  <2>1. PICK x : x = [p EXCEPT !.at = "port"]
    OBVIOUS
  <2>2. x.at = "port"
    BY <1>1, <2>1 DEF EditOK
  <2> QED
    BY <1>1, <1>4, <2>1, <2>2, QuietStep DEF IInv, OneStep
<1> QED
  BY <1>0, <1>2, <1>3, <1>4 DEF InsertVersion

LEMMA FindLabelDatasServed ==
  ASSUME IInv, NEW r \in Call, FindLabelDatas(r)
  PROVE  OneStep
<1>1. PICK ask, errors, found : Becomes(r, [at |-> "store", ask |-> ask, errors |-> errors, ported |-> found])
  BY DEF FindLabelDatas
<1>2. PICK x : x = [at |-> "store", ask |-> ask, errors |-> errors, ported |-> found]
  OBVIOUS
<1>3. Becomes(r, x) /\ x.at # "answered" /\ UNCHANGED tables /\ ~Busy(r, "answered")
  BY <1>1, <1>2 DEF FindLabelDatas, Busy
<1> QED
  BY <1>3, QuietStep DEF IInv, OneStep

\* The version that the edit found is still the latest one when the new one is stored.
LEMMA CommitVersionServed ==
  ASSUME IInv, NEW r \in Call, CommitVersion(r)
  PROVE  OneStep
<1>0. PICK p, u, c, cc, v, found : /\ p = call[r] /\ u = p.ask.user /\ c = p.ask.on /\ cc = p.ask.arg
                                   /\ v = p.ask.arg[2] /\ found = p.ported
  OBVIOUS
<1>1. EditOK(p) /\ VersionOK(p) /\ p.at = "store" /\ ~Busy(r, "answered")
  BY <1>0, CallIs DEF CommitVersion, Busy, CallOK, EditAt, EditOK
<1>2. /\ MayChange(u, c) /\ IsChapter(c) /\ v \in Nat \ {0} /\ cc = <<c, v>>
      /\ Newest(c, v) /\ <<c, v>> \in chapter_contents
      /\ found \subseteq {d \in label_datas : <<d[2], d[3]>> = cc}
  BY <1>0, <1>1 DEF EditOK, VersionOK, StoreAt, IsChapter
<1>3. PICK next : next = <<c, v + 1>>
  OBVIOUS
<1>4. Revised(p.ask.arg) = next /\ next[1] = c /\ next[2] = v + 1
  BY <1>0, <1>2, <1>3 DEF Revised
<1>5. /\ chapter_contents' = chapter_contents \cup {next}
      /\ label_datas' = label_datas \cup {<<d[1], c, next[2]>> : d \in found}
      /\ Answers(r, p.ask, Reply(Ok({<<next, found>>}), p.errors))
      /\ UNCHANGED <<source_works, novels, novel_contributors, chapters,
                     label_groups, label_contributors>>
  BY <1>0, <1>4 DEF CommitVersion
<1>6. Latest(c) = v
  <2>1. PICK l : l = Latest(c)
    OBVIOUS
  <2>2. l \in Nat /\ v <= l /\ <<c, l>> \in chapter_contents
    BY <1>2, <2>1, LatestIs DEF IInv
  <2>3. l <= v
    BY <1>2, <2>2 DEF Newest
  <2> QED
    BY <1>2, <2>1, <2>2, <2>3
<1>7. read_chapter_content_status(u, c, cc).status = 200
  BY <1>2, <1>6, ChangedRead DEF IInv
<1>8. "none" \notin DOMAIN p.errors
  BY <1>1 DEF EditOK, ContentErrors
<1>9. ASSUME NEW a, a.ask = p.ask, a.status = 200, a.rows = {<<next, found>>} PROVE InOneStep!Serve(a)
  <2>1. InOneStep!read_chapter_content_status(u, c, a.ask.arg).status = 200
    BY <1>0, <1>7, <1>9, SameContents
  <2>2. InOneStep!chapter_mod_access_update(u, c)
    BY <1>2, SameRights DEF MayChange
  <2>3. next = <<c, a.ask.arg[2] + 1>>
    BY <1>0, <1>3, <1>9
  <2>4. /\ found \in SUBSET {d \in label_datas : <<d[2], d[3]>> = a.ask.arg}
        /\ InOneStep!Succeeds(a, {<<next, found>>})
    BY <1>0, <1>2, <1>9 DEF InOneStep!Succeeds
  <2>5. chapter_contents' = chapter_contents \cup {<<c, a.ask.arg[2] + 1>>}
    BY <1>5, <2>3
  <2>6. InOneStep!Succeeds(a, {<<<<c, a.ask.arg[2] + 1>>, found>>})
    BY <2>3, <2>4
  <2>7. label_datas' = label_datas \cup {<<d[1], c, <<c, a.ask.arg[2] + 1>>[2]>> : d \in found}
    BY <1>5, <2>3
  <2>8. InOneStep!Revision(a, u, c)
    <3>1. \E ported \in SUBSET {d \in label_datas : <<d[2], d[3]>> = a.ask.arg} :
            /\ InOneStep!Succeeds(a, {<<<<c, a.ask.arg[2] + 1>>, ported>>})
            /\ label_datas' = label_datas \cup {<<d[1], c, <<c, a.ask.arg[2] + 1>>[2]>> : d \in ported}
      BY <2>4, <2>6, <2>7
    <3> QED
      BY ONLY <1>5, <2>1, <2>2, <2>5, <3>1 DEF InOneStep!Revision
  <2> QED
    BY <1>0, <1>1, <1>9, <2>8, ServeOf DEF EditOK
<1> QED
  BY <1>1, <1>5, <1>8, <1>9, AnsweredStep

LEMMA CreateGroupServed ==
  ASSUME IInv, NEW r \in Call, ~Busy(r, "answered"), create_label_group(r)
  PROVE  OneStep
<1> DEFINE errors == [NovelNotFound |-> 404, DataTooLong |-> 400]
<1>1. PICK u \in User, n \in SomeNovel, bad \in Bad :
         IF bad # "none" THEN RefusedBySchema(r, Asked("create_label_group", u, n, None, bad), 422)
         ELSE insert_label_group(r, Asked("create_label_group", u, n, None, bad), errors)
  BY DEF create_label_group
<1>2. PICK ask : ask = Asked("create_label_group", u, n, None, bad)
  OBVIOUS
<1>3. ask.op = "create_label_group" /\ ask.user = u /\ ask.on = n /\ ask.bad = bad
  BY <1>2, AskedIs
<1>4. Status("NovelNotFound", errors) = 404
  BY DEF Status
<1> HIDE DEF errors
<1>5. CASE bad # "none"
  <2>1. RefusedBySchema(r, ask, 422)
    BY <1>1, <1>2, <1>5
  <2>2. ASSUME NEW a, a.ask = ask, InOneStep!Fails(a, 422) PROVE InOneStep!Serve(a)
    <3>1. InOneStep!NewLabelGroup(a, u, n)
      BY <1>3, <1>5, <2>2 DEF InOneStep!NewLabelGroup, InOneStep!Misfit
    <3> QED
      BY <1>3, <2>2, <3>1, ServeOf
  <2> QED
    BY <2>1, <2>2, RefusedServed
<1>6. CASE bad = "none" /\ ~label_group_mod_access_insert(u, n)
  <2>1. Raises(r, ask, "NovelNotFound", errors) /\ UNCHANGED tables
    BY <1>1, <1>2, <1>3, <1>6 DEF insert_label_group
  <2>2. PICK s : s = read_novel(u, n).status
    OBVIOUS
  <2>3. s = 404
    <3>1. label_group_mod_access_insert(u, n) <=> IsNovel(n) /\ NovelSeen(u, n)
      BY Zenon DEF label_group_mod_access_insert, NovelSeen
    <3> QED
      BY <1>6, <2>2, <3>1, ReadNovelIs
  <2>4. s = InOneStep!read_novel(u, n).status
    BY <2>2, SameReads
  <2>5. ASSUME NEW a, a.ask = ask, a.status = 404, a.rows = {} PROVE InOneStep!Serve(a)
    <3>1. InOneStep!Fails(a, 404) /\ ~InOneStep!Misfit(a)
      BY <1>3, <1>6, <2>1, <2>5, FailsIs DEF InOneStep!Misfit
    <3>2. InOneStep!NewLabelGroup(a, u, n)
      BY <2>3, <2>4, <3>1 DEF InOneStep!NewLabelGroup
    <3> QED
      BY <1>3, <2>5, <3>2, ServeOf
  <2> QED
    BY <1>4, <2>1, <2>5, RaisedStep
<1>7. CASE bad = "none" /\ label_group_mod_access_insert(u, n)
  <2>1. insert_label_group(r, ask, errors)
    BY <1>1, <1>2, <1>7
  <2> QED
    BY <1>3, <1>7, <2>1, BeginsStep DEF insert_label_group
<1> QED
  BY <1>5, <1>6, <1>7

LEMMA CreateLabelDataServed ==
  ASSUME IInv, NEW r \in Call, ~Busy(r, "answered"), create_label_data(r)
  PROVE  OneStep
<1> DEFINE errors == [LabelGroupNotFound |-> 404, LabelDataRevisionDuplicate |-> 409, NotFound |-> 404]
<1>1. PICK u \in User, g \in SomeGroup, cc \in SomeContents :
         insert_label_data(r, Asked("create_label_data", u, g, cc, "none"), errors)
  BY DEF create_label_data
<1>2. PICK ask : ask = Asked("create_label_data", u, g, cc, "none")
  OBVIOUS
<1>3. ask.op = "create_label_data" /\ ask.user = u /\ ask.on = g /\ ask.arg = cc
  BY <1>2, AskedIs
<1>4. /\ "none" \notin DOMAIN errors /\ Status("LabelGroupNotFound", errors) = 404
      /\ Status("LabelDataRevisionDuplicate", errors) = 409 /\ Status("NotFound", errors) = 404
  BY DEF Status
<1>5. insert_label_data(r, ask, errors)
  BY <1>1, <1>2
<1> HIDE DEF errors
<1>6. PICK d : d = <<g, cc[1], cc[2]>>
  OBVIOUS
<1>7. cc = <<cc[1], cc[2]>>
  BY DEF SomeContents, IInv, TablesOK
<1>8. d \in label_datas => IsGroup(g) /\ cc \in chapter_contents
  BY <1>6, <1>7 DEF IInv, WholeRows
<1>9. /\ InOneStep!label_data_mod_access_insert(u, g) = label_data_mod_access_insert(u, g)
      /\ InOneStep!IsGroup(g) = IsGroup(g)
  BY SameRights, SameTables
<1>10. CASE ~label_data_mod_access_insert(u, g) \/ ~IsGroup(g) \/ cc \notin chapter_contents
  <2>1. PICK x \in {"LabelGroupNotFound", "NotFound"} : Raises(r, ask, x, errors) /\ UNCHANGED tables
    BY <1>3, <1>5, <1>6, <1>8, <1>10 DEF insert_label_data
  <2>2. ASSUME NEW a, a.ask = ask, a.status = 404, a.rows = {} PROVE InOneStep!Serve(a)
    <3>1. InOneStep!Fails(a, 404)
      BY <2>1, <2>2, FailsIs
    <3>2. InOneStep!NewLabelData(a, u, g)
      BY <1>3, <1>9, <1>10, <2>2, <3>1 DEF InOneStep!NewLabelData
    <3> QED
      BY <1>3, <2>2, <3>2, ServeOf
  <2> QED
    BY <1>4, <2>1, <2>2, RaisedStep
<1>11. CASE label_data_mod_access_insert(u, g) /\ IsGroup(g) /\ cc \in chapter_contents /\ d \in label_datas
  <2>1. Raises(r, ask, "LabelDataRevisionDuplicate", errors) /\ UNCHANGED tables
    BY <1>3, <1>5, <1>6, <1>11 DEF insert_label_data
  <2>2. ASSUME NEW a, a.ask = ask, a.status = 409, a.rows = {} PROVE InOneStep!Serve(a)
    <3>1. InOneStep!Fails(a, 409)
      BY <2>1, <2>2, FailsIs
    <3>2. InOneStep!NewLabelData(a, u, g)
      BY <1>3, <1>6, <1>9, <1>11, <2>2, <3>1 DEF InOneStep!NewLabelData
    <3> QED
      BY <1>3, <2>2, <3>2, ServeOf
  <2> QED
    BY <1>4, <2>1, <2>2, RaisedStep
<1>12. CASE label_data_mod_access_insert(u, g) /\ IsGroup(g) /\ cc \in chapter_contents /\ d \notin label_datas
  <2>1. /\ label_datas' = label_datas \cup {d}
        /\ Answers(r, ask, Reply(Ok({d}), errors))
        /\ UNCHANGED <<source_works, novels, novel_contributors, chapters, chapter_contents,
                       label_groups, label_contributors>>
    BY <1>3, <1>5, <1>6, <1>12 DEF insert_label_data
  <2>2. ASSUME NEW a, a.ask = ask, a.status = 200, a.rows = {d} PROVE InOneStep!Serve(a)
    <3>1. InOneStep!NewLabelData(a, u, g)
      BY <1>3, <1>6, <1>9, <1>12, <2>1, <2>2 DEF InOneStep!NewLabelData, InOneStep!Succeeds
    <3> QED
      BY <1>3, <2>2, <3>1, ServeOf
  <2> QED
    BY <1>4, <2>1, <2>2, AnsweredStep
<1> QED
  BY <1>10, <1>11, <1>12

LEMMA CreateChapterServed ==
  ASSUME IInv, NEW r \in Call, ~Busy(r, "answered"), create_chapter(r)
  PROVE  OneStep
<1>1. PICK u \in User, n \in SomeNovel, num \in Number, public \in BOOLEAN, bad \in Bad :
         insert_chapter(r, Asked("create_chapter", u, n, <<[num |-> num, public |-> public]>>, bad), CreateErrors)
  BY DEF create_chapter, CreateErrors
<1>2. PICK ask : ask = Asked("create_chapter", u, n, <<[num |-> num, public |-> public]>>, bad)
  OBVIOUS
<1>3. ask.op = "create_chapter" /\ ask.user = u /\ ask.on = n /\ ask.bad = bad
  BY <1>2, AskedIs
<1>4. Status("DataTooLong", CreateErrors) = 500
  BY DEF Status, CreateErrors
<1>5. insert_chapter(r, ask, CreateErrors) /\ UNCHANGED tables
  BY <1>1, <1>2 DEF insert_chapter
<1>6. CASE ~chapter_mod_access_insert(u, n)
  BY <1>3, <1>5, <1>6, AsksStep DEF insert_chapter
<1>7. CASE chapter_mod_access_insert(u, n) /\ bad = "text"
  <2>1. Raises(r, ask, "DataTooLong", CreateErrors)
    BY <1>3, <1>5, <1>7 DEF insert_chapter
  <2>2. ASSUME NEW a, a.ask = ask, a.status = 500, a.rows = {} PROVE InOneStep!Serve(a)
    <3>1. InOneStep!Fails(a, 500)
      BY <1>5, <2>2, FailsIs
    <3>2. InOneStep!chapter_mod_access_insert(u, n)
      BY <1>7, SameRights
    <3>3. InOneStep!OneChapter(a, u)
      BY <1>3, <2>2, <3>1, <3>2 DEF InOneStep!OneChapter, InOneStep!GivenUp
    <3> QED
      BY <1>3, <2>2, <3>3, ServeOf
  <2> QED
    BY <1>4, <2>1, <2>2, RaisedStep
<1>8. CASE chapter_mod_access_insert(u, n) /\ bad # "text"
  BY <1>3, <1>5, <1>8, BeginsStep DEF insert_chapter
<1> QED
  BY <1>6, <1>7, <1>8

LEMMA UploadServed ==
  ASSUME IInv, NEW r \in Call, ~Busy(r, "answered"), create_chapters_by_upload(r)
  PROVE  OneStep
<1>1. PICK u \in User, n \in SomeNovel, file \in Upload, bad \in Bad :
         IF bad # "none" THEN RefusedBySchema(r, Asked("create_chapters_by_upload", u, n, file, bad), 400)
         ELSE upload_v1(r, Asked("create_chapters_by_upload", u, n, file, bad), UploadErrors)
  BY DEF create_chapters_by_upload, UploadErrors
<1>2. PICK ask : ask = Asked("create_chapters_by_upload", u, n, file, bad)
  OBVIOUS
<1>3. ask.op = "create_chapters_by_upload" /\ ask.user = u /\ ask.on = n /\ ask.bad = bad
  BY <1>2, AskedIs
<1>4. Status("InsufficientPermissions", UploadErrors) = 401
  BY DEF Status, UploadErrors
<1>5. CASE bad # "none"
  <2>1. RefusedBySchema(r, ask, 400)
    BY <1>1, <1>2, <1>5
  <2>2. ASSUME NEW a, a.ask = ask, InOneStep!Fails(a, 400) PROVE InOneStep!Serve(a)
    <3>1. InOneStep!ManyChapters(a, u)
      BY <1>3, <1>5, <2>2 DEF InOneStep!ManyChapters, InOneStep!Misfit
    <3> QED
      BY <1>3, <2>2, <3>1, ServeOf
  <2> QED
    BY <2>1, <2>2, RefusedServed
<1>6. CASE bad = "none" /\ ~chapter_mod_access_insert(u, n)
  <2>1. Raises(r, ask, "InsufficientPermissions", UploadErrors) /\ UNCHANGED tables
    BY <1>1, <1>2, <1>3, <1>6 DEF upload_v1
  <2>2. ~InOneStep!chapter_mod_access_insert(u, n)
    BY <1>6, SameRights
  <2>3. ASSUME NEW a, a.ask = ask, a.status = 401, a.rows = {} PROVE InOneStep!Serve(a)
    <3>1. InOneStep!Fails(a, 401) /\ ~InOneStep!Misfit(a)
      BY <1>3, <1>6, <2>1, <2>3, FailsIs DEF InOneStep!Misfit
    <3>2. InOneStep!ManyChapters(a, u)
      BY <1>3, <2>2, <2>3, <3>1 DEF InOneStep!ManyChapters
    <3> QED
      BY <1>3, <2>3, <3>2, ServeOf
  <2> QED
    BY <1>4, <2>1, <2>3, RaisedStep
<1>7. CASE bad = "none" /\ chapter_mod_access_insert(u, n)
  <2>1. upload_v1(r, ask, UploadErrors)
    BY <1>1, <1>2, <1>7
  <2> QED
    BY <1>3, <1>7, <2>1, BeginsStep DEF upload_v1
<1> QED
  BY <1>5, <1>6, <1>7

-----------------------------------------------------------------------------
(* The reads.                                                               *)
LEMMA SelectServed ==
  ASSUME IInv, NEW r \in Call, ~Busy(r, "answered"), NEW ask, NEW rows, NEW kind, NEW found, NEW errors,
         "none" \notin DOMAIN errors, Select(r, ask, rows, kind, found, errors),
         rows # {} => \A a : a.ask = ask /\ a.status = 200 /\ a.rows = rows => InOneStep!Serve(a)
  PROVE  OneStep
<1>1. CASE rows # {}
  BY <1>1, AnsweredStep DEF Select
<1>2. CASE rows = {}
  BY <1>2, AsksStep DEF Select
<1> QED
  BY <1>1, <1>2

LEMMA ReadNovelsServed ==
  ASSUME IInv, NEW r \in Call, ~Busy(r, "answered"), read_novels_by_source_work(r)
  PROVE  OneStep
<1> DEFINE errors == [SourceWorkNotFound |-> 404]
<1>1. PICK u \in Anyone, w \in SomeWork :
         query_novels_by_source_work(r, Asked("read_novels_by_source_work", u, w, None, "none"), errors)
  BY DEF read_novels_by_source_work
<1>2. PICK ask : ask = Asked("read_novels_by_source_work", u, w, None, "none")
  OBVIOUS
<1>3. ask.op = "read_novels_by_source_work" /\ ask.user = u /\ ask.on = w
  BY <1>2, AskedIs
<1>4. "none" \notin DOMAIN errors
  OBVIOUS
<1> HIDE DEF errors
<1>5. PICK rows : rows = {n \in NovelsOf(w) : NovelSeen(u, n)}
  OBVIOUS
<1>6. Select(r, ask, rows, "source_work", "none", errors)
  BY <1>1, <1>2, <1>3, <1>5 DEF query_novels_by_source_work, NovelSeen
<1>7. rows = {n \in NovelsOf(w) : read_novel(u, n).status = 200}
  <2>1. \A n \in NovelsOf(w) : IsNovel(n)
    BY DEF NovelsOf
  <2> QED
    BY <1>5, <2>1, ReadNovelIs
<1>8. UNCHANGED tables
  BY <1>6 DEF Select
<1>9. ASSUME rows # {}, NEW a, a.ask = ask, a.status = 200, a.rows = rows PROVE InOneStep!Serve(a)
  <2>1. InOneStep!Listed(a, rows, read_source_work(u, w))
    BY <1>8, <1>9 DEF InOneStep!Listed, InOneStep!Succeeds, InOneStep!tables, tables
  <2>2. InOneStep!Listed(a, {n \in NovelsOf(a.ask.on) : read_novel(a.ask.user, n).status = 200},
                         read_source_work(a.ask.user, a.ask.on))
    BY <1>3, <1>7, <1>9, <2>1
  <2> QED
    BY <1>3, <1>9, <2>2, ServeNovels
<1> QED
  BY <1>4, <1>6, <1>9, SelectServed

LEMMA ReadChaptersServed ==
  ASSUME IInv, NEW r \in Call, ~Busy(r, "answered"), read_chapters_by_novel(r)
  PROVE  OneStep
<1> DEFINE errors == [NovelNotFound |-> 404]
<1>1. PICK u \in Anyone, n \in SomeNovel, range \in Span :
         query_chapters_by_novel(r, Asked("read_chapters_by_novel", u, n, range, "none"), errors)
  BY DEF read_chapters_by_novel
<1>2. PICK ask : ask = Asked("read_chapters_by_novel", u, n, range, "none")
  OBVIOUS
<1>3. ask.op = "read_chapters_by_novel" /\ ask.user = u /\ ask.on = n /\ ask.arg = range
  BY <1>2, AskedIs
<1>4. "none" \notin DOMAIN errors
  OBVIOUS
<1> HIDE DEF errors
<1>5. PICK rows : rows = ChapterRows(u, n, range)
  OBVIOUS
<1>6. Select(r, ask, rows, "novel", "none", errors)
  BY <1>1, <1>2, <1>3, <1>5 DEF query_chapters_by_novel
<1>7. UNCHANGED tables
  BY <1>6 DEF Select
<1>8. ASSUME rows # {}, NEW a, a.ask = ask, a.status = 200, a.rows = rows PROVE InOneStep!Serve(a)
  <2>1. InOneStep!Listed(a, rows, read_novel(u, n))
    BY <1>7, <1>8 DEF InOneStep!Listed, InOneStep!Succeeds, InOneStep!tables, tables
  <2> QED
    BY <1>3, <1>5, <1>8, <2>1, ServeChapters
<1> QED
  BY <1>4, <1>6, <1>8, SelectServed

LEMMA ReadContentServed ==
  ASSUME IInv, NEW r \in Call, ~Busy(r, "answered"), read_chapter_content(r)
  PROVE  OneStep
<1> DEFINE errors == [ChapterNotFound |-> 404, ChapterContentNotFound |-> 404]
<1>1. PICK u \in Anyone, c \in SomeChapter :
         query_chapter_content_by_most_recent(r, Asked("read_chapter_content", u, c, None, "none"), errors)
  BY DEF read_chapter_content
<1>2. PICK ask : ask = Asked("read_chapter_content", u, c, None, "none")
  OBVIOUS
<1>3. ask.op = "read_chapter_content" /\ ask.user = u /\ ask.on = c
  BY <1>2, AskedIs
<1>4. "none" \notin DOMAIN errors
  OBVIOUS
<1> HIDE DEF errors
<1>5. PICK rows : rows = LatestRows(u, c)
  OBVIOUS
<1>6. Select(r, ask, rows, "chapter", "ChapterContentNotFound", errors)
  BY <1>1, <1>2, <1>3, <1>5 DEF query_chapter_content_by_most_recent
<1>7. UNCHANGED tables
  BY <1>6 DEF Select
<1>8. ASSUME rows # {}, NEW a, a.ask = ask, a.status = 200, a.rows = rows PROVE InOneStep!Serve(a)
  <2>1. InOneStep!Opened(a, rows)
    BY <1>7, <1>8 DEF InOneStep!Opened, InOneStep!Succeeds, InOneStep!tables, tables
  <2> QED
    BY <1>3, <1>5, <1>8, <2>1, ServeReads
<1> QED
  BY <1>4, <1>6, <1>8, SelectServed

LEMMA ReadWorksServed ==
  ASSUME IInv, NEW r \in Call, ~Busy(r, "answered"), read_source_works(r)
  PROVE  OneStep
<1>1. PICK ask : query_source_works_with_novels(r, ask, <<>>)
  BY DEF read_source_works
<1>2. PICK x : /\ x = [at |-> "novels", ask |-> ask, errors |-> <<>>,
                       works |-> query_source_works_by_title(ask.user, ask.arg).rows]
               /\ Becomes(r, x)
  BY <1>1 DEF query_source_works_with_novels
<1>3. x.at # "answered" /\ UNCHANGED tables
  BY <1>1, <1>2 DEF query_source_works_with_novels
<1> QED
  BY <1>2, <1>3, QuietStep DEF IInv, OneStep

LEMMA NovelsOfWorksServed ==
  ASSUME IInv, NEW r \in Call, NovelsOfWorks(r)
  PROVE  OneStep
<1>1. PICK p : p = call[r]
  OBVIOUS
<1>2. /\ p.at = "novels" /\ p.ask.op = "read_source_works" /\ p.errors = <<>>
      /\ p.works \subseteq source_works \cap p.ask.arg
  BY <1>1, CallIs DEF NovelsOfWorks, Busy, CallOK
<1>3. PICK u, works : u = p.ask.user /\ works = p.works
  OBVIOUS
<1>4. PICK rows : rows = {<<w, {n \in NovelsOf(w) : NovelSeen(u, n)}>> : w \in works}
  OBVIOUS
<1>5. Answers(r, p.ask, Reply(Ok(rows), p.errors)) /\ UNCHANGED tables
  BY <1>1, <1>3, <1>4 DEF NovelsOfWorks, NovelSeen
<1>6. ~Busy(r, "answered") /\ "none" \notin DOMAIN p.errors
  BY <1>1, <1>2 DEF Busy
<1>7. ASSUME NEW w
      PROVE  {n \in NovelsOf(w) : NovelSeen(u, n)}
               = {n \in InOneStep!NovelsOf(w) : InOneStep!read_novel(u, n).status = 200}
  <2>1. \A n \in NovelsOf(w) : IsNovel(n)
    BY DEF NovelsOf
  <2>2. InOneStep!NovelsOf(w) = NovelsOf(w)
    BY SameLists
  <2>3. \A n \in NovelsOf(w) : InOneStep!read_novel(u, n).status = 200 <=> NovelSeen(u, n)
    BY <2>1, SameReads, ReadNovelIs
  <2> QED
    BY <2>2, <2>3
<1>8. rows = {<<w, {n \in InOneStep!NovelsOf(w) : InOneStep!read_novel(u, n).status = 200}>> : w \in works}
  BY <1>4, <1>7
<1>9. ASSUME NEW a, a.ask = p.ask, a.status = 200, a.rows = rows PROVE InOneStep!Serve(a)
  <2>1. InOneStep!Succeeds(a, rows) /\ works \in SUBSET (source_works \cap a.ask.arg)
    BY <1>2, <1>3, <1>9 DEF InOneStep!Succeeds
  <2>2. InOneStep!Searched(a, u)
    BY <1>5, <1>8, <2>1 DEF InOneStep!Searched, InOneStep!tables, tables
  <2> QED
    BY <1>2, <1>3, <1>9, <2>2, ServeReads
<1> QED
  BY <1>5, <1>6, <1>9, AnsweredStep

-----------------------------------------------------------------------------
(* The later steps of a request.                                            *)
LEMMA UploadErrorsAre ==
  ASSUME NEW errors \in {CreateErrors, UploadErrors}
  PROVE  /\ "none" \notin DOMAIN errors /\ Status("NovelNotFound", errors) = 404
         /\ Status("ChapterNumDuplicate", errors) = 409 /\ Status("OperationalError", errors) = 500
BY DEF CreateErrors, UploadErrors, Status

LEMMA UploadIs ==
  ASSUME IInv, NEW r \in Call, InsertsChapters(r), NEW p, p = call[r]
  PROVE  /\ UploadOK(p) /\ p.ask.bad = "none" /\ p.ask.op \in ChapterKinds /\ ~Busy(r, "answered")
         /\ p.errors \in {CreateErrors, UploadErrors} /\ chapter_mod_access_insert(p.ask.user, p.ask.on)
<1>1. CallOK(p) /\ p.at = "insert" /\ IsUpload(p)
  BY CallIs DEF InsertsChapters, Busy, IsUpload
<1>2. InsertOK(p) /\ UploadOK(p)
  BY <1>1 DEF CallOK, InsertOK
<1> QED
  BY <1>1, <1>2 DEF InsertOK, UploadOK, IsUpload, Busy

\* What remains to be shown of a request that inserts chapters.
LEMMA ServeUpload ==
  ASSUME NEW a, a.ask.op \in ChapterKinds, a.ask.bad = "none",
         chapter_mod_access_insert(a.ask.user, a.ask.on),
         \/ InOneStep!GivenUp(a)
         \/ InOneStep!NewChapters(a, a.ask.user, a.ask.on, a.ask.arg)
  PROVE  InOneStep!Serve(a)
<1>1. InOneStep!chapter_mod_access_insert(a.ask.user, a.ask.on) /\ ~InOneStep!Misfit(a)
  BY SameRights DEF InOneStep!Misfit
<1>2. InOneStep!OneChapter(a, a.ask.user) /\ InOneStep!ManyChapters(a, a.ask.user)
  BY <1>1 DEF InOneStep!OneChapter, InOneStep!ManyChapters
<1> QED
  BY <1>2, ServeOf DEF ChapterKinds

LEMMA TakenIs ==
  ASSUME NEW n, NEW num
  PROVE  num \in InOneStep!NumbersOf(n) <=> Taken(n, num)
BY SameTables DEF InOneStep!NumbersOf, Taken

LEMMA InsertRowServed ==
  ASSUME IInv, NEW r \in Call, InsertRow(r)
  PROVE  OneStep
<1>0. PICK p : p = call[r]
  OBVIOUS
<1>1. /\ UploadOK(p) /\ p.ask.bad = "none" /\ p.ask.op \in ChapterKinds /\ ~Busy(r, "answered")
      /\ p.errors \in {CreateErrors, UploadErrors} /\ chapter_mod_access_insert(p.ask.user, p.ask.on)
  BY <1>0, UploadIs DEF InsertRow
<1>2. PICK row, m, n : row = Head(p.todo) /\ m = Len(p.done) /\ n = Len(p.todo)
  OBVIOUS
<1>3. p.todo \in Seq(FileRow) /\ p.done \in Seq(DoneRow) /\ p.ask.arg \in Seq(FileRow) /\ m + n = Len(p.ask.arg)
  BY <1>1, <1>2 DEF UploadOK
<1>4. row = p.todo[1] /\ n \in Nat \ {0} /\ m \in Nat
  <2>1. p.todo # <<>>
    BY <1>0 DEF InsertRow
  <2> QED
    BY <1>2, <1>3, <2>1
<1>5. /\ \A i \in 1 .. m : p.done[i].num = p.ask.arg[i].num
      /\ row = p.ask.arg[m + 1]
  <2>1. \A i \in 1 .. m : p.done[i].num = p.ask.arg[i].num
    BY <1>1, <1>2 DEF UploadOK
  <2>2. \A i \in 1 .. n : p.todo[i] = p.ask.arg[m + i]
    BY <1>1, <1>2 DEF UploadOK
  <2>3. 1 \in 1 .. n
    BY <1>4
  <2>4. p.todo[1] = p.ask.arg[m + 1]
    BY <2>2, <2>3
  <2> QED
    BY <1>4, <2>1, <2>4
<1>6. UNCHANGED tables
  BY DEF InsertRow
<1>7. CASE Taken(p.ask.on, row.num) \/ Holds(r, p.ask.on, row.num)
  <2>1. Raises(r, p.ask, "ChapterNumDuplicate", p.errors)
    BY <1>0, <1>2, <1>7 DEF InsertRow
  <2>2. DOMAIN p.ask.arg = 1 .. Len(p.ask.arg) /\ m + 1 \in 1 .. Len(p.ask.arg)
    BY <1>3, <1>4
  <2>3. ~InOneStep!Unique(p.ask.arg, p.ask.on)
    <3>1. CASE Taken(p.ask.on, row.num)
      BY <1>5, <2>2, <3>1, TakenIs DEF InOneStep!Unique
    <3>2. CASE Holds(r, p.ask.on, row.num)
      <4>1. PICK i \in DOMAIN p.done : p.done[i].num = row.num
        BY <1>0, <3>2 DEF Holds
      <4>2. i \in 1 .. m
        BY <1>2, <1>3
      <4>3. i \in 1 .. Len(p.ask.arg) /\ i # m + 1
        BY <1>3, <1>4, <4>2
      <4>4. p.ask.arg[i].num = p.ask.arg[m + 1].num
        BY <1>5, <4>1, <4>2
      <4> QED
        BY <2>2, <4>3, <4>4 DEF InOneStep!Unique
    <3> QED
      BY <1>7, <3>1, <3>2
  <2>4. ASSUME NEW a, a.ask = p.ask, a.status = 409, a.rows = {} PROVE InOneStep!Serve(a)
    <3>1. InOneStep!Fails(a, 409)
      BY <1>6, <2>4, FailsIs
    <3>2. InOneStep!NewChapters(a, a.ask.user, a.ask.on, a.ask.arg)
      BY <2>3, <2>4, <3>1 DEF InOneStep!NewChapters
    <3> QED
      BY <1>1, <2>4, <3>2, ServeUpload
  <2> QED
    BY <1>1, <2>1, <2>4, RaisedStep, UploadErrorsAre
<1>8. CASE ~(Taken(p.ask.on, row.num) \/ Holds(r, p.ask.on, row.num))
  <2>1. PICK c : Becomes(r, [p EXCEPT !.todo = Tail(@), !.done = Append(@, [id |-> c, num |-> row.num, public |-> row.public])])
    BY <1>0, <1>2, <1>8 DEF InsertRow
  <2>2. PICK x : x = [p EXCEPT !.todo = Tail(@), !.done = Append(@, [id |-> c, num |-> row.num, public |-> row.public])]
    OBVIOUS
  <2>3. InsertOK(p) /\ p.at = "insert"
    BY <1>0, CallIs DEF InsertRow, InsertsChapters, Busy, CallOK
  <2>4. x.at = "insert"
    BY <2>2, <2>3 DEF InsertOK
  <2> QED
    BY <1>1, <1>6, <2>1, <2>2, <2>4, QuietStep DEF IInv, OneStep
<1> QED
  BY <1>7, <1>8

LEMMA DeadlockServed ==
  ASSUME IInv, NEW r \in Call, Deadlock(r)
  PROVE  OneStep
<1>0. PICK p : p = call[r]
  OBVIOUS
<1>1. InsertsChapters(r)
  BY DEF Deadlock, Waits
<1>2. /\ p.ask.bad = "none" /\ p.ask.op \in ChapterKinds /\ ~Busy(r, "answered")
      /\ p.errors \in {CreateErrors, UploadErrors} /\ chapter_mod_access_insert(p.ask.user, p.ask.on)
  BY <1>0, <1>1, UploadIs
<1>3. Raises(r, p.ask, "OperationalError", p.errors) /\ UNCHANGED tables
  BY <1>0 DEF Deadlock
<1>4. ASSUME NEW a, a.ask = p.ask, a.status = 500, a.rows = {} PROVE InOneStep!Serve(a)
  <2>1. InOneStep!GivenUp(a)
    BY <1>3, <1>4, FailsIs DEF InOneStep!GivenUp
  <2> QED
    BY <1>2, <1>4, <2>1, ServeUpload
<1> QED
  BY <1>2, <1>3, <1>4, RaisedStep, UploadErrorsAre

LEMMA CommitNovelServed ==
  ASSUME IInv, NEW r \in Call, Busy(r, "insert"), call[r].ask.op = "create_novel", CommitNovel(r)
  PROVE  OneStep
<1>0. PICK p : p = call[r]
  OBVIOUS
<1>1. InsertOK(p) /\ CreateOK(p) /\ ~Busy(r, "answered")
  BY <1>0, CallIs DEF Busy, CallOK, InsertOK, IsCreate
<1>2. /\ p.id \in Novel /\ ~InOneStep!IsNovel(p.id) /\ "none" \notin DOMAIN p.errors /\ p.ask.bad = "none"
      /\ IF p.ask.on = None THEN p.work \in Work /\ p.work \notin source_works
         ELSE p.work = p.ask.on /\ p.work \in source_works
  BY <1>1, SameTables DEF InsertOK, CreateOK
<1>3. /\ source_works' = source_works \cup {p.work}
      /\ novels' = [novels EXCEPT ![p.id] = [visibility |-> p.ask.arg, work |-> p.work]]
      /\ novel_contributors' = [novel_contributors EXCEPT ![p.id][p.ask.user] = "owner"]
      /\ Answers(r, p.ask, Reply(Ok({p.id}), p.errors))
      /\ UNCHANGED <<chapters, chapter_contents, label_groups, label_contributors, label_datas>>
  BY <1>0 DEF CommitNovel
<1>4. ASSUME NEW a, a.ask = p.ask, a.status = 200, a.rows = {p.id} PROVE InOneStep!Serve(a)
  <2>0. PICK n, w : n = p.id /\ w = p.work
    OBVIOUS
  <2>1. w \in IF a.ask.on # None THEN {a.ask.on} ELSE Work \ source_works
    BY <1>2, <1>4, <2>0
  <2>2. /\ ~InOneStep!IsNovel(n) /\ InOneStep!Succeeds(a, {n})
        /\ source_works' = source_works \cup {w}
        /\ novels' = [novels EXCEPT ![n] = [visibility |-> a.ask.arg, work |-> w]]
        /\ novel_contributors' = [novel_contributors EXCEPT ![n][p.ask.user] = "owner"]
        /\ UNCHANGED <<chapters, chapter_contents, label_groups, label_contributors, label_datas>>
    BY <1>2, <1>3, <1>4, <2>0 DEF InOneStep!Succeeds
  <2>3. ~InOneStep!Misfit(a) /\ a.ask.bad # "text" /\ (a.ask.on # None => a.ask.on \in source_works)
    BY <1>2, <1>4 DEF InOneStep!Misfit
  <2>4. InOneStep!NewNovel(a, p.ask.user)
    BY <1>2, <2>0, <2>1, <2>2, <2>3 DEF InOneStep!NewNovel
  <2> QED
    BY <1>0, <1>4, <2>4, ServeOf
<1> QED
  BY <1>1, <1>2, <1>3, <1>4, AnsweredStep

LEMMA CommitGroupServed ==
  ASSUME IInv, NEW r \in Call, Busy(r, "insert"), call[r].ask.op = "create_label_group", CommitGroup(r)
  PROVE  OneStep
<1>0. PICK p : p = call[r]
  OBVIOUS
<1>1. InsertOK(p) /\ GroupingOK(p) /\ ~Busy(r, "answered")
  BY <1>0, CallIs DEF Busy, CallOK, InsertOK, IsGrouping
<1>2. /\ p.id \in Group /\ ~InOneStep!IsGroup(p.id) /\ "none" \notin DOMAIN p.errors /\ p.ask.bad = "none"
      /\ InOneStep!IsNovel(p.ask.on)
  BY <1>1, SameTables DEF InsertOK, GroupingOK
<1>3. /\ label_groups' = [label_groups EXCEPT ![p.id] = p.ask.on]
      /\ label_contributors' = [label_contributors EXCEPT ![p.id][p.ask.user] = "owner"]
      /\ Answers(r, p.ask, Reply(Ok({p.id}), p.errors))
      /\ UNCHANGED <<source_works, novels, novel_contributors, chapters, chapter_contents, label_datas>>
  BY <1>0 DEF CommitGroup
<1>4. ASSUME NEW a, a.ask = p.ask, a.status = 200, a.rows = {p.id} PROVE InOneStep!Serve(a)
  <2>1. InOneStep!NewLabelGroup(a, p.ask.user, p.ask.on)
    BY <1>2, <1>3, <1>4 DEF InOneStep!NewLabelGroup, InOneStep!Misfit, InOneStep!Succeeds
  <2> QED
    BY <1>0, <1>4, <2>1, ServeOf
<1> QED
  BY <1>1, <1>2, <1>3, <1>4, AnsweredStep

LEMMA CommitChaptersServed ==
  ASSUME IInv, NEW r \in Call, InsertsChapters(r), call[r].todo = <<>>, CommitChapters(r)
  PROVE  OneStep
<1>0. PICK p : p = call[r]
  OBVIOUS
<1>1. /\ UploadOK(p) /\ p.ask.bad = "none" /\ p.ask.op \in ChapterKinds /\ ~Busy(r, "answered")
      /\ p.errors \in {CreateErrors, UploadErrors} /\ chapter_mod_access_insert(p.ask.user, p.ask.on)
  BY <1>0, UploadIs
<1>2. PICK file, n : file = p.ask.arg /\ n = p.ask.on
  OBVIOUS
<1>3. file \in Seq(FileRow) /\ p.done \in Seq(DoneRow) /\ Len(file) = Len(p.done)
  <2>1. Len(p.todo) = 0 /\ Len(p.done) + Len(p.todo) = Len(file)
    BY <1>0, <1>1, <1>2 DEF UploadOK
  <2>2. file \in Seq(FileRow) /\ p.done \in Seq(DoneRow)
    BY <1>1, <1>2 DEF UploadOK
  <2>3. PICK k : k = Len(p.done)
    OBVIOUS
  <2>4. k \in Nat
    BY <2>2, <2>3
  <2> QED
    BY <2>1, <2>2, <2>3, <2>4
<1>4. DOMAIN file = DOMAIN p.done /\ DOMAIN p.done = 1 .. Len(p.done)
  BY <1>3
<1>5. \A i \in DOMAIN file : /\ p.done[i].num = file[i].num /\ p.done[i].public = file[i].public
                             /\ ~IsChapter(p.done[i].id) /\ ~Taken(n, file[i].num) /\ p.done[i].id \in Chapter
  BY <1>1, <1>2, <1>4, DoneIs DEF UploadOK
<1>6. \A i, j \in DOMAIN file : i # j => p.done[i].id # p.done[j].id /\ file[i].num # file[j].num
  BY <1>1, <1>2, <1>4, <1>5 DEF UploadOK
<1>7. InOneStep!Unique(file, n)
  BY <1>5, <1>6, TakenIs DEF InOneStep!Unique
<1>8. CASE ~IsNovel(n)
  <2>1. Raises(r, p.ask, "NovelNotFound", p.errors) /\ UNCHANGED tables
    BY <1>0, <1>2, <1>8 DEF CommitChapters
  <2>2. ASSUME NEW a, a.ask = p.ask, a.status = 404, a.rows = {} PROVE InOneStep!Serve(a)
    <3>1. InOneStep!Fails(a, 404) /\ ~InOneStep!IsNovel(n)
      BY <1>8, <2>1, <2>2, FailsIs, SameTables
    <3>2. InOneStep!NewChapters(a, a.ask.user, n, file)
      BY <1>7, <3>1 DEF InOneStep!NewChapters
    <3> QED
      BY <1>1, <1>2, <2>2, <3>2, ServeUpload
  <2> QED
    BY <1>1, <2>1, <2>2, RaisedStep, UploadErrorsAre
<1>9. CASE IsNovel(n)
  <2> DEFINE row(c) == [novel |-> n, num |-> p.done[RowOf(p, c)].num, public |-> p.done[RowOf(p, c)].public]
  <2>0. PICK new : new = Inserted(p)
    OBVIOUS
  <2>1. /\ chapters' = [c \in Chapter |-> IF c \in new THEN row(c) ELSE chapters[c]]
        /\ chapter_contents' = chapter_contents \cup {<<c, 1>> : c \in new}
        /\ Answers(r, p.ask, Reply(Ok(new), p.errors))
        /\ UNCHANGED <<source_works, novels, novel_contributors,
                       label_groups, label_contributors, label_datas>>
    BY <1>0, <1>2, <1>9, <2>0 DEF CommitChapters, RowOf
  <2>2. PICK id : id = [i \in DOMAIN file |-> p.done[i].id]
    OBVIOUS
  <2>3. id \in [DOMAIN file -> {c \in Chapter : ~InOneStep!IsChapter(c)}]
    BY <1>5, <2>2, SameTables
  <2>4. /\ new = {id[i] : i \in DOMAIN file}
        /\ \A i \in DOMAIN file : id[i] = p.done[i].id /\ id[i] \in new
        /\ \A i, j \in DOMAIN file : i # j => id[i] # id[j]
    BY <1>4, <1>6, <2>0, <2>2 DEF Inserted
  <2>5. ASSUME NEW i \in DOMAIN file
        PROVE  row(id[i]) = [novel |-> n, num |-> file[i].num, public |-> file[i].public]
    <3>1. PICK j : j = RowOf(p, id[i])
      OBVIOUS
    <3>2. j \in DOMAIN file /\ p.done[j].id = id[i]
      BY <1>1, <1>4, <2>0, <2>4, <3>1, RowOfIs
    <3>3. j = i
      BY <1>6, <2>4, <3>2
    <3> QED
      BY <1>5, <3>1, <3>3
  <2>6. \A i \in DOMAIN file : chapters'[id[i]] = [novel |-> n, num |-> file[i].num, public |-> file[i].public]
    BY <1>5, <2>1, <2>4, <2>5
  <2>7. \A c \in Chapter \ new : chapters'[c] = chapters[c]
    BY <2>1
  <2> HIDE DEF row
  <2>8. ASSUME NEW a, a.ask = p.ask, a.status = 200, a.rows = new PROVE InOneStep!Serve(a)
    <3>1. InOneStep!Succeeds(a, new) /\ InOneStep!IsNovel(n)
      BY <1>9, <2>8, SameTables DEF InOneStep!Succeeds
    <3>2. InOneStep!NewChapters(a, a.ask.user, n, file)
      BY <1>7, <2>1, <2>3, <2>4, <2>6, <2>7, <3>1 DEF InOneStep!NewChapters
    <3> QED
      BY <1>1, <1>2, <2>8, <3>2, ServeUpload
  <2> QED
    BY <1>1, <2>1, <2>8, AnsweredStep, UploadErrorsAre
<1> QED
  BY <1>8, <1>9

LEMMA RefusedIs ==
  ASSUME UNCHANGED tables, NEW a, NEW reply, a.rows = {}, a.status = IF reply.status = 200 THEN 401 ELSE 404
  PROVE  InOneStep!Refused(a, reply)
BY FailsIs DEF InOneStep!Refused

LEMMA NovelRequeryServed ==
  ASSUME IInv, NEW r \in Call, Requery(r), NovelQueryOK(call[r])
  PROVE  OneStep
<1>0. PICK p : p = call[r]
  OBVIOUS
<1>1. PICK u, n, q, s : /\ u = p.ask.user /\ n = p.ask.on /\ q = query_novel_by_id(u, n)
                        /\ s = read_novel(u, n).status
  OBVIOUS
<1>2. NovelQueryOK(p) /\ p.kind = "novel" /\ UNCHANGED tables /\ ~Busy(r, "answered")
  BY <1>0 DEF NovelQueryOK, Asking, Requery, Busy
<1>3. Raises(r, p.ask, IF q.raised = "none" THEN p.found ELSE q.raised, p.errors)
  BY <1>0, <1>1, <1>2 DEF Requery, Reading
<1>4. \/ q.raised = "none" /\ s = 200
      \/ q.raised = "NovelNotFound" /\ s = 404
  BY <1>1, QueriesAre
<1>5. s = InOneStep!read_novel(u, n).status
  BY <1>1, SameReads
<1>6. n = Absent => ~IsNovel(n)
  BY AccessAssumption DEF IsNovel
<1>7. CASE /\ p.ask.op = "update_novel" /\ p.found = "InsufficientPermissions"
           /\ p.errors = [NovelNotFound |-> 404, InsufficientPermissions |-> 401, DataTooLong |-> 400]
           /\ n = Absent \/ ~novel_mod_access_update(u, n)
  <2>1. Status(p.found, p.errors) = 401 /\ Status("NovelNotFound", p.errors) = 404
    BY <1>7 DEF Status
  <2>2. ASSUME NEW a, a.ask = p.ask, a.status = (IF s = 200 THEN 401 ELSE 404), a.rows = {}
        PROVE  InOneStep!Serve(a)
    <3>1. InOneStep!Refused(a, InOneStep!read_novel(u, n))
      BY <1>2, <1>5, <2>2, RefusedIs
    <3>2. ~InOneStep!IsNovel(n) \/ ~InOneStep!novel_mod_access_update(u, n)
      BY <1>6, <1>7, SameTables, SameRights
    <3>3. InOneStep!NewVisibility(a, u, n)
      BY <3>1, <3>2 DEF InOneStep!NewVisibility
    <3> QED
      BY <1>1, <1>7, <2>2, <3>3, ServeOf
  <2>3. PICK x : x = IF q.raised = "none" THEN p.found ELSE q.raised
    OBVIOUS
  <2>4. Raises(r, p.ask, x, p.errors) /\ Status(x, p.errors) = IF s = 200 THEN 401 ELSE 404
    BY <1>3, <1>4, <2>1, <2>3
  <2> QED
    BY <1>2, <2>2, <2>4, RaisedStep
<1>8. CASE /\ p.ask.op = "create_chapter" /\ p.found = "InsufficientPermissions"
           /\ p.errors = CreateErrors /\ ~chapter_mod_access_insert(u, n)
  <2>1. Status(p.found, p.errors) = 401 /\ Status("NovelNotFound", p.errors) = 404
    BY <1>8 DEF Status, CreateErrors
  <2>2. ASSUME NEW a, a.ask = p.ask, a.status = (IF s = 200 THEN 401 ELSE 404), a.rows = {}
        PROVE  InOneStep!Serve(a)
    <3>1. InOneStep!Refused(a, InOneStep!read_novel(u, n))
      BY <1>2, <1>5, <2>2, RefusedIs
    <3>2. ~InOneStep!chapter_mod_access_insert(u, n)
      BY <1>8, SameRights
    <3>3. InOneStep!OneChapter(a, u)
      BY <1>1, <2>2, <3>1, <3>2 DEF InOneStep!OneChapter
    <3> QED
      BY <1>1, <1>8, <2>2, <3>3, ServeOf
  <2>3. PICK x : x = IF q.raised = "none" THEN p.found ELSE q.raised
    OBVIOUS
  <2>4. Raises(r, p.ask, x, p.errors) /\ Status(x, p.errors) = IF s = 200 THEN 401 ELSE 404
    BY <1>3, <1>4, <2>1, <2>3
  <2> QED
    BY <1>2, <2>2, <2>4, RaisedStep
<1>9. CASE p.ask.op = "read_chapters_by_novel" /\ p.found = "none" /\ p.errors = [NovelNotFound |-> 404]
  <2>1. Status(p.found, p.errors) = 200 /\ Status("NovelNotFound", p.errors) = 404
    BY <1>9 DEF Status
  <2>2. ASSUME NEW a, a.ask = p.ask, a.status = (IF s = 200 THEN 200 ELSE 404), a.rows = {}
        PROVE  InOneStep!Serve(a)
    <3>1. ASSUME NEW rows PROVE InOneStep!Listed(a, rows, read_novel(u, n))
      BY <1>1, <1>2, <1>4, <2>2 DEF InOneStep!Listed, InOneStep!Succeeds, InOneStep!tables, tables
    <3> QED
      BY <1>1, <1>9, <2>2, <3>1, ServeChapters
  <2>3. PICK x : x = IF q.raised = "none" THEN p.found ELSE q.raised
    OBVIOUS
  <2>4. Raises(r, p.ask, x, p.errors) /\ Status(x, p.errors) = IF s = 200 THEN 200 ELSE 404
    BY <1>3, <1>4, <2>1, <2>3
  <2> QED
    BY <1>2, <2>2, <2>4, RaisedStep
<1> QED
  BY <1>1, <1>2, <1>7, <1>8, <1>9 DEF NovelQueryOK, Asking

LEMMA ChapterRequeryServed ==
  ASSUME IInv, NEW r \in Call, Requery(r), ChapterQueryOK(call[r]), call[r].kind = "chapter"
  PROVE  OneStep
<1>0. PICK p : p = call[r]
  OBVIOUS
<1>1. PICK u, c, q, s : /\ u = p.ask.user /\ c = p.ask.on /\ q = query_chapter_by_id(u, c)
                        /\ s = read_chapter_by_id(u, c).status
  OBVIOUS
<1>2. ChapterQueryOK(p) /\ p.kind = "chapter" /\ UNCHANGED tables /\ ~Busy(r, "answered")
  BY <1>0 DEF Requery, Busy
<1>3. Raises(r, p.ask, IF q.raised = "none" THEN p.found ELSE q.raised, p.errors)
  BY <1>0, <1>1, <1>2 DEF Requery, Reading
<1>4. \/ q.raised = "none" /\ s = 200
      \/ q.raised = "ChapterNotFound" /\ s = 404
  BY <1>1, QueriesAre
<1>5. s = InOneStep!read_chapter_by_id(u, c).status
  BY <1>1, SameReads
<1>6. CASE p.found = "InsufficientPermissions"
  <2>1. Status(p.found, p.errors) = 401 /\ Status("ChapterNotFound", p.errors) = 404
    BY <1>2, <1>6 DEF ChapterQueryOK, Asking, Status
  <2>2. ASSUME NEW a, a.ask = p.ask, a.status = (IF s = 200 THEN 401 ELSE 404), a.rows = {}
        PROVE  InOneStep!Serve(a)
    <3>1. InOneStep!Refused(a, InOneStep!read_chapter_by_id(u, c))
      BY <1>2, <1>5, <2>2, RefusedIs
    <3>1a. InOneStep!Refused(a, read_chapter_by_id(u, c))
      BY <1>1, <1>2, <2>2, RefusedIs
    <3>2. CASE p.ask.op = "update_chapter" /\ ~MayChange(u, c)
      <4>1. InOneStep!Titles(a, MayChange(u, c), read_chapter_by_id(u, c))
        BY <3>1a, <3>2 DEF InOneStep!Titles
      <4> QED
        BY <1>1, <2>2, <3>2, <4>1, ServeChapterTitle
    <3>3. CASE p.ask.op = "delete_chapter" /\ ~(IsChapter(c) /\ chapter_mod_access_delete(u, c))
      <4>1. ~InOneStep!IsChapter(c) \/ ~InOneStep!chapter_mod_access_delete(u, c)
        BY <3>3, SameTables, SameRights
      <4>2. InOneStep!Removal(a, u, c)
        BY <3>1, <4>1 DEF InOneStep!Removal
      <4> QED
        BY <1>1, <2>2, <3>3, <4>2, ServeOf
    <3>4. CASE p.ask.op = "action_publish_chapter" /\ ~MayChange(u, c)
      <4>1. ~InOneStep!IsChapter(c) \/ ~InOneStep!chapter_mod_access_update(u, c)
        BY <3>4, SameTables, SameRights DEF MayChange
      <4>2. InOneStep!Publication(a, u, c)
        BY <3>1, <4>1 DEF InOneStep!Publication
      <4> QED
        BY <1>1, <2>2, <3>4, <4>2, ServeOf
    <3> QED
      BY <1>1, <1>2, <1>6, <3>2, <3>3, <3>4 DEF ChapterQueryOK, Asking
  <2>3. PICK x : x = IF q.raised = "none" THEN p.found ELSE q.raised
    OBVIOUS
  <2>4. Raises(r, p.ask, x, p.errors) /\ Status(x, p.errors) = IF s = 200 THEN 401 ELSE 404
    BY <1>3, <1>4, <2>1, <2>3
  <2> QED
    BY <1>2, <2>2, <2>4, RaisedStep
<1>7. CASE /\ p.ask.op = "read_chapter_content" /\ p.found = "ChapterContentNotFound"
           /\ p.errors = [ChapterNotFound |-> 404, ChapterContentNotFound |-> 404]
  <2>1. Status(p.found, p.errors) = 404 /\ Status("ChapterNotFound", p.errors) = 404
    BY <1>7 DEF Status
  <2>2. ASSUME NEW a, a.ask = p.ask, a.status = (IF s = 200 THEN 404 ELSE 404), a.rows = {}
        PROVE  InOneStep!Serve(a)
    <3>1. ASSUME NEW rows PROVE InOneStep!Opened(a, rows)
      BY <1>2, <2>2 DEF InOneStep!Opened, InOneStep!tables, tables
    <3> QED
      BY <1>1, <1>7, <2>2, <3>1, ServeReads
  <2>3. PICK x : x = IF q.raised = "none" THEN p.found ELSE q.raised
    OBVIOUS
  <2>4. Raises(r, p.ask, x, p.errors) /\ Status(x, p.errors) = IF s = 200 THEN 404 ELSE 404
    BY <1>3, <1>4, <2>1, <2>3
  <2> QED
    BY <1>2, <2>2, <2>4, RaisedStep
<1> QED
  BY <1>1, <1>2, <1>6, <1>7 DEF ChapterQueryOK, Asking

LEMMA ContentRequeryServed ==
  ASSUME IInv, NEW r \in Call, Requery(r), ChapterQueryOK(call[r]), call[r].kind = "content_status"
  PROVE  OneStep
<1>0. PICK p : p = call[r]
  OBVIOUS
<1>1. PICK u, c, cc, q, s : /\ u = p.ask.user /\ c = p.ask.on /\ cc = p.ask.arg
                            /\ q = query_chapter_content_status(u, c, cc)
                            /\ s = read_chapter_content_status(u, c, cc).status
  OBVIOUS
<1>2. p.kind = "content_status" /\ UNCHANGED tables /\ ~Busy(r, "answered")
  BY <1>0 DEF Requery, Busy
<1>3. Raises(r, p.ask, IF q.raised = "none" THEN p.found ELSE q.raised, p.errors)
  BY <1>0, <1>1, <1>2 DEF Requery, Reading
<1>4. \/ q.raised = "none" /\ s = 200 /\ LatestRows(u, c) = {cc}
      \/ q.raised = "ChapterContentNotFound" /\ s = 404
      \/ q.raised = "ChapterContentOutdated" /\ s = 409
  BY <1>1, StatusQueryIs
<1>5. /\ p.ask.op = "update_chapter_content" /\ p.found = "InsufficientPermissions" /\ ~MayChange(u, c)
      /\ p.errors = [ChapterContentNotFound |-> 404, ChapterContentOutdated |-> 409,
                     InsufficientPermissions |-> 401]
  BY <1>0, <1>1, <1>2 DEF ChapterQueryOK, Asking
<1>6. /\ Status("ChapterContentNotFound", p.errors) = 404 /\ Status("ChapterContentOutdated", p.errors) = 409
      /\ Status("InsufficientPermissions", p.errors) = 401
  BY <1>5 DEF Status
<1>7. \A a : a.ask = p.ask => InOneStep!read_chapter_content_status(u, c, a.ask.arg).status = s
  BY <1>1, SameContents
<1>8. s = 200 => ~InOneStep!chapter_mod_access_update(u, c)
  <2>1. ASSUME s = 200 PROVE IsChapter(c)
    <3>1. cc \in LatestRows(u, c)
      BY <1>4, <2>1
    <3> QED
      BY <3>1 DEF LatestRows, chapter_content_mod_access_select
  <2> QED
    BY <1>5, <2>1, SameRights DEF MayChange
<1>9. ASSUME NEW a, a.ask = p.ask, a.status = (IF s = 200 THEN 401 ELSE s), a.rows = {}
      PROVE  InOneStep!Serve(a)
  <2>1. InOneStep!Fails(a, IF s = 200 THEN 401 ELSE s)
    BY <1>2, <1>9, FailsIs
  <2>2. InOneStep!Revision(a, u, c)
    BY <1>7, <1>8, <1>9, <2>1 DEF InOneStep!Revision
  <2> QED
    BY <1>1, <1>5, <1>9, <2>2, ServeOf
<1>10. PICK x : x = IF q.raised = "none" THEN p.found ELSE q.raised
  OBVIOUS
<1>11. Raises(r, p.ask, x, p.errors) /\ Status(x, p.errors) = IF s = 200 THEN 401 ELSE s
  BY <1>3, <1>4, <1>5, <1>6, <1>10
<1> QED
  BY <1>2, <1>9, <1>11, RaisedStep

LEMMA WorkRequeryServed ==
  ASSUME IInv, NEW r \in Call, Requery(r), WorkQueryOK(call[r])
  PROVE  OneStep
<1>0. PICK p : p = call[r]
  OBVIOUS
<1>1. PICK u, w, q, s : /\ u = p.ask.user /\ w = p.ask.on /\ q = query_source_work_by_id(u, w)
                        /\ s = read_source_work(u, w).status
  OBVIOUS
<1>2. WorkQueryOK(p) /\ p.kind = "source_work" /\ UNCHANGED tables /\ ~Busy(r, "answered")
  BY <1>0 DEF WorkQueryOK, Asking, Requery, Busy
<1>3. Raises(r, p.ask, IF q.raised = "none" THEN p.found ELSE q.raised, p.errors)
  BY <1>0, <1>1, <1>2 DEF Requery, Reading
<1>4. \/ q.raised = "none" /\ s = 200
      \/ q.raised = "SourceWorkNotFound" /\ s = 404
  BY <1>1, QueriesAre
<1>5. s = InOneStep!read_source_work(u, w).status
  BY <1>1, SameReads
<1>6. CASE /\ p.ask.op = "update_source_work" /\ p.found = "InsufficientPermissions"
           /\ p.errors = [SourceWorkNotFound |-> 404, InsufficientPermissions |-> 401, DataTooLong |-> 400]
           /\ u \in Admin => w = Absent
  <2>1. Status(p.found, p.errors) = 401 /\ Status("SourceWorkNotFound", p.errors) = 404
    BY <1>6 DEF Status
  <2>2. ASSUME NEW a, a.ask = p.ask, a.status = (IF s = 200 THEN 401 ELSE 404), a.rows = {}
        PROVE  InOneStep!Serve(a)
    <3>1. InOneStep!Refused(a, InOneStep!read_source_work(u, w))
      BY <1>2, <1>5, <2>2, RefusedIs
    <3>2. w = Absent => w \notin source_works
      BY AccessAssumption DEF IInv, TablesOK
    <3>3. InOneStep!WorkTitle(a, u, w)
      BY <1>6, <3>1, <3>2 DEF InOneStep!WorkTitle, InOneStep!Titles
    <3> QED
      BY <1>1, <1>6, <2>2, <3>3, ServeOf
  <2>3. PICK x : x = IF q.raised = "none" THEN p.found ELSE q.raised
    OBVIOUS
  <2>4. Raises(r, p.ask, x, p.errors) /\ Status(x, p.errors) = IF s = 200 THEN 401 ELSE 404
    BY <1>3, <1>4, <2>1, <2>3
  <2> QED
    BY <1>2, <2>2, <2>4, RaisedStep
<1>7. CASE p.ask.op = "read_novels_by_source_work" /\ p.found = "none" /\ p.errors = [SourceWorkNotFound |-> 404]
  <2>1. Status(p.found, p.errors) = 200 /\ Status("SourceWorkNotFound", p.errors) = 404
    BY <1>7 DEF Status
  <2>2. ASSUME NEW a, a.ask = p.ask, a.status = (IF s = 200 THEN 200 ELSE 404), a.rows = {}
        PROVE  InOneStep!Serve(a)
    <3>1. ASSUME NEW rows PROVE InOneStep!Listed(a, rows, read_source_work(u, w))
      BY <1>1, <1>2, <1>4, <2>2 DEF InOneStep!Listed, InOneStep!Succeeds, InOneStep!tables, tables
    <3>2. InOneStep!Listed(a, {n \in NovelsOf(a.ask.on) : read_novel(a.ask.user, n).status = 200},
                           read_source_work(a.ask.user, a.ask.on))
      BY <1>1, <2>2, <3>1
    <3> QED
      BY <1>1, <1>7, <2>2, <3>2, ServeNovels
  <2>3. PICK x : x = IF q.raised = "none" THEN p.found ELSE q.raised
    OBVIOUS
  <2>4. Raises(r, p.ask, x, p.errors) /\ Status(x, p.errors) = IF s = 200 THEN 200 ELSE 404
    BY <1>3, <1>4, <2>1, <2>3
  <2> QED
    BY <1>2, <2>2, <2>4, RaisedStep
<1> QED
  BY <1>1, <1>2, <1>6, <1>7 DEF WorkQueryOK, Asking

LEMMA RequeryServed ==
  ASSUME IInv, NEW r \in Call, Requery(r)
  PROVE  OneStep
<1>1. CallOK(call[r]) /\ call[r].at = "query"
  BY CallIs DEF Requery, Busy
<1>2. ChapterQueryOK(call[r]) => call[r].kind \in {"chapter", "content_status"}
  BY DEF ChapterQueryOK, Asking
<1> QED
  BY <1>1, <1>2, NovelRequeryServed, ChapterRequeryServed, ContentRequeryServed, WorkRequeryServed DEF CallOK
-----------------------------------------------------------------------------
LEMMA NextServed ==
  ASSUME IInv, [Next]_vars
  PROVE  OneStep
<1>1. CASE UNCHANGED vars
  <2>1. UNCHANGED tables /\ call' = call
    BY <1>1 DEF vars
  <2>2. UNCHANGED InOneStep!vars
    BY <2>1 DEF InOneStep!vars, InOneStep!tables, tables, Answered, Busy
  <2> QED
    BY <2>2 DEF OneStep
<1>2. ASSUME NEW r \in Call, Request(r) PROVE OneStep
  <2>1. ~Busy(r, "answered")
    BY <1>2 DEF Request, Starts, NoCall, Busy
  <2>2. CASE ReadRequest(r)
    BY <2>1, <2>2, ReadWorksServed, ReadNovelsServed, ReadChaptersServed, ReadContentServed DEF ReadRequest
  <2>3. CASE WriteRequest(r)
    BY <2>1, <2>3, CreateSourceWorkServed, UpdateSourceWorkServed, CreateNovelServed, UpdateNovelServed,
       CreateChapterServed, UploadServed, UpdateChapterServed, DeleteChapterServed, PublishServed,
       UpdateContentServed, CreateGroupServed, UpdateGroupServed, CreateLabelDataServed DEF WriteRequest
  <2> QED
    BY <1>2, <2>2, <2>3 DEF Request
<1>3. ASSUME NEW r \in Call, Proceed(r) PROVE OneStep
  <2>1. CASE Commit(r)
    BY <2>1, CommitNovelServed, CommitGroupServed, CommitChaptersServed DEF Commit
  <2> QED
    BY <1>3, <2>1, InsertRowServed, DeadlockServed, RequeryServed, NovelsOfWorksServed,
       InsertVersionServed, FindLabelDatasServed, CommitVersionServed DEF Proceed
<1>4. ASSUME NEW r \in Call, Return(r) PROVE OneStep
  BY <1>4, ReturnStep DEF IInv, OneStep
<1>5. ASSUME NEW r \in Call, Die(r) PROVE OneStep
  <2>1. ~Busy(r, "answered") /\ Becomes(r, NoCall) /\ UNCHANGED tables
    BY <1>5 DEF Die, Busy, Edits
  <2>2. NoCall.at # "answered"
    BY DEF NoCall
  <2> QED
    BY <2>1, <2>2, QuietStep DEF IInv, OneStep
<1> QED
  BY <1>1, <1>2, <1>3, <1>4, <1>5 DEF Next

\* Library implements Shelf: although requests run at the same time, statement by
\* statement, are refused, collide, wait for each other or die (novels/service.py,
\* labels/service.py, novels/imports.py), every request is answered as if it were carried
\* out in one step at one moment, and it changes all the rows it should or none.
THEOREM Refinement == Spec => ImplementsShelf
<1>1. Init => InOneStep!Init
  <2> SUFFICES ASSUME Init PROVE InOneStep!Init
    OBVIOUS
  <2>1. \A r \in Call : call[r] = NoCall /\ NoCall.at = "idle"
    BY DEF Init, NoCall
  <2>2. [r \in Call |-> Answered(r)] = [r \in Call |-> NoCall]
    BY <2>1 DEF Answered, Busy
  <2> QED
    BY <2>2, Same DEF InOneStep!Init
<1>2. IInv /\ [Next]_vars => [InOneStep!Next]_InOneStep!vars
  BY NextServed DEF OneStep
<1> QED
  BY <1>1, <1>2, Invariance, PTL DEF Spec, ImplementsShelf, InOneStep!Spec
=============================================================================
