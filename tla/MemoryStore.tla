----------------------------- MODULE MemoryStore ------------------------------
(***************************************************************************)
(* The memories, terms and term translations of one memory group: agents that *)
(* process a chapter in one long transaction (memory/agent), and the users    *)
(* who review, edit and delete what they wrote (memory/service.py and the     *)
(* plugins).  A row is seen by others when its transaction commits; a         *)
(* statement sees what is committed when it runs, and waits for the rows that *)
(* another transaction wrote.                                               *)
(***************************************************************************)
EXTENDS GlossaryAliases

CONSTANTS
    Term,            \* the names of glossary terms: numbers, in their order
    Memory,          \* memory ids, positive numbers in their order
    Chapter,         \* chapter numbers
    Agent,           \* runs of the agent that may be open at once
    KeepFirst, KeepRolling,      \* OccurrenceRetentionConfig
    RecentLength,    \* RECENT_SCOPE_LENGTH
    Mark, Lasting    \* the marks and scopes tried

LocalLength == 1     \* LOCAL_SCOPE_LENGTH
Review == {"pending", "approved", "rejected"}

ASSUME StoreAssumption ==
    /\ Term \subseteq Nat /\ Memory \subseteq Nat \ {0} /\ Chapter \subseteq Nat \ {0}
    /\ KeepFirst \in Nat /\ KeepRolling \in Nat /\ RecentLength \in Nat \ {0}
    /\ Lasting \subseteq Scope \cup {"default"}
    /\ IsFiniteSet(Term) /\ IsFiniteSet(Memory)

VARIABLES
    db,        \* what is committed: terms, memory rows, their terms, translations
    versions,  \* the chapters that exist, with their latest content version
    draft,     \* what each run has written and not committed
    tools      \* the toolsets of the job

vars == <<db, versions, draft, tools>>

Idle == [on |-> FALSE, rows |-> <<>>, links |-> <<>>, terms |-> <<>>]
Busy(a) == draft[a].on

\* Rows written over others, and one row.
Over(new, old) == [x \in DOMAIN new \cup DOMAIN old |-> IF x \in DOMAIN new THEN new[x] ELSE old[x]]
One(x, row) == [y \in {x} |-> row]

\* What a run sees.
View(a) ==
    [terms |-> Over(draft[a].terms, db.terms), rows |-> Over(draft[a].rows, db.rows),
     links |-> Over(draft[a].links, db.links), renderings |-> db.renderings]

Held(table) == UNION {DOMAIN draft[a][table] : a \in Agent}
HeldByOthers(a, table) == UNION {DOMAIN draft[b][table] : b \in Agent \ {a}}
\* Terms that an uncommitted memory refers to: they cannot be deleted or renamed.
Referred == UNION {UNION {draft[a].links[m] : m \in DOMAIN draft[a].links} : a \in Agent}

Unused == Memory \ (DOMAIN db.rows \cup Held("rows"))
NewRows(a) == DOMAIN draft[a].rows \ DOMAIN db.rows

Restricted(f, S) == [x \in DOMAIN f \cap S |-> f[x]]

-----------------------------------------------------------------------------
(* access.py: writing and ending memories.                                   *)
EndOf(type, scope, c) ==
    LET lasts == IF scope # "default" THEN scope ELSE IF type = "event" THEN "recent" ELSE "persist" IN
    CASE lasts = "local" -> c + LocalLength
      [] lasts = "recent" -> c + RecentLength
      [] lasts = "persist" -> Never

NewRow(type, mark, c, ver, scope, sup, by) ==
    [type |-> type, mark |-> mark, ver |-> ver, start |-> c, end |-> EndOf(type, scope, c),
     sup |-> sup, text |-> 0, review |-> "pending", by |-> by]

\* Mutant: a memory that ended before can be replaced again.
MayEndClosed(row, c) == row.start < c

\* Its end may not lie before the next chapter, nor may it have ended.
MayEnd(row, c) == row.start < c /\ Open(row, c)

\* A tool's write is rolled back to its savepoint when a named term is missing.
AfterTool(fails, before, after) == IF fails THEN before ELSE after

Put(d, rows, links) == [d EXCEPT !.rows = Over(rows, @), !.links = Over(links, @)]

\* Associations of the terms that exist; the write fails unless all do.
Write(a, rows, m, names) ==
    LET exist == names \cap DOMAIN View(a).terms IN
    draft' = [draft EXCEPT ![a] =
                AfterTool(exist # names, draft[a], Put(draft[a], rows, One(m, exist)))]

Has(a, name) == Busy(a) /\ draft[a].stage = "record" /\ name \in tools
Here(a) == draft[a].chapter
Exists(a) == Here(a) \in DOMAIN versions
Own(a, type, mark, scope, sup) == NewRow(type, mark, Here(a), draft[a].ver, scope, sup, "agent")

-----------------------------------------------------------------------------
(* The agent's tools.                                                        *)
AddTerm(a, t) ==
    /\ Has(a, "terms")
    /\ t \notin DOMAIN View(a).terms /\ t \notin HeldByOthers(a, "terms")
    /\ draft' = [draft EXCEPT ![a].terms = Over(One(t, "pending"), @)]
    /\ UNCHANGED <<db, versions, tools>>

\* Of a person's body, identity and presentation one memory is active.
AspectFree(v, c, mark, names) ==
    ~\E m \in DOMAIN v.rows :
        /\ v.rows[m].type = "fact" /\ v.rows[m].mark = mark
        /\ Active(v.rows[m], c) /\ Usable(v.rows[m].review)
        /\ v.links[m] \cap names \cap UsableTerms(v) # {}

Create(a, name, m, mark, scope, names) ==
    /\ Has(a, name) /\ Exists(a) /\ m \in Unused
    /\ LET tool == ToolOf[name] IN
       /\ mark \in tool.marks /\ scope \in tool.scopes /\ Cardinality(names) \in tool.sizes
       /\ name = "genderfacts" /\ mark # ChangeRule => AspectFree(View(a), Here(a), mark, names)
       /\ Write(a, One(m, Own(a, tool.type, mark, scope, 0)), m, names)
    /\ UNCHANGED <<db, versions, tools>>

Ended(row, c) == [row EXCEPT !.end = c]

\* write_memory with supersedes_id: the row is ended where it still may be.
Replace(a, p, m, new, names) ==
    LET row == View(a).rows[p] IN
    /\ m \in Unused /\ p \notin HeldByOthers(a, "rows") /\ MayEnd(row, Here(a))
    /\ Write(a, Over(One(m, new), One(p, Ended(row, Here(a)))), m, names)

Owns(marks, row, type) == row.type = type /\ row.mark \in marks

Supersede(a, name, p, m, mark, scope, names) ==
    /\ Has(a, name) /\ Exists(a) /\ p \in DOMAIN View(a).rows
    /\ LET tool == ToolOf[name]
           kept == IF tool.keeps THEN View(a).links[p] ELSE names
       IN
       /\ mark \in tool.marks /\ scope \in tool.scopes
       /\ IF tool.keeps THEN names = {} ELSE Cardinality(names) \in tool.sizes
       /\ Owns(tool.over[mark], View(a).rows[p], tool.type)
       /\ Replace(a, p, m, Own(a, tool.type, mark, scope, p), kept)
    /\ UNCHANGED <<db, versions, tools>>

Expire(a, name, p) ==
    /\ Has(a, name) /\ Exists(a) /\ p \in DOMAIN View(a).rows \ HeldByOthers(a, "rows")
    /\ LET row == View(a).rows[p] IN
       /\ Owns(ToolOf[name].ends, row, ToolOf[name].type) /\ MayEnd(row, Here(a))
       /\ draft' = [draft EXCEPT ![a].rows = Over(One(p, Ended(row, Here(a))), @)]
    /\ UNCHANGED <<db, versions, tools>>

-----------------------------------------------------------------------------
(* Transformations of a subject: the first KeepFirst and the last KeepRolling *)
(* occurrences stay active.                                                 *)
Told(v, t, c) ==
    {m \in DOMAIN v.rows :
        /\ v.rows[m].type = "event" /\ v.rows[m].mark = Transformation /\ v.rows[m].by = "agent"
        /\ Usable(v.rows[m].review) /\ v.rows[m].start <= c /\ t \in v.links[m]}

\* A correction belongs to the occurrence it corrects.
Root(v, told, m) ==
    LET up[n \in told] == IF v.rows[n].sup \in told THEN up[v.rows[n].sup] ELSE n IN up[m]

\* By chapter, those of one chapter by their ids.
ByChapter(v, D) ==
    Ordered(D, {p \in D \X D : LET m == v.rows[p[1]].start
                                   n == v.rows[p[2]].start
                               IN m < n \/ (m = n /\ p[1] < p[2])})

\* Mutant: the window of the newest occurrences is one too long.
DropLate(v, t, c) ==
    LET told == Told(v, t, c)
        active == {m \in told : Open(v.rows[m], c)}
        roots == ByChapter(v, {Root(v, told, m) : m \in active})
        stop == IF KeepRolling > 0 THEN Len(roots) - KeepRolling - 1 ELSE Len(roots)
    IN {m \in active : \E i \in (KeepFirst + 1)..stop : Root(v, told, m) = roots[i]}

Drop(v, t, c) ==
    LET told == Told(v, t, c)
        active == {m \in told : Open(v.rows[m], c)}
        roots == ByChapter(v, {Root(v, told, m) : m \in active})
        stop == IF KeepRolling > 0 THEN Len(roots) - KeepRolling ELSE Len(roots)
    IN {m \in active : \E i \in (KeepFirst + 1)..stop : Root(v, told, m) = roots[i]}

\* An occurrence of this chapter is told in it, and ends after it.
Dropped(v, t, c) ==
    [m \in Drop(v, t, c) |-> Ended(v.rows[m], IF v.rows[m].start = c THEN c + 1 ELSE c)]

Transform(a, m, t) ==
    /\ Has(a, "genderevents") /\ Exists(a) /\ m \in Unused /\ t \in DOMAIN View(a).terms
    /\ LET told == Put(draft[a], One(m, Own(a, "event", Transformation, "persist", 0)), One(m, {t}))
           v == [View(a) EXCEPT !.rows = Over(told.rows, @), !.links = Over(told.links, @)]
           ends == Dropped(v, t, Here(a))
       IN /\ DOMAIN ends \cap HeldByOthers(a, "rows") = {}
          /\ draft' = [draft EXCEPT ![a] = Put(told, ends, <<>>)]
    /\ UNCHANGED <<db, versions, tools>>

Correct(a, p, m, t) ==
    /\ Has(a, "genderevents") /\ Exists(a)
    /\ p \in Told(View(a), t, Here(a))
    /\ Replace(a, p, m, Own(a, "event", Transformation, "persist", p), {t})
    /\ UNCHANGED <<db, versions, tools>>

-----------------------------------------------------------------------------
(* The run: it pins the chapter's latest content; naming asks for the terms    *)
(* of the chapter that have no usable translation.                           *)
BeginRecording(a, c) ==
    /\ ~Busy(a) /\ c \in DOMAIN versions
    /\ draft' = [draft EXCEPT ![a] = [on |-> TRUE, stage |-> "record", chapter |-> c, ver |-> versions[c],
                                      need |-> {}, rows |-> <<>>, links |-> <<>>, terms |-> <<>>]]
    /\ UNCHANGED <<db, versions, tools>>

Rendered == {t \in DOMAIN db.renderings : Usable(db.renderings[t].review)}

BeginNaming(a, c, found) ==
    /\ ~Busy(a) /\ c \in DOMAIN versions
    /\ found \subseteq UsableTerms(db) /\ found \ Rendered # {}
    /\ draft' = [draft EXCEPT ![a] = [on |-> TRUE, stage |-> "name", chapter |-> c, ver |-> versions[c],
                                      need |-> found \ Rendered, rows |-> <<>>, links |-> <<>>, terms |-> <<>>]]
    /\ UNCHANGED <<db, versions, tools>>

\* Mutant: the summary of a content is overwritten whoever reviewed it.
MayRewriteAny(row) == TRUE

\* after_run of continuity.py: one summary of a content; reviewed ones stay.
MayRewrite(row) == row.by = "agent" /\ row.review = "pending"

Summary(rows, c, ver) ==
    {m \in DOMAIN rows : rows[m].type = "summary" /\ rows[m].start = c /\ rows[m].ver = ver}

Summarised(a, m) ==
    LET d == draft[a] IN
    IF "continuity" \notin tools THEN <<>>
    ELSE IF Summary(db.rows, d.chapter, d.ver) = {}
    THEN One(m, Own(a, "summary", "none", "persist", 0))
    ELSE [s \in {s \in Summary(db.rows, d.chapter, d.ver) : MayRewrite(db.rows[s])} |->
            [db.rows[s] EXCEPT !.text = 1]]

FinishRecording(a, m) ==
    /\ Busy(a) /\ draft[a].stage = "record" /\ Exists(a)
    /\ "continuity" \in tools => m \in Unused
    /\ LET summary == Summarised(a, m) IN
       db' = [db EXCEPT !.terms = Over(draft[a].terms, @),
                        !.rows = Over(summary, Over(draft[a].rows, @)),
                        !.links = Over([s \in DOMAIN summary |-> {}], Over(draft[a].links, @))]
    /\ draft' = [draft EXCEPT ![a] = Idle]
    /\ UNCHANGED <<versions, tools>>

\* Mutant: naming overwrites what has been translated meanwhile.
MayNameAny(t) == TRUE

\* A mapping that users made or accepted while the agent ran is kept.
MayName(t) == t \notin Rendered

FinishNaming(a) ==
    /\ Busy(a) /\ draft[a].stage = "name"
    /\ Exists(a) /\ draft[a].need \subseteq UsableTerms(db)
    /\ db' = [db EXCEPT !.renderings =
                Over([t \in {t \in draft[a].need : MayName(t)} |->
                          [text |-> "agent", review |-> "pending", by |-> "agent"]], @)]
    /\ draft' = [draft EXCEPT ![a] = Idle]
    /\ UNCHANGED <<versions, tools>>

\* The model gives up, the process dies, the claim or the chapter is gone.
Abort(a) ==
    /\ Busy(a) /\ draft' = [draft EXCEPT ![a] = Idle]
    /\ UNCHANGED <<db, versions, tools>>

-----------------------------------------------------------------------------
(* Users, one committed statement each.                                      *)
Editable(m) == m \in DOMAIN db.rows \ Held("rows")

ReviewMemory(m, status) ==
    /\ Editable(m) /\ db' = [db EXCEPT !.rows[m].review = status]
    /\ UNCHANGED <<versions, draft, tools>>

UpdateMemory(m, mark) ==
    /\ Editable(m) /\ db' = [db EXCEPT !.rows[m].mark = mark, !.rows[m].text = 2]
    /\ UNCHANGED <<versions, draft, tools>>

ExpireMemory(m, c) ==
    /\ Editable(m) /\ c \in DOMAIN versions /\ MayEnd(db.rows[m], c)
    /\ db' = [db EXCEPT !.rows[m].end = c]
    /\ UNCHANGED <<versions, draft, tools>>

\* Rows go with their associations; their successors forget them.
Without(gone) ==
    LET left == DOMAIN db.rows \ gone IN
    [db EXCEPT !.rows = [m \in left |-> [db.rows[m] EXCEPT !.sup = IF @ \in gone THEN 0 ELSE @]],
               !.links = Restricted(@, left)]

MayGo(gone) == \A m \in DOMAIN db.rows : m \in gone \/ db.rows[m].sup \in gone => m \notin Held("rows")

DeleteMemory(m) ==
    /\ Editable(m) /\ MayGo({m}) /\ db' = Without({m})
    /\ UNCHANGED <<versions, draft, tools>>

CreateByUser(m, type, mark, c, scope, names) ==
    /\ m \in Unused /\ c \in DOMAIN versions
    /\ names # {} /\ names \subseteq DOMAIN db.terms
    /\ db' = [db EXCEPT !.rows = Over(One(m, NewRow(type, mark, c, versions[c], scope, 0, "user")), @),
                        !.links = Over(One(m, names), @)]
    /\ UNCHANGED <<versions, draft, tools>>

ReplaceTerms(m, names) ==
    /\ m \in DOMAIN db.rows /\ db.rows[m].type # "summary" /\ names \subseteq DOMAIN db.terms
    /\ db' = [db EXCEPT !.links[m] = names]
    /\ UNCHANGED <<versions, draft, tools>>

CreateTerm(t) ==
    /\ t \notin DOMAIN db.terms \cup Held("terms")
    /\ db' = [db EXCEPT !.terms = Over(One(t, "pending"), @)]
    /\ UNCHANGED <<versions, draft, tools>>

ReviewTerm(t, status) ==
    /\ t \in DOMAIN db.terms /\ db' = [db EXCEPT !.terms[t] = status]
    /\ UNCHANGED <<versions, draft, tools>>

Renamed(f, t, u) == [x \in (DOMAIN f \ {t}) \cup (IF t \in DOMAIN f THEN {u} ELSE {}) |-> IF x = u THEN f[t] ELSE f[x]]

RenameTerm(t, u) ==
    /\ t \in DOMAIN db.terms \ Referred /\ u \notin DOMAIN db.terms \cup Held("terms")
    /\ db' = [db EXCEPT !.terms = Renamed(@, t, u), !.renderings = Renamed(@, t, u),
                        !.links = [m \in DOMAIN @ |-> {IF x = t THEN u ELSE x : x \in @[m]}]]
    /\ UNCHANGED <<versions, draft, tools>>

DeleteTerm(t) ==
    /\ t \in DOMAIN db.terms \ Referred
    /\ db' = [db EXCEPT !.terms = Restricted(@, DOMAIN @ \ {t}), !.renderings = Restricted(@, DOMAIN @ \ {t}),
                        !.links = [m \in DOMAIN @ |-> @[m] \ {t}]]
    /\ UNCHANGED <<versions, draft, tools>>

\* A user's translation keeps the review status of the one it replaces.
SaveTranslation(t) ==
    /\ t \in DOMAIN db.terms
    /\ db' = [db EXCEPT !.renderings =
                Over(One(t, [text |-> "user", by |-> "user",
                             review |-> IF t \in DOMAIN @ THEN @[t].review ELSE "pending"]), @)]
    /\ UNCHANGED <<versions, draft, tools>>

ReviewTranslation(t, status) ==
    /\ t \in DOMAIN db.renderings /\ db' = [db EXCEPT !.renderings[t].review = status]
    /\ UNCHANGED <<versions, draft, tools>>

DeleteTranslation(t) ==
    /\ t \in DOMAIN db.renderings
    /\ db' = [db EXCEPT !.renderings = Restricted(@, DOMAIN @ \ {t})]
    /\ UNCHANGED <<versions, draft, tools>>

\* modify_chapter_content and remove_chapter (novels/service.py), as the store sees them.
EditChapter(c) ==
    /\ c \in DOMAIN versions /\ versions' = [versions EXCEPT ![c] = @ + 1]
    /\ UNCHANGED <<db, draft, tools>>

RemoveChapter(c) ==
    LET gone == {m \in DOMAIN db.rows : db.rows[m].start = c} IN
    /\ c \in DOMAIN versions /\ MayGo(gone)
    /\ \A a \in Agent : Busy(a) /\ Here(a) = c => NewRows(a) = {}
    /\ versions' = Restricted(versions, DOMAIN versions \ {c}) /\ db' = Without(gone)
    /\ UNCHANGED <<draft, tools>>

-----------------------------------------------------------------------------
\* A group whose users may have written some of its terms.
Started(names) == [terms |-> [t \in names |-> "pending"], rows |-> <<>>, links |-> <<>>, renderings |-> <<>>]

Init ==
    /\ \E names \in SUBSET Term : db = Started(names)
    /\ versions = [c \in Chapter |-> 1]
    /\ draft = [a \in Agent |-> Idle] /\ tools \in SUBSET ToolName

Writing(a) ==
    \/ \E t \in Term : AddTerm(a, t)
    \/ \E name \in tools \cap DOMAIN ToolOf, m \in Memory, names \in SUBSET Term :
        \E mark \in ToolOf[name].marks \cap Mark, scope \in ToolOf[name].scopes \cap Lasting :
            \/ Create(a, name, m, mark, scope, names)
            \/ \E p \in Memory : Supersede(a, name, p, m, mark, scope, names)
    \/ \E name \in tools \cap DOMAIN ToolOf, p \in Memory : Expire(a, name, p)
    \/ \E m \in Memory, t \in Term : Transform(a, m, t)
    \/ \E m, p \in Memory, t \in Term : Correct(a, p, m, t)

Running(a) ==
    \/ \E c \in Chapter : BeginRecording(a, c)
    \/ \E c \in Chapter, found \in SUBSET Term : BeginNaming(a, c, found)
    \/ \E m \in Memory : FinishRecording(a, m)
    \/ FinishNaming(a)
    \/ Abort(a)

UserMemory ==
    \/ \E m \in Memory, status \in Review : ReviewMemory(m, status)
    \/ \E m \in Memory, c \in Chapter : ExpireMemory(m, c)
    \/ \E m \in Memory : DeleteMemory(m)
    \/ \E m \in Memory, names \in SUBSET Term : ReplaceTerms(m, names)
    \/ \E m \in Memory, mark \in Mark : UpdateMemory(m, mark)
    \/ \E m \in Memory, name \in tools \cap DOMAIN ToolOf, c \in Chapter, names \in SUBSET Term :
        \E mark \in Mark : CreateByUser(m, ToolOf[name].type, mark, c, "default", names)

UserTerms ==
    \/ \E t \in Term : CreateTerm(t) \/ DeleteTerm(t) \/ SaveTranslation(t) \/ DeleteTranslation(t)
    \/ \E t \in Term, status \in Review : ReviewTerm(t, status) \/ ReviewTranslation(t, status)
    \/ \E t, u \in Term : RenameTerm(t, u)

Chapters == \E c \in Chapter : EditChapter(c) \/ RemoveChapter(c)

Next == (\E a \in Agent : Writing(a) \/ Running(a)) \/ UserMemory \/ UserTerms \/ Chapters

Spec == Init /\ [][Next]_vars

-----------------------------------------------------------------------------
\* A memory and the one that replaced it are of one type and never active in
\* one chapter, however runs, users and chapters are ordered
\* (access.py, write_memory).
Succession ==
    \A m \in DOMAIN db.rows :
        LET p == db.rows[m].sup IN
        p \in DOMAIN db.rows =>
            /\ db.rows[p].type = db.rows[m].type
            /\ \A c \in Chapter : ~(Active(db.rows[p], c) /\ Active(db.rows[m], c))

\* Without truncation a reader is given exactly the terms that active links
\* connect, with it some of them and no more than the bound (access.py,
\* _expand_alias_terms).
AliasesExact ==
    \A c \in Chapter, names \in SUBSET UsableTerms(db) : names # {} => Exact(db, c, names)

\* What a run commits leaves the translations and summaries that users accepted
\* or made meanwhile as they are (translations/access.py, continuity.py).
ReviewedKept ==
    [][draft # draft' =>
         /\ \A t \in DOMAIN db.renderings :
                Usable(db.renderings[t].review) => db'.renderings[t] = db.renderings[t]
         /\ \A m \in DOMAIN db.rows :
                db.rows[m].type = "summary" /\ db.rows[m].review # "pending" => db'.rows[m] = db.rows[m]]_vars

\* After an occurrence is told, at most KeepFirst + KeepRolling occurrences of
\* its subject stay active behind the chapter, and the new one is among them
\* unless the chapter told others (gender_advanced_events.py).
RetentionKept ==
    [][\A a \in Agent, t \in Term : Busy(a) /\ Busy(a)' =>
         \A m \in NewRows(a)' \ NewRows(a) :
            LET row == (draft[a].rows)'[m]
                v == View(a)'
                told == Told(v, t, row.start)
                live == {n \in told : v.rows[n].end = Never \/ v.rows[n].end > row.start + 1}
            IN row.mark = Transformation /\ row.sup = 0 /\ (draft[a].links)'[m] = {t} =>
                /\ Cardinality({Root(v, told, n) : n \in live}) <= KeepFirst + KeepRolling
                /\ KeepRolling > 0 /\ (\A n \in told : v.rows[n].start = row.start => n = m) => m \in live]_vars
=============================================================================
