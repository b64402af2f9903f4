-------------------------- MODULE MemoryStoreProofs ---------------------------
(***************************************************************************)
(* What holds of the memory store whatever the numbers of terms, memories,    *)
(* chapters and runs are: a replaced memory is over where its replacement     *)
(* begins, what a run commits leaves reviewed summaries and translations, a   *)
(* reader is given exactly the terms that active alias links connect, and the *)
(* occurrences of a transformation keep to their window.                      *)
(***************************************************************************)
EXTENDS MemoryStore, Integers, FiniteSetTheorems, WellFoundedInduction, TLAPS

-----------------------------------------------------------------------------
(* Types.                                                                    *)
Table(S, T) == UNION {[R -> T] : R \in SUBSET S}

Types == {"fact", "rel", "def", "event"}
Marks == Mark \cup {"none", Transformation}
Who == {"agent", "user"}

RowOf(types) ==
    [type : types, mark : Marks, ver : Nat, start : Chapter, end : Nat, sup : Nat,
     text : Nat, review : Review, by : Who]
Row == RowOf(Types \cup {"summary"})
Rendering == [text : Who, review : Review, by : Who]

Store ==
    [terms : Table(Term, Review), rows : Table(Memory, Row), links : Table(Memory, SUBSET Term),
     renderings : Table(Term, Rendering)]

\* What a run has written: never a summary.
Resting == [on : {FALSE}, rows : Table(Memory, RowOf(Types)), links : Table(Memory, SUBSET Term),
            terms : Table(Term, Review)]
AtWork == [on : {TRUE}, stage : {"record", "name"}, chapter : Chapter, ver : Nat, need : SUBSET Term,
           rows : Table(Memory, RowOf(Types)), links : Table(Memory, SUBSET Term),
           terms : Table(Term, Review)]

TypeOK ==
    /\ db \in Store
    /\ versions \in Table(Chapter, Nat)
    /\ draft \in [Agent -> Resting \cup AtWork]
    /\ tools \subseteq ToolName

-----------------------------------------------------------------------------
(* The invariant.                                                            *)
\* The row of a memory that may stand before the row of its successor.
Fits(p, m) == p.type = m.type /\ p.start < m.start /\ p.end # Never /\ p.end <= m.start

\* The same memory, ended earlier at most.
Lowered(new, old) ==
    /\ new.type = old.type /\ new.start = old.start /\ new.sup = old.sup
    /\ new.end = old.end \/ (new.end # Never /\ (old.end = Never \/ new.end <= old.end))

Chained(rows) ==
    \A m \in DOMAIN rows :
        rows[m].sup # 0 => rows[m].sup \in DOMAIN rows /\ Fits(rows[rows[m].sup], rows[m])

\* What a run has written of committed memories ends them earlier at most; a
\* memory that it has added replaces one that it ended.
Ahead(own, rows) ==
    /\ \A m \in DOMAIN own \cap DOMAIN rows : Lowered(own[m], rows[m])
    /\ \A m \in DOMAIN own \ DOMAIN rows :
        own[m].sup # 0 => own[m].sup \in DOMAIN own /\ Fits(own[own[m].sup], own[m])

Apart == \A a, b \in Agent : a # b => DOMAIN draft[a].rows \cap DOMAIN draft[b].rows = {}

\* Only terms are translated.
Named == DOMAIN db.renderings \subseteq DOMAIN db.terms

SInv ==
    /\ TypeOK
    /\ Named
    /\ Chained(db.rows)
    /\ \A a \in Agent : Ahead(draft[a].rows, db.rows)
    /\ Apart

-----------------------------------------------------------------------------
(* Tables: functions on some of the keys.                                    *)
LEMMA TableIs ==
    ASSUME NEW S, NEW T, NEW f
    PROVE  f \in Table(S, T)
             <=> /\ DOMAIN f \subseteq S
                 /\ f = [x \in DOMAIN f |-> f[x]]
                 /\ \A x \in DOMAIN f : f[x] \in T
<1>1. ASSUME f \in Table(S, T)
      PROVE  /\ DOMAIN f \subseteq S
             /\ f = [x \in DOMAIN f |-> f[x]]
             /\ \A x \in DOMAIN f : f[x] \in T
  <2>1. PICK R \in SUBSET S : f \in [R -> T]
    BY <1>1 DEF Table
  <2> QED
    BY <2>1
<1>2. ASSUME DOMAIN f \subseteq S,
             f = [x \in DOMAIN f |-> f[x]],
             \A x \in DOMAIN f : f[x] \in T
      PROVE  f \in Table(S, T)
  <2>1. f \in [DOMAIN f -> T]
    BY <1>2
  <2> QED
    BY <1>2, <2>1 DEF Table
<1> QED
  BY <1>1, <1>2

LEMMA NoRows == DOMAIN <<>> = {} /\ \A S, T : <<>> \in Table(S, T)
<1>1. DOMAIN <<>> = {}
  OBVIOUS
<1>2. <<>> = [x \in DOMAIN <<>> |-> <<>>[x]]
  BY <1>1
<1> QED
  BY <1>1, <1>2, TableIs

LEMMA OverRows ==
    ASSUME NEW new, NEW old
    PROVE  /\ DOMAIN Over(new, old) = DOMAIN new \cup DOMAIN old
           /\ \A x \in DOMAIN new : Over(new, old)[x] = new[x]
           /\ \A x \in DOMAIN old \ DOMAIN new : Over(new, old)[x] = old[x]
  BY DEF Over

LEMMA OverIs ==
    ASSUME NEW new, NEW old
    PROVE  Over(new, old) = [x \in DOMAIN Over(new, old) |-> Over(new, old)[x]]
  BY DEF Over

LEMMA OneRow ==
    ASSUME NEW x, NEW row
    PROVE  DOMAIN One(x, row) = {x} /\ One(x, row)[x] = row
  BY DEF One

LEMMA TableOver ==
    ASSUME NEW S, NEW T, NEW new \in Table(S, T), NEW old \in Table(S, T)
    PROVE  Over(new, old) \in Table(S, T)
<1> DEFINE g == Over(new, old)
<1>1. DOMAIN new \subseteq S /\ DOMAIN old \subseteq S
  BY TableIs
<1>2. (\A x \in DOMAIN new : new[x] \in T) /\ (\A x \in DOMAIN old : old[x] \in T)
  BY TableIs
<1>3. /\ DOMAIN g = DOMAIN new \cup DOMAIN old
      /\ \A x \in DOMAIN new : g[x] = new[x]
      /\ \A x \in DOMAIN old \ DOMAIN new : g[x] = old[x]
  BY OverRows
<1>0. g = [x \in DOMAIN g |-> g[x]]
  BY OverIs
<1> HIDE DEF g
<1>4. \A x \in DOMAIN g : g[x] \in T
  BY <1>2, <1>3
<1>5. g \in Table(S, T)
  BY <1>0, <1>1, <1>3, <1>4, TableIs
<1> QED
  BY <1>5 DEF g

LEMMA TableOne ==
    ASSUME NEW S, NEW T, NEW x \in S, NEW row \in T
    PROVE  One(x, row) \in Table(S, T)
<1> DEFINE g == One(x, row)
<1>1. g = [y \in DOMAIN g |-> g[y]] /\ DOMAIN g = {x} /\ g[x] = row
  BY DEF One
<1> HIDE DEF g
<1>2. g \in Table(S, T)
  BY <1>1, TableIs
<1> QED
  BY <1>2 DEF g

LEMMA TableRestricted ==
    ASSUME NEW S, NEW T, NEW f \in Table(S, T), NEW R
    PROVE  Restricted(f, R) \in Table(S, T)
<1>1. DOMAIN f \subseteq S /\ \A x \in DOMAIN f : f[x] \in T
  BY TableIs
<1>2. /\ DOMAIN Restricted(f, R) = DOMAIN f \cap R
      /\ \A x \in DOMAIN f \cap R : Restricted(f, R)[x] = f[x]
      /\ Restricted(f, R) = [x \in DOMAIN Restricted(f, R) |-> Restricted(f, R)[x]]
  BY DEF Restricted
<1> HIDE DEF Restricted
<1> QED
  BY <1>1, <1>2, TableIs

LEMMA TableExcept ==
    ASSUME NEW S, NEW T, NEW f \in Table(S, T), NEW x, NEW row \in T
    PROVE  [f EXCEPT ![x] = row] \in Table(S, T)
<1> DEFINE g == [f EXCEPT ![x] = row]
<1>1. DOMAIN f \subseteq S /\ \A y \in DOMAIN f : f[y] \in T
  BY TableIs
<1>2. /\ DOMAIN g = DOMAIN f
      /\ \A y \in DOMAIN f : g[y] \in T
      /\ g = [y \in DOMAIN g |-> g[y]]
  BY <1>1
<1> HIDE DEF g
<1>3. g \in Table(S, T)
  BY <1>1, <1>2, TableIs
<1> QED
  BY <1>3 DEF g

LEMMA TableMap ==
    ASSUME NEW S, NEW T, NEW R \in SUBSET S, NEW f, f = [x \in R |-> f[x]], \A x \in R : f[x] \in T
    PROVE  f \in Table(S, T)
<1>1. DOMAIN f = R
  OBVIOUS
<1> QED
  BY <1>1, TableIs

-----------------------------------------------------------------------------
(* What tools write.                                                         *)
LEMMA ToolTypes ==
    ASSUME NEW name \in DOMAIN ToolOf
    PROVE  ToolOf[name].type \in Types
<1>1. Facts.type \in Types /\ Cultivation.type \in Types /\ GenderPerception.type \in Types
  BY DEF Facts, Cultivation, GenderPerception, Tool, Types
<1>2. Relations.type \in Types /\ Definitions.type \in Types /\ Events.type \in Types
  BY DEF Relations, Definitions, Events, Tool, Types
<1>3. Aliases.type \in Types /\ Impersonation.type \in Types
  BY DEF Aliases, Impersonation, LastingOnly, Tool, Types
<1>4. Appearance.type \in Types
  BY DEF Appearance, Tool, Types
<1>5. GenderFacts.type \in Types /\ GenderEvents.type \in Types
  BY DEF GenderFacts, GenderEvents, OnlyItself, Tool, Types
<1> QED
  BY <1>1, <1>2, <1>3, <1>4, <1>5 DEF ToolOf

LEMMA Numbers ==
    /\ \A c \in Chapter : c \in Nat /\ c > 0 /\ c \in Int
    /\ \A m \in Memory : m \in Nat /\ m > 0
    /\ RecentLength \in Nat
  BY StoreAssumption

LEMMA EndNat ==
    ASSUME NEW c \in Chapter, NEW type, NEW scope \in Scope \cup {"default"}
    PROVE  EndOf(type, scope, c) \in Nat
<1> DEFINE lasts == IF scope # "default" THEN scope ELSE IF type = "event" THEN "recent" ELSE "persist"
<1>1. lasts \in {"local", "recent", "persist"}
  BY DEF Scope
<1>2. EndOf(type, scope, c) = CASE lasts = "local" -> c + LocalLength
                               [] lasts = "recent" -> c + RecentLength
                               [] lasts = "persist" -> Never
  BY DEF EndOf
<1> HIDE DEF lasts
<1> QED
  BY <1>1, <1>2, Numbers DEF LocalLength, Never

LEMMA NewRowIs ==
    ASSUME NEW types, NEW type \in types, NEW mark \in Marks, NEW c \in Chapter, NEW ver \in Nat,
           NEW scope \in Scope \cup {"default"}, NEW sup \in Nat, NEW by \in Who
    PROVE  /\ NewRow(type, mark, c, ver, scope, sup, by) \in RowOf(types)
           /\ NewRow(type, mark, c, ver, scope, sup, by).start = c
           /\ NewRow(type, mark, c, ver, scope, sup, by).sup = sup
           /\ NewRow(type, mark, c, ver, scope, sup, by).type = type
  BY EndNat DEF NewRow, RowOf, Review

LEMMA EndedRow ==
    ASSUME NEW types, NEW row \in RowOf(types), NEW c \in Nat
    PROVE  /\ Ended(row, c) \in RowOf(types)
           /\ Ended(row, c).type = row.type /\ Ended(row, c).start = row.start
           /\ Ended(row, c).sup = row.sup /\ Ended(row, c).end = c
  BY DEF Ended, RowOf

\* A memory that may be ended is lowered, and fits one that begins there.
LEMMA MayEndLowers ==
    ASSUME NEW types, NEW row \in RowOf(types), NEW c \in Chapter, MayEnd(row, c)
    PROVE  Lowered(Ended(row, c), row) /\ Ended(row, c).end = c /\ c # Never
<1>1. c \in Nat /\ c > 0 /\ row.end \in Nat
  BY Numbers DEF RowOf
<1>2. row.end = Never \/ row.end > c
  BY DEF MayEnd, Open
<1> QED
  BY <1>1, <1>2, EndedRow DEF Lowered, Never

-----------------------------------------------------------------------------
(* Rows that are ended earlier.                                              *)
LEMMA LoweredTwice ==
    ASSUME NEW types, NEW a \in RowOf(types), NEW b \in RowOf(types), NEW c \in RowOf(types),
           Lowered(a, b), Lowered(b, c)
    PROVE  Lowered(a, c)
  BY DEF Lowered, RowOf, Never

LEMMA LoweredSelf == \A r : Lowered(r, r)
  BY DEF Lowered

LEMMA LoweredFits ==
    ASSUME NEW types, NEW p \in RowOf(types), NEW m \in RowOf(types), NEW q \in RowOf(types), NEW n,
           Fits(p, m), Lowered(q, p), n.type = m.type, n.start = m.start
    PROVE  Fits(q, n)
  BY Numbers DEF Fits, Lowered, RowOf, Never

-----------------------------------------------------------------------------
(* The rows of a run, before the committed ones.                             *)
LEMMA LoweredAhead ==
    ASSUME NEW types, NEW own, NEW rows, NEW ends,
           \A m \in DOMAIN own : own[m] \in RowOf(types),
           \A m \in DOMAIN rows : rows[m] \in RowOf(types),
           \A m \in DOMAIN ends : ends[m] \in RowOf(types),
           Ahead(own, rows),
           DOMAIN ends \subseteq DOMAIN own \cup DOMAIN rows,
           \A m \in DOMAIN ends : Lowered(ends[m], Over(own, rows)[m])
    PROVE  Ahead(Over(ends, own), rows)
<1> DEFINE g == Over(ends, own)
<1>1. /\ DOMAIN g = DOMAIN ends \cup DOMAIN own
      /\ \A x \in DOMAIN ends : g[x] = ends[x]
      /\ \A x \in DOMAIN own \ DOMAIN ends : g[x] = own[x]
  BY OverRows
<1>2. /\ \A x \in DOMAIN own : Over(own, rows)[x] = own[x]
      /\ \A x \in DOMAIN rows \ DOMAIN own : Over(own, rows)[x] = rows[x]
  BY OverRows
<1> HIDE DEF g
<1>3. \A x \in DOMAIN own : Lowered(g[x], own[x])
  BY <1>1, <1>2, LoweredSelf
<1>4. ASSUME NEW m \in DOMAIN g \cap DOMAIN rows
      PROVE  Lowered(g[m], rows[m])
  <2>1. CASE m \in DOMAIN own
    <3>1. Lowered(g[m], own[m]) /\ Lowered(own[m], rows[m])
      BY <2>1, <1>3 DEF Ahead
    <3>2. g[m] \in RowOf(types)
      BY <2>1, <1>1
    <3> QED
      BY <2>1, <3>1, <3>2, LoweredTwice
  <2>2. CASE m \notin DOMAIN own
    BY <2>2, <1>1, <1>2
  <2> QED
    BY <2>1, <2>2
<1>5. ASSUME NEW m \in DOMAIN g \ DOMAIN rows, g[m].sup # 0
      PROVE  g[m].sup \in DOMAIN g /\ Fits(g[g[m].sup], g[m])
  <2>1. m \in DOMAIN own
    BY <1>1
  <2>2. g[m].sup = own[m].sup /\ g[m].type = own[m].type /\ g[m].start = own[m].start
    BY <2>1, <1>3 DEF Lowered
  <2> DEFINE p == own[m].sup
  <2>3. p \in DOMAIN own /\ Fits(own[p], own[m])
    BY <1>5, <2>1, <2>2 DEF Ahead
  <2>4. own[p] \in RowOf(types) /\ own[m] \in RowOf(types) /\ g[p] \in RowOf(types)
    BY <2>1, <2>3, <1>1
  <2>5. Lowered(g[p], own[p])
    BY <2>3, <1>3
  <2> HIDE DEF p
  <2>6. Fits(g[p], g[m])
    BY <2>2, <2>3, <2>4, <2>5, LoweredFits
  <2> QED
    BY <2>2, <2>3, <2>6, <1>1 DEF p
<1>6. Ahead(g, rows)
  BY <1>4, <1>5 DEF Ahead
<1> QED
  BY <1>6 DEF g

LEMMA AddedAhead ==
    ASSUME NEW own, NEW rows, NEW m, NEW new,
           Ahead(own, rows), m \notin DOMAIN own, m \notin DOMAIN rows,
           new.sup # 0 => new.sup \in DOMAIN own /\ Fits(own[new.sup], new)
    PROVE  Ahead(Over(One(m, new), own), rows)
<1> DEFINE o == One(m, new)
           g == Over(o, own)
<1>0. DOMAIN o = {m} /\ o[m] = new
  BY OneRow
<1> HIDE DEF o
<1>1. /\ DOMAIN g = DOMAIN o \cup DOMAIN own
      /\ \A x \in DOMAIN o : g[x] = o[x]
      /\ \A x \in DOMAIN own \ DOMAIN o : g[x] = own[x]
  BY OverRows
<1> HIDE DEF g
<1>2. Ahead(g, rows)
  BY <1>0, <1>1 DEF Ahead
<1> QED
  BY <1>2 DEF g, o

\* What others do leaves the rows that a run holds as they are.
LEMMA HeldAhead ==
    ASSUME NEW own, NEW rows, NEW after, Ahead(own, rows),
           \A m \in DOMAIN own : m \in DOMAIN rows <=> m \in DOMAIN after,
           \A m \in DOMAIN own \cap DOMAIN rows : after[m] = rows[m]
    PROVE  Ahead(own, after)
  BY DEF Ahead

\* A run's rows are committed.
LEMMA CommittedChained ==
    ASSUME NEW types, NEW own, NEW rows,
           \A m \in DOMAIN own : own[m] \in RowOf(types),
           \A m \in DOMAIN rows : rows[m] \in RowOf(types),
           Ahead(own, rows), Chained(rows)
    PROVE  Chained(Over(own, rows))
<1> DEFINE g == Over(own, rows)
<1>1. /\ DOMAIN g = DOMAIN own \cup DOMAIN rows
      /\ \A x \in DOMAIN own : g[x] = own[x]
      /\ \A x \in DOMAIN rows \ DOMAIN own : g[x] = rows[x]
  BY OverRows
<1> HIDE DEF g
<1>2. \A x \in DOMAIN rows : Lowered(g[x], rows[x])
  BY <1>1, LoweredSelf DEF Ahead
<1>3. ASSUME NEW m \in DOMAIN g, g[m].sup # 0
      PROVE  g[m].sup \in DOMAIN g /\ Fits(g[g[m].sup], g[m])
  <2>1. CASE m \in DOMAIN rows
    <3>1. g[m].sup = rows[m].sup /\ g[m].type = rows[m].type /\ g[m].start = rows[m].start
      BY <2>1, <1>2 DEF Lowered
    <3> DEFINE p == rows[m].sup
    <3>2. p \in DOMAIN rows /\ Fits(rows[p], rows[m])
      BY <1>3, <2>1, <3>1 DEF Chained
    <3>3. rows[p] \in RowOf(types) /\ rows[m] \in RowOf(types) /\ g[p] \in RowOf(types)
      BY <2>1, <3>2, <1>1
    <3>4. Lowered(g[p], rows[p])
      BY <3>2, <1>2
    <3> HIDE DEF p
    <3>5. Fits(g[p], g[m])
      BY <3>1, <3>2, <3>3, <3>4, LoweredFits
    <3> QED
      BY <3>1, <3>2, <3>5, <1>1 DEF p
  <2>2. CASE m \notin DOMAIN rows
    BY <2>2, <1>1, <1>3 DEF Ahead
  <2> QED
    BY <2>1, <2>2
<1>4. Chained(g)
  BY <1>3 DEF Chained
<1> QED
  BY <1>4 DEF g

\* Rows that end earlier, or change in what the chain does not depend on.
LEMMA LoweredChained ==
    ASSUME NEW types, NEW rows, NEW after, Chained(rows),
           \A m \in DOMAIN rows : rows[m] \in RowOf(types),
           \A m \in DOMAIN rows : after[m] \in RowOf(types),
           DOMAIN after = DOMAIN rows,
           \A m \in DOMAIN rows : Lowered(after[m], rows[m])
    PROVE  Chained(after)
<1>1. ASSUME NEW m \in DOMAIN rows, after[m].sup # 0
      PROVE  after[m].sup \in DOMAIN rows /\ Fits(after[after[m].sup], after[m])
  <2>1. after[m].sup = rows[m].sup /\ after[m].type = rows[m].type /\ after[m].start = rows[m].start
    BY DEF Lowered
  <2> DEFINE p == rows[m].sup
  <2>2. p \in DOMAIN rows /\ Fits(rows[p], rows[m])
    BY <1>1, <2>1 DEF Chained
  <2>3. rows[p] \in RowOf(types) /\ rows[m] \in RowOf(types) /\ after[p] \in RowOf(types)
    BY <2>2
  <2>4. Lowered(after[p], rows[p])
    BY <2>2
  <2> HIDE DEF p
  <2>5. Fits(after[p], after[m])
    BY <2>1, <2>2, <2>3, <2>4, LoweredFits
  <2> QED
    BY <2>1, <2>2, <2>5 DEF p
<1> QED
  BY <1>1 DEF Chained

LEMMA AddedChained ==
    ASSUME NEW rows, NEW m, NEW new, Chained(rows), m \notin DOMAIN rows, new.sup = 0
    PROVE  Chained(Over(One(m, new), rows))
<1> DEFINE o == One(m, new)
           g == Over(o, rows)
<1>0. DOMAIN o = {m} /\ o[m] = new
  BY OneRow
<1> HIDE DEF o
<1>1. /\ DOMAIN g = DOMAIN o \cup DOMAIN rows
      /\ \A x \in DOMAIN o : g[x] = o[x]
      /\ \A x \in DOMAIN rows \ DOMAIN o : g[x] = rows[x]
  BY OverRows
<1> HIDE DEF g
<1>2. Chained(g)
  BY <1>0, <1>1 DEF Chained
<1> QED
  BY <1>2 DEF g, o

-----------------------------------------------------------------------------
(* A step of one run, and a step of a user.                                  *)
LEMMA TableRows ==
    ASSUME NEW S, NEW T, NEW f \in Table(S, T)
    PROVE  DOMAIN f \subseteq S /\ \A x \in DOMAIN f : f[x] \in T
  BY TableIs

LEMMA OneType ==
    /\ \A r \in RowOf(Types) : r \in Row /\ r.type # "summary"
    /\ \A r \in Row : r.type \in Types => r \in RowOf(Types)
  BY DEF Row, RowOf, Types

LEMMA RunFields ==
    ASSUME NEW d \in Resting \cup AtWork
    PROVE  /\ d.rows \in Table(Memory, RowOf(Types)) /\ d.links \in Table(Memory, SUBSET Term)
           /\ d.terms \in Table(Term, Review)
           /\ d.on => d \in AtWork /\ d.chapter \in Chapter /\ d.ver \in Nat /\ d.need \in SUBSET Term
  BY DEF Resting, AtWork

LEMMA StoreFields ==
    ASSUME TypeOK
    PROVE  /\ db.rows \in Table(Memory, Row) /\ db.links \in Table(Memory, SUBSET Term)
           /\ db.terms \in Table(Term, Review) /\ db.renderings \in Table(Term, Rendering)
  BY DEF TypeOK, Store

LEMMA HeldRows ==
    /\ \A m : m \in Held("rows") <=> \E a \in Agent : m \in DOMAIN draft[a].rows
    /\ \A a, m : m \in HeldByOthers(a, "rows") <=> \E b \in Agent \ {a} : m \in DOMAIN draft[b].rows
  BY DEF Held, HeldByOthers

LEMMA RunStep ==
    ASSUME SInv, NEW a \in Agent, NEW d \in Resting \cup AtWork,
           draft' = [draft EXCEPT ![a] = d], UNCHANGED <<db, versions, tools>>,
           Ahead(d.rows, db.rows),
           \A m \in DOMAIN d.rows : m \notin HeldByOthers(a, "rows")
    PROVE  SInv'
<1>1. TypeOK' /\ Named'
  BY DEF SInv, TypeOK, Named
<1>2. /\ draft'[a] = d
      /\ \A b \in Agent \ {a} : draft'[b] = draft[b]
  BY DEF SInv, TypeOK
<1>3. Chained(db.rows)'
  BY DEF SInv
<1>4. \A b \in Agent : Ahead(draft'[b].rows, db'.rows)
  BY <1>2 DEF SInv
<1>5. ASSUME NEW b \in Agent, NEW c \in Agent, b # c
      PROVE  DOMAIN draft'[b].rows \cap DOMAIN draft'[c].rows = {}
  <2>1. \A e \in Agent \ {a} : DOMAIN d.rows \cap DOMAIN draft[e].rows = {}
    BY HeldRows
  <2>2. CASE b = a
    BY <2>1, <2>2, <1>2, <1>5
  <2>3. CASE c = a
    BY <2>1, <2>3, <1>2, <1>5
  <2>4. CASE b # a /\ c # a
    BY <2>4, <1>2, <1>5 DEF SInv, Apart
  <2> QED
    BY <2>2, <2>3, <2>4
<1> QED
  BY <1>1, <1>3, <1>4, <1>5 DEF SInv, Apart

LEMMA UserStep ==
    ASSUME SInv, db' \in Store, versions' \in Table(Chapter, Nat), UNCHANGED <<draft, tools>>,
           Chained(db'.rows), Named',
           \A m \in Held("rows") : m \in DOMAIN db.rows <=> m \in DOMAIN db'.rows,
           \A m \in Held("rows") \cap DOMAIN db.rows : db'.rows[m] = db.rows[m]
    PROVE  SInv'
<1>1. TypeOK' /\ Apart'
  BY DEF SInv, TypeOK, Apart
<1>2. ASSUME NEW a \in Agent
      PROVE  Ahead(draft[a].rows, db'.rows)
  <2>1. \A m \in DOMAIN draft[a].rows : m \in Held("rows")
    BY HeldRows
  <2>2. Ahead(draft[a].rows, db.rows)
    BY DEF SInv
  <2> QED
    BY <2>1, <2>2, HeldAhead
<1> QED
  BY <1>1, <1>2 DEF SInv

\* What a run reads.
LEMMA ViewOf ==
    ASSUME SInv, NEW a \in Agent
    PROVE  /\ View(a).rows = Over(draft[a].rows, db.rows)
           /\ View(a).rows \in Table(Memory, Row)
           /\ View(a).terms \in Table(Term, Review)
           /\ View(a).links \in Table(Memory, SUBSET Term)
           /\ DOMAIN View(a).rows = DOMAIN draft[a].rows \cup DOMAIN db.rows
<1>1. draft[a].rows \in Table(Memory, RowOf(Types)) /\ draft[a].terms \in Table(Term, Review)
      /\ draft[a].links \in Table(Memory, SUBSET Term)
  BY RunFields DEF SInv, TypeOK
<1>2. draft[a].rows \in Table(Memory, Row)
  BY <1>1, TableIs, OneType
<1>3. db.rows \in Table(Memory, Row) /\ db.terms \in Table(Term, Review)
      /\ db.links \in Table(Memory, SUBSET Term)
  BY StoreFields DEF SInv
<1>4. /\ View(a).rows = Over(draft[a].rows, db.rows)
      /\ View(a).terms = Over(draft[a].terms, db.terms)
      /\ View(a).links = Over(draft[a].links, db.links)
  BY DEF View
<1>5. DOMAIN Over(draft[a].rows, db.rows) = DOMAIN draft[a].rows \cup DOMAIN db.rows
  BY OverRows
<1> QED
  BY <1>1, <1>2, <1>3, <1>4, <1>5, TableOver

LEMMA AtWorkIs ==
    ASSUME SInv, NEW a \in Agent, Busy(a)
    PROVE  /\ draft[a] \in AtWork /\ draft[a].ver \in Nat
           /\ draft[a].rows \in Table(Memory, RowOf(Types))
           /\ draft[a].links \in Table(Memory, SUBSET Term) /\ draft[a].terms \in Table(Term, Review)
           /\ Here(a) \in Chapter
  BY RunFields DEF SInv, TypeOK, Busy, Here

LEMMA PutIs ==
    ASSUME NEW d \in AtWork, NEW rows \in Table(Memory, RowOf(Types)),
           NEW links \in Table(Memory, SUBSET Term)
    PROVE  Put(d, rows, links) \in AtWork /\ Put(d, rows, links).rows = Over(rows, d.rows)
           /\ Put(d, rows, links).links = Over(links, d.links)
<1>1. Over(rows, d.rows) \in Table(Memory, RowOf(Types)) /\ Over(links, d.links) \in Table(Memory, SUBSET Term)
  BY RunFields, TableOver
<1>2. Put(d, rows, links) = [d EXCEPT !.rows = Over(rows, d.rows), !.links = Over(links, d.links)]
  BY DEF Put
<1> QED
  BY <1>1, <1>2 DEF AtWork

-----------------------------------------------------------------------------
(* The agent's tools.                                                        *)
LEMMA AddTermStep ==
    ASSUME SInv, NEW a \in Agent, NEW t \in Term, AddTerm(a, t)
    PROVE  SInv'
<1> DEFINE d == [draft[a] EXCEPT !.terms = Over(One(t, "pending"), draft[a].terms)]
<1>1. Busy(a)
  BY DEF AddTerm, Has
<1>2. draft[a] \in AtWork /\ draft[a].terms \in Table(Term, Review)
  BY <1>1, AtWorkIs
<1>3. Over(One(t, "pending"), draft[a].terms) \in Table(Term, Review)
  BY <1>2, TableOver, TableOne DEF Review
<1>4. d \in AtWork /\ d.rows = draft[a].rows
  BY <1>2, <1>3 DEF AtWork
<1>5. draft' = [draft EXCEPT ![a] = d] /\ UNCHANGED <<db, versions, tools>>
  BY DEF AddTerm
<1>6. Ahead(draft[a].rows, db.rows)
  BY DEF SInv
<1>7. \A m \in DOMAIN draft[a].rows : m \notin HeldByOthers(a, "rows")
  BY HeldRows DEF SInv, Apart
<1> HIDE DEF d
<1> QED
  BY <1>4, <1>5, <1>6, <1>7, RunStep

\* A write of the run's own rows.
LEMMA PutStep ==
    ASSUME SInv, NEW a \in Agent, Busy(a),
           NEW rows \in Table(Memory, RowOf(Types)), NEW links \in Table(Memory, SUBSET Term),
           draft' = [draft EXCEPT ![a] = Put(draft[a], rows, links)], UNCHANGED <<db, versions, tools>>,
           Ahead(Over(rows, draft[a].rows), db.rows),
           \A m \in DOMAIN rows : m \notin HeldByOthers(a, "rows")
    PROVE  SInv'
<1> DEFINE d == Put(draft[a], rows, links)
<1>1. d \in AtWork /\ d.rows = Over(rows, draft[a].rows)
  BY AtWorkIs, PutIs
<1>2. DOMAIN Over(rows, draft[a].rows) = DOMAIN rows \cup DOMAIN draft[a].rows
  BY OverRows
<1>3. \A m \in DOMAIN draft[a].rows : m \notin HeldByOthers(a, "rows")
  BY HeldRows DEF SInv, Apart
<1> HIDE DEF d
<1>4. \A m \in DOMAIN d.rows : m \notin HeldByOthers(a, "rows")
  BY <1>1, <1>2, <1>3
<1>5. draft' = [draft EXCEPT ![a] = d]
  BY DEF d
<1>6. Ahead(d.rows, db.rows)
  BY <1>1
<1> QED
  BY <1>1, <1>4, <1>5, <1>6, RunStep

LEMMA WriteStep ==
    ASSUME SInv, NEW a \in Agent, Busy(a),
           NEW rows \in Table(Memory, RowOf(Types)), NEW m \in Memory, NEW names,
           Write(a, rows, m, names), UNCHANGED <<db, versions, tools>>,
           Ahead(Over(rows, draft[a].rows), db.rows),
           \A n \in DOMAIN rows : n \notin HeldByOthers(a, "rows")
    PROVE  SInv'
<1> DEFINE exist == names \cap DOMAIN View(a).terms
           links == One(m, exist)
<1>1. exist \in SUBSET Term
  BY ViewOf, TableRows
<1> HIDE DEF exist
<1>2. links \in Table(Memory, SUBSET Term)
  BY <1>1, TableOne
<1>3. draft' = [draft EXCEPT ![a] = AfterTool(exist # names, draft[a], Put(draft[a], rows, links))]
  BY DEF Write, exist
<1> HIDE DEF links
<1>4. CASE exist # names
  <2>1. draft' = [draft EXCEPT ![a] = draft[a]]
    BY <1>3, <1>4 DEF AfterTool
  <2>2. draft[a] \in Resting \cup AtWork /\ Ahead(draft[a].rows, db.rows)
    BY DEF SInv, TypeOK
  <2>3. \A n \in DOMAIN draft[a].rows : n \notin HeldByOthers(a, "rows")
    BY HeldRows DEF SInv, Apart
  <2> QED
    BY <2>1, <2>2, <2>3, RunStep
<1>5. CASE exist = names
  <2>1. draft' = [draft EXCEPT ![a] = Put(draft[a], rows, links)]
    BY <1>3, <1>5 DEF AfterTool
  <2> QED
    BY <1>2, <2>1, PutStep
<1> QED
  BY <1>4, <1>5

LEMMA NewId ==
    ASSUME NEW m \in Unused
    PROVE  /\ m \in Memory /\ m \notin DOMAIN db.rows
           /\ \A a \in Agent : m \notin DOMAIN draft[a].rows
           /\ \A a \in Agent : m \notin HeldByOthers(a, "rows")
  BY HeldRows DEF Unused

LEMMA OwnRow ==
    ASSUME NEW a, draft[a].ver \in Nat, Here(a) \in Chapter, NEW type \in Types, NEW mark \in Marks,
           NEW scope \in Scope \cup {"default"}, NEW sup \in Nat
    PROVE  /\ Own(a, type, mark, scope, sup) \in RowOf(Types)
           /\ Own(a, type, mark, scope, sup).start = Here(a)
           /\ Own(a, type, mark, scope, sup).sup = sup
           /\ Own(a, type, mark, scope, sup).type = type
<1> DEFINE new == NewRow(type, mark, Here(a), draft[a].ver, scope, sup, "agent")
<1>1. EndOf(type, scope, Here(a)) \in Nat
  BY EndNat
<1>2. new \in RowOf(Types) /\ new.start = Here(a) /\ new.sup = sup /\ new.type = type
  BY <1>1 DEF NewRow, RowOf, Review, Who
<1> QED
  BY <1>2 DEF Own

LEMMA CreateStep ==
    ASSUME SInv, NEW a \in Agent, NEW name \in DOMAIN ToolOf, NEW m \in Memory,
           NEW mark \in Marks, NEW scope \in Scope \cup {"default"}, NEW names,
           Create(a, name, m, mark, scope, names)
    PROVE  SInv'
<1> DEFINE new == Own(a, ToolOf[name].type, mark, scope, 0)
           rows == One(m, new)
<1>1. Busy(a) /\ m \in Unused /\ Write(a, rows, m, names) /\ UNCHANGED <<db, versions, tools>>
  BY DEF Create, Has
<1>2. draft[a].ver \in Nat /\ Here(a) \in Chapter
  BY <1>1, AtWorkIs
<1>3. new \in RowOf(Types) /\ new.sup = 0
  <2>1. ToolOf[name].type \in Types
    BY ToolTypes
  <2>2. 0 \in Nat
    OBVIOUS
  <2> QED
    BY <1>2, <2>1, <2>2, OwnRow
<1> HIDE DEF new
<1>4. rows \in Table(Memory, RowOf(Types)) /\ DOMAIN rows = {m}
  BY <1>3, TableOne, OneRow
<1>5. Ahead(Over(One(m, new), draft[a].rows), db.rows)
  BY <1>1, <1>3, NewId, AddedAhead DEF SInv
<1>6. \A n \in DOMAIN rows : n \notin HeldByOthers(a, "rows")
  BY <1>1, <1>4, NewId
<1>7. Ahead(Over(rows, draft[a].rows), db.rows)
  BY <1>5
<1> HIDE DEF rows
<1> QED
  BY <1>1, <1>4, <1>6, <1>7, WriteStep

\* Rows written over rows written over rows.
LEMMA OverOver ==
    ASSUME NEW e, NEW f, NEW g
    PROVE  Over(Over(e, f), g) = Over(e, Over(f, g))
  BY DEF Over

LEMMA OverTwice ==
    ASSUME NEW e, NEW f, NEW g
    PROVE  Over(Over(e, f), Over(f, g)) = Over(Over(e, f), g)
  BY DEF Over

LEMMA EndAhead ==
    ASSUME SInv, NEW a \in Agent, NEW p \in DOMAIN View(a).rows, NEW c \in Chapter,
           View(a).rows[p].type \in Types, MayEnd(View(a).rows[p], c)
    PROVE  /\ One(p, Ended(View(a).rows[p], c)) \in Table(Memory, RowOf(Types))
           /\ Ended(View(a).rows[p], c).end = c /\ c # Never
           /\ Ended(View(a).rows[p], c).type = View(a).rows[p].type
           /\ Ahead(Over(One(p, Ended(View(a).rows[p], c)), draft[a].rows), db.rows)
<1> DEFINE row == View(a).rows[p]
           end == Ended(row, c)
           ends == One(p, end)
<1>1. row \in Row /\ p \in Memory /\ row \in RowOf(Types)
  BY ViewOf, TableRows, OneType
<1>2. end \in RowOf(Types) /\ end.type = row.type /\ Lowered(end, row) /\ end.end = c /\ c # Never
  BY <1>1, EndedRow, MayEndLowers, Numbers
<1>3. Lowered(end, Over(draft[a].rows, db.rows)[p])
  BY <1>2, ViewOf
<1>4. /\ p \in DOMAIN draft[a].rows \cup DOMAIN db.rows
      /\ \A n \in DOMAIN draft[a].rows : draft[a].rows[n] \in RowOf(Types \cup {"summary"})
      /\ \A n \in DOMAIN db.rows : db.rows[n] \in RowOf(Types \cup {"summary"})
  <2>1. draft[a].rows \in Table(Memory, RowOf(Types)) /\ db.rows \in Table(Memory, Row)
    BY RunFields, StoreFields DEF SInv, TypeOK
  <2>2. \A n \in DOMAIN draft[a].rows : draft[a].rows[n] \in Row
    BY <2>1, TableRows, OneType
  <2>3. \A n \in DOMAIN db.rows : db.rows[n] \in Row
    BY <2>1, TableRows
  <2> QED
    BY <2>2, <2>3, ViewOf DEF Row
<1>5. end \in RowOf(Types \cup {"summary"})
  BY <1>2, OneType DEF Row
<1> HIDE DEF end
<1>6. DOMAIN ends = {p} /\ ends[p] = end /\ ends \in Table(Memory, RowOf(Types))
  BY <1>1, <1>2, OneRow, TableOne
<1> HIDE DEF ends
<1>7. Ahead(draft[a].rows, db.rows)
  BY DEF SInv
<1>8. Ahead(Over(ends, draft[a].rows), db.rows)
  <2>1. \A n \in DOMAIN ends : ends[n] \in RowOf(Types \cup {"summary"})
    BY <1>5, <1>6
  <2>2. \A n \in DOMAIN ends : Lowered(ends[n], Over(draft[a].rows, db.rows)[n])
    BY <1>3, <1>6
  <2> QED
    BY <1>4, <1>6, <1>7, <2>1, <2>2, LoweredAhead
<1> QED
  BY <1>2, <1>6, <1>8 DEF ends, end

LEMMA ReplaceStep ==
    ASSUME SInv, NEW a \in Agent, Busy(a), NEW p \in DOMAIN View(a).rows, NEW m \in Memory,
           NEW new \in RowOf(Types), NEW names,
           new.sup = p, new.start = Here(a), new.type = View(a).rows[p].type,
           Replace(a, p, m, new, names), UNCHANGED <<db, versions, tools>>
    PROVE  SInv'
<1> DEFINE end == Ended(View(a).rows[p], Here(a))
           ends == One(p, end)
           fresh == One(m, new)
           rows == Over(fresh, ends)
           own == Over(ends, draft[a].rows)
<1>1. /\ m \in Unused /\ p \notin HeldByOthers(a, "rows") /\ MayEnd(View(a).rows[p], Here(a))
      /\ Write(a, rows, m, names)
  BY DEF Replace
<1>2. Here(a) \in Chapter /\ Here(a) \in Nat
  BY AtWorkIs, Numbers
<1>3. new.type \in Types
  BY DEF RowOf
<1>4. /\ ends \in Table(Memory, RowOf(Types)) /\ Ahead(own, db.rows)
      /\ end.end = Here(a) /\ end.type = View(a).rows[p].type /\ Here(a) # Never
  BY <1>1, <1>2, <1>3, EndAhead
<1>5. Fits(end, new)
  <2>1. end.start = View(a).rows[p].start /\ View(a).rows[p].start < Here(a)
    <3>1. View(a).rows[p] \in Row
      BY ViewOf, TableRows
    <3> QED
      BY <3>1, <1>1, <1>2, EndedRow DEF MayEnd, Row
  <2> HIDE DEF end
  <2>2. Here(a) <= Here(a)
    BY <1>2
  <2> QED
    BY <1>4, <2>1, <2>2 DEF Fits
<1>6. m \notin DOMAIN db.rows /\ m \notin DOMAIN draft[a].rows
  BY <1>1, NewId
<1> HIDE DEF end
<1>7. DOMAIN ends = {p} /\ ends[p] = end
  BY OneRow
<1> HIDE DEF ends
<1>8. /\ DOMAIN own = DOMAIN ends \cup DOMAIN draft[a].rows
      /\ \A x \in DOMAIN ends : own[x] = ends[x]
      /\ \A x \in DOMAIN draft[a].rows \ DOMAIN ends : own[x] = draft[a].rows[x]
  BY OverRows
<1> HIDE DEF own
<1>9. p # m
  BY <1>6, ViewOf
<1>10. Ahead(Over(One(m, new), own), db.rows)
  <2>1. m \notin DOMAIN own /\ new.sup \in DOMAIN own /\ Fits(own[new.sup], new)
    BY <1>5, <1>6, <1>7, <1>8, <1>9
  <2> QED
    BY <1>4, <1>6, <2>1, AddedAhead
<1>11. DOMAIN fresh = {m} /\ fresh \in Table(Memory, RowOf(Types))
  BY OneRow, TableOne
<1>12. Ahead(Over(fresh, own), db.rows)
  BY <1>10
<1> HIDE DEF fresh
<1>13. DOMAIN rows = DOMAIN fresh \cup DOMAIN ends
  BY OverRows
<1>14. rows \in Table(Memory, RowOf(Types))
  BY <1>4, <1>11, TableOver
<1>15. \A n \in DOMAIN rows : n \notin HeldByOthers(a, "rows")
  BY <1>1, <1>7, <1>11, <1>13, NewId
<1>16. Ahead(Over(rows, draft[a].rows), db.rows)
  BY <1>12, OverOver DEF own
<1> HIDE DEF rows
<1> QED
  BY <1>1, <1>14, <1>15, <1>16, WriteStep

LEMMA SupersedeStep ==
    ASSUME SInv, NEW a \in Agent, NEW name \in DOMAIN ToolOf, NEW p \in Memory, NEW m \in Memory,
           NEW mark \in Marks, NEW scope \in Scope \cup {"default"}, NEW names,
           Supersede(a, name, p, m, mark, scope, names)
    PROVE  SInv'
<1> DEFINE new == Own(a, ToolOf[name].type, mark, scope, p)
           kept == IF ToolOf[name].keeps THEN View(a).links[p] ELSE names
<1>1. /\ Busy(a) /\ p \in DOMAIN View(a).rows /\ ToolOf[name].type = View(a).rows[p].type
      /\ Replace(a, p, m, new, kept) /\ UNCHANGED <<db, versions, tools>>
  BY DEF Supersede, Has, Owns
<1>2. draft[a].ver \in Nat /\ Here(a) \in Chapter
  BY <1>1, AtWorkIs
<1>3. new \in RowOf(Types) /\ new.sup = p /\ new.start = Here(a) /\ new.type = ToolOf[name].type
  <2>1. ToolOf[name].type \in Types
    BY ToolTypes
  <2>2. p \in Nat
    BY Numbers
  <2> QED
    BY <1>2, <2>1, <2>2, OwnRow
<1> HIDE DEF new, kept
<1> QED
  BY <1>1, <1>3, ReplaceStep

LEMMA ExpireStep ==
    ASSUME SInv, NEW a \in Agent, NEW name \in DOMAIN ToolOf, NEW p \in Memory, Expire(a, name, p)
    PROVE  SInv'
<1> DEFINE row == View(a).rows[p]
           ends == One(p, Ended(row, Here(a)))
           d == [draft[a] EXCEPT !.rows = Over(ends, draft[a].rows)]
<1>1. /\ Busy(a) /\ p \in DOMAIN View(a).rows /\ p \notin HeldByOthers(a, "rows")
      /\ row.type = ToolOf[name].type /\ MayEnd(row, Here(a)) /\ UNCHANGED <<db, versions, tools>>
      /\ draft' = [draft EXCEPT ![a] = d]
  BY DEF Expire, Has, Owns
<1>2. Here(a) \in Chapter /\ draft[a] \in AtWork /\ draft[a].rows \in Table(Memory, RowOf(Types))
  BY <1>1, AtWorkIs
<1>3. row.type \in Types
  BY <1>1, ToolTypes
<1>4. ends \in Table(Memory, RowOf(Types)) /\ Ahead(Over(ends, draft[a].rows), db.rows)
  BY <1>1, <1>2, <1>3, EndAhead
<1>5. DOMAIN ends = {p}
  BY OneRow
<1> HIDE DEF ends
<1>6. Over(ends, draft[a].rows) \in Table(Memory, RowOf(Types))
  BY <1>2, <1>4, TableOver
<1>7. DOMAIN Over(ends, draft[a].rows) = DOMAIN ends \cup DOMAIN draft[a].rows
  BY OverRows
<1>8. d \in AtWork /\ d.rows = Over(ends, draft[a].rows)
  BY <1>2, <1>6 DEF AtWork
<1>9. \A n \in DOMAIN draft[a].rows : n \notin HeldByOthers(a, "rows")
  BY HeldRows DEF SInv, Apart
<1>10. \A n \in DOMAIN d.rows : n \notin HeldByOthers(a, "rows")
  BY <1>1, <1>5, <1>7, <1>8, <1>9
<1>11. Ahead(d.rows, db.rows)
  BY <1>4, <1>8
<1> HIDE DEF d
<1> QED
  BY <1>1, <1>8, <1>10, <1>11, RunStep

\* An occurrence that is dropped was active in the chapter.
LEMMA DropIs ==
    ASSUME NEW v, NEW t, NEW c, NEW m \in Drop(v, t, c)
    PROVE  /\ m \in DOMAIN v.rows /\ v.rows[m].type = "event" /\ v.rows[m].start <= c
           /\ Open(v.rows[m], c)
  BY Zenon DEF Drop, Told

LEMMA DroppedLowers ==
    ASSUME NEW v, NEW t, NEW c \in Chapter, v.rows \in Table(Memory, Row)
    PROVE  /\ Dropped(v, t, c) \in Table(Memory, RowOf(Types))
           /\ DOMAIN Dropped(v, t, c) \subseteq DOMAIN v.rows
           /\ \A m \in DOMAIN Dropped(v, t, c) : Lowered(Dropped(v, t, c)[m], v.rows[m])
<1> DEFINE f == Dropped(v, t, c)
           G == Drop(v, t, c)
           stop(m) == IF v.rows[m].start = c THEN c + 1 ELSE c
<1>1. DOMAIN f = G /\ f = [m \in G |-> f[m]] /\ \A m \in G : f[m] = Ended(v.rows[m], stop(m))
  BY DEF Dropped
<1> HIDE DEF f
<1>2. ASSUME NEW m \in G
      PROVE  m \in Memory /\ m \in DOMAIN v.rows /\ f[m] \in RowOf(Types) /\ Lowered(f[m], v.rows[m])
  <2>1. /\ m \in DOMAIN v.rows /\ v.rows[m].type = "event" /\ v.rows[m].start <= c
        /\ Open(v.rows[m], c)
    BY DropIs
  <2> HIDE DEF G
  <2>2. m \in Memory /\ v.rows[m] \in Row /\ v.rows[m] \in RowOf(Types)
    BY <2>1, TableRows, OneType DEF Types
  <2>3. c \in Nat /\ c > 0 /\ stop(m) \in Nat /\ stop(m) > 0 /\ stop(m) <= c + 1
    BY Numbers
  <2>4. v.rows[m].end \in Nat
    BY <2>2 DEF RowOf
  <2>5. v.rows[m].end = Never \/ v.rows[m].end > c
    BY <2>1 DEF Open
  <2> DEFINE e == stop(m)
  <2>6. f[m] = Ended(v.rows[m], e)
    BY <1>1
  <2>7. e \in Nat /\ e > 0 /\ e <= c + 1
    BY <2>3
  <2> HIDE DEF e
  <2>8. f[m] \in RowOf(Types) /\ f[m].type = v.rows[m].type /\ f[m].start = v.rows[m].start
        /\ f[m].sup = v.rows[m].sup /\ f[m].end = e
    BY <2>2, <2>6, <2>7, EndedRow
  <2>9. Lowered(f[m], v.rows[m])
    BY <2>3, <2>4, <2>5, <2>7, <2>8 DEF Lowered, Never
  <2> QED
    BY <2>1, <2>2, <2>8, <2>9
<1> HIDE DEF G
<1>3. f \in Table(Memory, RowOf(Types))
  BY <1>1, <1>2, TableMap
<1> QED
  BY <1>1, <1>2, <1>3 DEF f

LEMMA OwnRows ==
    ASSUME SInv, NEW a \in Agent
    PROVE  /\ \A n \in DOMAIN draft[a].rows : draft[a].rows[n] \in RowOf(Types \cup {"summary"})
           /\ \A n \in DOMAIN db.rows : db.rows[n] \in RowOf(Types \cup {"summary"})
<1>1. draft[a].rows \in Table(Memory, RowOf(Types)) /\ db.rows \in Table(Memory, Row)
  BY RunFields, StoreFields DEF SInv, TypeOK
<1>2. \A n \in DOMAIN draft[a].rows : draft[a].rows[n] \in Row
  BY <1>1, TableRows, OneType
<1>3. \A n \in DOMAIN db.rows : db.rows[n] \in Row
  BY <1>1, TableRows
<1> QED
  BY <1>2, <1>3 DEF Row

LEMMA TransformStep ==
    ASSUME SInv, NEW a \in Agent, NEW m \in Memory, NEW t \in Term, Transform(a, m, t)
    PROVE  SInv'
<1> DEFINE new == Own(a, "event", Transformation, "persist", 0)
           told == Put(draft[a], One(m, new), One(m, {t}))
           v == [View(a) EXCEPT !.rows = Over(told.rows, @), !.links = Over(told.links, @)]
           ends == Dropped(v, t, Here(a))
           d == Put(told, ends, <<>>)
<1>1. /\ Busy(a) /\ m \in Unused /\ DOMAIN ends \cap HeldByOthers(a, "rows") = {}
      /\ draft' = [draft EXCEPT ![a] = d] /\ UNCHANGED <<db, versions, tools>>
  BY DEF Transform, Has
<1>2. draft[a].ver \in Nat /\ Here(a) \in Chapter /\ draft[a] \in AtWork
      /\ draft[a].rows \in Table(Memory, RowOf(Types)) /\ draft[a].links \in Table(Memory, SUBSET Term)
  BY <1>1, AtWorkIs
<1>3. new \in RowOf(Types) /\ new.sup = 0
  <2>1. "event" \in Types /\ Transformation \in Marks /\ "persist" \in Scope \cup {"default"} /\ 0 \in Nat
    BY DEF Types, Marks, Scope
  <2> QED
    BY <1>2, <2>1, OwnRow
<1> HIDE DEF new
<1>4. One(m, new) \in Table(Memory, RowOf(Types)) /\ One(m, {t}) \in Table(Memory, SUBSET Term)
      /\ DOMAIN One(m, new) = {m}
  BY <1>3, TableOne, OneRow
<1>5. told \in AtWork /\ told.rows = Over(One(m, new), draft[a].rows)
  BY <1>2, <1>4, PutIs
<1>6. told.rows \in Table(Memory, RowOf(Types)) /\ told.links \in Table(Memory, SUBSET Term)
  BY <1>5, RunFields
<1>7. Ahead(told.rows, db.rows)
  BY <1>1, <1>3, <1>5, NewId, AddedAhead DEF SInv
<1>8. DOMAIN told.rows = {m} \cup DOMAIN draft[a].rows
  <2>1. DOMAIN Over(One(m, new), draft[a].rows) = DOMAIN One(m, new) \cup DOMAIN draft[a].rows
    BY OverRows
  <2> QED
    BY <2>1, <1>4, <1>5
<1> HIDE DEF told
<1>9. v.rows = Over(told.rows, View(a).rows)
  BY DEF View
<1>10. v.rows = Over(told.rows, db.rows)
  BY <1>5, <1>9, ViewOf, OverTwice
<1>11. v.rows \in Table(Memory, Row)
  <2>1. told.rows \in Table(Memory, Row)
    BY <1>6, TableIs, OneType
  <2> QED
    BY <2>1, <1>9, ViewOf, TableOver
<1>12. DOMAIN v.rows = DOMAIN told.rows \cup DOMAIN db.rows
  <2>1. DOMAIN Over(told.rows, db.rows) = DOMAIN told.rows \cup DOMAIN db.rows
    BY OverRows
  <2> QED
    BY <2>1, <1>10
<1> HIDE DEF v
<1>13. /\ ends \in Table(Memory, RowOf(Types)) /\ DOMAIN ends \subseteq DOMAIN v.rows
       /\ \A n \in DOMAIN ends : Lowered(ends[n], v.rows[n])
  BY <1>2, <1>11, DroppedLowers
<1> HIDE DEF ends
<1>14. d \in AtWork /\ d.rows = Over(ends, told.rows)
  BY <1>5, <1>13, NoRows, PutIs
<1> HIDE DEF d
<1>15. Ahead(d.rows, db.rows)
  <2>1. \A n \in DOMAIN db.rows : db.rows[n] \in RowOf(Types \cup {"summary"})
    BY OwnRows
  <2>2. \A n \in DOMAIN told.rows : told.rows[n] \in RowOf(Types \cup {"summary"})
    BY <1>6, TableRows, OneType DEF Row
  <2>3. \A n \in DOMAIN ends : ends[n] \in RowOf(Types \cup {"summary"})
    BY <1>13, TableRows, OneType DEF Row
  <2>4. \A n \in DOMAIN ends : Lowered(ends[n], Over(told.rows, db.rows)[n])
    BY <1>10, <1>13
  <2>5. Ahead(Over(ends, told.rows), db.rows)
    BY <1>7, <1>12, <1>13, <2>1, <2>2, <2>3, <2>4, LoweredAhead
  <2> QED
    BY <2>5, <1>14
<1>16. \A n \in DOMAIN d.rows : n \notin HeldByOthers(a, "rows")
  <2>1. DOMAIN Over(ends, told.rows) = DOMAIN ends \cup DOMAIN told.rows
    BY OverRows
  <2>2. \A n \in DOMAIN draft[a].rows : n \notin HeldByOthers(a, "rows")
    BY HeldRows DEF SInv, Apart
  <2>3. m \notin HeldByOthers(a, "rows")
    BY <1>1, NewId
  <2> QED
    BY <2>1, <2>2, <2>3, <1>1, <1>8, <1>14
<1> QED
  BY <1>1, <1>14, <1>15, <1>16, RunStep

LEMMA CorrectStep ==
    ASSUME SInv, NEW a \in Agent, NEW p \in Memory, NEW m \in Memory, NEW t \in Term, Correct(a, p, m, t)
    PROVE  SInv'
<1> DEFINE new == Own(a, "event", Transformation, "persist", p)
<1>1. /\ Busy(a) /\ p \in DOMAIN View(a).rows /\ View(a).rows[p].type = "event"
      /\ Replace(a, p, m, new, {t}) /\ UNCHANGED <<db, versions, tools>>
  BY DEF Correct, Has, Told
<1>2. draft[a].ver \in Nat /\ Here(a) \in Chapter
  BY <1>1, AtWorkIs
<1>3. new \in RowOf(Types) /\ new.sup = p /\ new.start = Here(a) /\ new.type = "event"
  <2>1. "event" \in Types /\ Transformation \in Marks /\ "persist" \in Scope \cup {"default"} /\ p \in Nat
    BY Numbers DEF Types, Marks, Scope
  <2> QED
    BY <1>2, <2>1, OwnRow
<1> HIDE DEF new
<1> QED
  BY <1>1, <1>3, ReplaceStep

-----------------------------------------------------------------------------
(* The run begins, ends and commits.                                         *)
LEMMA RestStep ==
    ASSUME SInv, NEW a \in Agent, NEW d \in Resting \cup AtWork, d.rows = <<>>,
           draft' = [draft EXCEPT ![a] = d], UNCHANGED <<db, versions, tools>>
    PROVE  SInv'
<1>1. DOMAIN d.rows = {}
  BY NoRows
<1>2. Ahead(d.rows, db.rows)
  BY <1>1 DEF Ahead
<1> QED
  BY <1>1, <1>2, RunStep

LEMMA IdleRests == Idle \in Resting /\ Idle.rows = <<>>
<1>1. <<>> \in Table(Memory, RowOf(Types)) /\ <<>> \in Table(Memory, SUBSET Term)
      /\ <<>> \in Table(Term, Review)
  BY NoRows
<1> QED
  BY <1>1 DEF Idle, Resting

LEMMA BeginStep ==
    ASSUME SInv, NEW a \in Agent, NEW c \in Chapter,
           BeginRecording(a, c) \/ (\E found \in SUBSET Term : BeginNaming(a, c, found))
    PROVE  SInv'
<1>1. <<>> \in Table(Memory, RowOf(Types)) /\ <<>> \in Table(Memory, SUBSET Term)
      /\ <<>> \in Table(Term, Review)
  BY NoRows
<1>2. versions[c] \in Nat
  <2>1. c \in DOMAIN versions
    BY DEF BeginRecording, BeginNaming
  <2> QED
    BY <2>1, TableRows DEF SInv, TypeOK
<1> DEFINE d(stage, need) == [on |-> TRUE, stage |-> stage, chapter |-> c, ver |-> versions[c],
                              need |-> need, rows |-> <<>>, links |-> <<>>, terms |-> <<>>]
<1>3. ASSUME NEW stage \in {"record", "name"}, NEW need \in SUBSET Term
      PROVE  d(stage, need) \in AtWork /\ d(stage, need).rows = <<>>
  BY <1>1, <1>2 DEF AtWork
<1>4. CASE BeginRecording(a, c)
  <2>1. draft' = [draft EXCEPT ![a] = d("record", {})] /\ UNCHANGED <<db, versions, tools>>
    BY <1>4 DEF BeginRecording
  <2>2. d("record", {}) \in AtWork /\ d("record", {}).rows = <<>>
    BY <1>3
  <2> HIDE DEF d
  <2> QED
    BY <2>1, <2>2, RestStep
<1>5. ASSUME NEW found \in SUBSET Term, BeginNaming(a, c, found)
      PROVE  SInv'
  <2> DEFINE e == d("name", found \ Rendered)
  <2>1. draft' = [draft EXCEPT ![a] = e] /\ UNCHANGED <<db, versions, tools>>
    BY <1>5 DEF BeginNaming
  <2>2. e \in AtWork /\ e.rows = <<>>
    BY <1>3
  <2> HIDE DEF e
  <2> QED
    BY <2>1, <2>2, RestStep
<1> QED
  BY <1>4, <1>5

LEMMA AbortStep ==
    ASSUME SInv, NEW a \in Agent, Abort(a)
    PROVE  SInv'
  BY IdleRests, RestStep DEF Abort

\* A commit, by what it does to the rows.
LEMMA CommitStep ==
    ASSUME SInv, NEW a \in Agent, draft' = [draft EXCEPT ![a] = Idle], UNCHANGED <<versions, tools>>,
           db' \in Store, Chained(db'.rows), Named',
           \A b \in Agent \ {a} : \A m \in DOMAIN draft[b].rows :
               /\ m \in DOMAIN db.rows <=> m \in DOMAIN db'.rows
               /\ m \in DOMAIN db.rows => db'.rows[m] = db.rows[m]
    PROVE  SInv'
<1>1. draft'[a] = Idle /\ \A b \in Agent \ {a} : draft'[b] = draft[b]
  BY DEF SInv, TypeOK
<1>2. TypeOK'
  BY IdleRests DEF SInv, TypeOK
<1>3. DOMAIN Idle.rows = {}
  BY IdleRests, NoRows
<1>4. Apart'
  BY <1>1, <1>3 DEF SInv, Apart
<1>5. ASSUME NEW b \in Agent
      PROVE  Ahead(draft'[b].rows, db'.rows)
  <2>1. CASE b = a
    BY <2>1, <1>1, <1>3 DEF Ahead
  <2>2. CASE b # a
    <3>1. draft'[b] = draft[b] /\ Ahead(draft[b].rows, db.rows)
      BY <2>2, <1>1 DEF SInv
    <3> QED
      BY <2>2, <3>1, HeldAhead
  <2> QED
    BY <2>1, <2>2
<1> QED
  BY <1>2, <1>4, <1>5 DEF SInv

\* The summaries that a run writes when it ends.
LEMMA SummaryIs ==
    ASSUME SInv, NEW a \in Agent, Busy(a), NEW m, "continuity" \in tools => m \in Unused
    PROVE  /\ Summarised(a, m) \in Table(Memory, Row)
           /\ \/ /\ \A s \in DOMAIN Summarised(a, m) :
                        /\ s \in DOMAIN db.rows /\ db.rows[s].type = "summary" /\ MayRewrite(db.rows[s])
                        /\ Lowered(Summarised(a, m)[s], db.rows[s])
              \/ /\ m \in Unused
                 /\ \E new : Summarised(a, m) = One(m, new) /\ new.sup = 0
<1> DEFINE d == draft[a]
           S == Summary(db.rows, d.chapter, d.ver)
           new == Own(a, "summary", "none", "persist", 0)
           R == {s \in S : MayRewrite(db.rows[s])}
           text == [s \in R |-> [db.rows[s] EXCEPT !.text = 1]]
<1>1. db.rows \in Table(Memory, Row) /\ \A s \in R : s \in DOMAIN db.rows /\ db.rows[s].type = "summary"
  BY StoreFields DEF SInv, Summary
<1>2. CASE "continuity" \notin tools
  <2>1. Summarised(a, m) = <<>>
    BY <1>2 DEF Summarised
  <2> QED
    BY <2>1, NoRows
<1>3. CASE "continuity" \in tools /\ S = {}
  <2>1. Summarised(a, m) = One(m, new)
    BY <1>3 DEF Summarised
  <2>2. draft[a].ver \in Nat /\ Here(a) \in Chapter /\ EndOf("summary", "persist", Here(a)) \in Nat
    <3>1. "persist" \in Scope \cup {"default"}
      BY DEF Scope
    <3> QED
      BY <3>1, AtWorkIs, EndNat
  <2>3. new \in Row /\ new.sup = 0
    BY <2>2 DEF Own, NewRow, Row, RowOf, Marks, Review, Who
  <2>4. m \in Memory /\ m \in Unused
    BY <1>3, NewId
  <2> HIDE DEF new
  <2> QED
    BY <2>1, <2>3, <2>4, TableOne
<1>4. CASE "continuity" \in tools /\ S # {}
  <2>1. Summarised(a, m) = text
    BY <1>4 DEF Summarised
  <2>2. ASSUME NEW s \in R
        PROVE  /\ s \in Memory /\ text[s] \in Row /\ Lowered(text[s], db.rows[s])
    <3>1. s \in Memory /\ db.rows[s] \in Row
      BY <1>1, TableRows
    <3>2. text[s] = [db.rows[s] EXCEPT !.text = 1]
      OBVIOUS
    <3> HIDE DEF text
    <3>3. text[s] \in Row
      BY <3>1, <3>2 DEF Row, RowOf
    <3>4. /\ text[s].type = db.rows[s].type /\ text[s].start = db.rows[s].start
          /\ text[s].sup = db.rows[s].sup /\ text[s].end = db.rows[s].end
      BY <3>1, <3>2 DEF Row, RowOf
    <3> QED
      BY <3>1, <3>3, <3>4 DEF Lowered
  <2>3. text = [s \in R |-> text[s]] /\ DOMAIN text = R
    OBVIOUS
  <2>4. \A s \in R : MayRewrite(db.rows[s])
    OBVIOUS
  <2> HIDE DEF text, R
  <2>5. text \in Table(Memory, Row)
    BY <2>2, <2>3, TableMap
  <2> QED
    BY <1>1, <2>1, <2>2, <2>3, <2>4, <2>5
<1> QED
  BY <1>2, <1>3, <1>4

LEMMA FinishRecordingStep ==
    ASSUME SInv, NEW a \in Agent, NEW m \in Memory, FinishRecording(a, m)
    PROVE  SInv'
<1> DEFINE S == Summarised(a, m)
           own == draft[a].rows
           R == db.rows
           C == Over(own, R)
           rows == Over(S, C)
           none == [s \in DOMAIN S |-> {}]
           links == Over(none, Over(draft[a].links, db.links))
           terms == Over(draft[a].terms, db.terms)
<1>1. /\ Busy(a) /\ ("continuity" \in tools => m \in Unused)
      /\ db' = [db EXCEPT !.terms = terms, !.rows = rows, !.links = links]
      /\ draft' = [draft EXCEPT ![a] = Idle] /\ UNCHANGED <<versions, tools>>
  BY DEF FinishRecording
<1>2. own \in Table(Memory, RowOf(Types)) /\ draft[a].links \in Table(Memory, SUBSET Term)
      /\ draft[a].terms \in Table(Term, Review)
  BY <1>1, AtWorkIs
<1>3. R \in Table(Memory, Row) /\ db.links \in Table(Memory, SUBSET Term) /\ db.terms \in Table(Term, Review)
  BY StoreFields DEF SInv
<1>4. /\ S \in Table(Memory, Row)
      /\ \/ \A s \in DOMAIN S : s \in DOMAIN R /\ R[s].type = "summary" /\ Lowered(S[s], R[s])
         \/ m \in Unused /\ \E new : S = One(m, new) /\ new.sup = 0
  BY <1>1, SummaryIs
<1> HIDE DEF S
<1>5. none \in Table(Memory, SUBSET Term)
  <2>1. DOMAIN S \subseteq Memory
    BY <1>4, TableRows
  <2>2. none = [s \in DOMAIN S |-> none[s]] /\ \A s \in DOMAIN S : none[s] \in SUBSET Term
    OBVIOUS
  <2> HIDE DEF none
  <2> QED
    BY <2>1, <2>2, TableMap
<1> HIDE DEF none
<1>6. links \in Table(Memory, SUBSET Term) /\ terms \in Table(Term, Review)
  BY <1>2, <1>3, <1>5, TableOver
<1>7. C \in Table(Memory, Row)
  <2>1. own \in Table(Memory, Row)
    BY <1>2, TableIs, OneType
  <2> QED
    BY <2>1, <1>3, TableOver
<1>8. rows \in Table(Memory, Row)
  BY <1>4, <1>7, TableOver
<1>18. DOMAIN terms = DOMAIN draft[a].terms \cup DOMAIN db.terms
  BY OverRows
<1> HIDE DEF links, terms
<1>9. db' \in Store /\ db'.rows = rows /\ db'.terms = terms /\ db'.renderings = db.renderings
  BY <1>1, <1>6, <1>8 DEF SInv, TypeOK, Store
<1>19. Named'
  BY <1>9, <1>18 DEF SInv, Named
<1>10. Ahead(own, R) /\ Chained(R)
  BY DEF SInv
<1>11. /\ DOMAIN C = DOMAIN own \cup DOMAIN R
       /\ \A x \in DOMAIN own : C[x] = own[x]
       /\ \A x \in DOMAIN R \ DOMAIN own : C[x] = R[x]
  BY OverRows
<1>12. /\ DOMAIN rows = DOMAIN S \cup DOMAIN C
       /\ \A x \in DOMAIN S : rows[x] = S[x]
       /\ \A x \in DOMAIN C \ DOMAIN S : rows[x] = C[x]
  BY OverRows
<1>13. Chained(C)
  BY <1>10, OwnRows, CommittedChained
\* A summary is never among the rows that a run holds.
<1>14. \A b \in Agent : \A n \in DOMAIN draft[b].rows : n \in DOMAIN R => R[n].type # "summary"
  <2> SUFFICES ASSUME NEW b \in Agent, NEW n \in DOMAIN draft[b].rows, n \in DOMAIN R
               PROVE  R[n].type # "summary"
    OBVIOUS
  <2>1. draft[b].rows[n] \in RowOf(Types)
    BY RunFields, TableRows DEF SInv, TypeOK
  <2>2. Lowered(draft[b].rows[n], R[n])
    BY DEF SInv, Ahead
  <2> QED
    BY <2>1, <2>2, OneType DEF Lowered
<1>15. \A b \in Agent : \A n \in DOMAIN draft[b].rows : n \notin DOMAIN S
  <2> SUFFICES ASSUME NEW b \in Agent, NEW n \in DOMAIN draft[b].rows
               PROVE  n \notin DOMAIN S
    OBVIOUS
  <2>1. CASE \A s \in DOMAIN S : s \in DOMAIN R /\ R[s].type = "summary" /\ Lowered(S[s], R[s])
    BY <2>1, <1>14
  <2>2. CASE m \in Unused /\ \E new : S = One(m, new) /\ new.sup = 0
    <3>1. DOMAIN S = {m}
      BY <2>2, OneRow
    <3> QED
      BY <3>1, <2>2, NewId
  <2> QED
    BY <2>1, <2>2, <1>4
<1> HIDE DEF C
<1>16. Chained(rows)
  <2>1. CASE \A s \in DOMAIN S : s \in DOMAIN R /\ R[s].type = "summary" /\ Lowered(S[s], R[s])
    <3>1. DOMAIN rows = DOMAIN C
      BY <2>1, <1>11, <1>12
    <3>2. \A x \in DOMAIN C : Lowered(rows[x], C[x])
      BY <2>1, <1>11, <1>12, <1>15, LoweredSelf
    <3>3. (\A x \in DOMAIN C : C[x] \in Row) /\ (\A x \in DOMAIN C : rows[x] \in Row)
      BY <3>1, <1>7, <1>8, TableRows
    <3> HIDE DEF rows
    <3> QED
      BY <3>1, <3>2, <3>3, <1>13, LoweredChained DEF Row
  <2>2. CASE m \in Unused /\ \E new : S = One(m, new) /\ new.sup = 0
    <3>1. PICK new : S = One(m, new) /\ new.sup = 0
      BY <2>2
    <3>2. m \notin DOMAIN C
      BY <2>2, <1>11, NewId
    <3>3. Chained(Over(One(m, new), C))
      BY <3>1, <3>2, <1>13, AddedChained
    <3> QED
      BY <3>1, <3>3
  <2> QED
    BY <2>1, <2>2, <1>4
<1> HIDE DEF rows
<1>17. ASSUME NEW b \in Agent \ {a}, NEW n \in DOMAIN draft[b].rows
       PROVE  /\ n \in DOMAIN R <=> n \in DOMAIN rows
              /\ n \in DOMAIN R => rows[n] = R[n]
  <2>1. n \notin DOMAIN own /\ n \notin DOMAIN S
    BY <1>15 DEF SInv, Apart
  <2> QED
    BY <2>1, <1>11, <1>12
<1> QED
  BY <1>1, <1>9, <1>16, <1>17, <1>19, CommitStep

LEMMA FinishNamingStep ==
    ASSUME SInv, NEW a \in Agent, FinishNaming(a)
    PROVE  SInv'
<1> DEFINE names == {t \in draft[a].need : MayName(t)}
           new == [t \in names |-> [text |-> "agent", review |-> "pending", by |-> "agent"]]
           renderings == Over(new, db.renderings)
<1>1. /\ Busy(a) /\ db' = [db EXCEPT !.renderings = renderings]
      /\ draft' = [draft EXCEPT ![a] = Idle] /\ UNCHANGED <<versions, tools>>
  BY DEF FinishNaming
<1>2. names \subseteq Term
  BY <1>1, RunFields DEF SInv, TypeOK, Busy
<1>3. new = [t \in names |-> new[t]] /\ \A t \in names : new[t] \in Rendering
  BY DEF Rendering, Who, Review
<1>7. names \subseteq DOMAIN db.terms
  BY DEF FinishNaming, UsableTerms
<1>8. DOMAIN new = names /\ DOMAIN renderings = DOMAIN new \cup DOMAIN db.renderings
  BY OverRows
<1> HIDE DEF new, names
<1>4. renderings \in Table(Term, Rendering)
  BY <1>2, <1>3, TableMap, TableOver, StoreFields DEF SInv
<1> HIDE DEF renderings
<1>5. db' \in Store /\ db'.rows = db.rows /\ db'.terms = db.terms /\ db'.renderings = renderings
  BY <1>1, <1>4 DEF SInv, TypeOK, Store
<1>6. Chained(db.rows)
  BY DEF SInv
<1>9. Named'
  BY <1>5, <1>7, <1>8 DEF SInv, Named
<1> QED
  BY <1>1, <1>5, <1>6, <1>9, CommitStep

-----------------------------------------------------------------------------
(* Users.                                                                    *)
\* A step of a user that leaves the rows as they are.
LEMMA OtherTables ==
    ASSUME SInv, db' \in Store, db'.rows = db.rows, Named', UNCHANGED <<versions, draft, tools>>
    PROVE  SInv'
<1>1. versions' \in Table(Chapter, Nat) /\ Chained(db'.rows)
  BY DEF SInv, TypeOK
<1> QED
  BY <1>1, UserStep

\* A row that no run holds is changed, or ended earlier.
LEMMA RowChanged ==
    ASSUME SInv, NEW m, Editable(m), NEW row \in Row, Lowered(row, db.rows[m]),
           db' = [db EXCEPT !.rows = [db.rows EXCEPT ![m] = row]], UNCHANGED <<versions, draft, tools>>
    PROVE  SInv'
<1> DEFINE rows == [db.rows EXCEPT ![m] = row]
<1>1. m \in DOMAIN db.rows /\ m \notin Held("rows")
  BY DEF Editable
<1>2. DOMAIN rows = DOMAIN db.rows /\ rows[m] = row /\ \A n \in DOMAIN db.rows \ {m} : rows[n] = db.rows[n]
  BY <1>1
<1>3. rows \in Table(Memory, Row)
  BY StoreFields, TableExcept DEF SInv
<1>4. db' = [db EXCEPT !.rows = rows]
  OBVIOUS
<1> HIDE DEF rows
<1>5. db' \in Store /\ db'.rows = rows /\ Named'
  BY <1>3, <1>4 DEF SInv, TypeOK, Store, Named
<1>6. Chained(rows)
  <2>1. \A n \in DOMAIN db.rows : Lowered(rows[n], db.rows[n])
    BY <1>2, LoweredSelf
  <2>2. (\A n \in DOMAIN db.rows : db.rows[n] \in Row) /\ (\A n \in DOMAIN db.rows : rows[n] \in Row)
    BY <1>2, <1>3, StoreFields, TableRows DEF SInv
  <2>3. Chained(db.rows)
    BY DEF SInv
  <2> QED
    BY <1>2, <2>1, <2>2, <2>3, LoweredChained DEF Row
<1>7. versions' \in Table(Chapter, Nat)
  BY DEF SInv, TypeOK
<1>8. \A n \in Held("rows") : n \in DOMAIN db.rows <=> n \in DOMAIN rows
  BY <1>2
<1>9. \A n \in Held("rows") \cap DOMAIN db.rows : rows[n] = db.rows[n]
  BY <1>1, <1>2
<1> QED
  BY <1>5, <1>6, <1>7, <1>8, <1>9, UserStep

LEMMA RowOfMemory ==
    ASSUME SInv, NEW m, Editable(m)
    PROVE  db.rows[m] \in Row /\ m \in Memory
  BY StoreFields, TableRows DEF SInv, Editable

LEMMA ReviewMemoryStep ==
    ASSUME SInv, NEW m \in Memory, NEW status \in Review, ReviewMemory(m, status)
    PROVE  SInv'
<1> DEFINE row == [db.rows[m] EXCEPT !.review = status]
<1>1. Editable(m) /\ UNCHANGED <<versions, draft, tools>>
      /\ db' = [db EXCEPT !.rows = [db.rows EXCEPT ![m] = row]]
  BY DEF ReviewMemory
<1>2. db.rows[m] \in Row
  BY <1>1, RowOfMemory
<1>3. row \in Row /\ Lowered(row, db.rows[m])
  BY <1>2 DEF Row, RowOf, Lowered
<1> HIDE DEF row
<1> QED
  BY <1>1, <1>3, RowChanged

LEMMA UpdateMemoryStep ==
    ASSUME SInv, NEW m \in Memory, NEW mark \in Mark, UpdateMemory(m, mark)
    PROVE  SInv'
<1> DEFINE row == [db.rows[m] EXCEPT !.mark = mark, !.text = 2]
<1>1. Editable(m) /\ UNCHANGED <<versions, draft, tools>>
      /\ db' = [db EXCEPT !.rows[m].mark = mark, !.rows[m].text = 2]
  BY DEF UpdateMemory
<1>2. db.rows[m] \in Row
  BY <1>1, RowOfMemory
<1>3. row \in Row /\ Lowered(row, db.rows[m])
  BY <1>2 DEF Row, RowOf, Lowered, Marks
<1>4. db' = [db EXCEPT !.rows = [db.rows EXCEPT ![m] = row]]
  BY <1>1 DEF SInv, TypeOK, Store, Editable
<1> HIDE DEF row
<1> QED
  BY <1>1, <1>3, <1>4, RowChanged

LEMMA ExpireMemoryStep ==
    ASSUME SInv, NEW m \in Memory, NEW c \in Chapter, ExpireMemory(m, c)
    PROVE  SInv'
<1> DEFINE row == Ended(db.rows[m], c)
<1>1. Editable(m) /\ MayEnd(db.rows[m], c) /\ UNCHANGED <<versions, draft, tools>>
      /\ db' = [db EXCEPT !.rows = [db.rows EXCEPT ![m] = row]]
  BY DEF ExpireMemory, Ended
<1>2. db.rows[m] \in Row /\ c \in Nat
  BY <1>1, RowOfMemory, Numbers
<1>3. row \in Row /\ Lowered(row, db.rows[m])
  BY <1>1, <1>2, EndedRow, MayEndLowers DEF Row
<1> HIDE DEF row
<1> QED
  BY <1>1, <1>3, RowChanged

\* Rows are deleted, with no row of a run among them or their successors.
LEMMA GoneStep ==
    ASSUME SInv, NEW gone, MayGo(gone), db' = Without(gone), versions' \in Table(Chapter, Nat),
           UNCHANGED <<draft, tools>>
    PROVE  SInv'
<1> DEFINE left == DOMAIN db.rows \ gone
           kept(m) == [db.rows[m] EXCEPT !.sup = IF @ \in gone THEN 0 ELSE @]
           rows == [m \in left |-> kept(m)]
           links == Restricted(db.links, left)
<1>1. db' = [db EXCEPT !.rows = rows, !.links = links]
  BY DEF Without
<1>2. DOMAIN db.rows \subseteq Memory /\ \A m \in DOMAIN db.rows : db.rows[m] \in Row
  BY StoreFields, TableRows DEF SInv
<1>3. ASSUME NEW m \in left
      PROVE  /\ kept(m) \in Row /\ kept(m).type = db.rows[m].type /\ kept(m).start = db.rows[m].start
             /\ kept(m).end = db.rows[m].end
             /\ kept(m).sup = IF db.rows[m].sup \in gone THEN 0 ELSE db.rows[m].sup
             /\ db.rows[m].sup \notin gone => kept(m) = db.rows[m]
  <2>1. db.rows[m] \in Row
    BY <1>2
  <2> QED
    BY <2>1 DEF Row, RowOf
<1>4. DOMAIN rows = left /\ rows = [m \in left |-> rows[m]] /\ \A m \in left : rows[m] = kept(m)
  OBVIOUS
<1> HIDE DEF kept, rows
<1>5. rows \in Table(Memory, Row)
  <2>1. \A m \in left : rows[m] \in Row
    BY <1>3, <1>4
  <2>2. left \in SUBSET Memory
    BY <1>2
  <2> HIDE DEF left
  <2> QED
    BY <1>4, <2>1, <2>2, TableMap
<1>6. links \in Table(Memory, SUBSET Term)
  BY StoreFields, TableRestricted DEF SInv
<1> HIDE DEF links
<1>7. db' \in Store /\ db'.rows = rows /\ Named'
  BY <1>1, <1>5, <1>6 DEF SInv, TypeOK, Store, Named
<1>8. ASSUME NEW m \in left, rows[m].sup # 0
      PROVE  rows[m].sup \in left /\ Fits(rows[rows[m].sup], rows[m])
  <2> DEFINE p == db.rows[m].sup
  <2>1. p \notin gone /\ p # 0 /\ rows[m].sup = p
    BY <1>3, <1>4, <1>8
  <2>2. p \in DOMAIN db.rows /\ Fits(db.rows[p], db.rows[m])
    BY <2>1 DEF SInv, Chained
  <2>3. p \in left
    BY <2>1, <2>2
  <2>4. /\ rows[p].type = db.rows[p].type /\ rows[p].end = db.rows[p].end /\ rows[p].start = db.rows[p].start
        /\ rows[m].type = db.rows[m].type /\ rows[m].start = db.rows[m].start
    BY <2>3, <1>3, <1>4
  <2> HIDE DEF p
  <2>5. Fits(rows[p], rows[m])
    BY <2>2, <2>4 DEF Fits
  <2> QED
    BY <2>1, <2>3, <2>5
<1>9. Chained(rows)
  BY <1>4, <1>8 DEF Chained
<1>10. ASSUME NEW m \in Held("rows"), m \in DOMAIN db.rows
       PROVE  m \in left /\ rows[m] = db.rows[m]
  <2>1. m \notin gone /\ db.rows[m].sup \notin gone
    BY <1>10 DEF MayGo
  <2> QED
    BY <2>1, <1>3, <1>4, <1>10
<1>11. \A m \in Held("rows") : m \in DOMAIN db.rows <=> m \in DOMAIN rows
  BY <1>4, <1>10
<1> QED
  BY <1>7, <1>9, <1>10, <1>11, UserStep

LEMMA DeleteMemoryStep ==
    ASSUME SInv, NEW m \in Memory, DeleteMemory(m)
    PROVE  SInv'
<1>1. versions' \in Table(Chapter, Nat)
  BY DEF SInv, TypeOK, DeleteMemory
<1> QED
  BY <1>1, GoneStep DEF DeleteMemory

LEMMA RemoveChapterStep ==
    ASSUME SInv, NEW c \in Chapter, RemoveChapter(c)
    PROVE  SInv'
<1>1. versions' \in Table(Chapter, Nat)
  BY TableRestricted DEF SInv, TypeOK, RemoveChapter
<1> QED
  BY <1>1, GoneStep DEF RemoveChapter

LEMMA CreateByUserStep ==
    ASSUME SInv, NEW m \in Memory, NEW type \in Types, NEW mark \in Mark, NEW c \in Chapter, NEW names,
           CreateByUser(m, type, mark, c, "default", names)
    PROVE  SInv'
<1> DEFINE new == NewRow(type, mark, c, versions[c], "default", 0, "user")
           rows == Over(One(m, new), db.rows)
           links == Over(One(m, names), db.links)
<1>1. /\ m \in Unused /\ c \in DOMAIN versions /\ names \subseteq DOMAIN db.terms
      /\ db' = [db EXCEPT !.rows = rows, !.links = links] /\ UNCHANGED <<versions, draft, tools>>
  BY DEF CreateByUser
<1>2. /\ db.rows \in Table(Memory, Row) /\ db.links \in Table(Memory, SUBSET Term)
      /\ DOMAIN db.terms \subseteq Term
  BY StoreFields, TableRows DEF SInv
<1>3. versions[c] \in Nat /\ EndOf(type, "default", c) \in Nat
  BY <1>1, TableRows, EndNat DEF SInv, TypeOK
<1>4. new \in Row /\ new.sup = 0
  BY <1>3 DEF NewRow, Row, RowOf, Marks, Review, Who
<1> HIDE DEF new
<1>5. rows \in Table(Memory, Row)
  BY <1>2, <1>4, TableOne, TableOver
<1>6. links \in Table(Memory, SUBSET Term)
  BY <1>1, <1>2, TableOne, TableOver
<1>7. m \notin DOMAIN db.rows /\ m \notin Held("rows")
  BY <1>1, NewId, HeldRows
<1>8. Chained(rows)
  BY <1>4, <1>7, AddedChained DEF SInv
<1>9. DOMAIN One(m, new) = {m}
  BY OneRow
<1>10. /\ DOMAIN rows = DOMAIN One(m, new) \cup DOMAIN db.rows
       /\ \A n \in DOMAIN db.rows \ DOMAIN One(m, new) : rows[n] = db.rows[n]
  BY OverRows
<1> HIDE DEF rows, links
<1>11. db' \in Store /\ db'.rows = rows /\ Named'
  BY <1>1, <1>5, <1>6 DEF SInv, TypeOK, Store, Named
<1>12. versions' \in Table(Chapter, Nat) /\ UNCHANGED <<draft, tools>>
  BY <1>1 DEF SInv, TypeOK
<1>13. \A n \in Held("rows") : n \in DOMAIN db.rows <=> n \in DOMAIN rows
  BY <1>7, <1>9, <1>10
<1>14. \A n \in Held("rows") \cap DOMAIN db.rows : rows[n] = db.rows[n]
  BY <1>7, <1>9, <1>10
<1> QED
  BY <1>8, <1>11, <1>12, <1>13, <1>14, UserStep

\* Terms, their translations and the terms of memories.
LEMMA TablesChanged ==
    ASSUME SInv, NEW terms \in Table(Term, Review), NEW links \in Table(Memory, SUBSET Term),
           NEW renderings \in Table(Term, Rendering), DOMAIN renderings \subseteq DOMAIN terms,
           db' = [terms |-> terms, rows |-> db.rows, links |-> links, renderings |-> renderings],
           UNCHANGED <<versions, draft, tools>>
    PROVE  SInv'
<1>1. db' \in Store /\ db'.rows = db.rows /\ Named'
  BY StoreFields DEF SInv, Store, Named
<1> QED
  BY <1>1, OtherTables

LEMMA StoreIs ==
    ASSUME SInv
    PROVE  db = [terms |-> db.terms, rows |-> db.rows, links |-> db.links, renderings |-> db.renderings]
  BY DEF SInv, TypeOK, Store

LEMMA ReplaceTermsStep ==
    ASSUME SInv, NEW m \in Memory, NEW names \in SUBSET Term, ReplaceTerms(m, names)
    PROVE  SInv'
<1> DEFINE links == [db.links EXCEPT ![m] = names]
<1>1. db' = [db EXCEPT !.links = links] /\ UNCHANGED <<versions, draft, tools>>
  BY DEF ReplaceTerms
<1>2. links \in Table(Memory, SUBSET Term)
  BY StoreFields, TableExcept DEF SInv
<1> HIDE DEF links
<1>3. db' = [terms |-> db.terms, rows |-> db.rows, links |-> links, renderings |-> db.renderings]
  BY <1>1, StoreIs
<1>4. DOMAIN db.renderings \subseteq DOMAIN db.terms
  BY DEF SInv, Named
<1> QED
  BY <1>1, <1>2, <1>3, <1>4, StoreFields, TablesChanged DEF SInv

LEMMA TermStep ==
    ASSUME SInv, NEW t \in Term,
           CreateTerm(t) \/ \E status \in Review : ReviewTerm(t, status)
    PROVE  SInv'
<1> DEFINE made == Over(One(t, "pending"), db.terms)
           reviewed(status) == [db.terms EXCEPT ![t] = status]
<1>1. made \in Table(Term, Review)
  BY StoreFields, TableOne, TableOver DEF SInv, Review
<1>2. \A status \in Review : reviewed(status) \in Table(Term, Review)
  BY StoreFields, TableExcept DEF SInv
<1>3. /\ UNCHANGED <<versions, draft, tools>>
      /\ \/ db' = [db EXCEPT !.terms = made]
         \/ \E status \in Review : db' = [db EXCEPT !.terms = reviewed(status)]
  BY DEF CreateTerm, ReviewTerm
<1>4. DOMAIN made = DOMAIN One(t, "pending") \cup DOMAIN db.terms
  BY OverRows
<1>5. \A status \in Review : DOMAIN reviewed(status) = DOMAIN db.terms
  OBVIOUS
<1> HIDE DEF made, reviewed
<1>6. PICK terms \in Table(Term, Review) : db' = [db EXCEPT !.terms = terms] /\ DOMAIN db.terms \subseteq DOMAIN terms
  BY <1>1, <1>2, <1>3, <1>4, <1>5
<1>7. db' = [terms |-> terms, rows |-> db.rows, links |-> db.links, renderings |-> db.renderings]
  BY <1>6, StoreIs
<1>8. DOMAIN db.renderings \subseteq DOMAIN terms
  BY <1>6 DEF SInv, Named
<1> QED
  BY <1>3, <1>6, <1>7, <1>8, StoreFields, TablesChanged DEF SInv

LEMMA RenamedTable ==
    ASSUME NEW T, NEW f \in Table(Term, T), NEW t \in Term, NEW u \in Term, u \notin DOMAIN f
    PROVE  Renamed(f, t, u) \in Table(Term, T)
<1> DEFINE names == (DOMAIN f \ {t}) \cup (IF t \in DOMAIN f THEN {u} ELSE {})
           g == Renamed(f, t, u)
<1>1. g = [x \in names |-> g[x]] /\ \A x \in names : g[x] = IF x = u THEN f[t] ELSE f[x]
  BY DEF Renamed
<1>2. DOMAIN f \subseteq Term /\ \A x \in DOMAIN f : f[x] \in T
  BY TableRows
<1> HIDE DEF g
<1>3. \A x \in names : x \in Term /\ g[x] \in T
  BY <1>1, <1>2
<1>4. names \in SUBSET Term
  BY <1>3
<1> HIDE DEF names
<1>5. g \in Table(Term, T)
  BY <1>1, <1>3, <1>4, TableMap
<1> QED
  BY <1>5 DEF g

LEMMA MappedLinks ==
    ASSUME SInv, NEW f, f = [m \in DOMAIN db.links |-> f[m]],
           \A m \in DOMAIN db.links : db.links[m] \subseteq Term => f[m] \subseteq Term
    PROVE  f \in Table(Memory, SUBSET Term)
<1>1. DOMAIN db.links \subseteq Memory /\ \A m \in DOMAIN db.links : db.links[m] \in SUBSET Term
  BY StoreFields, TableRows DEF SInv
<1>2. \A m \in DOMAIN db.links : f[m] \in SUBSET Term
  BY <1>1
<1> QED
  BY <1>1, <1>2, TableMap

LEMMA RenameTermStep ==
    ASSUME SInv, NEW t \in Term, NEW u \in Term, RenameTerm(t, u)
    PROVE  SInv'
<1> DEFINE terms == Renamed(db.terms, t, u)
           renderings == Renamed(db.renderings, t, u)
           links == [m \in DOMAIN db.links |-> {IF x = t THEN u ELSE x : x \in db.links[m]}]
<1>1. /\ u \notin DOMAIN db.terms /\ t \in DOMAIN db.terms /\ UNCHANGED <<versions, draft, tools>>
      /\ db' = [db EXCEPT !.terms = terms, !.renderings = renderings, !.links = links]
  BY DEF RenameTerm
<1>2. u \notin DOMAIN db.renderings /\ DOMAIN db.renderings \subseteq DOMAIN db.terms
  BY <1>1 DEF SInv, Named
<1>3. terms \in Table(Term, Review) /\ renderings \in Table(Term, Rendering)
  BY <1>1, <1>2, StoreFields, RenamedTable DEF SInv
<1>4. DOMAIN renderings \subseteq DOMAIN terms
  BY <1>1, <1>2 DEF Renamed
<1>5. links = [m \in DOMAIN db.links |-> links[m]]
      /\ \A m \in DOMAIN db.links : db.links[m] \subseteq Term => links[m] \subseteq Term
  OBVIOUS
<1> HIDE DEF links, terms, renderings
<1>6. links \in Table(Memory, SUBSET Term)
  BY <1>5, MappedLinks
<1>7. db' = [terms |-> terms, rows |-> db.rows, links |-> links, renderings |-> renderings]
  BY <1>1, StoreIs
<1> QED
  BY <1>1, <1>3, <1>4, <1>6, <1>7, TablesChanged

LEMMA DeleteTermStep ==
    ASSUME SInv, NEW t \in Term, DeleteTerm(t)
    PROVE  SInv'
<1> DEFINE terms == Restricted(db.terms, DOMAIN db.terms \ {t})
           renderings == Restricted(db.renderings, DOMAIN db.renderings \ {t})
           links == [m \in DOMAIN db.links |-> db.links[m] \ {t}]
<1>1. /\ UNCHANGED <<versions, draft, tools>>
      /\ db' = [db EXCEPT !.terms = terms, !.renderings = renderings, !.links = links]
  BY DEF DeleteTerm
<1>2. terms \in Table(Term, Review) /\ renderings \in Table(Term, Rendering)
  BY StoreFields, TableRestricted DEF SInv
<1>3. DOMAIN renderings \subseteq DOMAIN terms
  BY DEF Restricted, SInv, Named
<1>4. links = [m \in DOMAIN db.links |-> links[m]]
      /\ \A m \in DOMAIN db.links : db.links[m] \subseteq Term => links[m] \subseteq Term
  OBVIOUS
<1> HIDE DEF links, terms, renderings
<1>5. links \in Table(Memory, SUBSET Term)
  BY <1>4, MappedLinks
<1>6. db' = [terms |-> terms, rows |-> db.rows, links |-> links, renderings |-> renderings]
  BY <1>1, StoreIs
<1> QED
  BY <1>1, <1>2, <1>3, <1>5, <1>6, TablesChanged

LEMMA TranslationStep ==
    ASSUME SInv, NEW t \in Term,
           \/ SaveTranslation(t) \/ DeleteTranslation(t)
           \/ \E status \in Review : ReviewTranslation(t, status)
    PROVE  SInv'
<1> DEFINE old == db.renderings
           row == [text |-> "user", by |-> "user", review |-> IF t \in DOMAIN old THEN old[t].review ELSE "pending"]
           saved == Over(One(t, row), old)
           reviewed(status) == [old EXCEPT ![t] = [old[t] EXCEPT !.review = status]]
           left == Restricted(old, DOMAIN old \ {t})
<1>1. old \in Table(Term, Rendering) /\ DOMAIN old \subseteq DOMAIN db.terms
      /\ \A x \in DOMAIN old : old[x] \in Rendering
  BY StoreFields, TableRows DEF SInv, Named
<1>2. SUFFICES ASSUME NEW new \in Table(Term, Rendering), DOMAIN new \subseteq DOMAIN db.terms,
                      db' = [db EXCEPT !.renderings = new], UNCHANGED <<versions, draft, tools>>
               PROVE  SInv'
  <2>1. CASE SaveTranslation(t)
    <3>1. t \in DOMAIN db.terms /\ db' = [db EXCEPT !.renderings = saved] /\ UNCHANGED <<versions, draft, tools>>
      BY <2>1 DEF SaveTranslation
    <3>2. row \in Rendering
      BY <1>1 DEF Rendering, Who, Review
    <3> HIDE DEF row
    <3>3. saved \in Table(Term, Rendering)
      BY <1>1, <3>2, TableOne, TableOver
    <3>4. DOMAIN saved = DOMAIN One(t, row) \cup DOMAIN old /\ DOMAIN One(t, row) = {t}
      BY OverRows, OneRow
    <3> HIDE DEF saved, old
    <3>5. DOMAIN saved \subseteq DOMAIN db.terms
      BY <1>1, <3>1, <3>4
    <3> QED
      BY <1>2, <3>1, <3>3, <3>5
  <2>2. CASE DeleteTranslation(t)
    <3>1. db' = [db EXCEPT !.renderings = left] /\ UNCHANGED <<versions, draft, tools>>
      BY <2>2 DEF DeleteTranslation
    <3>2. left \in Table(Term, Rendering)
      BY <1>1, TableRestricted
    <3>3. DOMAIN left \subseteq DOMAIN db.terms
      BY <1>1 DEF Restricted
    <3> HIDE DEF left
    <3> QED
      BY <1>2, <3>1, <3>2, <3>3
  <2>3. ASSUME NEW status \in Review, ReviewTranslation(t, status)
        PROVE  SInv'
    <3> DEFINE new == reviewed(status)
    <3>1. t \in DOMAIN old /\ db' = [db EXCEPT !.renderings = new] /\ UNCHANGED <<versions, draft, tools>>
      BY <2>3 DEF ReviewTranslation
    <3>2. [old[t] EXCEPT !.review = status] \in Rendering
      BY <1>1, <3>1 DEF Rendering
    <3>3. new \in Table(Term, Rendering)
      BY <1>1, <3>2, TableExcept
    <3>4. DOMAIN new \subseteq DOMAIN db.terms
      BY <1>1
    <3> HIDE DEF new
    <3> QED
      BY <1>2, <3>1, <3>3, <3>4
  <2> QED
    BY <2>1, <2>2, <2>3
<1>3. db' = [terms |-> db.terms, rows |-> db.rows, links |-> db.links, renderings |-> new]
  BY <1>2, StoreIs
<1> QED
  BY <1>2, <1>3, StoreFields, TablesChanged DEF SInv

LEMMA EditChapterStep ==
    ASSUME SInv, NEW c \in Chapter, EditChapter(c)
    PROVE  SInv'
<1>1. c \in DOMAIN versions /\ versions' = [versions EXCEPT ![c] = versions[c] + 1]
      /\ UNCHANGED <<db, draft, tools>>
  BY DEF EditChapter
<1>2. versions[c] + 1 \in Nat
  BY <1>1, TableRows DEF SInv, TypeOK
<1>3. versions' \in Table(Chapter, Nat)
  BY <1>1, <1>2, TableExcept DEF SInv, TypeOK
<1> QED
  BY <1>1, <1>3, UserStep DEF SInv, TypeOK, Named

-----------------------------------------------------------------------------
(* Every step.                                                               *)
LEMMA InitHolds == Init => SInv
<1> SUFFICES ASSUME Init PROVE SInv
  OBVIOUS
<1>1. PICK names \in SUBSET Term : db = Started(names)
  BY DEF Init
<1> DEFINE terms == [t \in names |-> "pending"]
<1>2. terms \in Table(Term, Review)
  <2>1. terms = [t \in names |-> terms[t]] /\ \A t \in names : terms[t] \in Review
    BY DEF Review
  <2> HIDE DEF terms
  <2> QED
    BY <2>1, TableMap
<1>3. db = [terms |-> terms, rows |-> <<>>, links |-> <<>>, renderings |-> <<>>]
  BY <1>1 DEF Started
<1> HIDE DEF terms
<1>4. /\ <<>> \in Table(Memory, Row) /\ <<>> \in Table(Memory, SUBSET Term)
      /\ <<>> \in Table(Term, Rendering) /\ DOMAIN <<>> = {}
  BY NoRows
<1>5. db \in Store
  BY <1>2, <1>3, <1>4 DEF Store
<1>6. versions \in Table(Chapter, Nat)
  <2> DEFINE f == [c \in Chapter |-> 1]
  <2>1. f = [c \in Chapter |-> f[c]] /\ \A c \in Chapter : f[c] \in Nat
    OBVIOUS
  <2>2. versions = f
    BY DEF Init
  <2> HIDE DEF f
  <2> QED
    BY <2>1, <2>2, TableMap
<1>7. draft \in [Agent -> Resting \cup AtWork] /\ \A a \in Agent : draft[a] = Idle
  BY IdleRests DEF Init
<1>8. DOMAIN Idle.rows = {}
  BY IdleRests, NoRows
<1>9. TypeOK
  BY <1>5, <1>6, <1>7 DEF TypeOK, Init
<1>10. Named /\ Chained(db.rows) /\ Apart /\ \A a \in Agent : Ahead(draft[a].rows, db.rows)
  BY <1>3, <1>4, <1>7, <1>8 DEF Named, Chained, Apart, Ahead
<1> QED
  BY <1>9, <1>10 DEF SInv

LEMMA Asked ==
    /\ \A mark \in Mark : mark \in Marks
    /\ \A scope \in Lasting : scope \in Scope \cup {"default"}
  BY StoreAssumption DEF Marks

LEMMA WritingHolds ==
    ASSUME SInv, NEW a \in Agent, Writing(a)
    PROVE  SInv'
<1>1. ASSUME NEW t \in Term, AddTerm(a, t)
      PROVE  SInv'
  BY <1>1, AddTermStep
<1>2. ASSUME NEW name \in tools \cap DOMAIN ToolOf, NEW m \in Memory, NEW names \in SUBSET Term,
             NEW mark \in ToolOf[name].marks \cap Mark, NEW scope \in ToolOf[name].scopes \cap Lasting,
             Create(a, name, m, mark, scope, names)
      PROVE  SInv'
  BY <1>2, Asked, CreateStep
<1>3. ASSUME NEW name \in tools \cap DOMAIN ToolOf, NEW m \in Memory, NEW names \in SUBSET Term,
             NEW mark \in ToolOf[name].marks \cap Mark, NEW scope \in ToolOf[name].scopes \cap Lasting,
             NEW p \in Memory, Supersede(a, name, p, m, mark, scope, names)
      PROVE  SInv'
  BY <1>3, Asked, SupersedeStep
<1>4. ASSUME NEW name \in tools \cap DOMAIN ToolOf, NEW p \in Memory, Expire(a, name, p)
      PROVE  SInv'
  BY <1>4, ExpireStep
<1>5. ASSUME NEW m \in Memory, NEW t \in Term, Transform(a, m, t)
      PROVE  SInv'
  BY <1>5, TransformStep
<1>6. ASSUME NEW m \in Memory, NEW p \in Memory, NEW t \in Term, Correct(a, p, m, t)
      PROVE  SInv'
  BY <1>6, CorrectStep
<1> QED
  BY <1>1, <1>2, <1>3, <1>4, <1>5, <1>6 DEF Writing

LEMMA RunningHolds ==
    ASSUME SInv, NEW a \in Agent, Running(a)
    PROVE  SInv'
<1>1. ASSUME NEW c \in Chapter, BeginRecording(a, c)
      PROVE  SInv'
  BY <1>1, BeginStep
<1>2. ASSUME NEW c \in Chapter, NEW found \in SUBSET Term, BeginNaming(a, c, found)
      PROVE  SInv'
  BY <1>2, BeginStep
<1>3. ASSUME NEW m \in Memory, FinishRecording(a, m)
      PROVE  SInv'
  BY <1>3, FinishRecordingStep
<1>4. CASE FinishNaming(a)
  BY <1>4, FinishNamingStep
<1>5. CASE Abort(a)
  BY <1>5, AbortStep
<1> QED
  BY <1>1, <1>2, <1>3, <1>4, <1>5 DEF Running

LEMMA UserMemoryHolds ==
    ASSUME SInv, UserMemory
    PROVE  SInv'
<1>1. ASSUME NEW m \in Memory, NEW status \in Review, ReviewMemory(m, status)
      PROVE  SInv'
  BY <1>1, ReviewMemoryStep
<1>2. ASSUME NEW m \in Memory, NEW c \in Chapter, ExpireMemory(m, c)
      PROVE  SInv'
  BY <1>2, ExpireMemoryStep
<1>3. ASSUME NEW m \in Memory, DeleteMemory(m)
      PROVE  SInv'
  BY <1>3, DeleteMemoryStep
<1>4. ASSUME NEW m \in Memory, NEW names \in SUBSET Term, ReplaceTerms(m, names)
      PROVE  SInv'
  BY <1>4, ReplaceTermsStep
<1>5. ASSUME NEW m \in Memory, NEW mark \in Mark, UpdateMemory(m, mark)
      PROVE  SInv'
  BY <1>5, UpdateMemoryStep
<1>6. ASSUME NEW m \in Memory, NEW name \in tools \cap DOMAIN ToolOf, NEW c \in Chapter,
             NEW names \in SUBSET Term, NEW mark \in Mark,
             CreateByUser(m, ToolOf[name].type, mark, c, "default", names)
      PROVE  SInv'
  BY <1>6, ToolTypes, CreateByUserStep
<1> QED
  BY <1>1, <1>2, <1>3, <1>4, <1>5, <1>6 DEF UserMemory

LEMMA UserTermsHolds ==
    ASSUME SInv, UserTerms
    PROVE  SInv'
<1>1. ASSUME NEW t \in Term, CreateTerm(t) \/ \E status \in Review : ReviewTerm(t, status)
      PROVE  SInv'
  BY <1>1, TermStep
<1>2. ASSUME NEW t \in Term, DeleteTerm(t)
      PROVE  SInv'
  BY <1>2, DeleteTermStep
<1>3. ASSUME NEW t \in Term,
             \/ SaveTranslation(t) \/ DeleteTranslation(t)
             \/ \E status \in Review : ReviewTranslation(t, status)
      PROVE  SInv'
  BY <1>3, TranslationStep
<1>4. ASSUME NEW t \in Term, NEW u \in Term, RenameTerm(t, u)
      PROVE  SInv'
  BY <1>4, RenameTermStep
<1> QED
  BY <1>1, <1>2, <1>3, <1>4 DEF UserTerms

LEMMA NextHolds == SInv /\ [Next]_vars => SInv'
<1> SUFFICES ASSUME SInv, [Next]_vars PROVE SInv'
  OBVIOUS
<1>1. ASSUME NEW a \in Agent, Writing(a) \/ Running(a)
      PROVE  SInv'
  BY <1>1, WritingHolds, RunningHolds
<1>2. CASE UserMemory
  BY <1>2, UserMemoryHolds
<1>3. CASE UserTerms
  BY <1>3, UserTermsHolds
<1>4. ASSUME NEW c \in Chapter, EditChapter(c) \/ RemoveChapter(c)
      PROVE  SInv'
  BY <1>4, EditChapterStep, RemoveChapterStep
<1>5. CASE UNCHANGED vars
  BY <1>5 DEF vars, SInv, TypeOK, Named, Apart
<1> QED
  BY <1>1, <1>2, <1>3, <1>4, <1>5 DEF Next, Chapters

-----------------------------------------------------------------------------
\* The types of what is stored and of what runs have written, the chains of
\* replaced memories, and that no two runs write one memory (access.py, the
\* glossary's tools and service.py).
THEOREM Invariance == Spec => []SInv
<1> QED
  BY InitHolds, NextHolds, PTL DEF Spec

\* A memory and the one that replaced it are of one type and never active in
\* one chapter, for any number of runs, users' edits and chapters
\* (write_memory and expire_memory of access.py).
THEOREM SuccessorsTakeOver == Spec => []Succession
<1>1. ASSUME SInv
      PROVE  Succession
  <2> SUFFICES ASSUME NEW m \in DOMAIN db.rows, db.rows[m].sup \in DOMAIN db.rows
               PROVE  /\ db.rows[db.rows[m].sup].type = db.rows[m].type
                      /\ \A c \in Chapter :
                            ~(Active(db.rows[db.rows[m].sup], c) /\ Active(db.rows[m], c))
    BY DEF Succession
  <2> DEFINE p == db.rows[m].sup
  <2>1. DOMAIN db.rows \subseteq Memory /\ \A n \in DOMAIN db.rows : db.rows[n] \in Row
    BY <1>1, StoreFields, TableRows DEF SInv
  <2>2. p # 0
    BY <2>1, Numbers
  <2>3. Fits(db.rows[p], db.rows[m])
    BY <1>1, <2>2 DEF SInv, Chained
  <2>4. db.rows[p].end \in Nat /\ db.rows[m].start \in Nat
    BY <2>1, Numbers DEF Row, RowOf
  <2> HIDE DEF p
  <2>5. ASSUME NEW c \in Chapter
        PROVE  ~(Active(db.rows[p], c) /\ Active(db.rows[m], c))
    BY <2>3, <2>4, Numbers DEF Fits, Active, Open
  <2> QED
    BY <2>3, <2>5 DEF Fits, p
<1> QED
  BY <1>1, Invariance, PTL

\* What a run commits leaves the translations and summaries that users
\* accepted or made meanwhile as they are (translations/access.py, continuity.py).
THEOREM ReviewedRowsKept == Spec => ReviewedKept
<1> DEFINE Kept ==
        /\ \A t \in DOMAIN db.renderings :
               Usable(db.renderings[t].review) => db'.renderings[t] = db.renderings[t]
        /\ \A m \in DOMAIN db.rows :
               db.rows[m].type = "summary" /\ db.rows[m].review # "pending" => db'.rows[m] = db.rows[m]
<1>1. ASSUME SInv, [Next]_vars, draft # draft'
      PROVE  Kept
  <2>1. ASSUME NEW a \in Agent, NEW m \in Memory, FinishRecording(a, m)
        PROVE  Kept
    <3> DEFINE S == Summarised(a, m)
               own == draft[a].rows
               C == Over(own, db.rows)
    <3>1. /\ Busy(a) /\ ("continuity" \in tools => m \in Unused)
          /\ db'.rows = Over(S, C) /\ db'.renderings = db.renderings
      BY <2>1, <1>1 DEF FinishRecording, SInv, TypeOK, Store
    <3>2. \/ \A s \in DOMAIN S : s \in DOMAIN db.rows /\ MayRewrite(db.rows[s])
          \/ m \in Unused /\ \E new : S = One(m, new) /\ new.sup = 0
      BY <1>1, <3>1, SummaryIs
    <3> HIDE DEF S
    <3>3. /\ DOMAIN C = DOMAIN own \cup DOMAIN db.rows
          /\ \A x \in DOMAIN own : C[x] = own[x]
          /\ \A x \in DOMAIN db.rows \ DOMAIN own : C[x] = db.rows[x]
      BY OverRows
    <3> HIDE DEF C
    <3>4. \A x \in DOMAIN C \ DOMAIN S : db'.rows[x] = C[x]
      <4>1. \A x \in DOMAIN C \ DOMAIN S : Over(S, C)[x] = C[x]
        BY OverRows
      <4> QED
        BY <3>1, <4>1
    <3>5. ASSUME NEW n \in DOMAIN db.rows, db.rows[n].type = "summary", db.rows[n].review # "pending"
          PROVE  db'.rows[n] = db.rows[n]
      <4>1. n \notin DOMAIN own
        <5>1. SUFFICES ASSUME n \in DOMAIN own PROVE FALSE
          OBVIOUS
        <5>2. own[n] \in RowOf(Types)
          BY <1>1, <5>1, RunFields, TableRows DEF SInv, TypeOK
        <5>3. Lowered(own[n], db.rows[n])
          BY <1>1, <5>1 DEF SInv, Ahead
        <5> QED
          BY <3>5, <5>2, <5>3, OneType DEF Lowered
      <4>2. n \notin DOMAIN S
        <5>1. CASE \A s \in DOMAIN S : s \in DOMAIN db.rows /\ MayRewrite(db.rows[s])
          BY <5>1, <3>5 DEF MayRewrite
        <5>2. CASE m \in Unused /\ \E new : S = One(m, new) /\ new.sup = 0
          <6>1. DOMAIN S = {m}
            BY <5>2, OneRow
          <6> QED
            BY <5>2, <6>1, NewId
        <5> QED
          BY <5>1, <5>2, <3>2
      <4> QED
        BY <4>1, <4>2, <3>3, <3>4
    <3> QED
      BY <3>1, <3>5
  <2>2. ASSUME NEW a \in Agent, FinishNaming(a)
        PROVE  Kept
    <3> DEFINE names == {t \in draft[a].need : MayName(t)}
               new == [t \in names |-> [text |-> "agent", review |-> "pending", by |-> "agent"]]
    <3>1. db'.rows = db.rows /\ db'.renderings = Over(new, db.renderings)
      BY <2>2, <1>1 DEF FinishNaming, SInv, TypeOK, Store
    <3>2. DOMAIN new = names
      OBVIOUS
    <3>3. ASSUME NEW t \in DOMAIN db.renderings, Usable(db.renderings[t].review)
          PROVE  t \notin names
      BY <3>3 DEF MayName, Rendered
    <3> HIDE DEF new, names
    <3>4. \A x \in DOMAIN db.renderings \ DOMAIN new : Over(new, db.renderings)[x] = db.renderings[x]
      BY OverRows
    <3> QED
      BY <3>1, <3>2, <3>3, <3>4
  <2>3. ASSUME UNCHANGED db
        PROVE  Kept
    BY <2>3
  <2>4. ASSUME UNCHANGED draft
        PROVE  Kept
    BY <1>1, <2>4
  <2>5. ASSUME NEW a \in Agent, Writing(a)
        PROVE  UNCHANGED db
    <3>1. \A t : AddTerm(a, t) => UNCHANGED db
      BY DEF AddTerm
    <3>2. \A name, m, mark, scope, names : Create(a, name, m, mark, scope, names) => UNCHANGED db
      BY DEF Create
    <3>3. \A name, p, m, mark, scope, names : Supersede(a, name, p, m, mark, scope, names) => UNCHANGED db
      BY DEF Supersede
    <3>4. \A name, p : Expire(a, name, p) => UNCHANGED db
      BY DEF Expire
    <3>5. \A m, t : Transform(a, m, t) => UNCHANGED db
      BY DEF Transform
    <3>6. \A p, m, t : Correct(a, p, m, t) => UNCHANGED db
      BY DEF Correct
    <3> QED
      BY <2>5, <3>1, <3>2, <3>3, <3>4, <3>5, <3>6 DEF Writing
  <2>6. ASSUME NEW a \in Agent, Running(a)
        PROVE  \/ UNCHANGED db \/ FinishNaming(a)
               \/ \E m \in Memory : FinishRecording(a, m)
    BY <2>6 DEF Running, BeginRecording, BeginNaming, Abort
  <2>7. CASE UserMemory \/ UserTerms \/ Chapters
    <3>1. UNCHANGED draft
      BY <2>7 DEF UserMemory, UserTerms, Chapters, ReviewMemory, ExpireMemory, DeleteMemory, ReplaceTerms,
                  UpdateMemory, CreateByUser, CreateTerm, DeleteTerm, SaveTranslation, DeleteTranslation,
                  ReviewTerm, ReviewTranslation, RenameTerm, EditChapter, RemoveChapter
    <3> QED
      BY <3>1, <2>4
  <2>8. CASE UNCHANGED vars
    BY <2>8, <2>4 DEF vars
  <2> QED
    BY <1>1, <2>1, <2>2, <2>3, <2>5, <2>6, <2>7, <2>8 DEF Next
<1>2. SInv /\ [Next]_vars => [draft # draft' => Kept]_vars
  BY <1>1
<1> QED
  BY <1>2, Invariance, PTL DEF Spec, ReviewedKept

-----------------------------------------------------------------------------
(* Numbers and orders.                                                      *)
\* A set of numbers that is not empty has a least one.
LEMMA LeastNat ==
  ASSUME NEW T \in SUBSET Nat, T # {}
  PROVE  \E n \in T : \A m \in T : n <= m
<1> DEFINE R == OpToRel(<, Nat)
<1>1. IsWellFoundedOn(R, Nat)
  BY NatLessThanWellFounded
<1>2. \A x, y \in Nat : y < x => <<y, x>> \in R
  BY DEF OpToRel
<1> HIDE DEF R
<1>3. PICK n \in T : \A y \in T : ~(<<y, n>> \in R)
  BY <1>1, WFMin
<1>4. ASSUME NEW m \in T PROVE n <= m
  <2>1. ~(m < n)
    BY <1>2, <1>3
  <2> QED BY <2>1
<1> QED BY <1>4

LEMMA Climbs ==
  ASSUME NEW a \in Int, NEW b \in Int, a <= b, NEW T, a \in T, \A n \in a + 1..b : n - 1 \in T => n \in T
  PROVE  \A n \in a..b : n \in T
<1> DEFINE M == {k \in Nat : a + k <= b /\ a + k \notin T}
<1>1. M = {}
  <2> SUFFICES ASSUME M # {} PROVE FALSE
    OBVIOUS
  <2>1. PICK k \in M : \A m \in M : k <= m
    BY LeastNat
  <2>2. k \in Nat /\ a + k <= b /\ a + k \notin T /\ k # 0
    OBVIOUS
  <2>3. k - 1 \in Nat /\ a + (k - 1) <= b /\ ~(k <= k - 1)
    BY <2>2
  <2>4. a + (k - 1) \in T
    BY <2>1, <2>3
  <2>5. a + k \in a + 1..b /\ (a + k) - 1 = a + (k - 1)
    BY <2>2
  <2> QED BY <2>2, <2>4, <2>5
<1> SUFFICES ASSUME NEW n \in a..b PROVE n \in T
  OBVIOUS
<1>2. n - a \in Nat /\ a + (n - a) = n /\ n <= b
  OBVIOUS
<1>3. n - a \notin M
  BY <1>1
<1> QED BY <1>2, <1>3

\* A set that a relation orders has an enumeration in that order.
Orders(R, D) ==
  /\ IsFiniteSet(D)
  /\ \A x, y \in D : x = y \/ <<x, y>> \in R \/ <<y, x>> \in R
  /\ \A x, y, z \in D : <<x, y>> \in R /\ <<y, z>> \in R => <<x, z>> \in R
  /\ \A x \in D : <<x, x>> \notin R

LEMMA OrderedIs ==
  ASSUME NEW D, NEW R, Orders(R, D)
  PROVE  LET q == Ordered(D, R)
             c == Cardinality(D)
         IN  /\ c \in Nat /\ q \in [1..c -> D]
             /\ \A n \in 1..c : \A m \in 1..n - 1 : <<q[m], q[n]>> \in R
             /\ \A m, n \in 1..c : q[m] = q[n] => m = n
             /\ \A x \in D : \E n \in 1..c : q[n] = x
<1> DEFINE c == Cardinality(D)
           below(x) == {y \in D : <<y, x>> \in R}
           rank == [x \in D |-> Cardinality(below(x)) + 1]
<1>1. IsFiniteSet(D) /\ c \in Nat /\ IsFiniteSet(1..c) /\ Cardinality(1..c) = c
  <2>1. IsFiniteSet(D)
    BY DEF Orders
  <2>2. c \in Nat
    BY <2>1, FS_CardinalityType
  <2>3. IsFiniteSet(1..c) /\ Cardinality(1..c) = IF 1 > c THEN 0 ELSE c - 1 + 1
    BY <2>2, FS_Interval
  <2> QED BY <2>1, <2>2, <2>3
<1>2. ASSUME NEW x \in D
      PROVE  IsFiniteSet(below(x)) /\ Cardinality(below(x)) \in Nat /\ Cardinality(below(x)) < c
  <2>1. below(x) \in SUBSET D /\ x \notin below(x)
    BY DEF Orders
  <2> HIDE DEF below
  <2>2. IsFiniteSet(below(x)) /\ Cardinality(below(x)) <= c /\ (c = Cardinality(below(x)) => D = below(x))
    BY <2>1, <1>1, FS_Subset
  <2>3. Cardinality(below(x)) \in Nat
    BY <2>2, FS_CardinalityType
  <2> QED BY <2>1, <2>2, <2>3, <1>1
<1>3. ASSUME NEW x \in D, NEW y \in D, <<x, y>> \in R
      PROVE  Cardinality(below(x)) < Cardinality(below(y))
  <2>1. below(x) \in SUBSET below(y) /\ x \in below(y) /\ x \notin below(x)
    BY <1>3 DEF Orders
  <2>2. IsFiniteSet(below(y)) /\ Cardinality(below(x)) \in Nat /\ Cardinality(below(y)) \in Nat
    BY <1>2
  <2> HIDE DEF below
  <2>3. Cardinality(below(x)) <= Cardinality(below(y))
        /\ (Cardinality(below(y)) = Cardinality(below(x)) => below(y) = below(x))
    BY <2>1, <2>2, FS_Subset
  <2> QED BY <2>1, <2>2, <2>3
<1>4. rank \in Injection(D, 1..c)
  <2>1. \A x \in D : rank[x] = Cardinality(below(x)) + 1
    OBVIOUS
  <2>2. \A x \in D : rank[x] \in 1..c
    <3> SUFFICES ASSUME NEW x \in D PROVE Cardinality(below(x)) + 1 \in 1..c
      BY <2>1
    <3>1. Cardinality(below(x)) \in Nat /\ Cardinality(below(x)) < c
      BY <1>2
    <3> HIDE DEF below, c
    <3> QED BY <3>1, <1>1
  <2>3. rank \in [D -> 1..c]
    BY <2>2
  <2>4. ASSUME NEW x \in D, NEW y \in D, rank[x] = rank[y] PROVE x = y
    <3>1. x = y \/ <<x, y>> \in R \/ <<y, x>> \in R
      BY DEF Orders
    <3>2. Cardinality(below(x)) = Cardinality(below(y)) /\ Cardinality(below(x)) \in Nat
      <4>1. Cardinality(below(x)) \in Nat /\ Cardinality(below(y)) \in Nat
        BY <1>2
      <4>2. rank[x] = Cardinality(below(x)) + 1 /\ rank[y] = Cardinality(below(y)) + 1
        BY <2>1
      <4> HIDE DEF below, rank
      <4> QED BY <4>1, <4>2, <2>4
    <3> HIDE DEF below
    <3> QED BY <3>1, <3>2, <1>3
  <2> HIDE DEF rank
  <2> QED BY <2>3, <2>4 DEF Injection, IsInjective
<1>5. \A n \in 1..c : \E x \in D : rank[x] = n
  <2> HIDE DEF rank
  <2>1. Cardinality(D) = Cardinality(1..c) <=> rank \in Surjection(D, 1..c)
    BY <1>1, <1>4, FS_Injection
  <2>2. rank \in Surjection(D, 1..c)
    BY <2>1, <1>1
  <2> QED BY <2>2 DEF Surjection
<1> DEFINE p == [n \in 1..c |-> CHOOSE x \in D : rank[x] = n]
<1>6. p \in [1..c -> D] /\ \A n \in 1..c : rank[p[n]] = n
  <2> HIDE DEF rank
  <2> QED BY <1>5
<1>7. \A n \in 1..c : \A m \in 1..n - 1 : <<p[m], p[n]>> \in R
  <2> SUFFICES ASSUME NEW n \in 1..c, NEW m \in 1..n - 1 PROVE <<p[m], p[n]>> \in R
    OBVIOUS
  <2>1. m \in 1..c /\ m < n /\ n \in Nat /\ m \in Nat
    BY <1>1
  <2> HIDE DEF p
  <2>2. p[m] \in D /\ p[n] \in D /\ rank[p[m]] = m /\ rank[p[n]] = n
    BY <1>6, <2>1
  <2>3. rank[p[m]] = Cardinality(below(p[m])) + 1 /\ rank[p[n]] = Cardinality(below(p[n])) + 1
        /\ Cardinality(below(p[m])) \in Nat /\ Cardinality(below(p[n])) \in Nat
    BY <2>2, <1>2
  <2> HIDE DEF rank, below
  <2>4. p[m] # p[n]
    BY <2>1, <2>2
  <2>5. ~(<<p[n], p[m]>> \in R)
    <3> SUFFICES ASSUME <<p[n], p[m]>> \in R PROVE FALSE
      OBVIOUS
    <3>1. Cardinality(below(p[n])) < Cardinality(below(p[m]))
      BY <2>2, <1>3
    <3> QED BY <3>1, <2>1, <2>2, <2>3
  <2> QED BY <2>2, <2>4, <2>5 DEF Orders
<1> DEFINE q == Ordered(D, R)
           Good(f) == f \in [1..c -> D] /\ \A n \in DOMAIN f : \A m \in 1..n - 1 : <<f[m], f[n]>> \in R
<1>8. q \in [1..c -> D] /\ \A n \in DOMAIN q : \A m \in 1..n - 1 : <<q[m], q[n]>> \in R
  <2>1. DOMAIN p = 1..c
    OBVIOUS
  <2> HIDE DEF p, c
  <2>2. \E f \in [1..c -> D] : \A n \in DOMAIN f : \A m \in 1..n - 1 : <<f[m], f[n]>> \in R
    BY <2>1, <1>6, <1>7
  <2>3. q = CHOOSE f \in [1..c -> D] : \A n \in DOMAIN f : \A m \in 1..n - 1 : <<f[m], f[n]>> \in R
    BY DEF Ordered, c
  <2> QED BY <2>2, <2>3
<1>9. DOMAIN q = 1..c
  BY <1>8
<1> HIDE DEF q, p, rank
<1>10. ASSUME NEW m \in 1..c, NEW n \in 1..c, q[m] = q[n] PROVE m = n
  <2>1. q[m] \in D /\ q[n] \in D /\ <<q[m], q[n]>> \notin R /\ <<q[n], q[m]>> \notin R
    BY <1>8, <1>10 DEF Orders
  <2>2. ~(m < n) /\ ~(n < m)
    BY <2>1, <1>8, <1>9, <1>1
  <2> QED BY <2>2, <1>1
<1>11. q \in Injection(1..c, D)
  BY <1>8, <1>10 DEF Injection, IsInjective
<1>12. q \in Surjection(1..c, D)
  <2>1. Cardinality(1..c) = Cardinality(D) <=> q \in Surjection(1..c, D)
    BY <1>1, <1>11, FS_Injection
  <2> QED BY <2>1, <1>1
<1>13. \A x \in D : \E n \in 1..c : q[n] = x
  BY <1>12 DEF Surjection
<1>14. \A n \in 1..c : \A m \in 1..n - 1 : <<q[m], q[n]>> \in R
  BY <1>8, <1>9
<1>15. /\ c \in Nat /\ q \in [1..c -> D]
       /\ \A n \in 1..c : \A m \in 1..n - 1 : <<q[m], q[n]>> \in R
       /\ \A m, n \in 1..c : q[m] = q[n] => m = n
       /\ \A x \in D : \E n \in 1..c : q[n] = x
  BY <1>1, <1>8, <1>10, <1>13, <1>14
<1> QED BY <1>15 DEF q

-----------------------------------------------------------------------------
(* Links between two terms, as a reader follows them.                        *)
Pairs(v, edges) ==
    /\ IsFiniteSet(DOMAIN v.terms) /\ DOMAIN v.terms \subseteq Nat
    /\ IsFiniteSet(edges) /\ edges \subseteq Nat
    /\ \A m \in edges : /\ v.rows[m].start \in Nat
                        /\ \E t, u \in DOMAIN v.terms : t # u /\ v.links[m] = {t, u}

LEMMA NeighboursAre ==
    ASSUME NEW v, NEW edges, Pairs(v, edges), NEW t \in DOMAIN v.terms
    PROVE  LET ns == Neighbours(v, edges, t)
               c == Len(ns)
           IN /\ c \in Nat
              /\ \A i \in 1..c : /\ ns[i].link \in edges /\ ns[i].term \in DOMAIN v.terms
                                 /\ v.links[ns[i].link] = {t, ns[i].term}
              /\ \A m \in edges : t \in v.links[m] => \E i \in 1..c : ns[i].link = m
<1> DEFINE at == {m \in edges : t \in v.links[m]}
           other == [m \in at |-> CHOOSE u \in v.links[m] : u # t]
           rank(x, y) == \/ other[x] < other[y]
                         \/ other[x] = other[y] /\ v.rows[x].start > v.rows[y].start
                         \/ other[x] = other[y] /\ v.rows[x].start = v.rows[y].start /\ x < y
           R == {p \in at \X at :
                      LET m == p[1]
                          n == p[2]
                      IN \/ other[m] < other[n]
                         \/ other[m] = other[n] /\ v.rows[m].start > v.rows[n].start
                         \/ other[m] = other[n] /\ v.rows[m].start = v.rows[n].start /\ m < n}
           c == Cardinality(at)
           q == Ordered(at, R)
           ns == [i \in 1..c |-> [link |-> q[i], term |-> other[q[i]]]]
<1>1. Neighbours(v, edges, t) = ns
  BY DEF Neighbours
<1>2. ASSUME NEW m \in at
      PROVE  other[m] \in DOMAIN v.terms /\ v.links[m] = {t, other[m]} /\ v.rows[m].start \in Nat /\ m \in Nat
  <2>1. PICK x, y \in DOMAIN v.terms : x # y /\ v.links[m] = {x, y}
    BY DEF Pairs
  <2>2. t \in {x, y} /\ v.rows[m].start \in Nat /\ m \in Nat
    BY <2>1 DEF Pairs
  <2>3. \E u \in v.links[m] : u # t
    BY <2>1, <2>2
  <2>4. other[m] \in v.links[m] /\ other[m] # t
    BY <2>3
  <2> HIDE DEF other
  <2> QED
    BY <2>1, <2>2, <2>4
<1>3. Orders(R, at)
  <2>1. IsFiniteSet(at)
    BY FS_Subset DEF Pairs
  <2>2. \A x, y \in at : <<x, y>> \in R <=> rank(x, y)
    OBVIOUS
  <2>3. \A x \in at : x \in Nat /\ other[x] \in Nat /\ v.rows[x].start \in Nat
    BY <1>2 DEF Pairs
  <2>4. R \subseteq at \X at
    OBVIOUS
  <2> HIDE DEF R, at, other
  <2>5. ASSUME NEW x \in at, NEW y \in at
        PROVE  x = y \/ <<x, y>> \in R \/ <<y, x>> \in R
    <3>1. x = y \/ rank(x, y) \/ rank(y, x)
      BY <2>3
    <3> QED
      BY <3>1, <2>2
  <2>6. ASSUME NEW x \in at, NEW y \in at, NEW z \in at, <<x, y>> \in R, <<y, z>> \in R
        PROVE  <<x, z>> \in R
    <3>1. rank(x, y) /\ rank(y, z)
      BY <2>2, <2>6
    <3>2. rank(x, z)
      BY <3>1, <2>3
    <3> QED
      BY <3>2, <2>2
  <2>7. ASSUME NEW x \in at
        PROVE  <<x, x>> \notin R
    <3>1. ~rank(x, x)
      BY <2>3
    <3> QED
      BY <3>1, <2>2
  <2> QED
    BY <2>1, <2>5, <2>6, <2>7 DEF Orders
<1>4. /\ c \in Nat /\ q \in [1..c -> at]
      /\ \A x \in at : \E n \in 1..c : q[n] = x
  <2> HIDE DEF at, R
  <2> QED
    BY <1>3, OrderedIs
<1> HIDE DEF q, c, R
<1>5. DOMAIN ns = 1..c /\ Len(ns) = c
  BY <1>4
<1>6. \A i \in 1..c : q[i] \in at /\ ns[i].link = q[i] /\ ns[i].term = other[q[i]]
  BY <1>4
<1> HIDE DEF ns, other
<1>7. \A i \in 1..c : /\ ns[i].link \in edges /\ ns[i].term \in DOMAIN v.terms
                      /\ v.links[ns[i].link] = {t, ns[i].term}
  BY <1>2, <1>6
<1>8. \A m \in edges : t \in v.links[m] => \E i \in 1..c : ns[i].link = m
  BY <1>4, <1>6
<1>9. c = Len(ns)
  BY <1>5
<1> HIDE DEF c
<1>10. /\ Len(ns) \in Nat
       /\ \A i \in 1..Len(ns) : /\ ns[i].link \in edges /\ ns[i].term \in DOMAIN v.terms
                                /\ v.links[ns[i].link] = {t, ns[i].term}
       /\ \A m \in edges : t \in v.links[m] => \E i \in 1..Len(ns) : ns[i].link = m
  BY <1>4, <1>7, <1>8, <1>9
<1> QED
  BY <1>1, <1>10

LEMMA LinkedIs ==
    ASSUME NEW v, NEW edges, NEW names, names \subseteq DOMAIN v.terms
    PROVE  LET all == Linked(v, edges, names)
           IN /\ names \subseteq all /\ all \subseteq DOMAIN v.terms
              /\ \A m \in edges : \A t \in all, u \in DOMAIN v.terms : v.links[m] = {t, u} => u \in all
              /\ \A S \in SUBSET DOMAIN v.terms :
                    names \subseteq S /\ (\A m \in edges : v.links[m] \cap S # {} => v.links[m] \subseteq S)
                        => all \subseteq S
<1> DEFINE all == Linked(v, edges, names)
           Shut(S) == names \subseteq S /\ \A m \in edges : v.links[m] \cap S # {} => v.links[m] \subseteq S
<1>1. \A t : t \in all <=> t \in DOMAIN v.terms /\ \A S \in SUBSET DOMAIN v.terms : Shut(S) => t \in S
  BY DEF Linked
<1> HIDE DEF all
<1>2. ASSUME NEW m \in edges, NEW t \in all, NEW u \in DOMAIN v.terms, v.links[m] = {t, u}
      PROVE  u \in all
  <2> SUFFICES ASSUME NEW S \in SUBSET DOMAIN v.terms, Shut(S) PROVE u \in S
    BY <1>1
  <2>1. t \in S
    BY <1>1
  <2> QED
    BY <2>1, <1>2
<1>3. names \subseteq all
  BY <1>1
<1>4. all \subseteq DOMAIN v.terms
  BY <1>1
<1>5. \A S \in SUBSET DOMAIN v.terms : Shut(S) => all \subseteq S
  BY <1>1
<1> QED
  BY <1>2, <1>3, <1>4, <1>5 DEF all

-----------------------------------------------------------------------------
(* The walk.  open is the term whose links are being followed.               *)
WalkOf(v, edges) ==
    [reached : SUBSET DOMAIN v.terms, used : SUBSET edges, truncated : BOOLEAN, queue : Seq(DOMAIN v.terms)]

Followed(v, edges, walk, t) == \A m \in edges : t \in v.links[m] => v.links[m] \subseteq walk.reached

Sane(v, edges, names, n, walk, open) ==
    /\ walk \in WalkOf(v, edges)
    /\ names \subseteq walk.reached /\ walk.reached \subseteq Linked(v, edges, names)
    /\ Cardinality(walk.reached) <= MaxAliasTerms \/ walk.reached = names
    /\ \A m \in walk.used : v.links[m] \subseteq walk.reached
    /\ n + Len(walk.queue) = Cardinality(walk.reached)
    /\ \A i \in DOMAIN walk.queue : walk.queue[i] \in walk.reached
    /\ walk.truncated \/ \A t \in walk.reached \ open :
            (\E i \in DOMAIN walk.queue : walk.queue[i] = t) \/ Followed(v, edges, walk, t)

LEMMA ReachSane ==
    ASSUME NEW v, NEW edges, Pairs(v, edges), NEW names, names \subseteq DOMAIN v.terms, NEW n \in Nat,
           NEW walk, NEW t, Sane(v, edges, names, n, walk, {t}), t \in walk.reached,
           NEW nb, nb.link \in edges, nb.term \in DOMAIN v.terms, v.links[nb.link] = {t, nb.term}
    PROVE  LET w == Reach(walk, nb)
           IN /\ Sane(v, edges, names, n, w, {t})
              /\ walk.reached \subseteq w.reached /\ (walk.truncated => w.truncated)
              /\ w.truncated \/ nb.term \in w.reached
<1> DEFINE w == Reach(walk, nb)
           D == DOMAIN v.terms
<1>0. /\ walk.reached \in SUBSET D /\ walk.used \in SUBSET edges /\ walk.truncated \in BOOLEAN
      /\ walk.queue \in Seq(D) /\ walk \in WalkOf(v, edges)
  BY DEF Sane, WalkOf
<1>1. CASE nb.link \in walk.used
  <2>1. w = walk
    BY <1>1 DEF Reach
  <2>2. nb.term \in walk.reached
    BY <1>1 DEF Sane
  <2> QED
    BY <2>1, <2>2
<1>2. CASE /\ nb.link \notin walk.used
           /\ \/ Cardinality(walk.used) >= MaxAliasEdges
              \/ nb.term \notin walk.reached /\ Cardinality(walk.reached) >= MaxAliasTerms
  <2>1. w = [walk EXCEPT !.truncated = TRUE]
    BY <1>2 DEF Reach
  <2>2. /\ w \in WalkOf(v, edges) /\ w.reached = walk.reached /\ w.used = walk.used
        /\ w.queue = walk.queue /\ w.truncated = TRUE
    BY <2>1, <1>0 DEF WalkOf
  <2> HIDE DEF w
  <2>3. Sane(v, edges, names, n, w, {t})
    BY <2>2 DEF Sane
  <2> QED
    BY <2>2, <2>3 DEF w
<1>3. CASE /\ nb.link \notin walk.used
           /\ ~(Cardinality(walk.used) >= MaxAliasEdges)
           /\ ~(nb.term \notin walk.reached /\ Cardinality(walk.reached) >= MaxAliasTerms)
  <2> DEFINE q == IF nb.term \in walk.reached THEN walk.queue ELSE Append(walk.queue, nb.term)
             r == walk.reached \cup {nb.term}
  <2>1. w = [walk EXCEPT !.used = @ \cup {nb.link}, !.reached = @ \cup {nb.term},
                         !.queue = IF nb.term \in walk.reached THEN @ ELSE Append(@, nb.term)]
    BY <1>3 DEF Reach
  <2>2. q \in Seq(D) /\ r \in SUBSET D
    <3>1. Append(walk.queue, nb.term) \in Seq(D)
      <4> DEFINE s == walk.queue
                 x == nb.term
      <4>1. s \in Seq(D) /\ x \in D
        BY <1>0
      <4> HIDE DEF s, x, D
      <4>2. Append(s, x) \in Seq(D)
        BY <4>1
      <4> QED
        BY <4>2 DEF s, x
    <3> QED
      BY <3>1, <1>0
  <2>3. /\ w.reached = r /\ w.used = walk.used \cup {nb.link}
        /\ w.queue = q /\ w.truncated = walk.truncated /\ w \in WalkOf(v, edges)
    <3>1. w.reached = r /\ w.used = walk.used \cup {nb.link} /\ w.queue = q /\ w.truncated = walk.truncated
      BY <2>1, <1>0 DEF WalkOf
    <3>2. w = [reached |-> w.reached, used |-> w.used, truncated |-> w.truncated, queue |-> w.queue]
      BY <2>1, <1>0 DEF WalkOf
    <3> HIDE DEF w, q, r
    <3> QED
      BY <3>1, <3>2, <2>2, <1>0 DEF WalkOf
  <2>4. /\ IsFiniteSet(walk.reached) /\ Cardinality(walk.reached) \in Nat
        /\ Cardinality(r) = IF nb.term \in walk.reached THEN Cardinality(walk.reached)
                            ELSE Cardinality(walk.reached) + 1
    <3> DEFINE S == walk.reached
               x == nb.term
    <3>1. IsFiniteSet(D) /\ S \in SUBSET D
      BY <1>0 DEF Pairs
    <3> HIDE DEF S, x, D
    <3>2. IsFiniteSet(S) /\ Cardinality(S) \in Nat
      BY <3>1, FS_Subset, FS_CardinalityType
    <3>3. Cardinality(S \cup {x}) = IF x \in S THEN Cardinality(S) ELSE Cardinality(S) + 1
      BY <3>2, FS_AddElement
    <3> QED
      BY <3>2, <3>3 DEF S, x
  <2>5. /\ Len(q) = IF nb.term \in walk.reached THEN Len(walk.queue) ELSE Len(walk.queue) + 1
        /\ \A i \in DOMAIN walk.queue : i \in DOMAIN q /\ q[i] = walk.queue[i]
        /\ nb.term \notin walk.reached => \E i \in DOMAIN q : q[i] = nb.term
        /\ \A i \in DOMAIN q : q[i] \in r
    <3>1. CASE nb.term \in walk.reached
      BY <3>1 DEF Sane
    <3>2. CASE nb.term \notin walk.reached
      <4>0. \A i \in 1..Len(walk.queue) : walk.queue[i] \in walk.reached
        BY <1>0 DEF Sane
      <4>1. /\ q = Append(walk.queue, nb.term) /\ Len(q) = Len(walk.queue) + 1
            /\ \A i \in 1..Len(walk.queue) : q[i] = walk.queue[i]
            /\ q[Len(walk.queue) + 1] = nb.term
            /\ DOMAIN q = 1..Len(walk.queue) + 1 /\ DOMAIN walk.queue = 1..Len(walk.queue)
            /\ Len(walk.queue) \in Nat
        BY <3>2, <1>0
      <4>2. Len(walk.queue) + 1 \in DOMAIN q
        BY <4>1
      <4> HIDE DEF q
      <4>3. ASSUME NEW i \in DOMAIN q PROVE q[i] \in r
        <5>1. i \in 1..Len(walk.queue) \/ i = Len(walk.queue) + 1
          BY <4>1
        <5> QED
          BY <5>1, <4>0, <4>1
      <4> QED
        BY <3>2, <4>1, <4>2, <4>3
    <3> QED
      BY <3>1, <3>2
  <2> HIDE DEF w, q
  <2>6. n + Len(q) = Cardinality(r)
    BY <2>4, <2>5, <1>0 DEF Sane
  <2>7. Cardinality(r) <= MaxAliasTerms \/ r = names
    <3>1. CASE nb.term \in walk.reached
      BY <3>1, <2>4 DEF Sane
    <3>2. CASE nb.term \notin walk.reached
      BY <3>2, <1>3, <2>4, AliasAssumption
    <3> QED
      BY <3>1, <3>2
  <2>8. nb.term \in Linked(v, edges, names)
    <3>1. t \in Linked(v, edges, names)
      BY DEF Sane
    <3> QED
      BY <3>1, LinkedIs
  <2>9. \A m \in w.used : v.links[m] \subseteq w.reached
    BY <2>3 DEF Sane
  <2>10. walk.truncated \/ \A x \in r \ {t} : (\E i \in DOMAIN q : q[i] = x) \/ Followed(v, edges, w, x)
    <3> SUFFICES ASSUME ~walk.truncated, NEW x \in r \ {t}, ~(\E i \in DOMAIN q : q[i] = x)
                 PROVE  Followed(v, edges, w, x)
      OBVIOUS
    <3>1. x \in walk.reached \ {t}
      BY <2>5
    <3>2. ~(\E i \in DOMAIN walk.queue : walk.queue[i] = x)
      BY <2>5
    <3>3. Followed(v, edges, walk, x)
      BY <3>1, <3>2 DEF Sane
    <3> QED
      BY <3>3, <2>3 DEF Followed
  <2>11. Sane(v, edges, names, n, w, {t})
    <3>1. names \subseteq r /\ r \subseteq Linked(v, edges, names)
      BY <2>8 DEF Sane
    <3>2. \A i \in DOMAIN w.queue : w.queue[i] \in w.reached
      BY <2>3, <2>5
    <3>3. n + Len(w.queue) = Cardinality(w.reached)
      BY <2>3, <2>6
    <3> HIDE DEF r
    <3> QED
      BY <3>1, <3>2, <3>3, <2>3, <2>6, <2>7, <2>9, <2>10 DEF Sane
  <2> QED
    BY <2>3, <2>11 DEF w
<1> QED
  BY <1>1, <1>2, <1>3

\* The head of the queue is taken.
LEMMA HeadSane ==
    ASSUME NEW v, NEW edges, NEW names, NEW n \in Nat, NEW walk,
           Sane(v, edges, names, n, walk, {}), walk.queue # <<>>
    PROVE  /\ Head(walk.queue) \in walk.reached
           /\ Sane(v, edges, names, n + 1, [walk EXCEPT !.queue = Tail(@)], {Head(walk.queue)})
<1> DEFINE w == [walk EXCEPT !.queue = Tail(@)]
           q == walk.queue
           t == Head(q)
<1>1. /\ walk.reached \in SUBSET DOMAIN v.terms /\ walk.used \in SUBSET edges /\ walk.truncated \in BOOLEAN
      /\ q \in Seq(DOMAIN v.terms) /\ walk \in WalkOf(v, edges) /\ q # <<>>
  BY DEF Sane, WalkOf
<1>2. /\ 1 \in DOMAIN q /\ t = q[1] /\ Tail(q) \in Seq(DOMAIN v.terms) /\ Len(Tail(q)) = Len(q) - 1
      /\ Len(q) \in Nat /\ \A i \in DOMAIN Tail(q) : i + 1 \in DOMAIN q /\ Tail(q)[i] = q[i + 1]
      /\ \A i \in DOMAIN q : i # 1 => i - 1 \in DOMAIN Tail(q) /\ Tail(q)[i - 1] = q[i]
  <2> DEFINE D == DOMAIN v.terms
  <2>1. q \in Seq(D) /\ q # <<>>
    BY <1>1
  <2> HIDE DEF q, D
  <2>2. Len(q) \in Nat /\ DOMAIN q = 1..Len(q) /\ Len(q) # 0
    BY <2>1
  <2>3. t = q[1] /\ Tail(q) \in Seq(D) /\ Len(Tail(q)) = Len(q) - 1 /\ DOMAIN Tail(q) = 1..Len(q) - 1
    BY <2>1, <2>2
  <2>4. \A i \in 1..Len(q) - 1 : Tail(q)[i] = q[i + 1]
    BY <2>1, <2>2
  <2>5. \A i \in 1..Len(q) : i # 1 => i - 1 \in 1..Len(q) - 1 /\ (i - 1) + 1 = i
    BY <2>2
  <2> QED
    BY <2>2, <2>3, <2>4, <2>5 DEF D
<1>3. /\ w.reached = walk.reached /\ w.used = walk.used /\ w.truncated = walk.truncated
      /\ w.queue = Tail(q) /\ w \in WalkOf(v, edges)
  BY <1>1, <1>2 DEF WalkOf
<1> HIDE DEF w
<1>4. \A i \in DOMAIN q : q[i] \in walk.reached
  BY DEF Sane
<1> HIDE DEF t
<1>5. \A x \in walk.reached \ {t} :
        (\E i \in DOMAIN q : q[i] = x) => \E i \in DOMAIN Tail(q) : Tail(q)[i] = x
  BY <1>2
<1>6. walk.truncated \/ \A x \in walk.reached \ {t} :
        (\E i \in DOMAIN w.queue : w.queue[i] = x) \/ Followed(v, edges, w, x)
  BY <1>3, <1>5 DEF Sane, Followed
<1>7. n + 1 + Len(Tail(q)) = Cardinality(w.reached)
  <2>1. n + Len(q) = Cardinality(w.reached)
    BY <1>3 DEF Sane
  <2>2. Len(Tail(q)) = Len(q) - 1 /\ Len(q) \in Nat
    BY <1>2
  <2> DEFINE a == Len(q)
             b == Len(Tail(q))
             c == Cardinality(w.reached)
  <2>3. n + a = c /\ b = a - 1 /\ a \in Nat
    BY <2>1, <2>2
  <2> HIDE DEF a, b, c
  <2>4. n + 1 + b = c
    BY <2>3
  <2> QED
    BY <2>4 DEF b, c
<1>8. \A i \in DOMAIN w.queue : w.queue[i] \in w.reached
  BY <1>2, <1>3, <1>4
<1> HIDE DEF q
<1>9. Sane(v, edges, names, n + 1, w, {t})
  BY <1>3, <1>6, <1>7, <1>8 DEF Sane, q
<1> QED
  BY <1>2, <1>4, <1>9 DEF w, q, t

\* h is the function that Visit defines, up to m.
Visiting(h, walk, ns, m) ==
    h = [i \in 0..m |-> IF i = 0 THEN [walk EXCEPT !.queue = Tail(@)] ELSE Reach(h[i - 1], ns[i])]

LEMMA VisitingIs ==
    ASSUME NEW walk, NEW ns, NEW m \in Nat
    PROVE  \E h : Visiting(h, walk, ns, m)
<1> DEFINE T == {n \in 0..m : \E h : Visiting(h, walk, ns, n)}
           e == [walk EXCEPT !.queue = Tail(@)]
<1>1. 0 \in T
  <2> DEFINE h == [n \in 0..0 |-> e]
  <2>1. h = [n \in 0..0 |-> IF n = 0 THEN e ELSE Reach(h[n - 1], ns[n])]
    OBVIOUS
  <2>2. Visiting(h, walk, ns, 0)
    BY <2>1 DEF Visiting
  <2> QED
    BY <2>2
<1>2. ASSUME NEW n \in 0 + 1..m, n - 1 \in T
      PROVE  n \in T
  <2>1. PICK h : Visiting(h, walk, ns, n - 1)
    BY <1>2
  <2> DEFINE B(f, k) == Reach(f[k - 1], ns[k])
             f == [k \in 0..n |-> IF k = n THEN B(h, n) ELSE h[k]]
  <2>2. h = [k \in 0..n - 1 |-> IF k = 0 THEN e ELSE B(h, k)]
    BY <2>1 DEF Visiting
  <2>3. n # 0 /\ n \in 0..n /\ n \in 0..m
    OBVIOUS
  <2>4. ASSUME NEW k \in 0..n
        PROVE  f[k] = IF k = 0 THEN e ELSE B(f, k)
    <3>1. CASE k = 0
      <4>1. k \in 0..n - 1 /\ k # n
        BY <3>1
      <4>2. h[k] = e
        BY <4>1, <3>1, <2>2
      <4> QED
        BY <4>1, <4>2, <3>1
    <3>2. CASE k # 0
      <4>1. k - 1 \in 0..n - 1 /\ k - 1 \in 0..n /\ k - 1 # n
        BY <3>2
      <4>2. f[k - 1] = h[k - 1]
        BY <4>1
      <4>3. B(f, k) = B(h, k)
        BY <4>2
      <4>4. CASE k = n
        BY <4>3, <4>4, <3>2
      <4>5. CASE k # n
        <5>1. k \in 0..n - 1
          BY <4>5
        <5>2. h[k] = B(h, k)
          BY <5>1, <3>2, <2>2
        <5> QED
          BY <5>2, <4>3, <4>5, <3>2
      <4> QED
        BY <4>4, <4>5
    <3> QED
      BY <3>1, <3>2
  <2> HIDE DEF B
  <2>5. f = [k \in 0..n |-> f[k]]
    OBVIOUS
  <2> HIDE DEF f
  <2>6. f = [k \in 0..n |-> IF k = 0 THEN e ELSE B(f, k)]
    BY <2>4, <2>5
  <2>7. Visiting(f, walk, ns, n)
    BY <2>6 DEF Visiting, B
  <2> QED
    BY <2>3, <2>7
<1> HIDE DEF T
<1>3. \A n \in 0..m : n \in T
  BY <1>1, <1>2, Climbs
<1> QED
  BY <1>3 DEF T

\* h is the function that Walk defines, up to m.
Turning(h, v, edges, start, m) ==
    h = [i \in 0..m |-> IF i = 0 THEN start ELSE Turn(v, edges, h[i - 1])]

LEMMA TurningIs ==
    ASSUME NEW v, NEW edges, NEW start, NEW m \in Nat
    PROVE  \E h : Turning(h, v, edges, start, m)
<1> DEFINE T == {n \in 0..m : \E h : Turning(h, v, edges, start, n)}
           e == start
<1>1. 0 \in T
  <2> DEFINE h == [n \in 0..0 |-> e]
  <2>1. h = [n \in 0..0 |-> IF n = 0 THEN e ELSE Turn(v, edges, h[n - 1])]
    OBVIOUS
  <2>2. Turning(h, v, edges, start, 0)
    BY <2>1 DEF Turning
  <2> QED
    BY <2>2
<1>2. ASSUME NEW n \in 0 + 1..m, n - 1 \in T
      PROVE  n \in T
  <2>1. PICK h : Turning(h, v, edges, start, n - 1)
    BY <1>2
  <2> DEFINE B(f, k) == Turn(v, edges, f[k - 1])
             f == [k \in 0..n |-> IF k = n THEN B(h, n) ELSE h[k]]
  <2>2. h = [k \in 0..n - 1 |-> IF k = 0 THEN e ELSE B(h, k)]
    BY <2>1 DEF Turning
  <2>3. n # 0 /\ n \in 0..n /\ n \in 0..m
    OBVIOUS
  <2>4. ASSUME NEW k \in 0..n
        PROVE  f[k] = IF k = 0 THEN e ELSE B(f, k)
    <3>1. CASE k = 0
      <4>1. k \in 0..n - 1 /\ k # n
        BY <3>1
      <4>2. h[k] = e
        BY <4>1, <3>1, <2>2
      <4> QED
        BY <4>1, <4>2, <3>1
    <3>2. CASE k # 0
      <4>1. k - 1 \in 0..n - 1 /\ k - 1 \in 0..n /\ k - 1 # n
        BY <3>2
      <4>2. f[k - 1] = h[k - 1]
        BY <4>1
      <4>3. B(f, k) = B(h, k)
        BY <4>2
      <4>4. CASE k = n
        BY <4>3, <4>4, <3>2
      <4>5. CASE k # n
        <5>1. k \in 0..n - 1
          BY <4>5
        <5>2. h[k] = B(h, k)
          BY <5>1, <3>2, <2>2
        <5> QED
          BY <5>2, <4>3, <4>5, <3>2
      <4> QED
        BY <4>4, <4>5
    <3> QED
      BY <3>1, <3>2
  <2> HIDE DEF B
  <2>5. f = [k \in 0..n |-> f[k]]
    OBVIOUS
  <2> HIDE DEF f
  <2>6. f = [k \in 0..n |-> IF k = 0 THEN e ELSE B(f, k)]
    BY <2>4, <2>5
  <2>7. Turning(f, v, edges, start, n)
    BY <2>6 DEF Turning, B
  <2> QED
    BY <2>3, <2>7
<1> HIDE DEF T
<1>3. \A n \in 0..m : n \in T
  BY <1>1, <1>2, Climbs
<1> QED
  BY <1>3 DEF T

\* The links of one term.
LEMMA VisitSane ==
    ASSUME NEW v, NEW edges, Pairs(v, edges), NEW names, names \subseteq DOMAIN v.terms, NEW n \in Nat,
           NEW walk, Sane(v, edges, names, n, walk, {}), walk.queue # <<>>
    PROVE  Sane(v, edges, names, n + 1, Visit(v, edges, walk), {})
<1> DEFINE t == Head(walk.queue)
           ns == Neighbours(v, edges, t)
           c == Len(ns)
           w0 == [walk EXCEPT !.queue = Tail(@)]
           h == CHOOSE f : Visiting(f, walk, ns, c)
<1>1. Visit(v, edges, walk) = h[c]
  BY DEF Visit, Visiting
<1>2. t \in walk.reached /\ t \in DOMAIN v.terms /\ Sane(v, edges, names, n + 1, w0, {t}) /\ w0.reached = walk.reached
  <2>1. walk \in WalkOf(v, edges)
    BY DEF Sane
  <2>2. w0.reached = walk.reached /\ walk.reached \subseteq DOMAIN v.terms
    BY <2>1 DEF WalkOf
  <2>3. t \in walk.reached /\ Sane(v, edges, names, n + 1, w0, {t})
    BY HeadSane
  <2> HIDE DEF w0, t
  <2> QED
    BY <2>2, <2>3
<1> HIDE DEF t
<1>3. /\ c \in Nat
      /\ \A i \in 1..c : /\ ns[i].link \in edges /\ ns[i].term \in DOMAIN v.terms
                         /\ v.links[ns[i].link] = {t, ns[i].term}
      /\ \A m \in edges : t \in v.links[m] => \E i \in 1..c : ns[i].link = m
  BY <1>2, NeighboursAre
<1> HIDE DEF ns
<1>4. Visiting(h, walk, ns, c)
  <2> HIDE DEF c
  <2>1. \E f : Visiting(f, walk, ns, c)
    BY <1>3, VisitingIs
  <2> QED
    BY <2>1 DEF c
<1> HIDE DEF h, c
<1>5. h[0] = w0 /\ \A i \in 1..c : h[i] = Reach(h[i - 1], ns[i])
  <2>1. h = [i \in 0..c |-> IF i = 0 THEN w0 ELSE Reach(h[i - 1], ns[i])]
    BY <1>4 DEF Visiting
  <2>2. 0 \in 0..c /\ \A i \in 1..c : i \in 0..c /\ i # 0
    BY <1>3
  <2> HIDE DEF w0
  <2> QED
    BY <2>1, <2>2
<1> HIDE DEF w0
<1> DEFINE Good(i) == /\ Sane(v, edges, names, n + 1, h[i], {t}) /\ t \in h[i].reached
                      /\ h[i].truncated \/ \A j \in 1..i : ns[j].term \in h[i].reached
           T == {i \in 0..c : Good(i)}
<1>6. 0 \in T
  <2>1. Good(0)
    BY <1>2, <1>5
  <2> QED
    BY <2>1, <1>3
<1>7. ASSUME NEW i \in 0 + 1..c, i - 1 \in T
      PROVE  i \in T
  <2>1. i \in 1..c /\ i \in 0..c /\ Good(i - 1) /\ h[i] = Reach(h[i - 1], ns[i]) /\ i \in Nat
    BY <1>3, <1>5, <1>7
  <2> DEFINE w == h[i - 1]
             u == Reach(w, ns[i])
  <2>2. /\ Sane(v, edges, names, n + 1, u, {t})
        /\ w.reached \subseteq u.reached /\ (w.truncated => u.truncated)
        /\ u.truncated \/ ns[i].term \in u.reached
    <3>1. Sane(v, edges, names, n + 1, w, {t}) /\ t \in w.reached
      BY <2>1
    <3>2. n + 1 \in Nat
      OBVIOUS
    <3>3. ns[i].link \in edges /\ ns[i].term \in DOMAIN v.terms /\ v.links[ns[i].link] = {t, ns[i].term}
      BY <2>1, <1>3
    <3> HIDE DEF w
    <3> QED
      BY <3>1, <3>2, <3>3, ReachSane
  <2>3. w.truncated \/ \A j \in 1..i - 1 : ns[j].term \in w.reached
    BY <2>1
  <2>4. t \in w.reached
    BY <2>1
  <2>5. u.truncated \/ \A j \in 1..i : ns[j].term \in u.reached
    <3>1. \A j \in 1..i : j \in 1..i - 1 \/ j = i
      BY <2>1
    <3> HIDE DEF u, w
    <3> QED
      BY <3>1, <2>2, <2>3
  <2>6. h[i] = u
    BY <2>1
  <2> HIDE DEF u, w
  <2>7. Good(i)
    BY <2>2, <2>4, <2>5, <2>6
  <2> QED
    BY <2>1, <2>7
<1> HIDE DEF T
<1>8. \A i \in 0..c : i \in T
  <2>1. 0 \in Int /\ c \in Int /\ 0 <= c
    BY <1>3
  <2> HIDE DEF Good
  <2> QED
    BY <2>1, <1>6, <1>7, Climbs
<1>9. Good(c)
  <2>1. c \in T
    BY <1>3, <1>8
  <2> QED
    BY <2>1 DEF T
<1> DEFINE w == h[c]
<1>10. w.truncated \/ Followed(v, edges, w, t)
  <2> SUFFICES ASSUME ~w.truncated, NEW m \in edges, t \in v.links[m]
               PROVE  v.links[m] \subseteq w.reached
    BY DEF Followed
  <2>1. PICK i \in 1..c : ns[i].link = m
    BY <1>3
  <2>2. v.links[m] = {t, ns[i].term} /\ ns[i].term \in w.reached /\ t \in w.reached
    BY <2>1, <1>3, <1>9
  <2> QED
    BY <2>2
<1>11. Sane(v, edges, names, n + 1, w, {t})
  BY <1>9
<1> HIDE DEF w
<1>12. Sane(v, edges, names, n + 1, w, {})
  BY <1>10, <1>11 DEF Sane
<1> QED
  BY <1>1, <1>3, <1>12 DEF w

\* The walk comes to its end.
LEMMA WalkSane ==
    ASSUME NEW v, NEW edges, Pairs(v, edges), NEW names, names \subseteq DOMAIN v.terms,
           NEW start, Sane(v, edges, names, 0, start, {})
    PROVE  LET w == Walk(v, edges, start)
           IN w.queue = <<>> /\ \E n \in Nat : Sane(v, edges, names, n, w, {})
<1> DEFINE c == Cardinality(DOMAIN v.terms)
           h == CHOOSE f : Turning(f, v, edges, start, c)
           Good(i) == \/ Sane(v, edges, names, i, h[i], {})
                      \/ h[i].queue = <<>> /\ \E n \in Nat : Sane(v, edges, names, n, h[i], {})
           T == {i \in 0..c : Good(i)}
<1>1. Walk(v, edges, start) = h[c]
  BY DEF Walk, Turning
<1>2. c \in Nat
  BY FS_CardinalityType DEF Pairs
<1> HIDE DEF c
<1>3. Turning(h, v, edges, start, c)
  BY <1>2, TurningIs
<1> HIDE DEF h
<1>4. h[0] = start /\ \A i \in 1..c : h[i] = Turn(v, edges, h[i - 1])
  <2>1. h = [i \in 0..c |-> IF i = 0 THEN start ELSE Turn(v, edges, h[i - 1])]
    BY <1>3 DEF Turning
  <2>2. 0 \in 0..c /\ \A i \in 1..c : i \in 0..c /\ i # 0
    BY <1>2
  <2> QED
    BY <2>1, <2>2
<1>5. 0 \in T
  BY <1>2, <1>4
<1>6. ASSUME NEW i \in 0 + 1..c, i - 1 \in T
      PROVE  i \in T
  <2>1. i \in 1..c /\ i \in 0..c /\ Good(i - 1) /\ h[i] = Turn(v, edges, h[i - 1]) /\ i - 1 \in Nat
    BY <1>2, <1>4, <1>6
  <2>2. CASE h[i - 1].queue = <<>>
    <3>1. h[i] = h[i - 1]
      BY <2>1, <2>2 DEF Turn
    <3>2. Good(i)
      BY <2>1, <2>2, <3>1
    <3> QED
      BY <2>1, <3>2
  <2>3. CASE h[i - 1].queue # <<>>
    <3>1. h[i] = Visit(v, edges, h[i - 1])
      BY <2>1, <2>3 DEF Turn
    <3>2. Sane(v, edges, names, i - 1, h[i - 1], {})
      BY <2>1, <2>3
    <3>3. Sane(v, edges, names, (i - 1) + 1, h[i], {})
      BY <2>1, <2>3, <3>1, <3>2, VisitSane
    <3>4. (i - 1) + 1 = i
      BY <2>1
    <3>5. Sane(v, edges, names, i, h[i], {})
      BY <3>3, <3>4
    <3> QED
      BY <2>1, <3>5
  <2> QED
    BY <2>2, <2>3
<1> HIDE DEF T
<1>7. \A i \in 0..c : i \in T
  BY <1>2, <1>5, <1>6, Climbs
<1>8. Good(c)
  BY <1>2, <1>7 DEF T
<1> DEFINE w == h[c]
<1>9. ASSUME Sane(v, edges, names, c, w, {})
      PROVE  w.queue = <<>>
  <2>1. w.queue \in Seq(DOMAIN v.terms) /\ w.reached \in SUBSET DOMAIN v.terms
        /\ c + Len(w.queue) = Cardinality(w.reached)
    BY <1>9 DEF Sane, WalkOf
  <2>2. Cardinality(w.reached) <= c
    BY <2>1, FS_Subset DEF Pairs, c
  <2>3. Len(w.queue) = 0
    <3>1. Len(w.queue) \in Nat
      BY <2>1
    <3> HIDE DEF w
    <3> QED
      BY <3>1, <2>1, <2>2, <1>2
  <2> HIDE DEF w
  <2> QED
    BY <2>1, <2>3
<1>10. w.queue = <<>> /\ \E n \in Nat : Sane(v, edges, names, n, w, {})
  BY <1>2, <1>8, <1>9
<1> QED
  BY <1>1, <1>10 DEF w

-----------------------------------------------------------------------------
(* Memories are about terms that exist.                                      *)
OwnTied(d, s) ==
    /\ \A m \in DOMAIN d.links : d.links[m] \subseteq DOMAIN d.terms \cup DOMAIN s.terms
    /\ DOMAIN d.rows \subseteq DOMAIN d.links \cup DOMAIN s.rows

StoreTied(s) ==
    /\ \A m \in DOMAIN s.links : s.links[m] \subseteq DOMAIN s.terms
    /\ DOMAIN s.rows \subseteq DOMAIN s.links

Tied == StoreTied(db) /\ \A a \in Agent : OwnTied(draft[a], db)

LEMMA ViewDomains ==
    ASSUME NEW a
    PROVE  /\ DOMAIN View(a).terms = DOMAIN draft[a].terms \cup DOMAIN db.terms
           /\ View(a).links = Over(draft[a].links, db.links)
           /\ DOMAIN View(a).links = DOMAIN draft[a].links \cup DOMAIN db.links
           /\ View(a).rows = Over(draft[a].rows, db.rows)
           /\ DOMAIN View(a).rows = DOMAIN draft[a].rows \cup DOMAIN db.rows
<1>1. /\ View(a).terms = Over(draft[a].terms, db.terms) /\ View(a).links = Over(draft[a].links, db.links)
      /\ View(a).rows = Over(draft[a].rows, db.rows)
  BY DEF View
<1>2. \A f, g : DOMAIN Over(f, g) = DOMAIN f \cup DOMAIN g
  BY OverRows
<1> QED
  BY <1>1, <1>2

LEMMA RunTied ==
    ASSUME SInv, Tied, NEW a \in Agent, NEW d, OwnTied(d, db),
           draft' = [draft EXCEPT ![a] = d], UNCHANGED db
    PROVE  Tied'
<1>1. draft'[a] = d /\ \A b \in Agent \ {a} : draft'[b] = draft[b]
  BY DEF SInv, TypeOK
<1>2. \A b \in Agent : OwnTied(draft'[b], db)
  BY <1>1 DEF Tied
<1>3. StoreTied(db) /\ db' = db
  BY DEF Tied
<1> QED
  BY <1>2, <1>3 DEF Tied

LEMMA ReferredTerms ==
    ASSUME NEW a \in Agent, NEW m \in DOMAIN draft[a].links
    PROVE  draft[a].links[m] \subseteq Referred
  BY DEF Referred

\* The terms that runs refer to, and the rows they write, stay.
LEMMA StoreChanged ==
    ASSUME Tied, StoreTied(db'), UNCHANGED draft,
           Referred \cap DOMAIN db.terms \subseteq DOMAIN db'.terms,
           \A m \in Held("rows") : m \in DOMAIN db.rows => m \in DOMAIN db'.rows
    PROVE  Tied'
<1> SUFFICES ASSUME NEW a \in Agent PROVE OwnTied(draft[a], db')
  BY DEF Tied
<1>1. OwnTied(draft[a], db)
  BY DEF Tied
<1>2. \A m \in DOMAIN draft[a].rows : m \in Held("rows")
  BY HeldRows
<1>3. \A m \in DOMAIN draft[a].links : draft[a].links[m] \subseteq Referred
  BY ReferredTerms
<1> QED
  BY <1>1, <1>2, <1>3 DEF OwnTied

\* Memories, terms and their links stay, whatever else changes.
LEMMA SameTied ==
    ASSUME Tied, UNCHANGED draft, DOMAIN db.terms \subseteq DOMAIN db'.terms,
           DOMAIN db'.rows = DOMAIN db.rows, db'.links = db.links
    PROVE  Tied'
<1>1. StoreTied(db')
  BY DEF Tied, StoreTied
<1> QED
  BY <1>1, StoreChanged

LEMMA PutTied ==
    ASSUME SInv, Tied, NEW a \in Agent, Busy(a),
           NEW rows \in Table(Memory, RowOf(Types)), NEW links \in Table(Memory, SUBSET Term),
           draft' = [draft EXCEPT ![a] = Put(draft[a], rows, links)], UNCHANGED db,
           \A m \in DOMAIN links : links[m] \subseteq DOMAIN View(a).terms,
           DOMAIN rows \subseteq DOMAIN links \cup DOMAIN View(a).rows
    PROVE  Tied'
<1> DEFINE d == Put(draft[a], rows, links)
           own == draft[a]
<1>1. d.rows = Over(rows, own.rows) /\ d.links = Over(links, own.links) /\ d.terms = own.terms
  <2>1. own \in AtWork
    BY AtWorkIs
  <2>2. d.rows = Over(rows, own.rows) /\ d.links = Over(links, own.links)
    BY <2>1, PutIs
  <2>3. d.terms = own.terms
    BY <2>1 DEF Put, AtWork
  <2> QED
    BY <2>2, <2>3
<1> HIDE DEF d
<1>2. /\ DOMAIN d.rows = DOMAIN rows \cup DOMAIN own.rows
      /\ DOMAIN d.links = DOMAIN links \cup DOMAIN own.links
      /\ \A m \in DOMAIN links : d.links[m] = links[m]
      /\ \A m \in DOMAIN own.links \ DOMAIN links : d.links[m] = own.links[m]
  <2>1. DOMAIN Over(rows, own.rows) = DOMAIN rows \cup DOMAIN own.rows
    BY OverRows
  <2>2. /\ DOMAIN Over(links, own.links) = DOMAIN links \cup DOMAIN own.links
        /\ \A m \in DOMAIN links : Over(links, own.links)[m] = links[m]
        /\ \A m \in DOMAIN own.links \ DOMAIN links : Over(links, own.links)[m] = own.links[m]
    BY OverRows
  <2> QED
    BY <1>1, <2>1, <2>2
<1>3. OwnTied(own, db)
  BY DEF Tied
<1>4. /\ DOMAIN View(a).terms = DOMAIN own.terms \cup DOMAIN db.terms
      /\ DOMAIN View(a).rows = DOMAIN own.rows \cup DOMAIN db.rows
  BY ViewDomains
<1>5. DOMAIN d.rows \subseteq DOMAIN d.links \cup DOMAIN db.rows
  BY <1>2, <1>3, <1>4 DEF OwnTied
<1>6. ASSUME NEW m \in DOMAIN d.links
      PROVE  d.links[m] \subseteq DOMAIN d.terms \cup DOMAIN db.terms
  <2>1. CASE m \in DOMAIN links
    BY <2>1, <1>1, <1>2, <1>4
  <2>2. CASE m \notin DOMAIN links
    <3>1. m \in DOMAIN own.links /\ d.links[m] = own.links[m]
      BY <2>2, <1>2
    <3> QED
      BY <3>1, <1>1, <1>3 DEF OwnTied
  <2> QED
    BY <2>1, <2>2
<1>7. OwnTied(d, db)
  BY <1>5, <1>6 DEF OwnTied
<1> QED
  BY <1>7, RunTied DEF d

LEMMA WriteTied ==
    ASSUME SInv, Tied, NEW a \in Agent, Busy(a),
           NEW rows \in Table(Memory, RowOf(Types)), NEW m \in Memory, NEW names,
           Write(a, rows, m, names), UNCHANGED db,
           DOMAIN rows \subseteq {m} \cup DOMAIN View(a).rows
    PROVE  Tied'
<1> DEFINE exist == names \cap DOMAIN View(a).terms
           links == One(m, exist)
<1>1. exist \in SUBSET Term /\ exist \subseteq DOMAIN View(a).terms
  BY ViewOf, TableRows
<1> HIDE DEF exist
<1>2. links \in Table(Memory, SUBSET Term) /\ DOMAIN links = {m} /\ links[m] = exist
  BY <1>1, TableOne, OneRow
<1>3. draft' = [draft EXCEPT ![a] = AfterTool(exist # names, draft[a], Put(draft[a], rows, links))]
  BY DEF Write, exist
<1> HIDE DEF links
<1>4. CASE exist # names
  <2>1. draft' = [draft EXCEPT ![a] = draft[a]]
    BY <1>3, <1>4 DEF AfterTool
  <2>2. OwnTied(draft[a], db)
    BY DEF Tied
  <2> QED
    BY <2>1, <2>2, RunTied
<1>5. CASE exist = names
  <2>1. draft' = [draft EXCEPT ![a] = Put(draft[a], rows, links)]
    BY <1>3, <1>5 DEF AfterTool
  <2>2. /\ \A x \in DOMAIN links : links[x] \subseteq DOMAIN View(a).terms
        /\ DOMAIN rows \subseteq DOMAIN links \cup DOMAIN View(a).rows
    BY <1>1, <1>2
  <2> QED
    BY <1>2, <2>1, <2>2, PutTied
<1> QED
  BY <1>4, <1>5

LEMMA ReplaceTied ==
    ASSUME SInv, Tied, NEW a \in Agent, Busy(a), NEW p \in DOMAIN View(a).rows, NEW m \in Memory,
           NEW new \in RowOf(Types), NEW names, new.type = View(a).rows[p].type,
           Replace(a, p, m, new, names), UNCHANGED db
    PROVE  Tied'
<1> DEFINE end == Ended(View(a).rows[p], Here(a))
           rows == Over(One(m, new), One(p, end))
<1>1. MayEnd(View(a).rows[p], Here(a)) /\ Write(a, rows, m, names)
  BY DEF Replace
<1>2. Here(a) \in Chapter /\ new.type \in Types
  BY AtWorkIs DEF RowOf
<1>3. One(p, end) \in Table(Memory, RowOf(Types))
  BY <1>1, <1>2, EndAhead
<1> HIDE DEF end
<1>4. One(m, new) \in Table(Memory, RowOf(Types)) /\ DOMAIN One(m, new) = {m} /\ DOMAIN One(p, end) = {p}
  BY TableOne, OneRow
<1>5. rows \in Table(Memory, RowOf(Types)) /\ DOMAIN rows = {m} \cup {p}
  <2>1. DOMAIN rows = DOMAIN One(m, new) \cup DOMAIN One(p, end)
    BY OverRows
  <2>2. rows \in Table(Memory, RowOf(Types))
    BY <1>3, <1>4, TableOver
  <2> QED
    BY <2>1, <2>2, <1>4
<1> HIDE DEF rows
<1> QED
  BY <1>1, <1>5, WriteTied

LEMMA TransformTied ==
    ASSUME SInv, Tied, NEW a \in Agent, NEW m \in Memory, NEW t \in Term, Transform(a, m, t)
    PROVE  Tied'
<1> DEFINE new == Own(a, "event", Transformation, "persist", 0)
           told == Put(draft[a], One(m, new), One(m, {t}))
           v == [View(a) EXCEPT !.rows = Over(told.rows, @), !.links = Over(told.links, @)]
           ends == Dropped(v, t, Here(a))
           d == Put(told, ends, <<>>)
           own == draft[a]
<1>1. /\ Busy(a) /\ t \in DOMAIN View(a).terms
      /\ draft' = [draft EXCEPT ![a] = d] /\ UNCHANGED db
  BY DEF Transform, Has
<1>2. draft[a].ver \in Nat /\ Here(a) \in Chapter /\ own \in AtWork
  BY <1>1, AtWorkIs
<1>3. new \in RowOf(Types)
  <2>1. "event" \in Types /\ Transformation \in Marks /\ "persist" \in Scope \cup {"default"} /\ 0 \in Nat
    BY DEF Types, Marks, Scope
  <2> QED
    BY <1>2, <2>1, OwnRow
<1> HIDE DEF new
<1>4. One(m, new) \in Table(Memory, RowOf(Types)) /\ One(m, {t}) \in Table(Memory, SUBSET Term)
      /\ DOMAIN One(m, new) = {m} /\ DOMAIN One(m, {t}) = {m} /\ One(m, {t})[m] = {t}
  BY <1>3, TableOne, OneRow
<1>5. told \in AtWork /\ told.rows = Over(One(m, new), own.rows) /\ told.links = Over(One(m, {t}), own.links)
  BY <1>2, <1>4, PutIs
<1>6. told.terms = own.terms
  BY <1>2 DEF Put, AtWork
<1>7. told.rows \in Table(Memory, RowOf(Types)) /\ told.links \in Table(Memory, SUBSET Term)
  BY <1>5, RunFields
<1>8. DOMAIN told.rows = {m} \cup DOMAIN own.rows
  <2>1. DOMAIN Over(One(m, new), own.rows) = DOMAIN One(m, new) \cup DOMAIN own.rows
    BY OverRows
  <2> QED
    BY <2>1, <1>4, <1>5
<1>9. /\ DOMAIN told.links = {m} \cup DOMAIN own.links /\ told.links[m] = {t}
      /\ \A n \in DOMAIN own.links \ {m} : told.links[n] = own.links[n]
  <2> DEFINE o == One(m, {t})
             g == Over(o, own.links)
  <2>1. /\ DOMAIN g = DOMAIN o \cup DOMAIN own.links
        /\ \A x \in DOMAIN o : g[x] = o[x]
        /\ \A x \in DOMAIN own.links \ DOMAIN o : g[x] = own.links[x]
    BY OverRows
  <2>2. DOMAIN o = {m} /\ o[m] = {t} /\ told.links = g
    BY <1>4, <1>5
  <2> HIDE DEF o, g, told
  <2> QED
    BY <2>1, <2>2
<1> HIDE DEF told
<1>10. v.rows = Over(told.rows, View(a).rows)
  BY DEF View
<1>11. v.rows \in Table(Memory, Row)
  <2>1. told.rows \in Table(Memory, Row)
    BY <1>7, TableIs, OneType
  <2> QED
    BY <2>1, <1>10, ViewOf, TableOver
<1>12. DOMAIN v.rows = DOMAIN told.rows \cup DOMAIN View(a).rows
  <2>1. DOMAIN Over(told.rows, View(a).rows) = DOMAIN told.rows \cup DOMAIN View(a).rows
    BY OverRows
  <2> QED
    BY <2>1, <1>10
<1> HIDE DEF v
<1>13. ends \in Table(Memory, RowOf(Types)) /\ DOMAIN ends \subseteq DOMAIN v.rows
  BY <1>2, <1>11, DroppedLowers
<1> HIDE DEF ends
<1>14. /\ d.rows = Over(ends, told.rows) /\ d.links = Over(<<>>, told.links) /\ d.terms = told.terms
  <2>1. <<>> \in Table(Memory, SUBSET Term)
    BY NoRows
  <2>2. d.rows = Over(ends, told.rows) /\ d.links = Over(<<>>, told.links)
    BY <1>5, <1>13, <2>1, PutIs
  <2>3. d.terms = told.terms
    BY <1>5 DEF Put, AtWork
  <2> QED
    BY <2>2, <2>3
<1> HIDE DEF d
<1>15. DOMAIN d.rows = DOMAIN ends \cup DOMAIN told.rows
  <2>1. DOMAIN Over(ends, told.rows) = DOMAIN ends \cup DOMAIN told.rows
    BY OverRows
  <2> QED
    BY <2>1, <1>14
<1>16. DOMAIN d.links = DOMAIN told.links /\ \A n \in DOMAIN told.links : d.links[n] = told.links[n]
  <2> DEFINE o == <<>>
             g == Over(o, told.links)
  <2>1. /\ DOMAIN g = DOMAIN o \cup DOMAIN told.links
        /\ \A x \in DOMAIN told.links \ DOMAIN o : g[x] = told.links[x]
    BY OverRows
  <2>2. DOMAIN o = {}
    BY NoRows
  <2>3. d.links = g
    BY <1>14
  <2> HIDE DEF o, g
  <2> QED
    BY <2>1, <2>2, <2>3
<1>17. /\ DOMAIN View(a).terms = DOMAIN own.terms \cup DOMAIN db.terms
       /\ DOMAIN View(a).rows = DOMAIN own.rows \cup DOMAIN db.rows
       /\ OwnTied(own, db)
  BY ViewDomains DEF Tied
<1> HIDE DEF own
<1>18. DOMAIN d.rows \subseteq DOMAIN d.links \cup DOMAIN db.rows
  BY <1>8, <1>9, <1>12, <1>13, <1>15, <1>16, <1>17 DEF OwnTied
<1>19. ASSUME NEW n \in DOMAIN d.links
       PROVE  d.links[n] \subseteq DOMAIN d.terms \cup DOMAIN db.terms
  <2>1. CASE n = m
    BY <2>1, <1>1, <1>6, <1>9, <1>14, <1>16, <1>17
  <2>2. CASE n # m
    <3>1. n \in DOMAIN own.links /\ d.links[n] = own.links[n]
      BY <2>2, <1>9, <1>16
    <3> QED
      BY <3>1, <1>6, <1>14, <1>17 DEF OwnTied
  <2> QED
    BY <2>1, <2>2
<1>20. OwnTied(d, db)
  BY <1>18, <1>19 DEF OwnTied
<1> QED
  BY <1>1, <1>20, RunTied

LEMMA WritingTied ==
    ASSUME SInv, Tied, NEW a \in Agent, Writing(a)
    PROVE  Tied'
<1>1. ASSUME NEW t \in Term, AddTerm(a, t)
      PROVE  Tied'
  <2> DEFINE own == draft[a]
             terms == Over(One(t, "pending"), own.terms)
             d == [own EXCEPT !.terms = terms]
  <2>1. Busy(a) /\ draft' = [draft EXCEPT ![a] = d] /\ UNCHANGED db
    BY <1>1 DEF AddTerm, Has
  <2>2. own \in AtWork
    BY <2>1, AtWorkIs
  <2>3. DOMAIN terms = DOMAIN One(t, "pending") \cup DOMAIN own.terms
    BY OverRows
  <2> HIDE DEF terms
  <2>4. d.rows = own.rows /\ d.links = own.links /\ d.terms = terms
    BY <2>2 DEF AtWork
  <2> HIDE DEF d
  <2>5. OwnTied(own, db)
    BY DEF Tied
  <2> HIDE DEF own
  <2>6. OwnTied(d, db)
    BY <2>3, <2>4, <2>5 DEF OwnTied
  <2> QED
    BY <2>1, <2>6, RunTied
<1>2. ASSUME NEW name \in tools \cap DOMAIN ToolOf, NEW m \in Memory, NEW names \in SUBSET Term,
             NEW mark \in ToolOf[name].marks \cap Mark, NEW scope \in ToolOf[name].scopes \cap Lasting,
             Create(a, name, m, mark, scope, names)
      PROVE  Tied'
  <2> DEFINE new == Own(a, ToolOf[name].type, mark, scope, 0)
             rows == One(m, new)
  <2>1. Busy(a) /\ Write(a, rows, m, names) /\ UNCHANGED db
    BY <1>2 DEF Create, Has
  <2>2. draft[a].ver \in Nat /\ Here(a) \in Chapter
    BY <2>1, AtWorkIs
  <2>3. new \in RowOf(Types)
    <3>1. ToolOf[name].type \in Types /\ 0 \in Nat /\ mark \in Marks /\ scope \in Scope \cup {"default"}
      BY ToolTypes, Asked
    <3> QED
      BY <2>2, <3>1, OwnRow
  <2> HIDE DEF new
  <2>4. rows \in Table(Memory, RowOf(Types)) /\ DOMAIN rows = {m}
    BY <2>3, TableOne, OneRow
  <2> HIDE DEF rows
  <2> QED
    BY <2>1, <2>4, WriteTied
<1>3. ASSUME NEW name \in tools \cap DOMAIN ToolOf, NEW m \in Memory, NEW names \in SUBSET Term,
             NEW mark \in ToolOf[name].marks \cap Mark, NEW scope \in ToolOf[name].scopes \cap Lasting,
             NEW p \in Memory, Supersede(a, name, p, m, mark, scope, names)
      PROVE  Tied'
  <2> DEFINE new == Own(a, ToolOf[name].type, mark, scope, p)
             kept == IF ToolOf[name].keeps THEN View(a).links[p] ELSE names
  <2>1. /\ Busy(a) /\ p \in DOMAIN View(a).rows /\ ToolOf[name].type = View(a).rows[p].type
        /\ Replace(a, p, m, new, kept) /\ UNCHANGED db
    BY <1>3 DEF Supersede, Has, Owns
  <2>2. draft[a].ver \in Nat /\ Here(a) \in Chapter
    BY <2>1, AtWorkIs
  <2>3. new \in RowOf(Types) /\ new.type = ToolOf[name].type
    <3>1. ToolOf[name].type \in Types /\ p \in Nat /\ mark \in Marks /\ scope \in Scope \cup {"default"}
      BY ToolTypes, Asked, Numbers
    <3> QED
      BY <2>2, <3>1, OwnRow
  <2> HIDE DEF new, kept
  <2> QED
    BY <2>1, <2>3, ReplaceTied
<1>4. ASSUME NEW name \in tools \cap DOMAIN ToolOf, NEW p \in Memory, Expire(a, name, p)
      PROVE  Tied'
  <2> DEFINE own == draft[a]
             rows == Over(One(p, Ended(View(a).rows[p], Here(a))), own.rows)
             d == [own EXCEPT !.rows = rows]
  <2>1. /\ Busy(a) /\ draft' = [draft EXCEPT ![a] = d] /\ UNCHANGED db
        /\ p \in DOMAIN View(a).rows
    BY <1>4 DEF Expire, Has
  <2>2. own \in AtWork
    BY <2>1, AtWorkIs
  <2>3. DOMAIN rows = {p} \cup DOMAIN own.rows
    <3> DEFINE o == One(p, Ended(View(a).rows[p], Here(a)))
    <3>1. DOMAIN o = {p}
      BY OneRow
    <3>2. DOMAIN Over(o, own.rows) = DOMAIN o \cup DOMAIN own.rows
      BY OverRows
    <3> QED
      BY <3>1, <3>2
  <2> HIDE DEF rows
  <2>4. d.rows = rows /\ d.links = own.links /\ d.terms = own.terms
    BY <2>2 DEF AtWork
  <2> HIDE DEF d
  <2>5. OwnTied(own, db) /\ DOMAIN View(a).rows = DOMAIN own.rows \cup DOMAIN db.rows
    BY ViewDomains DEF Tied
  <2> HIDE DEF own
  <2>6. OwnTied(d, db)
    BY <2>1, <2>3, <2>4, <2>5 DEF OwnTied
  <2> QED
    BY <2>1, <2>6, RunTied
<1>5. ASSUME NEW m \in Memory, NEW t \in Term, Transform(a, m, t)
      PROVE  Tied'
  BY <1>5, TransformTied
<1>6. ASSUME NEW m \in Memory, NEW p \in Memory, NEW t \in Term, Correct(a, p, m, t)
      PROVE  Tied'
  <2> DEFINE new == Own(a, "event", Transformation, "persist", p)
  <2>1. /\ Busy(a) /\ p \in DOMAIN View(a).rows /\ View(a).rows[p].type = "event"
        /\ Replace(a, p, m, new, {t}) /\ UNCHANGED db
    BY <1>6 DEF Correct, Has, Told
  <2>2. draft[a].ver \in Nat /\ Here(a) \in Chapter
    BY <2>1, AtWorkIs
  <2>3. new \in RowOf(Types) /\ new.type = "event"
    <3>1. "event" \in Types /\ Transformation \in Marks /\ "persist" \in Scope \cup {"default"} /\ p \in Nat
      BY Numbers DEF Types, Marks, Scope
    <3> QED
      BY <2>2, <3>1, OwnRow
  <2> HIDE DEF new
  <2> QED
    BY <2>1, <2>3, ReplaceTied
<1> QED
  BY <1>1, <1>2, <1>3, <1>4, <1>5, <1>6 DEF Writing

-----------------------------------------------------------------------------
(* The run begins, ends and commits.                                         *)
LEMMA RestTied ==
    ASSUME SInv, Tied, NEW a \in Agent, NEW d, d.rows = <<>>, d.links = <<>>,
           draft' = [draft EXCEPT ![a] = d], UNCHANGED db
    PROVE  Tied'
<1>1. OwnTied(d, db)
  BY NoRows DEF OwnTied
<1> QED
  BY <1>1, RunTied

\* The store grows when a run commits.
LEMMA CommitTied ==
    ASSUME SInv, Tied, NEW a \in Agent, draft' = [draft EXCEPT ![a] = Idle], StoreTied(db'),
           DOMAIN db.terms \subseteq DOMAIN db'.terms, DOMAIN db.rows \subseteq DOMAIN db'.rows
    PROVE  Tied'
<1>1. draft'[a] = Idle /\ \A b \in Agent \ {a} : draft'[b] = draft[b]
  BY DEF SInv, TypeOK
<1>2. DOMAIN Idle.rows = {} /\ DOMAIN Idle.links = {}
  BY NoRows DEF Idle
<1>3. \A b \in Agent : OwnTied(draft[b], db)
  BY DEF Tied
<1>4. \A b \in Agent : OwnTied(draft'[b], db')
  BY <1>1, <1>2, <1>3 DEF OwnTied
<1> QED
  BY <1>4 DEF Tied

LEMMA FinishRecordingTied ==
    ASSUME SInv, Tied, NEW a \in Agent, NEW m \in Memory, FinishRecording(a, m)
    PROVE  Tied'
<1> DEFINE S == Summarised(a, m)
           own == draft[a]
           C == Over(own.rows, db.rows)
           rows == Over(S, C)
           none == [s \in DOMAIN S |-> {}]
           L == Over(own.links, db.links)
           links == Over(none, L)
           terms == Over(own.terms, db.terms)
<1>1. /\ db' = [db EXCEPT !.terms = terms, !.rows = rows, !.links = links]
      /\ draft' = [draft EXCEPT ![a] = Idle]
  BY DEF FinishRecording
<1> HIDE DEF S
<1>2. DOMAIN none = DOMAIN S /\ \A s \in DOMAIN none : none[s] = {}
  OBVIOUS
<1> HIDE DEF none
<1>3. /\ DOMAIN C = DOMAIN own.rows \cup DOMAIN db.rows
      /\ DOMAIN rows = DOMAIN S \cup DOMAIN C
      /\ DOMAIN terms = DOMAIN own.terms \cup DOMAIN db.terms
  <2>1. \A f, g : DOMAIN Over(f, g) = DOMAIN f \cup DOMAIN g
    BY OverRows
  <2> QED
    BY <2>1
<1>4. /\ DOMAIN L = DOMAIN own.links \cup DOMAIN db.links
      /\ \A x \in DOMAIN own.links : L[x] = own.links[x]
      /\ \A x \in DOMAIN db.links \ DOMAIN own.links : L[x] = db.links[x]
  BY OverRows
<1> HIDE DEF L, C, rows, terms
<1>5. /\ DOMAIN links = DOMAIN none \cup DOMAIN L
      /\ \A x \in DOMAIN none : links[x] = none[x]
      /\ \A x \in DOMAIN L \ DOMAIN none : links[x] = L[x]
  BY OverRows
<1> HIDE DEF links
<1>6. db'.terms = terms /\ db'.rows = rows /\ db'.links = links
  BY <1>1 DEF SInv, TypeOK, Store
<1>7. OwnTied(own, db) /\ StoreTied(db)
  BY DEF Tied
<1> HIDE DEF own
<1>8. ASSUME NEW n \in DOMAIN links
      PROVE  links[n] \subseteq DOMAIN terms
  <2>1. CASE n \in DOMAIN none
    BY <2>1, <1>2, <1>5
  <2>2. CASE n \notin DOMAIN none /\ n \in DOMAIN own.links
    BY <2>2, <1>3, <1>4, <1>5, <1>7 DEF OwnTied
  <2>3. CASE n \notin DOMAIN none /\ n \notin DOMAIN own.links
    BY <2>3, <1>3, <1>4, <1>5, <1>7 DEF StoreTied
  <2> QED
    BY <2>1, <2>2, <2>3
<1>9. DOMAIN rows \subseteq DOMAIN links
  BY <1>2, <1>3, <1>4, <1>5, <1>7 DEF OwnTied, StoreTied
<1>10. StoreTied(db')
  BY <1>6, <1>8, <1>9 DEF StoreTied
<1> QED
  BY <1>1, <1>3, <1>6, <1>10, CommitTied

LEMMA RunningTied ==
    ASSUME SInv, Tied, NEW a \in Agent, Running(a)
    PROVE  Tied'
<1>1. ASSUME NEW c \in Chapter, BeginRecording(a, c)
      PROVE  Tied'
  BY <1>1, RestTied DEF BeginRecording
<1>2. ASSUME NEW c \in Chapter, NEW found \in SUBSET Term, BeginNaming(a, c, found)
      PROVE  Tied'
  BY <1>2, RestTied DEF BeginNaming
<1>3. ASSUME NEW m \in Memory, FinishRecording(a, m)
      PROVE  Tied'
  BY <1>3, FinishRecordingTied
<1>4. CASE FinishNaming(a)
  <2>1. draft' = [draft EXCEPT ![a] = Idle] /\ db'.terms = db.terms /\ db'.rows = db.rows /\ db'.links = db.links
    BY <1>4 DEF FinishNaming, SInv, TypeOK, Store
  <2>2. StoreTied(db')
    BY <2>1 DEF Tied, StoreTied
  <2> QED
    BY <2>1, <2>2, CommitTied
<1>5. CASE Abort(a)
  BY <1>5, RestTied DEF Abort, Idle
<1> QED
  BY <1>1, <1>2, <1>3, <1>4, <1>5 DEF Running

-----------------------------------------------------------------------------
(* Users.                                                                    *)
LEMMA GoneTied ==
    ASSUME SInv, Tied, NEW gone, MayGo(gone), db' = Without(gone), UNCHANGED draft
    PROVE  Tied'
<1> DEFINE left == DOMAIN db.rows \ gone
           rows == [m \in left |-> [db.rows[m] EXCEPT !.sup = IF @ \in gone THEN 0 ELSE @]]
           links == Restricted(db.links, left)
<1>1. db' = [db EXCEPT !.rows = rows, !.links = links]
  BY DEF Without
<1>2. DOMAIN rows = left
  OBVIOUS
<1>3. DOMAIN links = DOMAIN db.links \cap left /\ \A m \in DOMAIN links : links[m] = db.links[m]
  BY DEF Restricted
<1> HIDE DEF rows, links
<1>4. db'.rows = rows /\ db'.links = links /\ db'.terms = db.terms
  BY <1>1 DEF SInv, TypeOK, Store
<1>5. StoreTied(db')
  BY <1>2, <1>3, <1>4 DEF Tied, StoreTied
<1>6. \A m \in Held("rows") : m \in DOMAIN db.rows => m \in DOMAIN db'.rows
  BY <1>2, <1>4 DEF MayGo
<1> QED
  BY <1>4, <1>5, <1>6, StoreChanged

LEMMA UserMemoryTied ==
    ASSUME SInv, Tied, UserMemory
    PROVE  Tied'
<1>1. ASSUME NEW m \in Memory, NEW status \in Review, ReviewMemory(m, status)
      PROVE  Tied'
  <2>1. /\ UNCHANGED draft /\ db'.terms = db.terms /\ DOMAIN db'.rows = DOMAIN db.rows
        /\ db'.links = db.links
    BY <1>1 DEF ReviewMemory, SInv, TypeOK, Store
  <2> QED
    BY <2>1, SameTied
<1>2. ASSUME NEW m \in Memory, NEW c \in Chapter, ExpireMemory(m, c)
      PROVE  Tied'
  <2>1. /\ UNCHANGED draft /\ db'.terms = db.terms /\ DOMAIN db'.rows = DOMAIN db.rows
        /\ db'.links = db.links
    BY <1>2 DEF ExpireMemory, SInv, TypeOK, Store
  <2> QED
    BY <2>1, SameTied
<1>3. ASSUME NEW m \in Memory, DeleteMemory(m)
      PROVE  Tied'
  BY <1>3, GoneTied DEF DeleteMemory
<1>4. ASSUME NEW m \in Memory, NEW names \in SUBSET Term, ReplaceTerms(m, names)
      PROVE  Tied'
  <2> DEFINE links == [db.links EXCEPT ![m] = names]
  <2>1. names \subseteq DOMAIN db.terms /\ db' = [db EXCEPT !.links = links] /\ UNCHANGED draft
    BY <1>4 DEF ReplaceTerms
  <2>2. /\ DOMAIN links = DOMAIN db.links
        /\ \A n \in DOMAIN links : links[n] = names \/ links[n] = db.links[n]
    OBVIOUS
  <2> HIDE DEF links
  <2>3. db'.terms = db.terms /\ db'.rows = db.rows /\ db'.links = links
    BY <2>1 DEF SInv, TypeOK, Store
  <2>4. StoreTied(db')
    BY <2>1, <2>2, <2>3 DEF Tied, StoreTied
  <2> QED
    BY <2>1, <2>3, <2>4, StoreChanged
<1>5. ASSUME NEW m \in Memory, NEW mark \in Mark, UpdateMemory(m, mark)
      PROVE  Tied'
  <2>1. /\ UNCHANGED draft /\ db'.terms = db.terms /\ DOMAIN db'.rows = DOMAIN db.rows
        /\ db'.links = db.links
    BY <1>5 DEF UpdateMemory, SInv, TypeOK, Store
  <2> QED
    BY <2>1, SameTied
<1>6. ASSUME NEW m \in Memory, NEW name \in tools \cap DOMAIN ToolOf, NEW c \in Chapter,
             NEW names \in SUBSET Term, NEW mark \in Mark,
             CreateByUser(m, ToolOf[name].type, mark, c, "default", names)
      PROVE  Tied'
  <2> DEFINE o == One(m, NewRow(ToolOf[name].type, mark, c, versions[c], "default", 0, "user"))
             l == One(m, names)
             rows == Over(o, db.rows)
             links == Over(l, db.links)
  <2>1. /\ names \subseteq DOMAIN db.terms /\ UNCHANGED draft
        /\ db' = [db EXCEPT !.rows = rows, !.links = links]
    BY <1>6 DEF CreateByUser
  <2>2. DOMAIN o = {m} /\ DOMAIN l = {m} /\ l[m] = names
    BY OneRow
  <2> HIDE DEF o, l
  <2>3. DOMAIN rows = DOMAIN o \cup DOMAIN db.rows
    BY OverRows
  <2>4. /\ DOMAIN links = DOMAIN l \cup DOMAIN db.links
        /\ \A n \in DOMAIN l : links[n] = l[n]
        /\ \A n \in DOMAIN db.links \ DOMAIN l : links[n] = db.links[n]
    BY OverRows
  <2> HIDE DEF rows, links
  <2>5. db'.terms = db.terms /\ db'.rows = rows /\ db'.links = links
    BY <2>1 DEF SInv, TypeOK, Store
  <2>6. ASSUME NEW n \in DOMAIN links
        PROVE  links[n] = names \/ (n \in DOMAIN db.links /\ links[n] = db.links[n])
    <3>1. CASE n = m
      <4>1. links[m] = l[m]
        BY <2>2, <2>4
      <4> QED
        BY <3>1, <4>1, <2>2
    <3>2. CASE n # m
      BY <3>2, <2>2, <2>4
    <3> QED
      BY <3>1, <3>2
  <2>7. StoreTied(db')
    BY <2>1, <2>2, <2>3, <2>4, <2>5, <2>6 DEF Tied, StoreTied
  <2> QED
    BY <2>1, <2>3, <2>5, <2>7, StoreChanged
<1> QED
  BY <1>1, <1>2, <1>3, <1>4, <1>5, <1>6 DEF UserMemory

LEMMA UserTermsTied ==
    ASSUME SInv, Tied, UserTerms
    PROVE  Tied'
<1>1. ASSUME NEW t \in Term, CreateTerm(t) \/ \E status \in Review : ReviewTerm(t, status)
      PROVE  Tied'
  <2>1. DOMAIN Over(One(t, "pending"), db.terms) = DOMAIN One(t, "pending") \cup DOMAIN db.terms
    BY OverRows
  <2>2. /\ UNCHANGED draft /\ DOMAIN db.terms \subseteq DOMAIN db'.terms
        /\ db'.rows = db.rows /\ db'.links = db.links
    <3>1. CASE CreateTerm(t)
      BY <2>1, <3>1 DEF CreateTerm, SInv, TypeOK, Store
    <3>2. CASE \E status \in Review : ReviewTerm(t, status)
      BY <3>2 DEF ReviewTerm, SInv, TypeOK, Store
    <3> QED
      BY <1>1, <3>1, <3>2
  <2> QED
    BY <2>2, SameTied
<1>2. ASSUME NEW t \in Term, DeleteTerm(t)
      PROVE  Tied'
  <2> DEFINE terms == Restricted(db.terms, DOMAIN db.terms \ {t})
             links == [m \in DOMAIN db.links |-> db.links[m] \ {t}]
  <2>1. /\ t \notin Referred /\ UNCHANGED draft
        /\ db'.terms = terms /\ db'.rows = db.rows /\ db'.links = links
    BY <1>2 DEF DeleteTerm, SInv, TypeOK, Store
  <2>2. DOMAIN terms = DOMAIN db.terms \ {t}
    BY DEF Restricted
  <2>3. DOMAIN links = DOMAIN db.links /\ \A m \in DOMAIN links : links[m] = db.links[m] \ {t}
    OBVIOUS
  <2> HIDE DEF terms, links
  <2>4. StoreTied(db')
    BY <2>1, <2>2, <2>3 DEF Tied, StoreTied
  <2> QED
    BY <2>1, <2>2, <2>4, StoreChanged
<1>3. ASSUME NEW t \in Term,
             \/ SaveTranslation(t) \/ DeleteTranslation(t)
             \/ \E status \in Review : ReviewTranslation(t, status)
      PROVE  Tied'
  <2>1. UNCHANGED draft /\ \E new : db' = [db EXCEPT !.renderings = new]
    BY <1>3 DEF SaveTranslation, DeleteTranslation, ReviewTranslation
  <2>2. db'.terms = db.terms /\ db'.rows = db.rows /\ db'.links = db.links
    BY <2>1 DEF SInv, TypeOK, Store
  <2> QED
    BY <2>1, <2>2, SameTied
<1>4. ASSUME NEW t \in Term, NEW u \in Term, RenameTerm(t, u)
      PROVE  Tied'
  <2> DEFINE terms == Renamed(db.terms, t, u)
             links == [m \in DOMAIN db.links |-> {IF x = t THEN u ELSE x : x \in db.links[m]}]
  <2>1. /\ t \in DOMAIN db.terms /\ t \notin Referred /\ UNCHANGED draft
        /\ db'.terms = terms /\ db'.rows = db.rows /\ db'.links = links
    BY <1>4 DEF RenameTerm, SInv, TypeOK, Store
  <2>2. DOMAIN terms = (DOMAIN db.terms \ {t}) \cup {u}
    BY <2>1 DEF Renamed
  <2>3. DOMAIN links = DOMAIN db.links /\ \A m \in DOMAIN links : links[m] \subseteq (db.links[m] \ {t}) \cup {u}
    OBVIOUS
  <2> HIDE DEF terms, links
  <2>4. StoreTied(db')
    BY <2>1, <2>2, <2>3 DEF Tied, StoreTied
  <2> QED
    BY <2>1, <2>2, <2>4, StoreChanged
<1> QED
  BY <1>1, <1>2, <1>3, <1>4 DEF UserTerms

-----------------------------------------------------------------------------
(* Every step.                                                               *)
LEMMA InitTied == Init => Tied
<1> SUFFICES ASSUME Init PROVE Tied
  OBVIOUS
<1>1. db.rows = <<>> /\ db.links = <<>> /\ \A a \in Agent : draft[a] = Idle
  BY DEF Init, Started
<1>2. Idle.rows = <<>> /\ Idle.links = <<>> /\ DOMAIN <<>> = {}
  BY NoRows DEF Idle
<1> QED
  BY <1>1, <1>2 DEF Tied, StoreTied, OwnTied

LEMMA NextTied == SInv /\ Tied /\ [Next]_vars => Tied'
<1> SUFFICES ASSUME SInv, Tied, [Next]_vars PROVE Tied'
  OBVIOUS
<1>1. ASSUME NEW a \in Agent, Writing(a) \/ Running(a)
      PROVE  Tied'
  BY <1>1, WritingTied, RunningTied
<1>2. CASE UserMemory
  BY <1>2, UserMemoryTied
<1>3. CASE UserTerms
  BY <1>3, UserTermsTied
<1>4. ASSUME NEW c \in Chapter, EditChapter(c) \/ RemoveChapter(c)
      PROVE  Tied'
  <2>1. CASE EditChapter(c)
    BY <2>1 DEF EditChapter, Tied
  <2>2. CASE RemoveChapter(c)
    BY <2>2, GoneTied DEF RemoveChapter
  <2> QED
    BY <1>4, <2>1, <2>2
<1>5. CASE UNCHANGED vars
  BY <1>5 DEF vars, Tied
<1> QED
  BY <1>1, <1>2, <1>3, <1>4, <1>5 DEF Next, Chapters

\* Every memory has its terms, and they are terms that exist (write_memory
\* of access.py, the term editing of the glossary's service.py).
THEOREM MemoriesTied == Spec => []Tied
<1> QED
  BY InitTied, NextTied, Invariance, PTL DEF Spec

-----------------------------------------------------------------------------
(* What a reader is given.                                                   *)
LEMMA PairOf ==
    ASSUME NEW S, IsFiniteSet(S), Cardinality(S) = 2
    PROVE  \E t, u \in S : t # u /\ S = {t, u}
<1>1. S # {}
  BY FS_EmptySet
<1>2. PICK t \in S : TRUE
  BY <1>1
<1> DEFINE R == S \ {t}
<1>3. IsFiniteSet(R) /\ Cardinality(R) = 1
  BY FS_RemoveElement
<1>4. R # {}
  BY <1>3, FS_EmptySet
<1>5. PICK u \in R : TRUE
  BY <1>4
<1> DEFINE Q == R \ {u}
<1>6. IsFiniteSet(Q) /\ Cardinality(Q) = 0
  <2> HIDE DEF R
  <2>1. IsFiniteSet(R \ {u}) /\ Cardinality(R \ {u}) = Cardinality(R) - 1
    BY <1>3, <1>5, FS_RemoveElement
  <2> QED
    BY <2>1, <1>3
<1>7. Q = {}
  <2> HIDE DEF Q
  <2> QED
    BY <1>6, FS_EmptySet
<1>8. t # u /\ S = {t, u}
  BY <1>5, <1>7
<1> QED
  BY <1>5, <1>8

LEMMA LinksPaired ==
    ASSUME SInv, Tied, NEW c \in Chapter
    PROVE  Pairs(db, AliasLinks(db, c))
<1> DEFINE edges == AliasLinks(db, c)
<1>1. /\ DOMAIN db.terms \subseteq Term /\ DOMAIN db.rows \subseteq Memory
      /\ \A m \in DOMAIN db.rows : db.rows[m] \in Row
  BY StoreFields, TableRows DEF SInv
<1>2. IsFiniteSet(Term) /\ IsFiniteSet(Memory) /\ Term \subseteq Nat /\ Memory \subseteq Nat
  BY StoreAssumption
<1>3. edges \subseteq DOMAIN db.rows
      /\ \A m \in edges : Cardinality(db.links[m]) = 2 /\ db.links[m] \subseteq DOMAIN db.terms
  BY DEF AliasLinks, UsableTerms
<1> HIDE DEF edges
<1>4. IsFiniteSet(DOMAIN db.terms) /\ IsFiniteSet(edges)
  <2>1. edges \subseteq Memory
    BY <1>1, <1>3
  <2> QED
    BY <2>1, <1>1, <1>2, FS_Subset
<1>5. ASSUME NEW m \in edges
      PROVE  /\ db.rows[m].start \in Nat
             /\ \E t, u \in DOMAIN db.terms : t # u /\ db.links[m] = {t, u}
  <2>1. db.rows[m].start \in Nat
    BY <1>1, <1>3, Numbers DEF Row, RowOf
  <2>2. IsFiniteSet(db.links[m])
    BY <1>3, <1>4, FS_Subset
  <2>3. \E t, u \in db.links[m] : t # u /\ db.links[m] = {t, u}
    BY <2>2, <1>3, PairOf
  <2> QED
    BY <2>1, <2>3, <1>3
<1>6. Pairs(db, edges)
  BY <1>1, <1>2, <1>3, <1>4, <1>5 DEF Pairs
<1> QED
  BY <1>6 DEF edges

LEMMA StartSane ==
    ASSUME NEW v, NEW edges, Pairs(v, edges), NEW names, names \subseteq DOMAIN v.terms
    PROVE  Sane(v, edges, names, 0,
                [reached |-> names, used |-> {}, truncated |-> FALSE,
                 queue |-> Ordered(names, {p \in names \X names : p[1] < p[2]})], {})
<1> DEFINE D == DOMAIN v.terms
           R == {p \in names \X names : p[1] < p[2]}
           q == Ordered(names, R)
           c == Cardinality(names)
           start == [reached |-> names, used |-> {}, truncated |-> FALSE, queue |-> q]
<1>1. IsFiniteSet(names) /\ names \subseteq Nat
  BY FS_Subset DEF Pairs
<1>2. \A x, y \in names : <<x, y>> \in R <=> x < y
  OBVIOUS
<1>3. Orders(R, names)
  <2> HIDE DEF R
  <2> QED
    BY <1>1, <1>2 DEF Orders
<1> HIDE DEF R
<1>4. c \in Nat /\ q \in [1..c -> names] /\ \A x \in names : \E n \in 1..c : q[n] = x
  BY <1>3, OrderedIs
<1> HIDE DEF q, c
<1>5. q \in Seq(D) /\ Len(q) = c /\ DOMAIN q = 1..c
  <2>1. q \in [1..c -> D]
    BY <1>4
  <2> HIDE DEF D
  <2>2. q \in Seq(D)
    BY <2>1, <1>4
  <2> QED
    BY <2>1, <2>2, <1>4
<1>6. names \subseteq Linked(v, edges, names)
  BY LinkedIs
<1>7. /\ start \in WalkOf(v, edges)
      /\ start.reached = names /\ start.used = {} /\ start.truncated = FALSE /\ start.queue = q
  <2>1. names \in SUBSET D /\ {} \in SUBSET edges /\ FALSE \in BOOLEAN
    OBVIOUS
  <2> QED
    BY <2>1, <1>5 DEF WalkOf
<1> HIDE DEF start
<1>8. 0 + Len(q) = Cardinality(names)
  BY <1>4, <1>5 DEF c
<1>9. Sane(v, edges, names, 0, start, {})
  BY <1>4, <1>5, <1>6, <1>7, <1>8 DEF Sane
<1> QED
  BY <1>9 DEF start, q, R

LEMMA ExactHolds ==
    ASSUME SInv, Tied, NEW c \in Chapter, NEW names, names \subseteq UsableTerms(db), names # {}
    PROVE  Exact(db, c, names)
<1> DEFINE edges == AliasLinks(db, c)
           start == [reached |-> names, used |-> {}, truncated |-> FALSE,
                     queue |-> Ordered(names, {p \in names \X names : p[1] < p[2]})]
           walk == Walk(db, edges, start)
           all == Linked(db, edges, names)
           sound == {m \in DOMAIN db.rows :
                        /\ db.rows[m].mark \in ALIAS_MARKS /\ db.rows[m].type = "rel"
                        /\ db.rows[m].review # "rejected" /\ Active(db.rows[m], c)
                        /\ Cardinality(db.links[m]) = 2
                        /\ \A t \in db.links[m] : db.terms[t] # "rejected"}
<1>1. sound = edges
  <2>1. \A m \in DOMAIN db.rows : db.links[m] \subseteq DOMAIN db.terms
    BY DEF Tied, StoreTied
  <2>2. \A m \in DOMAIN db.rows :
            db.links[m] \subseteq UsableTerms(db) <=> \A t \in db.links[m] : db.terms[t] # "rejected"
    BY <2>1 DEF UsableTerms, Usable
  <2> QED
    BY <2>2 DEF AliasLinks, Usable
<1>2. ExpandAliases(db, c, names) = walk
  <2>1. names \cap UsableTerms(db) = names
    OBVIOUS
  <2> QED
    BY <2>1 DEF ExpandAliases
<1>3. Pairs(db, edges) /\ names \subseteq DOMAIN db.terms
  BY LinksPaired DEF UsableTerms
<1> HIDE DEF edges
<1>4. Sane(db, edges, names, 0, start, {})
  BY <1>3, StartSane
<1> HIDE DEF start
<1>5. walk.queue = <<>> /\ \E n \in Nat : Sane(db, edges, names, n, walk, {})
  BY <1>3, <1>4, WalkSane
<1> HIDE DEF walk
<1>6. PICK n \in Nat : Sane(db, edges, names, n, walk, {})
  BY <1>5
<1>7. /\ names \subseteq walk.reached /\ walk.reached \subseteq all
      /\ Cardinality(walk.reached) <= MaxAliasTerms \/ walk.reached = names
      /\ walk.reached \subseteq DOMAIN db.terms
  BY <1>6 DEF Sane, WalkOf
<1>8. ASSUME ~walk.truncated
      PROVE  walk.reached = all
  <2>1. DOMAIN walk.queue = {}
    BY <1>5
  <2>2. \A t \in walk.reached : Followed(db, edges, walk, t)
    BY <1>6, <1>8, <2>1 DEF Sane
  <2>3. \A m \in edges : db.links[m] \cap walk.reached # {} => db.links[m] \subseteq walk.reached
    BY <2>2 DEF Followed
  <2>4. all \subseteq walk.reached
    BY <1>3, <1>7, <2>3, LinkedIs
  <2> QED
    BY <1>7, <2>4
<1> HIDE DEF all
<1>9. Exact(db, c, names)
        <=> /\ names \subseteq walk.reached /\ walk.reached \subseteq Linked(db, sound, names)
            /\ ~walk.truncated => walk.reached = Linked(db, sound, names)
            /\ Cardinality(walk.reached) <= MaxAliasTerms \/ walk.reached = names
  BY <1>2 DEF Exact
<1> HIDE DEF sound
<1>10. Linked(db, sound, names) = all
  BY <1>1 DEF all
<1> QED
  BY <1>7, <1>8, <1>9, <1>10

\* A reader of a chapter is given exactly the terms that active links connect
\* to those it asks for, and part of them when a bound was hit, however many
\* terms, memories and links there are (_expand_alias_terms of access.py).
THEOREM AliasesAlwaysExact == Spec => []AliasesExact
<1>1. SInv /\ Tied => AliasesExact
  BY ExactHolds DEF AliasesExact
<1> QED
  BY <1>1, Invariance, MemoriesTied, PTL

-----------------------------------------------------------------------------
(* Occurrences and their corrections.                                        *)
\* A correction begins after what it corrects; all begin by chapter c.
Descends(v, told, c) ==
    \A m \in told :
        /\ v.rows[m].start \in Nat /\ v.rows[m].start <= c
        /\ v.rows[m].sup \in told => v.rows[v.rows[m].sup].start < v.rows[m].start

\* up is the function that Root defines, on those that begin by chapter k.
Early(v, told, k) == {m \in told : v.rows[m].start <= k}
Upward(up, v, told, D) ==
    up = [n \in D |-> IF v.rows[n].sup \in told THEN up[v.rows[n].sup] ELSE n]

LEMMA UpwardIs ==
    ASSUME NEW v, NEW told, NEW c \in Nat, Descends(v, told, c)
    PROVE  \E up : Upward(up, v, told, told)
<1> DEFINE sup(n) == v.rows[n].sup
           B(f, n) == IF sup(n) \in told THEN f[sup(n)] ELSE n
           T == {k \in 0..c : \E f : Upward(f, v, told, Early(v, told, k))}
<1>1. 0 \in T
  <2> DEFINE f == [n \in Early(v, told, 0) |-> n]
  <2>1. \A n \in Early(v, told, 0) : sup(n) \notin told
    <3> SUFFICES ASSUME NEW n \in Early(v, told, 0), sup(n) \in told PROVE FALSE
      OBVIOUS
    <3>1. /\ n \in told /\ v.rows[n].start \in Nat /\ v.rows[n].start <= 0
          /\ v.rows[sup(n)].start < v.rows[n].start /\ v.rows[sup(n)].start \in Nat
      BY DEF Early, Descends
    <3> QED
      BY <3>1
  <2>2. f = [n \in Early(v, told, 0) |-> B(f, n)]
    BY <2>1
  <2>3. Upward(f, v, told, Early(v, told, 0))
    BY <2>2 DEF Upward
  <2> QED
    BY <2>3
<1>2. ASSUME NEW k \in 0 + 1..c, k - 1 \in T
      PROVE  k \in T
  <2> DEFINE E == Early(v, told, k - 1)
             F == Early(v, told, k)
  <2>1. PICK h : Upward(h, v, told, E)
    BY <1>2
  <2> DEFINE f == [n \in F |-> B(h, n)]
  <2>2. h = [n \in E |-> B(h, n)]
    BY <2>1 DEF Upward
  <2>3. E \subseteq F /\ \A n \in F : sup(n) \in told => sup(n) \in E
    BY DEF Early, Descends
  <2> HIDE DEF E, F
  <2>4. ASSUME NEW n \in F
        PROVE  f[n] = B(f, n)
    <3>1. CASE sup(n) \in told
      <4>1. sup(n) \in E /\ sup(n) \in F
        BY <3>1, <2>3
      <4>2. h[sup(n)] = B(h, sup(n)) /\ f[sup(n)] = B(h, sup(n))
        BY <4>1, <2>2
      <4> QED
        BY <4>2, <3>1
    <3>2. CASE sup(n) \notin told
      BY <3>2
    <3> QED
      BY <3>1, <3>2
  <2> HIDE DEF B
  <2>5. f = [n \in F |-> f[n]]
    OBVIOUS
  <2> HIDE DEF f
  <2>6. f = [n \in F |-> B(f, n)]
    BY <2>4, <2>5
  <2>7. Upward(f, v, told, F)
    BY <2>6 DEF Upward, B
  <2> QED
    BY <2>7 DEF F
<1> HIDE DEF T
<1>3. c \in T
  <2>1. \A k \in 0..c : k \in T
    BY <1>1, <1>2, Climbs
  <2> QED
    BY <2>1
<1>4. Early(v, told, c) = told
  BY DEF Early, Descends
<1> QED
  BY <1>3, <1>4 DEF T

\* Among those that begin first, one of which something is false.
LEMMA FirstOf ==
    ASSUME NEW v, NEW told, NEW c, Descends(v, told, c), NEW S \in SUBSET told, S # {}
    PROVE  \E m \in S : v.rows[m].sup \notin S
<1> DEFINE T == {v.rows[m].start : m \in S}
<1>1. T \in SUBSET Nat /\ T # {}
  BY DEF Descends
<1> HIDE DEF T
<1>2. PICK k \in T : \A j \in T : k <= j
  BY <1>1, LeastNat
<1>3. PICK m \in S : v.rows[m].start = k
  BY DEF T
<1>4. \A n \in S : v.rows[n].start \in T
  BY DEF T
<1>5. v.rows[m].sup \notin S
  <2> SUFFICES ASSUME v.rows[m].sup \in S PROVE FALSE
    OBVIOUS
  <2>1. v.rows[v.rows[m].sup].start < v.rows[m].start
    BY DEF Descends
  <2>2. k <= v.rows[v.rows[m].sup].start
    BY <1>2, <1>4
  <2>3. v.rows[v.rows[m].sup].start \in Nat /\ k \in Nat
    BY <1>1 DEF Descends
  <2> QED
    BY <1>3, <2>1, <2>2, <2>3
<1> QED
  BY <1>5

LEMMA RootIs ==
    ASSUME NEW v, NEW told, NEW c \in Nat, Descends(v, told, c)
    PROVE  \A n \in told :
              /\ Root(v, told, n) \in told
              /\ Root(v, told, n) = IF v.rows[n].sup \in told THEN Root(v, told, v.rows[n].sup) ELSE n
<1> DEFINE up == CHOOSE f : Upward(f, v, told, told)
           S == {n \in told : up[n] \notin told}
<1>1. \A n : Root(v, told, n) = up[n]
  BY DEF Root, Upward
<1>2. Upward(up, v, told, told)
  BY UpwardIs
<1> HIDE DEF up
<1>3. \A n \in told : up[n] = IF v.rows[n].sup \in told THEN up[v.rows[n].sup] ELSE n
  BY <1>2 DEF Upward
<1>4. S = {}
  <2> SUFFICES ASSUME S # {} PROVE FALSE
    OBVIOUS
  <2>1. S \in SUBSET told
    OBVIOUS
  <2>2. PICK m \in S : v.rows[m].sup \notin S
    BY <2>1, FirstOf
  <2> QED
    BY <2>2, <1>3
<1> QED
  BY <1>1, <1>3, <1>4

LEMMA RootsAgree ==
    ASSUME NEW v, NEW w, NEW told, NEW c \in Nat, Descends(v, told, c), Descends(w, told, c),
           \A n \in told : w.rows[n].sup = v.rows[n].sup
    PROVE  \A n \in told : Root(w, told, n) = Root(v, told, n)
<1> DEFINE S == {n \in told : Root(w, told, n) # Root(v, told, n)}
<1>1. S = {}
  <2> SUFFICES ASSUME S # {} PROVE FALSE
    OBVIOUS
  <2>1. S \in SUBSET told
    OBVIOUS
  <2>2. PICK m \in S : v.rows[m].sup \notin S
    BY <2>1, FirstOf
  <2>3. m \in told /\ w.rows[m].sup = v.rows[m].sup
    BY <2>2
  <2>4. Root(v, told, m) = IF v.rows[m].sup \in told THEN Root(v, told, v.rows[m].sup) ELSE m
    BY <2>3, RootIs
  <2>5. Root(w, told, m) = IF w.rows[m].sup \in told THEN Root(w, told, w.rows[m].sup) ELSE m
    BY <2>3, RootIs
  <2> QED
    BY <2>2, <2>3, <2>4, <2>5
<1> QED
  BY <1>1

\* Different members that are sent to different places are no more than these.
LEMMA Fewer ==
    ASSUME NEW S, IsFiniteSet(S), NEW T, IsFiniteSet(T), NEW f \in [S -> T],
           \A x, y \in S : f[x] = f[y] => x = y
    PROVE  Cardinality(S) <= Cardinality(T)
<1>1. Cardinality(S) \in Nat /\ Cardinality(T) \in Nat
  BY FS_CardinalityType
<1>2. ~(Cardinality(T) < Cardinality(S))
  BY FS_PigeonHole
<1> QED
  BY <1>1, <1>2

\* The places of a row but those between two of them.
LEMMA Outside ==
    ASSUME NEW l \in Nat, NEW a \in Nat, NEW b \in Nat
    PROVE  /\ IsFiniteSet((1..a) \cup (l - b + 1..l))
           /\ Cardinality((1..a) \cup (l - b + 1..l)) <= a + b
<1> DEFINE A == 1..a
           B == l - b + 1..l
<1>1. IsFiniteSet(A) /\ Cardinality(A) = a
  <2>1. IsFiniteSet(1..a) /\ Cardinality(1..a) = IF 1 > a THEN 0 ELSE a - 1 + 1
    BY FS_Interval
  <2> QED
    BY <2>1
<1>2. IsFiniteSet(B) /\ Cardinality(B) = b
  <2>1. IsFiniteSet(l - b + 1..l)
        /\ Cardinality(l - b + 1..l) = IF l - b + 1 > l THEN 0 ELSE l - (l - b + 1) + 1
    BY FS_Interval
  <2> QED
    BY <2>1
<1> HIDE DEF A, B
<1>3. IsFiniteSet(A \cup B) /\ Cardinality(A \cup B) = Cardinality(A) + Cardinality(B) - Cardinality(A \cap B)
  BY <1>1, <1>2, FS_Union
<1>4. Cardinality(A \cap B) \in Nat
  <2>1. IsFiniteSet(A \cap B)
    BY <1>1, FS_Subset
  <2> QED
    BY <2>1, FS_CardinalityType
<1>5. Cardinality(A \cup B) <= a + b
  BY <1>1, <1>2, <1>3, <1>4
<1> QED
  BY <1>3, <1>5 DEF A, B

-----------------------------------------------------------------------------
(* The window of occurrences.                                                *)
LEMMA ToldIs ==
    ASSUME NEW v, NEW t, NEW c \in Nat, v.rows \in Table(Memory, Row), Chained(v.rows)
    PROVE  LET told == Told(v, t, c)
           IN Descends(v, told, c) /\ IsFiniteSet(told) /\ told \subseteq Memory
<1> DEFINE told == Told(v, t, c)
<1>1. \A m \in told : m \in DOMAIN v.rows /\ v.rows[m].start <= c
  BY DEF Told
<1> HIDE DEF told
<1>2. DOMAIN v.rows \subseteq Memory /\ \A m \in DOMAIN v.rows : v.rows[m] \in Row
  BY TableRows
<1>3. \A m \in told : v.rows[m].start \in Nat
  BY <1>1, <1>2, Numbers DEF Row, RowOf
<1>4. ASSUME NEW m \in told, v.rows[m].sup \in told
      PROVE  v.rows[v.rows[m].sup].start < v.rows[m].start
  <2>1. v.rows[m].sup # 0
    BY <1>1, <1>2, <1>4, Numbers
  <2>2. Fits(v.rows[v.rows[m].sup], v.rows[m])
    BY <1>1, <2>1 DEF Chained
  <2> QED
    BY <2>2 DEF Fits
<1>5. IsFiniteSet(told)
  <2>1. told \in SUBSET Memory
    BY <1>1, <1>2
  <2> QED
    BY <2>1, StoreAssumption, FS_Subset
<1>6. Descends(v, told, c) /\ told \subseteq Memory
  BY <1>1, <1>2, <1>3, <1>4 DEF Descends
<1> QED
  BY <1>5, <1>6 DEF told

Behind(v, m, n) == v.rows[m].start < v.rows[n].start \/ (v.rows[m].start = v.rows[n].start /\ m < n)

LEMMA ByChapterIs ==
    ASSUME NEW v, NEW D, IsFiniteSet(D), D \subseteq Nat, \A m \in D : v.rows[m].start \in Nat
    PROVE  LET q == ByChapter(v, D)
               l == Cardinality(D)
           IN /\ l \in Nat /\ q \in [1..l -> D] /\ Len(q) = l
              /\ \A n \in 1..l : \A m \in 1..n - 1 : Behind(v, q[m], q[n])
              /\ \A x \in D : \E n \in 1..l : q[n] = x
<1> DEFINE R == {p \in D \X D : LET m == v.rows[p[1]].start
                                   n == v.rows[p[2]].start
                               IN m < n \/ (m = n /\ p[1] < p[2])}
           q == ByChapter(v, D)
           l == Cardinality(D)
<1>1. \A x, y \in D : <<x, y>> \in R <=> Behind(v, x, y)
  BY DEF Behind
<1>2. q = Ordered(D, R)
  BY DEF ByChapter
<1> HIDE DEF R, q
<1>0. \A x \in D : x \in Nat /\ v.rows[x].start \in Nat
  OBVIOUS
<1>3. ASSUME NEW x \in D, NEW y \in D
      PROVE  x = y \/ Behind(v, x, y) \/ Behind(v, y, x)
  BY <1>0 DEF Behind
<1>4. ASSUME NEW x \in D, NEW y \in D, NEW z \in D, Behind(v, x, y), Behind(v, y, z)
      PROVE  Behind(v, x, z)
  BY <1>0, <1>4 DEF Behind
<1>5. ASSUME NEW x \in D
      PROVE  ~Behind(v, x, x)
  BY <1>0 DEF Behind
<1>6. Orders(R, D)
  BY <1>1, <1>3, <1>4, <1>5 DEF Orders
<1>7. /\ l \in Nat /\ q \in [1..l -> D]
      /\ \A n \in 1..l : \A m \in 1..n - 1 : <<q[m], q[n]>> \in R
      /\ \A x \in D : \E n \in 1..l : q[n] = x
  BY <1>2, <1>6, OrderedIs
<1> HIDE DEF l
<1>8. ASSUME NEW n \in 1..l, NEW m \in 1..n - 1
      PROVE  Behind(v, q[m], q[n])
  <2>1. m \in 1..l
    BY <1>7
  <2>2. q[m] \in D /\ q[n] \in D
    BY <2>1, <1>7
  <2> QED
    BY <2>2, <1>1, <1>7
<1>9. Len(q) = l
  <2>1. q \in Seq(D)
    BY <1>7
  <2> QED
    BY <2>1, <1>7
<1> QED
  BY <1>7, <1>8, <1>9 DEF q, l

\* The occurrences in their order, and which of them are dropped.
Going(v, t, c) == {m \in Told(v, t, c) : Open(v.rows[m], c)}
Roots(v, t, c) == {Root(v, Told(v, t, c), m) : m \in Going(v, t, c)}
Stop(l) == IF KeepRolling > 0 THEN l - KeepRolling ELSE l

LEMMA DropBy ==
    ASSUME NEW v, NEW t, NEW c
    PROVE  LET q == ByChapter(v, Roots(v, t, c))
           IN Drop(v, t, c) = {m \in Going(v, t, c) : \E i \in KeepFirst + 1..Stop(Len(q)) :
                                    Root(v, Told(v, t, c), m) = q[i]}
  BY DEF Drop, Roots, Going, Stop

LEMMA RootsAre ==
    ASSUME NEW v, NEW t, NEW c \in Nat, v.rows \in Table(Memory, Row), Chained(v.rows)
    PROVE  LET D == Roots(v, t, c)
               q == ByChapter(v, D)
               l == Cardinality(D)
           IN /\ D \subseteq Told(v, t, c) /\ IsFiniteSet(D)
              /\ l \in Nat /\ q \in [1..l -> D] /\ Len(q) = l
              /\ \A n \in 1..l : \A m \in 1..n - 1 : Behind(v, q[m], q[n])
              /\ \A x \in D : \E n \in 1..l : q[n] = x
<1> DEFINE told == Told(v, t, c)
           D == Roots(v, t, c)
<1>1. Descends(v, told, c) /\ IsFiniteSet(told) /\ told \subseteq Memory
  BY ToldIs
<1>2. \A m \in told : Root(v, told, m) \in told
  BY <1>1, RootIs
<1>3. D \in SUBSET told
  BY <1>2 DEF Roots, Going
<1> HIDE DEF told, D
<1>4. IsFiniteSet(D)
  BY <1>1, <1>3, FS_Subset
<1>5. D \subseteq Nat /\ \A m \in D : v.rows[m].start \in Nat
  BY <1>1, <1>3, StoreAssumption DEF Descends
<1> DEFINE q == ByChapter(v, D)
           l == Cardinality(D)
<1>6. /\ l \in Nat /\ q \in [1..l -> D] /\ Len(q) = l
      /\ \A n \in 1..l : \A m \in 1..n - 1 : Behind(v, q[m], q[n])
      /\ \A x \in D : \E n \in 1..l : q[n] = x
  BY <1>4, <1>5, ByChapterIs
<1> HIDE DEF q, l
<1> QED
  BY <1>3, <1>4, <1>6 DEF told, D, q, l

LEMMA WindowKeeps ==
    ASSUME NEW v, NEW t, NEW c \in Nat, v.rows \in Table(Memory, Row), Chained(v.rows),
           NEW live, live \subseteq Going(v, t, c) \ Drop(v, t, c)
    PROVE  Cardinality({Root(v, Told(v, t, c), n) : n \in live}) <= KeepFirst + KeepRolling
<1> DEFINE told == Told(v, t, c)
           D == Roots(v, t, c)
           q == ByChapter(v, D)
           l == Cardinality(D)
           S == {Root(v, told, n) : n \in live}
           K == (1..KeepFirst) \cup (l - KeepRolling + 1..l)
<1>1. /\ IsFiniteSet(D) /\ l \in Nat /\ q \in [1..l -> D] /\ Len(q) = l
      /\ \A x \in D : \E n \in 1..l : q[n] = x
  BY RootsAre
<1>2. KeepFirst \in Nat /\ KeepRolling \in Nat
  BY StoreAssumption
<1>3. ASSUME NEW n \in live
      PROVE  \E i \in K : q[i] = Root(v, told, n)
  <2> DEFINE r == Root(v, told, n)
  <2>1. n \in Going(v, t, c) /\ n \notin Drop(v, t, c)
    OBVIOUS
  <2>2. r \in D
    BY <2>1 DEF Roots
  <2>3. PICK i \in 1..l : q[i] = r
    BY <1>1, <2>2
  <2>4. i \notin KeepFirst + 1..Stop(Len(q))
    BY <2>1, <2>3, DropBy
  <2> HIDE DEF D, q, l, r
  <2>5. i \in Nat /\ i >= 1 /\ i <= l /\ Stop(Len(q)) = IF KeepRolling > 0 THEN l - KeepRolling ELSE l
    BY <1>1, <2>3 DEF Stop
  <2>6. i \in K
    BY <1>1, <1>2, <2>4, <2>5
  <2> HIDE DEF K
  <2> QED
    BY <2>3, <2>6 DEF r
<1>4. IsFiniteSet(S)
  <2>1. S \in SUBSET D
    BY DEF Roots
  <2> HIDE DEF S, D
  <2> QED
    BY <1>1, <2>1, FS_Subset
<1>5. IsFiniteSet(K) /\ Cardinality(K) <= KeepFirst + KeepRolling
  <2> HIDE DEF l
  <2> QED
    BY <1>1, <1>2, Outside
<1>6. \A x \in S : \E i \in K : q[i] = x
  <2> HIDE DEF K, q
  <2> QED
    BY <1>3
<1> HIDE DEF S, K, q, D, l
<1> DEFINE f == [x \in S |-> CHOOSE i \in K : q[i] = x]
<1>7. f \in [S -> K] /\ \A x \in S : q[f[x]] = x
  BY <1>6
<1> HIDE DEF f
<1>8. Cardinality(S) <= Cardinality(K)
  BY <1>4, <1>5, <1>7, Fewer
<1>9. Cardinality(S) \in Nat /\ Cardinality(K) \in Nat
  BY <1>4, <1>5, FS_CardinalityType
<1>10. Cardinality(S) <= KeepFirst + KeepRolling
  BY <1>2, <1>5, <1>8, <1>9
<1> QED
  BY <1>10 DEF S

\* The only occurrence of a chapter that began before none of the others.
LEMMA LastKept ==
    ASSUME NEW v, NEW t, NEW c \in Nat, v.rows \in Table(Memory, Row), Chained(v.rows),
           NEW m \in Told(v, t, c), v.rows[m].sup = 0, v.rows[m].start = c, KeepRolling > 0,
           \A n \in Told(v, t, c) : v.rows[n].start = c => n = m
    PROVE  m \notin Drop(v, t, c)
<1> SUFFICES ASSUME m \in Drop(v, t, c) PROVE FALSE
  OBVIOUS
<1> DEFINE told == Told(v, t, c)
           D == Roots(v, t, c)
           q == ByChapter(v, D)
           l == Cardinality(D)
<1>1. /\ D \subseteq told /\ l \in Nat /\ q \in [1..l -> D] /\ Len(q) = l
      /\ \A n \in 1..l : \A k \in 1..n - 1 : Behind(v, q[k], q[n])
  BY RootsAre
<1>2. Descends(v, told, c) /\ told \subseteq Memory
  BY ToldIs
<1>3. Root(v, told, m) = m
  <2>1. 0 \notin told
    BY <1>2, Numbers
  <2>2. Root(v, told, m) = IF v.rows[m].sup \in told THEN Root(v, told, v.rows[m].sup) ELSE m
    BY <1>2, RootIs
  <2> QED
    BY <2>1, <2>2
<1>4. PICK i \in KeepFirst + 1..Stop(Len(q)) : Root(v, told, m) = q[i]
  BY DropBy
<1> HIDE DEF D, q, l
<1>5. i \in 1..l - 1 /\ l \in 1..l
  <2>1. KeepFirst \in Nat /\ KeepRolling \in Nat
    BY StoreAssumption
  <2>2. Stop(Len(q)) = l - KeepRolling
    BY <1>1 DEF Stop
  <2> QED
    BY <1>1, <2>1, <2>2
<1>6. Behind(v, q[i], q[l])
  BY <1>1, <1>5
<1>7. q[l] \in told
  BY <1>1, <1>5
<1>8. v.rows[q[l]].start \in Nat /\ v.rows[q[l]].start <= c
  BY <1>2, <1>7 DEF Descends
<1>9. m \in Nat /\ q[i] = m
  BY <1>2, <1>3, <1>4, Numbers
<1>10. q[l] # m
  BY <1>6, <1>9 DEF Behind
<1>11. v.rows[q[l]].start # c
  BY <1>7, <1>10
<1> QED
  BY <1>6, <1>8, <1>9, <1>11 DEF Behind

\* What is active two chapters later, after an occurrence of chapter c.
Live(v, t, c) == {n \in Told(v, t, c) : v.rows[n].end = Never \/ v.rows[n].end > c + 1}

Retained(v, t, c) == Cardinality({Root(v, Told(v, t, c), n) : n \in Live(v, t, c)}) <= KeepFirst + KeepRolling

LEMMA DropRetains ==
    ASSUME NEW v, NEW w, NEW t, NEW c \in Chapter, v.rows \in Table(Memory, Row), Chained(v.rows),
           w.rows = Over(Dropped(v, t, c), v.rows), w.links = v.links
    PROVE  /\ Retained(w, t, c)
           /\ \A m \in Told(w, t, c) :
                 /\ v.rows[m].sup = 0 /\ v.rows[m].start = c /\ v.rows[m].end = Never /\ KeepRolling > 0
                 /\ \A n \in Told(w, t, c) : w.rows[n].start = c => n = m
                 => m \in Live(w, t, c)
<1> DEFINE ends == Dropped(v, t, c)
           gone == Drop(v, t, c)
           stop(n) == IF v.rows[n].start = c THEN c + 1 ELSE c
           told == Told(v, t, c)
<1>1. c \in Nat /\ c > 0
  BY Numbers
<1>2. DOMAIN ends = gone /\ \A n \in gone : ends[n] = Ended(v.rows[n], stop(n))
  BY DEF Dropped
<1>3. /\ DOMAIN Over(ends, v.rows) = DOMAIN ends \cup DOMAIN v.rows
      /\ \A n \in DOMAIN ends : Over(ends, v.rows)[n] = ends[n]
      /\ \A n \in DOMAIN v.rows \ DOMAIN ends : Over(ends, v.rows)[n] = v.rows[n]
  BY OverRows
<1>4. \A n \in gone : n \in DOMAIN v.rows /\ n \in told
  BY DropBy DEF Going, Told
<1>0. w.rows = Over(ends, v.rows)
  OBVIOUS
<1> HIDE DEF ends
<1>5. DOMAIN w.rows = DOMAIN v.rows
  BY <1>0, <1>2, <1>3, <1>4
<1> HIDE DEF gone
<1>6. ASSUME NEW n \in DOMAIN v.rows
      PROVE  /\ w.rows[n].type = v.rows[n].type /\ w.rows[n].mark = v.rows[n].mark
             /\ w.rows[n].by = v.rows[n].by /\ w.rows[n].review = v.rows[n].review
             /\ w.rows[n].start = v.rows[n].start /\ w.rows[n].sup = v.rows[n].sup
             /\ n \notin gone => w.rows[n] = v.rows[n]
             /\ n \in gone => w.rows[n].end = stop(n)
  <2>1. v.rows[n] \in Row
    BY TableRows
  <2>2. CASE n \in gone
    <3>1. w.rows[n] = Ended(v.rows[n], stop(n))
      BY <2>2, <1>0, <1>2, <1>3
    <3> QED
      BY <2>1, <2>2, <3>1 DEF Ended, Row, RowOf
  <2>3. CASE n \notin gone
    <3>1. w.rows[n] = v.rows[n]
      BY <2>3, <1>0, <1>2, <1>3
    <3> QED
      BY <2>3, <3>1
  <2> QED
    BY <2>2, <2>3
<1>7. Told(w, t, c) = told
  <2>1. \A n : n \in Told(w, t, c) <=>
                  /\ n \in DOMAIN w.rows
                  /\ w.rows[n].type = "event" /\ w.rows[n].mark = Transformation /\ w.rows[n].by = "agent"
                  /\ Usable(w.rows[n].review) /\ w.rows[n].start <= c /\ t \in w.links[n]
    BY DEF Told
  <2>2. \A n : n \in told <=>
                  /\ n \in DOMAIN v.rows
                  /\ v.rows[n].type = "event" /\ v.rows[n].mark = Transformation /\ v.rows[n].by = "agent"
                  /\ Usable(v.rows[n].review) /\ v.rows[n].start <= c /\ t \in v.links[n]
    BY DEF Told
  <2> HIDE DEF told
  <2>3. \A n : n \in Told(w, t, c) <=> n \in told
    BY <2>1, <2>2, <1>5, <1>6
  <2> QED
    BY <2>3
<1>8. told \subseteq DOMAIN v.rows
  BY DEF Told
<1>9. Descends(v, told, c)
  BY <1>1, ToldIs
<1> HIDE DEF told
<1>10. Descends(w, told, c)
  BY <1>6, <1>8, <1>9 DEF Descends
<1>11. \A n \in told : Root(w, told, n) = Root(v, told, n)
  BY <1>1, <1>6, <1>8, <1>9, <1>10, RootsAgree
<1> DEFINE live == Live(w, t, c)
<1>12. live \subseteq told /\ \A n \in told :
          n \in live <=> w.rows[n].end = Never \/ w.rows[n].end > c + 1
  BY <1>7 DEF Live
<1> HIDE DEF live
<1>13. ASSUME NEW n \in live
       PROVE  n \in Going(v, t, c) /\ n \notin gone
  <2>1. n \in told /\ n \in DOMAIN v.rows /\ (w.rows[n].end = Never \/ w.rows[n].end > c + 1)
    BY <1>8, <1>12
  <2>2. n \notin gone
    <3> SUFFICES ASSUME n \in gone PROVE FALSE
      OBVIOUS
    <3>1. w.rows[n].end = stop(n)
      BY <2>1, <1>6
    <3>2. stop(n) \in Nat /\ stop(n) > 0 /\ stop(n) <= c + 1
      BY <1>1
    <3> HIDE DEF stop
    <3> QED
      BY <2>1, <3>1, <3>2, <1>1 DEF Never
  <2>3. w.rows[n] = v.rows[n]
    BY <2>1, <2>2, <1>6
  <2>4. v.rows[n].end \in Nat
    <3>1. v.rows[n] \in Row
      BY <2>1, TableRows
    <3> QED
      BY <3>1 DEF Row, RowOf
  <2>5. Open(v.rows[n], c)
    BY <2>1, <2>3, <2>4, <1>1 DEF Open
  <2>6. n \in Going(v, t, c)
    BY <2>1, <2>5 DEF Going, told
  <2> QED
    BY <2>2, <2>6
<1>14. Retained(w, t, c)
  <2>1. live \subseteq Going(v, t, c) \ Drop(v, t, c)
    BY <1>13 DEF gone
  <2>2. Cardinality({Root(v, told, n) : n \in live}) <= KeepFirst + KeepRolling
    BY <1>1, <2>1, WindowKeeps DEF told
  <2>3. {Root(w, told, n) : n \in live} = {Root(v, told, n) : n \in live}
    BY <1>11, <1>12
  <2> QED
    BY <2>2, <2>3, <1>7 DEF Retained, live
<1>15. ASSUME NEW m \in told,
              v.rows[m].sup = 0, v.rows[m].start = c, v.rows[m].end = Never, KeepRolling > 0,
              \A n \in told : w.rows[n].start = c => n = m
       PROVE  m \in live
  <2>1. \A n \in told : v.rows[n].start = c => n = m
    BY <1>6, <1>8, <1>15
  <2>2. m \notin gone
    BY <1>1, <1>15, <2>1, LastKept DEF told, gone
  <2>3. w.rows[m] = v.rows[m]
    BY <2>2, <1>6, <1>8
  <2> QED
    BY <2>3, <1>12, <1>15
<1> QED
  BY <1>7, <1>14, <1>15 DEF live

-----------------------------------------------------------------------------
(* The step that tells an occurrence.                                        *)
LEMMA OverNothing ==
    ASSUME NEW S, NEW T, NEW f \in Table(S, T)
    PROVE  Over(<<>>, f) = f
<1>1. f = [x \in DOMAIN f |-> f[x]]
  BY TableIs
<1>2. DOMAIN <<>> = {}
  BY NoRows
<1> QED
  BY <1>1, <1>2 DEF Over

LEMMA TransformRetains ==
    ASSUME SInv, NEW a \in Agent, NEW m \in Memory, NEW t \in Term, Transform(a, m, t)
    PROVE  /\ draft'[a].links[m] = {t} /\ draft'[a].rows[m].start = Here(a)
           /\ DOMAIN draft'[a].rows \subseteq DOMAIN draft[a].rows \cup DOMAIN db.rows \cup {m}
           /\ Retained(View(a)', t, Here(a))
           /\ KeepRolling > 0 /\ (\A n \in Told(View(a)', t, Here(a)) : View(a)'.rows[n].start = Here(a) => n = m)
                => m \in Live(View(a)', t, Here(a))
<1> DEFINE new == Own(a, "event", Transformation, "persist", 0)
           own == draft[a]
           told == Put(own, One(m, new), One(m, {t}))
           v == [View(a) EXCEPT !.rows = Over(told.rows, @), !.links = Over(told.links, @)]
           c == Here(a)
           ends == Dropped(v, t, c)
           d == Put(told, ends, <<>>)
           w == View(a)'
<1>1. Busy(a) /\ m \in Unused /\ draft' = [draft EXCEPT ![a] = d] /\ UNCHANGED <<db, versions, tools>>
  BY DEF Transform, Has
<1>2. own.ver \in Nat /\ c \in Chapter /\ own \in AtWork
      /\ own.rows \in Table(Memory, RowOf(Types)) /\ own.links \in Table(Memory, SUBSET Term)
  BY <1>1, AtWorkIs
<1>3. /\ new \in RowOf(Types) /\ new.sup = 0 /\ new.start = c /\ new.end = Never /\ new.type = "event"
      /\ new.mark = Transformation /\ new.by = "agent" /\ new.review = "pending"
  <2>1. "event" \in Types /\ Transformation \in Marks /\ "persist" \in Scope \cup {"default"} /\ 0 \in Nat
    BY DEF Types, Marks, Scope
  <2>2. new \in RowOf(Types)
    BY <1>2, <2>1, OwnRow
  <2>3. EndOf("event", "persist", c) = Never
    BY DEF EndOf
  <2> QED
    BY <2>2, <2>3 DEF Own, NewRow
<1> HIDE DEF new
<1>4. One(m, new) \in Table(Memory, RowOf(Types)) /\ One(m, {t}) \in Table(Memory, SUBSET Term)
      /\ DOMAIN One(m, new) = {m} /\ One(m, new)[m] = new
      /\ DOMAIN One(m, {t}) = {m} /\ One(m, {t})[m] = {t}
  BY <1>3, TableOne, OneRow
<1>5. told \in AtWork /\ told.rows = Over(One(m, new), own.rows) /\ told.links = Over(One(m, {t}), own.links)
  BY <1>2, <1>4, PutIs
<1>6. told.rows \in Table(Memory, RowOf(Types)) /\ told.links \in Table(Memory, SUBSET Term)
  BY <1>5, RunFields
<1>7. Ahead(told.rows, db.rows)
  BY <1>1, <1>3, <1>5, NewId, AddedAhead DEF SInv
<1>8. DOMAIN told.rows = {m} \cup DOMAIN own.rows /\ told.rows[m] = new
  <2> DEFINE o == One(m, new)
             g == Over(o, own.rows)
  <2>1. DOMAIN g = DOMAIN o \cup DOMAIN own.rows /\ \A x \in DOMAIN o : g[x] = o[x]
    BY OverRows
  <2>2. DOMAIN o = {m} /\ o[m] = new /\ told.rows = g
    BY <1>4, <1>5
  <2> HIDE DEF o, g, told
  <2> QED
    BY <2>1, <2>2
<1>9. m \in DOMAIN told.links /\ told.links[m] = {t}
  <2> DEFINE o == One(m, {t})
             g == Over(o, own.links)
  <2>1. DOMAIN g = DOMAIN o \cup DOMAIN own.links /\ \A x \in DOMAIN o : g[x] = o[x]
    BY OverRows
  <2>2. DOMAIN o = {m} /\ o[m] = {t} /\ told.links = g
    BY <1>4, <1>5
  <2> HIDE DEF o, g, told
  <2> QED
    BY <2>1, <2>2
<1> HIDE DEF told
<1>10. v.rows = Over(told.rows, db.rows) /\ v.links = Over(told.links, db.links)
  <2>1. v.rows = Over(told.rows, Over(own.rows, db.rows)) /\ v.links = Over(told.links, Over(own.links, db.links))
    BY DEF View
  <2>2. \A e, f, g : Over(Over(e, f), Over(f, g)) = Over(Over(e, f), g)
    BY OverTwice
  <2> QED
    BY <2>1, <2>2, <1>5
<1>11. v.rows \in Table(Memory, Row)
  <2>1. told.rows \in Table(Memory, Row)
    BY <1>6, TableIs, OneType
  <2>2. db.rows \in Table(Memory, Row)
    BY StoreFields DEF SInv
  <2> QED
    BY <2>1, <2>2, <1>10, TableOver
<1>12. /\ DOMAIN v.rows = DOMAIN told.rows \cup DOMAIN db.rows
       /\ \A n \in DOMAIN told.rows : v.rows[n] = told.rows[n]
       /\ \A n \in DOMAIN told.links : v.links[n] = told.links[n]
  <2>1. /\ DOMAIN Over(told.rows, db.rows) = DOMAIN told.rows \cup DOMAIN db.rows
        /\ \A n \in DOMAIN told.rows : Over(told.rows, db.rows)[n] = told.rows[n]
    BY OverRows
  <2>2. \A n \in DOMAIN told.links : Over(told.links, db.links)[n] = told.links[n]
    BY OverRows
  <2> QED
    BY <2>1, <2>2, <1>10
<1>13. Chained(v.rows)
  <2>1. \A n \in DOMAIN told.rows : told.rows[n] \in RowOf(Types \cup {"summary"})
    BY <1>6, TableRows, OneType DEF Row
  <2>2. \A n \in DOMAIN db.rows : db.rows[n] \in RowOf(Types \cup {"summary"})
    BY OwnRows
  <2>3. Chained(Over(told.rows, db.rows))
    BY <1>7, <2>1, <2>2, CommittedChained DEF SInv
  <2> QED
    BY <2>3, <1>10
<1> HIDE DEF v
<1>14. /\ ends \in Table(Memory, RowOf(Types)) /\ DOMAIN ends \subseteq DOMAIN v.rows
       /\ \A n \in DOMAIN ends : Lowered(ends[n], v.rows[n])
  BY <1>2, <1>11, DroppedLowers
<1> HIDE DEF ends
<1>15. d.rows = Over(ends, told.rows) /\ d.links = told.links
  <2>1. <<>> \in Table(Memory, SUBSET Term)
    BY NoRows
  <2>2. d.rows = Over(ends, told.rows) /\ d.links = Over(<<>>, told.links)
    BY <1>5, <1>14, <2>1, PutIs
  <2> QED
    BY <2>2, <1>6, OverNothing
<1> HIDE DEF d
<1>16. draft'[a] = d
  BY <1>1 DEF SInv, TypeOK
<1>17. w.rows = Over(ends, v.rows) /\ w.links = v.links
  <2>1. w.rows = Over(d.rows, db.rows) /\ w.links = Over(d.links, db.links)
    BY <1>1, <1>16 DEF View
  <2>2. Over(Over(ends, told.rows), db.rows) = Over(ends, Over(told.rows, db.rows))
    BY OverOver
  <2> QED
    BY <2>1, <2>2, <1>10, <1>15
<1>18. /\ DOMAIN d.rows = DOMAIN ends \cup DOMAIN told.rows
       /\ \A n \in DOMAIN ends : d.rows[n] = ends[n]
       /\ \A n \in DOMAIN told.rows \ DOMAIN ends : d.rows[n] = told.rows[n]
  <2>1. /\ DOMAIN Over(ends, told.rows) = DOMAIN ends \cup DOMAIN told.rows
        /\ \A n \in DOMAIN ends : Over(ends, told.rows)[n] = ends[n]
        /\ \A n \in DOMAIN told.rows \ DOMAIN ends : Over(ends, told.rows)[n] = told.rows[n]
    BY OverRows
  <2> QED
    BY <2>1, <1>15
<1>19. v.rows[m] = new /\ v.links[m] = {t} /\ m \in DOMAIN v.rows
  BY <1>8, <1>9, <1>12
<1>20. d.rows[m].start = c
  <2>1. CASE m \in DOMAIN ends
    BY <2>1, <1>3, <1>14, <1>18, <1>19 DEF Lowered
  <2>2. CASE m \notin DOMAIN ends
    BY <2>2, <1>3, <1>8, <1>18
  <2> QED
    BY <2>1, <2>2
<1> HIDE DEF w
<1>21. /\ Retained(w, t, c)
       /\ \A x \in Told(w, t, c) :
             /\ v.rows[x].sup = 0 /\ v.rows[x].start = c /\ v.rows[x].end = Never /\ KeepRolling > 0
             /\ \A n \in Told(w, t, c) : w.rows[n].start = c => n = x
             => x \in Live(w, t, c)
  BY <1>2, <1>11, <1>13, <1>17, DropRetains DEF ends
<1>22. m \in Told(w, t, c)
  <2>1. m \in DOMAIN w.rows
    <3>1. DOMAIN Over(ends, v.rows) = DOMAIN ends \cup DOMAIN v.rows
      BY OverRows
    <3> QED
      BY <3>1, <1>17, <1>19
  <2>2. c <= c /\ Usable("pending")
    BY <1>2, Numbers DEF Usable
  <2>3. /\ w.rows[m].type = "event" /\ w.rows[m].mark = Transformation /\ w.rows[m].by = "agent"
        /\ w.rows[m].review = "pending" /\ w.rows[m].start = c
    <3>1. /\ \A n \in DOMAIN ends : Over(ends, v.rows)[n] = ends[n]
          /\ \A n \in DOMAIN v.rows \ DOMAIN ends : Over(ends, v.rows)[n] = v.rows[n]
      BY OverRows
    <3>2. CASE m \in DOMAIN ends
      <4>1. \E e : ends[m] = Ended(v.rows[m], e)
        BY <3>2 DEF ends, Dropped
      <4>2. w.rows[m] = ends[m]
        BY <3>1, <3>2, <1>17
      <4> QED
        BY <4>1, <4>2, <1>3, <1>19 DEF Ended, RowOf
    <3>3. CASE m \notin DOMAIN ends
      BY <3>1, <3>3, <1>3, <1>17, <1>19
    <3> QED
      BY <3>2, <3>3
  <2>4. t \in w.links[m]
    BY <1>17, <1>19
  <2> QED
    BY <2>1, <2>2, <2>3, <2>4 DEF Told
<1>23. d.links[m] = {t}
  BY <1>9, <1>15
<1>24. DOMAIN d.rows \subseteq DOMAIN own.rows \cup DOMAIN db.rows \cup {m}
  BY <1>8, <1>12, <1>14, <1>18
<1>25. KeepRolling > 0 /\ (\A n \in Told(w, t, c) : w.rows[n].start = c => n = m) => m \in Live(w, t, c)
  BY <1>3, <1>19, <1>21, <1>22
<1> QED
  BY <1>16, <1>20, <1>21, <1>23, <1>24, <1>25 DEF w

-----------------------------------------------------------------------------
(* Only Transform tells an occurrence that corrects no other.                *)
LEMMA ToolMarks ==
    ASSUME NEW name \in DOMAIN ToolOf
    PROVE  Transformation \notin ToolOf[name].marks
<1>1. Transformation \notin Facts.marks /\ Transformation \notin Cultivation.marks
      /\ Transformation \notin GenderPerception.marks
  BY DEF Facts, Cultivation, GenderPerception, Tool, Transformation
<1>2. Transformation \notin Relations.marks /\ Transformation \notin Definitions.marks
      /\ Transformation \notin Events.marks
  BY DEF Relations, Definitions, Events, Tool, Transformation
<1>3. Transformation \notin Aliases.marks /\ Transformation \notin Impersonation.marks
  BY DEF Aliases, Impersonation, LastingOnly, Tool, Transformation, AliasTypes
<1>4. Transformation \notin Appearance.marks
  BY DEF Appearance, Tool, Transformation, AppearanceMarks
<1>5. Transformation \notin GenderFacts.marks /\ Transformation \notin GenderEvents.marks
  BY DEF GenderFacts, GenderEvents, OnlyItself, Tool, Transformation, ChangeRule
<1> QED
  BY <1>1, <1>2, <1>3, <1>4, <1>5 DEF ToolOf

\* A write of m, and of rows that the run sees, has m for its only new row.
LEMMA WriteAdds ==
    ASSUME SInv, NEW a \in Agent, NEW rows, NEW m, NEW names, Write(a, rows, m, names), UNCHANGED db,
           \A n \in DOMAIN rows : n = m \/ n \in DOMAIN View(a).rows,
           NEW n \in NewRows(a)' \ NewRows(a)
    PROVE  n = m /\ n \in DOMAIN rows /\ draft'[a].rows[n] = rows[n]
<1> DEFINE links == One(m, names \cap DOMAIN View(a).terms)
           d == Put(draft[a], rows, links)
<1>1. draft'[a] = draft[a] \/ draft'[a] = d
  BY DEF Write, AfterTool, SInv, TypeOK
<1>2. n \in DOMAIN draft'[a].rows /\ n \notin DOMAIN db.rows /\ n \notin DOMAIN draft[a].rows
  BY DEF NewRows
<1>3. draft'[a] = d
  BY <1>1, <1>2
<1>4. d.rows = Over(rows, draft[a].rows)
  <2>1. draft[a] \in Resting \cup AtWork
    BY DEF SInv, TypeOK
  <2> HIDE DEF links
  <2> QED
    BY <2>1 DEF Put, Resting, AtWork
<1> HIDE DEF d
<1>5. /\ DOMAIN Over(rows, draft[a].rows) = DOMAIN rows \cup DOMAIN draft[a].rows
      /\ \A x \in DOMAIN rows : Over(rows, draft[a].rows)[x] = rows[x]
  BY OverRows
<1>6. n \in DOMAIN rows /\ draft'[a].rows[n] = rows[n]
  BY <1>2, <1>3, <1>4, <1>5
<1>7. n \notin DOMAIN View(a).rows
  BY <1>2, ViewOf
<1> QED
  BY <1>6, <1>7

\* The row that replaces p is told as its correction.
LEMMA ReplaceAdds ==
    ASSUME SInv, NEW a \in Agent, NEW p \in DOMAIN View(a).rows, NEW m \in Memory, NEW new, NEW names,
           Replace(a, p, m, new, names), UNCHANGED db, NEW n \in NewRows(a)' \ NewRows(a)
    PROVE  draft'[a].rows[n] = new
<1> DEFINE ends == One(p, Ended(View(a).rows[p], Here(a)))
           fresh == One(m, new)
           rows == Over(fresh, ends)
<1>1. Write(a, rows, m, names)
  BY DEF Replace
<1>2. DOMAIN fresh = {m} /\ fresh[m] = new /\ DOMAIN ends = {p}
  BY OneRow
<1> HIDE DEF fresh, ends
<1>3. DOMAIN rows = DOMAIN fresh \cup DOMAIN ends /\ \A x \in DOMAIN fresh : rows[x] = fresh[x]
  BY OverRows
<1> HIDE DEF rows
<1>4. \A x \in DOMAIN rows : x = m \/ x \in DOMAIN View(a).rows
  BY <1>2, <1>3
<1>5. n = m /\ draft'[a].rows[n] = rows[n]
  BY <1>1, <1>4, WriteAdds
<1> QED
  BY <1>2, <1>3, <1>5

\* While a run writes nothing, none of its rows becomes new to the store.
LEMMA NothingNew ==
    ASSUME NEW a \in Agent, UNCHANGED draft[a],
           \A n \in DOMAIN draft[a].rows : n \in DOMAIN db.rows => n \in DOMAIN db'.rows
    PROVE  NewRows(a)' \ NewRows(a) = {}
  BY DEF NewRows

LEMMA UsersLeave ==
    ASSUME SInv, UserMemory \/ UserTerms \/ Chapters, NEW m \in Held("rows"), m \in DOMAIN db.rows
    PROVE  m \in DOMAIN db'.rows
<1>1. db \in Store
  BY DEF SInv, TypeOK
<1>2. ASSUME NEW gone, MayGo(gone), db' = Without(gone)
      PROVE  m \in DOMAIN db'.rows
  <2>1. m \notin gone
    BY <1>2 DEF MayGo
  <2>2. DOMAIN db'.rows = DOMAIN db.rows \ gone
    BY <1>1, <1>2 DEF Without, Store
  <2> QED
    BY <2>1, <2>2
<1>3. CASE UserMemory
  <2>1. ASSUME NEW n, NEW status, ReviewMemory(n, status)
        PROVE  m \in DOMAIN db'.rows
    BY <1>1, <2>1 DEF ReviewMemory, Store
  <2>2. ASSUME NEW n, NEW c, ExpireMemory(n, c)
        PROVE  m \in DOMAIN db'.rows
    BY <1>1, <2>2 DEF ExpireMemory, Store
  <2>3. ASSUME NEW n, DeleteMemory(n)
        PROVE  m \in DOMAIN db'.rows
    BY <1>2, <2>3 DEF DeleteMemory
  <2>4. ASSUME NEW n, NEW names, ReplaceTerms(n, names)
        PROVE  m \in DOMAIN db'.rows
    BY <1>1, <2>4 DEF ReplaceTerms, Store
  <2>5. ASSUME NEW n, NEW mark, UpdateMemory(n, mark)
        PROVE  m \in DOMAIN db'.rows
    BY <1>1, <2>5 DEF UpdateMemory, Store
  <2>6. ASSUME NEW n, NEW type, NEW mark, NEW c, NEW scope, NEW names, CreateByUser(n, type, mark, c, scope, names)
        PROVE  m \in DOMAIN db'.rows
    <3> DEFINE new == One(n, NewRow(type, mark, c, versions[c], scope, 0, "user"))
    <3>1. db'.rows = Over(new, db.rows)
      BY <1>1, <2>6 DEF CreateByUser, Store
    <3> HIDE DEF new
    <3>2. DOMAIN Over(new, db.rows) = DOMAIN new \cup DOMAIN db.rows
      BY OverRows
    <3> QED
      BY <3>1, <3>2
  <2> QED
    BY <1>3, <2>1, <2>2, <2>3, <2>4, <2>5, <2>6 DEF UserMemory
<1>4. CASE UserTerms
  <2>1. db'.rows = db.rows
    BY <1>1, <1>4 DEF UserTerms, CreateTerm, DeleteTerm, SaveTranslation, DeleteTranslation, ReviewTerm,
                      ReviewTranslation, RenameTerm, Store
  <2> QED
    BY <2>1
<1>5. CASE Chapters
  BY <1>2, <1>5 DEF Chapters, EditChapter, RemoveChapter
<1> QED
  BY <1>3, <1>4, <1>5

LEMMA OthersLeave ==
    ASSUME SInv, NEW a \in Agent, NEW b \in Agent, b # a, Writing(b) \/ Running(b)
    PROVE  UNCHANGED draft[a] /\ DOMAIN db.rows \subseteq DOMAIN db'.rows
<1>1. draft \in [Agent -> Resting \cup AtWork] /\ db \in Store
  BY DEF SInv, TypeOK
<1> DEFINE Left == UNCHANGED draft[a] /\ DOMAIN db.rows \subseteq DOMAIN db'.rows
<1>2. ASSUME NEW d, draft' = [draft EXCEPT ![b] = d]
      PROVE  UNCHANGED draft[a]
  BY <1>1, <1>2
<1>3. CASE Writing(b)
  <2>1. ASSUME NEW t, AddTerm(b, t)
        PROVE  Left
    BY <1>1, <2>1 DEF AddTerm
  <2>2. ASSUME NEW rows, NEW n, NEW names, Write(b, rows, n, names), UNCHANGED db
        PROVE  Left
    BY <1>2, <2>2 DEF Write
  <2>3. ASSUME NEW name, NEW n, NEW mark, NEW scope, NEW names, Create(b, name, n, mark, scope, names)
        PROVE  Left
    BY <2>2, <2>3 DEF Create
  <2>4. ASSUME NEW name, NEW p, NEW n, NEW mark, NEW scope, NEW names, Supersede(b, name, p, n, mark, scope, names)
        PROVE  Left
    BY <2>2, <2>4 DEF Supersede, Replace
  <2>5. ASSUME NEW name, NEW p, Expire(b, name, p)
        PROVE  Left
    BY <1>1, <2>5 DEF Expire
  <2>6. ASSUME NEW n, NEW t, Transform(b, n, t)
        PROVE  Left
    BY <1>2, <2>6 DEF Transform
  <2>7. ASSUME NEW p, NEW n, NEW t, Correct(b, p, n, t)
        PROVE  Left
    BY <2>2, <2>7 DEF Correct, Replace
  <2> HIDE DEF Left
  <2>8. Left
    BY <1>3, <2>1, <2>3, <2>4, <2>5, <2>6, <2>7 DEF Writing
  <2> QED
    BY <2>8 DEF Left
<1>4. CASE Running(b)
  <2>1. ASSUME NEW c, BeginRecording(b, c)
        PROVE  Left
    BY <1>2, <2>1 DEF BeginRecording
  <2>2. ASSUME NEW c, NEW found, BeginNaming(b, c, found)
        PROVE  Left
    BY <1>2, <2>2 DEF BeginNaming
  <2>3. ASSUME NEW m, FinishRecording(b, m)
        PROVE  Left
    <3> DEFINE S == Summarised(b, m)
               C == Over(draft[b].rows, db.rows)
    <3>1. db'.rows = Over(S, C) /\ draft' = [draft EXCEPT ![b] = Idle]
      BY <1>1, <2>3 DEF FinishRecording, Store
    <3> HIDE DEF S
    <3>2. DOMAIN C = DOMAIN draft[b].rows \cup DOMAIN db.rows
      BY OverRows
    <3> HIDE DEF C
    <3>3. DOMAIN Over(S, C) = DOMAIN S \cup DOMAIN C
      BY OverRows
    <3> QED
      BY <1>2, <3>1, <3>2, <3>3
  <2>4. ASSUME FinishNaming(b)
        PROVE  Left
    <3>1. db'.rows = db.rows
      BY <1>1, <2>4 DEF FinishNaming, Store
    <3> QED
      BY <1>2, <2>4, <3>1 DEF FinishNaming
  <2>5. ASSUME Abort(b)
        PROVE  Left
    BY <1>2, <2>5 DEF Abort
  <2> HIDE DEF Left
  <2>6. Left
    BY <1>4, <2>1, <2>2, <2>3, <2>4, <2>5 DEF Running
  <2> QED
    BY <2>6 DEF Left
<1> QED
  BY <1>3, <1>4

LEMMA TellingIs ==
    ASSUME SInv, [Next]_vars, NEW a \in Agent, Busy(a), Busy(a)', NEW m \in NewRows(a)' \ NewRows(a),
           draft'[a].rows[m].mark = Transformation, draft'[a].rows[m].sup = 0
    PROVE  \E n \in Memory, t \in Term : Transform(a, n, t)
<1> SUFFICES ASSUME ~\E n \in Memory, t \in Term : Transform(a, n, t) PROVE FALSE
  OBVIOUS
<1>3. draft \in [Agent -> Resting \cup AtWork]
  BY DEF SInv, TypeOK
<1>4. ASSUME NEW name \in DOMAIN ToolOf, NEW n \in Memory, NEW mark \in ToolOf[name].marks,
             NEW scope, NEW names, Create(a, name, n, mark, scope, names)
      PROVE  FALSE
  <2> DEFINE new == Own(a, ToolOf[name].type, mark, scope, 0)
             rows == One(n, new)
  <2>1. Write(a, rows, n, names) /\ UNCHANGED db
    BY <1>4 DEF Create
  <2>2. DOMAIN rows = {n} /\ rows[n] = new
    BY OneRow
  <2>3. new.mark = mark
    BY DEF Own, NewRow
  <2> HIDE DEF rows, new
  <2>4. m = n /\ draft'[a].rows[m] = rows[m]
    BY <2>1, <2>2, WriteAdds
  <2> QED
    BY <2>2, <2>3, <2>4, <1>4, ToolMarks
<1>5. ASSUME NEW name, NEW p \in Memory, NEW n \in Memory, NEW mark, NEW scope, NEW names,
             Supersede(a, name, p, n, mark, scope, names)
      PROVE  FALSE
  <2> DEFINE new == Own(a, ToolOf[name].type, mark, scope, p)
  <2>1. /\ p \in DOMAIN View(a).rows /\ UNCHANGED db
        /\ \E kept : Replace(a, p, n, new, kept)
    BY <1>5 DEF Supersede
  <2>2. new.sup = p /\ p # 0
    BY Numbers DEF Own, NewRow
  <2> HIDE DEF new
  <2>3. draft'[a].rows[m] = new
    BY <2>1, ReplaceAdds
  <2> QED
    BY <2>2, <2>3
<1>6. ASSUME NEW p \in Memory, NEW n \in Memory, NEW t, Correct(a, p, n, t)
      PROVE  FALSE
  <2> DEFINE new == Own(a, "event", Transformation, "persist", p)
  <2>1. p \in DOMAIN View(a).rows /\ UNCHANGED db /\ Replace(a, p, n, new, {t})
    BY <1>6 DEF Correct, Told
  <2>2. new.sup = p /\ p # 0
    BY Numbers DEF Own, NewRow
  <2> HIDE DEF new
  <2>3. draft'[a].rows[m] = new
    BY <2>1, ReplaceAdds
  <2> QED
    BY <2>2, <2>3
<1>7. ASSUME NEW t, AddTerm(a, t)
      PROVE  FALSE
  <2>1. draft'[a].rows = draft[a].rows /\ UNCHANGED db
    BY <1>3, <1>7 DEF AddTerm, Resting, AtWork
  <2> QED
    BY <2>1 DEF NewRows
<1>8. ASSUME NEW name, NEW p, Expire(a, name, p)
      PROVE  FALSE
  <2> DEFINE ends == One(p, Ended(View(a).rows[p], Here(a)))
  <2>1. /\ draft'[a].rows = Over(ends, draft[a].rows) /\ UNCHANGED db /\ p \in DOMAIN View(a).rows
    BY <1>3, <1>8 DEF Expire, Resting, AtWork
  <2>2. DOMAIN ends = {p}
    BY OneRow
  <2> HIDE DEF ends
  <2>3. DOMAIN Over(ends, draft[a].rows) = DOMAIN ends \cup DOMAIN draft[a].rows
    BY OverRows
  <2>4. p \in DOMAIN draft[a].rows \cup DOMAIN db.rows
    BY <2>1, ViewOf
  <2> QED
    BY <2>1, <2>2, <2>3, <2>4 DEF NewRows
<1>9. ASSUME Writing(a)
      PROVE  FALSE
  BY <1>9, <1>4, <1>5, <1>6, <1>7, <1>8 DEF Writing
<1>10. ASSUME Running(a)
       PROVE  FALSE
  <2>1. Idle.on = FALSE
    BY DEF Idle
  <2>2. draft' = [draft EXCEPT ![a] = Idle] => ~Busy(a)'
    BY <1>3, <2>1 DEF Busy
  <2> QED
    BY <1>10, <2>2 DEF Running, BeginRecording, BeginNaming, FinishRecording, FinishNaming, Abort
<1>11. ASSUME UNCHANGED draft[a], \A n \in DOMAIN draft[a].rows : n \in DOMAIN db.rows => n \in DOMAIN db'.rows
       PROVE  FALSE
  BY <1>11, NothingNew
<1>12. ASSUME NEW b \in Agent, b # a, Writing(b) \/ Running(b)
       PROVE  FALSE
  BY <1>11, <1>12, OthersLeave
<1>13. ASSUME UserMemory \/ UserTerms \/ Chapters
       PROVE  FALSE
  <2>1. UNCHANGED draft
    BY <1>13 DEF UserMemory, UserTerms, Chapters, ReviewMemory, ExpireMemory, DeleteMemory, ReplaceTerms,
                 UpdateMemory, CreateByUser, CreateTerm, DeleteTerm, SaveTranslation, DeleteTranslation,
                 ReviewTerm, ReviewTranslation, RenameTerm, EditChapter, RemoveChapter
  <2>2. \A n \in DOMAIN draft[a].rows : n \in DOMAIN db.rows => n \in DOMAIN db'.rows
    BY <1>13, UsersLeave, HeldRows
  <2> QED
    BY <2>1, <2>2, <1>11
<1>14. CASE UNCHANGED vars
  BY <1>11, <1>14 DEF vars
<1> QED
  BY <1>9, <1>10, <1>12, <1>13, <1>14 DEF Next

-----------------------------------------------------------------------------
\* After an occurrence is told, at most KeepFirst + KeepRolling occurrences of
\* its subject stay active behind the chapter, and the new one is among them
\* unless the chapter told others (gender_advanced_events.py).
THEOREM RetentionAlwaysKept == Spec => RetentionKept
<1> DEFINE Keeps(a, t) ==
         \A m \in NewRows(a)' \ NewRows(a) :
            LET row == (draft[a].rows)'[m]
                v == View(a)'
                told == Told(v, t, row.start)
                live == {n \in told : v.rows[n].end = Never \/ v.rows[n].end > row.start + 1}
            IN row.mark = Transformation /\ row.sup = 0 /\ (draft[a].links)'[m] = {t} =>
                /\ Cardinality({Root(v, told, n) : n \in live}) <= KeepFirst + KeepRolling
                /\ KeepRolling > 0 /\ (\A n \in told : v.rows[n].start = row.start => n = m) => m \in live
       Kept == \A a \in Agent, t \in Term : Busy(a) /\ Busy(a)' => Keeps(a, t)
<1>1. ASSUME SInv, [Next]_vars
      PROVE  Kept
  <2> SUFFICES ASSUME NEW a \in Agent, NEW t \in Term, Busy(a), Busy(a)', NEW m \in NewRows(a)' \ NewRows(a),
                      draft'[a].rows[m].mark = Transformation, draft'[a].rows[m].sup = 0,
                      draft'[a].links[m] = {t}
               PROVE  /\ Retained(View(a)', t, draft'[a].rows[m].start)
                      /\ KeepRolling > 0
                           /\ (\A n \in Told(View(a)', t, draft'[a].rows[m].start) :
                                  View(a)'.rows[n].start = draft'[a].rows[m].start => n = m)
                         => m \in Live(View(a)', t, draft'[a].rows[m].start)
    BY DEF Retained, Live
  <2>1. PICK n \in Memory, u \in Term : Transform(a, n, u)
    BY <1>1, TellingIs
  <2>2. /\ draft'[a].links[n] = {u} /\ draft'[a].rows[n].start = Here(a)
        /\ DOMAIN draft'[a].rows \subseteq DOMAIN draft[a].rows \cup DOMAIN db.rows \cup {n}
        /\ Retained(View(a)', u, Here(a))
        /\ KeepRolling > 0 /\ (\A x \in Told(View(a)', u, Here(a)) : View(a)'.rows[x].start = Here(a) => x = n)
             => n \in Live(View(a)', u, Here(a))
    BY <1>1, <2>1, TransformRetains
  <2>3. m = n
    <3>1. UNCHANGED db
      BY <2>1 DEF Transform
    <3> QED
      BY <2>2, <3>1 DEF NewRows
  <2>4. u = t
    BY <2>2, <2>3
  <2> QED
    BY <2>2, <2>3, <2>4
<1>2. SInv /\ [Next]_vars => [Kept]_vars
  BY <1>1
<1> QED
  BY <1>2, Invariance, PTL DEF Spec, RetentionKept
==============================================================================
