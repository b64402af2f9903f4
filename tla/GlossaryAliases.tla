--------------------------- MODULE GlossaryAliases ----------------------------
(***************************************************************************)
(* The terms that active alias memories link to some terms, as a reader of a  *)
(* chapter is given them (_expand_alias_terms of the glossary's access.py):   *)
(* a breadth-first walk with two bounds.                                     *)
(***************************************************************************)
EXTENDS GlossaryTools, Sequences, FiniteSets

CONSTANTS MaxAliasTerms, MaxAliasEdges     \* MAX_ALIAS_TERMS, MAX_ALIAS_EDGES

ASSUME AliasAssumption == MaxAliasTerms \in Nat /\ MaxAliasEdges \in Nat

Never == 0                                 \* the end of a memory that has none
Open(m, c) == m.end = Never \/ m.end > c
Active(m, c) == m.start <= c /\ Open(m, c)
Usable(status) == status # "rejected"

UsableTerms(v) == {t \in DOMAIN v.terms : Usable(v.terms[t])}

\* Mutant: links to rejected terms are followed.
AliasLinksAny(v, c) ==
    {m \in DOMAIN v.rows :
        /\ v.rows[m].type = "rel" /\ v.rows[m].mark \in ALIAS_MARKS /\ Usable(v.rows[m].review)
        /\ Active(v.rows[m], c) /\ Cardinality(v.links[m]) = 2}

\* Links of two terms; broader relations say nothing about identity.
AliasLinks(v, c) ==
    {m \in DOMAIN v.rows :
        /\ v.rows[m].type = "rel" /\ v.rows[m].mark \in ALIAS_MARKS /\ Usable(v.rows[m].review)
        /\ Active(v.rows[m], c)
        /\ Cardinality(v.links[m]) = 2 /\ v.links[m] \subseteq UsableTerms(v)}

\* A set in the order that a set of pairs puts its members in.
Ordered(D, R) ==
    CHOOSE q \in [1..Cardinality(D) -> D] : \A n \in DOMAIN q : \A m \in 1..n - 1 : <<q[m], q[n]>> \in R

\* The links of a term, by the other term, the newest first.
Neighbours(v, edges, t) ==
    LET at == {m \in edges : t \in v.links[m]}
        other == [m \in at |-> CHOOSE u \in v.links[m] : u # t]
        before == {p \in at \X at :
                      LET m == p[1]
                          n == p[2]
                      IN \/ other[m] < other[n]
                         \/ other[m] = other[n] /\ v.rows[m].start > v.rows[n].start
                         \/ other[m] = other[n] /\ v.rows[m].start = v.rows[n].start /\ m < n}
        q == Ordered(at, before)
    IN [i \in 1..Cardinality(at) |-> [link |-> q[i], term |-> other[q[i]]]]

\* One neighbour.  A walk that is full of links takes no other.
Reach(walk, n) ==
    IF n.link \in walk.used THEN walk
    ELSE IF \/ Cardinality(walk.used) >= MaxAliasEdges
            \/ n.term \notin walk.reached /\ Cardinality(walk.reached) >= MaxAliasTerms
    THEN [walk EXCEPT !.truncated = TRUE]
    ELSE [walk EXCEPT !.used = @ \cup {n.link}, !.reached = @ \cup {n.term},
                      !.queue = IF n.term \in walk.reached THEN @ ELSE Append(@, n.term)]

\* The neighbours of the term at the head of the queue.
Visit(v, edges, walk) ==
    LET ns == Neighbours(v, edges, Head(walk.queue))
        after[i \in 0..Len(ns)] ==
            IF i = 0 THEN [walk EXCEPT !.queue = Tail(@)] ELSE Reach(after[i - 1], ns[i])
    IN after[Len(ns)]

Turn(v, edges, walk) == IF walk.queue = <<>> THEN walk ELSE Visit(v, edges, walk)

\* Until the queue is empty: each term is in it once at most.
Walk(v, edges, start) ==
    LET on[n \in 0..Cardinality(DOMAIN v.terms)] ==
          IF n = 0 THEN start ELSE Turn(v, edges, on[n - 1])
    IN on[Cardinality(DOMAIN v.terms)]

ExpandAliases(v, c, names) ==
    LET first == names \cap UsableTerms(v) IN
    IF first = {} THEN [reached |-> names, used |-> {}, truncated |-> FALSE]
    ELSE Walk(v, AliasLinks(v, c),
              [reached |-> first, used |-> {}, truncated |-> FALSE,
               queue |-> Ordered(first, {p \in first \X first : p[1] < p[2]})])

-----------------------------------------------------------------------------
\* The terms linked to some of these, at any distance.
Linked(v, edges, names) ==
    {t \in DOMAIN v.terms :
        \A S \in SUBSET DOMAIN v.terms :
            (names \subseteq S /\ \A m \in edges : v.links[m] \cap S # {} => v.links[m] \subseteq S) => t \in S}

Exact(v, c, names) ==
    LET walk == ExpandAliases(v, c, names)
        edges == {m \in DOMAIN v.rows :
                    /\ v.rows[m].mark \in ALIAS_MARKS /\ v.rows[m].type = "rel"
                    /\ v.rows[m].review # "rejected" /\ Active(v.rows[m], c) /\ Cardinality(v.links[m]) = 2
                    /\ \A t \in v.links[m] : v.terms[t] # "rejected"}
        all == Linked(v, edges, names)
    IN /\ names \subseteq walk.reached /\ walk.reached \subseteq all
       /\ ~walk.truncated => walk.reached = all
       /\ Cardinality(walk.reached) <= MaxAliasTerms \/ walk.reached = names
=============================================================================
