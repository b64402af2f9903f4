---------------------------- MODULE MCMemoryStore -----------------------------
(***************************************************************************)
(* A small instance of MemoryStore: jobs with one of a few choices of         *)
(* toolsets, and groups full of alias memories to read.                     *)
(***************************************************************************)
EXTENDS MemoryStore

VARIABLES runs, edits,     \* how many may still begin
          areas            \* what users change: memories, terms or chapters
mcvars == <<vars, runs, edits, areas>>

Job(enabled, terms, begin, change, where) ==
    [tools |-> enabled, terms |-> terms, runs |-> begin, edits |-> change, areas |-> where]

Jobs ==
    {Job({"facts"}, {1}, 2, 1, {"memory"}),
     Job({"continuity"}, {}, 2, 2, {"memory", "chapters"}),
     Job({"relations"}, {1, 2}, 1, 1, {"memory"}),
     Job({"relations", "terms"}, {1}, 1, 0, {}),
     Job({"terms"}, {1}, 2, 0, {}),
     Job({"aliases"}, {1, 2}, 1, 1, {"memory", "terms", "chapters"}),
     Job({"genderevents"}, {1}, 2, 0, {}),
     Job({}, {1}, 2, 2, {"terms", "chapters"})}

Begun(j) ==
    /\ db = Started(j.terms) /\ tools = j.tools /\ runs = j.runs /\ edits = j.edits /\ areas = j.areas

\* A group whose memories are links between terms: of two or of three terms,
\* ended or not, accepted or not.
Link(names, end, review) ==
    [row |-> [NewRow("rel", "alias.spelling", 1, 1, "persist", 0, "user") EXCEPT !.end = end, !.review = review],
     names |-> names]

Links == {Link(names, end, review) :
            names \in {S \in SUBSET Term : Cardinality(S) > 1}, end \in {Never, 2}, review \in {"pending", "rejected"}}

Full ==
    /\ \E f \in [Memory -> Links], usable \in SUBSET Term :
        db = [terms |-> [t \in Term |-> IF t \in usable THEN "pending" ELSE "rejected"],
              rows |-> [m \in Memory |-> f[m].row], links |-> [m \in Memory |-> f[m].names], renderings |-> <<>>]
    /\ tools = {} /\ runs = 0 /\ edits = 0 /\ areas = {}

MCInit ==
    /\ versions = [c \in Chapter |-> 1] /\ draft = [a \in Agent |-> Idle]
    /\ Full \/ \E j \in Jobs : Begun(j)

\* New memories take the ids in order where nothing depends on them.
InOrder ==
    \/ "genderevents" \in tools
    \/ \A m \in Unused, n \in Unused \ Unused' : n <= m

Edit(area) == area \in areas /\ edits > 0 /\ edits' = edits - 1 /\ UNCHANGED <<runs, areas>>

MCNext ==
    \/ \E a \in Agent : Writing(a) /\ InOrder /\ UNCHANGED <<runs, edits, areas>>
    \/ \E a \in Agent :
        /\ Running(a) /\ InOrder
        /\ runs' = (IF Busy(a) THEN runs ELSE runs - 1) /\ runs' >= 0 /\ UNCHANGED <<edits, areas>>
    \/ Edit("memory") /\ UserMemory /\ InOrder
    \/ Edit("terms") /\ UserTerms
    \/ Edit("chapters") /\ Chapters

MCSpec == MCInit /\ [][MCNext]_mcvars
=============================================================================
