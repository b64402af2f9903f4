---------------------------- MODULE GlossaryTools -----------------------------
(***************************************************************************)
(* What each writing toolset of the recording agent may create, replace and  *)
(* end (memory/agent/toolsets/glossary).  A job enables some of them; the    *)
(* tools share one store and keep to their own marks.                        *)
(***************************************************************************)
EXTENDS Naturals

CONSTANT MaxNames      \* the most terms a memory is given here

Scope == {"local", "recent", "persist"}
AtLeast(n) == n..MaxNames

(* type, marks: of what it creates.  sizes: how many terms a memory names.   *)
(* scopes: those the agent may ask for, "default" being none.  keeps: a       *)
(* replacement keeps the terms of the memory it replaces.  over[k]: the marks *)
(* a replacement with mark k may replace.  ends: the marks it may end.        *)
Tool(type, marks, sizes) ==
    [type |-> type, marks |-> marks, sizes |-> sizes, scopes |-> Scope \cup {"default"},
     keeps |-> FALSE, over |-> [k \in marks |-> marks], ends |-> marks]

OnlyItself(tool) == [tool EXCEPT !.over = [k \in tool.marks |-> {k}]]
LastingOnly(tool) == [tool EXCEPT !.scopes = {"persist"}]

Facts == Tool("fact", {"age_stage", "species", "ability", "limitation"}, {1})

Relations ==
    [Tool("rel", {"kinship", "friendship", "romance", "mentorship", "rank", "membership", "service",
                  "ownership", "alliance", "rivalry", "organizational_hierarchy",
                  "commercial_partnership"}, AtLeast(2)) EXCEPT !.keeps = TRUE]

AliasTypes == {"alias.spelling", "alias.persona", "alias.transformation"}
ALIAS_MARKS == AliasTypes \cup {"alias"}

Aliases ==
    LastingOnly([Tool("rel", AliasTypes, {2}) EXCEPT
                !.over = [k \in AliasTypes |-> ALIAS_MARKS], !.ends = ALIAS_MARKS])

Definitions == [Tool("def", {"none"}, {1}) EXCEPT !.keeps = TRUE]
Events == [Tool("event", {"none"}, AtLeast(1)) EXCEPT !.keeps = TRUE, !.ends = {}]

AppearanceMarks ==
    {"appearance.hair", "appearance.eyes", "appearance.markings", "appearance.stature_build",
     "appearance.anatomy", "appearance.apparent_age", "appearance.attire"}

Appearance ==
    [Tool("fact", AppearanceMarks, {1}) EXCEPT
        !.over = [k \in AppearanceMarks |-> {k, "appearance"}],
        !.ends = AppearanceMarks \cup {"appearance"}]

Cultivation == Tool("fact", {"cultivation_level"}, {1})
Impersonation == LastingOnly(Tool("rel", {"impersonation"}, {2}))

ChangeRule == "gender.change_rule"
GenderFacts == OnlyItself(Tool("fact", {"gender.body", "gender.identity", "gender.presentation", ChangeRule}, {1}))
GenderPerception == Tool("rel", {"gender.perception"}, {2})

Transformation == "gender.event.transformation"
GenderEvents ==
    OnlyItself([Tool("event", {"gender.event.body_swap", "gender.event.possession", "gender.event.reveal"},
                     AtLeast(1)) EXCEPT !.keeps = TRUE, !.ends = {}])

\* The tools a job can enable; the transformation tools come with the gender events.
ToolOf ==
    [facts |-> Facts, relations |-> Relations, aliases |-> Aliases, definitions |-> Definitions,
     events |-> Events, appearance |-> Appearance, cultivation |-> Cultivation,
     impersonation |-> Impersonation, genderfacts |-> GenderFacts,
     genderperception |-> GenderPerception, genderevents |-> GenderEvents]

ToolName == DOMAIN ToolOf \cup {"terms", "continuity"}
=============================================================================
