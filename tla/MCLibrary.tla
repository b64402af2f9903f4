------------------------------- MODULE MCLibrary -------------------------------
(***************************************************************************)
(* An administrator, the owner of a novel with one chapter, and a second       *)
(* account that is its editor, its viewer or a stranger.  Either two requests   *)
(* are made, at once or one after the other, or none, and then the tables are   *)
(* of every kind.                                                           *)
(***************************************************************************)
EXTENDS Library

CONSTANT MaxCalls     \* bound: requests in all

VARIABLE made

Searches == {Work}
Ranges == {<<None, None>>, <<2, None>>}
Visibilities == {PRIVATE, PUBLIC}
Row(num) == [num |-> num, public |-> FALSE]
Uploads == {<<Row(2), Row(3)>>, <<Row(3), Row(2)>>, <<Row(3), Row(3)>>}

\* Novel 1 of visibility v, with its chapter and a group; what the other account is in
\* each of them.
Tables(v, public, role, labeller) ==
    /\ novels = [n \in Novel |-> IF n = 1 THEN [visibility |-> v, work |-> 1] ELSE None]
    /\ chapters = [c \in Chapter |-> IF c = 1 THEN [novel |-> 1, num |-> 1, public |-> public] ELSE None]
    /\ novel_contributors = [n \in Novel |-> [u \in User |->
           IF n # 1 \/ u = "admin" THEN None ELSE IF u = "owner" THEN "owner" ELSE role]]
    /\ label_contributors = [g \in Group |-> [u \in User |->
           IF g # 1 \/ u = "admin" THEN None ELSE IF u = "owner" THEN "owner" ELSE labeller]]

MCInit ==
    /\ source_works = {1} /\ chapter_contents = {<<1, 1>>}
    /\ label_groups = [g \in Group |-> IF g = 1 THEN 1 ELSE None]
    /\ \/ /\ made = 0 /\ label_datas = {}
          /\ \/ Tables(PRIVATE, FALSE, "viewer", None)
             \/ Tables(PUBLIC, FALSE, "editor", "viewer")
             \/ Tables(PUBLIC, TRUE, None, "editor")
       \/ /\ made = MaxCalls /\ label_datas = {<<1, 1, 1>>}
          /\ \E v \in Visibility, public \in BOOLEAN, role, labeller \in Role \cup {None} :
                Tables(v, public, role, labeller)
    /\ Init

\* Answers are taken before the next request is made, which changes nothing: nobody
\* reads them.  What names no row, or does not fit, is sent alone.
MCRequest(r) ==
    /\ \A s \in Call : ~Busy(s, "answered") /\ (s < r => call[s] # NoCall)
    /\ Request(r)
    /\ LET ask == call'[r].ask IN
       IF ask.bad = "none" /\ ask.on # Absent THEN made' = made + 1
       ELSE made = 0 /\ made' = MaxCalls

MCNext ==
    \/ made < MaxCalls /\ \E r \in Call : MCRequest(r)
    \/ (\E r \in Call : Proceed(r) \/ Return(r) \/ Die(r)) /\ UNCHANGED made

MCSpec == MCInit /\ [][MCNext]_<<vars, made>> /\ \A r \in Call : WF_vars(Proceed(r))
=============================================================================
