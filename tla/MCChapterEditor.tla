--------------------------- MODULE MCChapterEditor ---------------------------
(***************************************************************************)
(* One chapter with a labelled group and a group that has no label data.   *)
(***************************************************************************)
EXTENDS ChapterEditor

CONSTANTS MaxEdits, MaxFaults    \* bounds: what the user does, faults

VARIABLES edits, faults

mcvars == <<vars, edits, faults>>

Labels1 == [g \in Group |-> IF g \in Used THEN {[n |-> 1, lo |-> 0, hi |-> 2]} ELSE {}]
Text2 == <<"a", "b">>
Found1 == [lo |-> 0, hi |-> 1]

MCInit == Init /\ edits = 0 /\ faults = 0
MCNext ==
    \/ edits < MaxEdits /\ Edit /\ edits' = edits + 1 /\ UNCHANGED faults
    \/ (Reopen \/ Progress) /\ UNCHANGED <<edits, faults>>
    \/ faults < MaxFaults /\ Fault /\ faults' = faults + 1 /\ UNCHANGED edits
MCSpec == MCInit /\ [][MCNext]_mcvars /\ Fair
=============================================================================
