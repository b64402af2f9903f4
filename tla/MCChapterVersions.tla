-------------------------- MODULE MCChapterVersions ---------------------------
(***************************************************************************)
(* Two writers, one run, a labelled group and one without label data.       *)
(***************************************************************************)
EXTENDS ChapterVersions, TLC

CONSTANTS MaxRequests, MaxFaults     \* bounds

VARIABLES requests, faults

mcvars == <<vars, requests, faults>>

Text2 == <<"a", "b">>
Data2 == [g \in Group |-> IF g = 1 THEN [on |-> TRUE, labels |-> {Row(1, 0, 1, <<"a">>)}]
                                   ELSE [on |-> FALSE, labels |-> {}]]
Ops == {[op |-> "insert", at |-> 1, text |-> <<"x">>], [op |-> "delete", at |-> 0, text |-> <<"a">>]}
Symmetry == Permutations(Writer)

MCInit == Init /\ requests = 0 /\ faults = 0
MCNext ==
    \/ requests < MaxRequests /\ Request /\ requests' = requests + 1 /\ UNCHANGED faults
    \/ (Continue \/ \E r \in Run : RunStep(r)) /\ UNCHANGED <<requests, faults>>
    \/ faults < MaxFaults /\ Fault /\ faults' = faults + 1 /\ UNCHANGED requests
MCSpec == MCInit /\ [][MCNext]_mcvars /\ \A r \in Run : WF_vars(RunStep(r))
=============================================================================
