---------------------------- MODULE MCFilterJobs ----------------------------
(***************************************************************************)
(* Model-checking harness for FilterJobs: it bounds faults and edits.      *)
(***************************************************************************)
EXTENDS FilterJobs, TLC

CONSTANTS
    MaxFaults,   \* bound on failures of processes, broker and transactions
    MaxEdits     \* bound on edits of one instance

VARIABLE faults

mcvars == <<vars, faults>>

MCInit == Init /\ faults = 0

MCNext ==
    \/ /\ Ask \/ (\E c \in Client : Serve(c)) \/ (\E k \in Worker : Deliver(k) \/ Run(k))
       /\ UNCHANGED faults
    \/ /\ \E w \in Workflow, i \in Item : row[w][i].rev < MaxEdits /\ EditInstance(w, i)
       /\ UNCHANGED faults
    \/ faults < MaxFaults /\ faults' = faults + 1 /\ Fault

MCSpec == MCInit /\ [][MCNext]_mcvars /\ Fairness

=============================================================================
