------------------------- MODULE MCTranslationJobs -------------------------
(***************************************************************************)
(* Model-checking harness for TranslationJobs: it counts faults and user   *)
(* controls, so that TLC explores every placing of a bounded number of     *)
(* them.                                                                   *)
(***************************************************************************)
EXTENDS TranslationJobs, TLC

CONSTANTS
    MaxFaults,    \* bound on crashes, losses, slow leases and failing calls
    MaxControls   \* bound on start, resume, retry and cancel requests

VARIABLES faults, controls,
          habit       \* what the user of a behaviour of RecoverySpec presses

mcvars == <<vars, faults, controls, habit>>

\* Pipelines that job creation accepts: stage number -> action.
PruneCombine == [s \in 0 .. 1 |-> IF s = 0 THEN "prune_memories" ELSE "combine_chapter"]
Pipeline ==
    [s \in 0 .. 2 |-> CASE s = 0 -> "prune_memories"
                        [] s = 1 -> "combine_chapter"
                        [] s = 2 -> "translate"]

MCInit == Init /\ faults = 0 /\ controls = 0 /\ habit = "any"

MCNext ==
    /\ \/ Progress /\ UNCHANGED <<faults, controls>>
       \/ faults < MaxFaults /\ faults' = faults + 1 /\ Fault /\ UNCHANGED controls
       \/ controls < MaxControls /\ controls' = controls + 1 /\ User /\ UNCHANGED faults
    /\ UNCHANGED habit

MCSpec == MCInit /\ [][MCNext]_mcvars

\* The faults that leave no failure mark: crashes, lost and repeated messages,
\* slow workers, failed dispatches.
InterruptingFault ==
    \/ \E w \in Worker : Crash(w)
    \/ Redeliver
    \/ \E m \in queue : LoseMessage(m)
    \/ \E t \in Task : ~Abandoned(t) /\ LeaseExpires(t)
    \/ \E c \in Client : \E m \in ctl[c].msgs : RestartDispatchFails(c, m)

\* Failing callbacks and cancellations as well; a batch that failed at the
\* provider is beyond retry and left out.
FailingFault ==
    \/ \E w \in Worker : CallbackFails(w) \/ SubmitUnanswered(w)
    \/ Cancel(Batch)

\* The job is started once.  Only after a fault the user looks again, when no
\* message is under way, and presses Resume or, in other behaviours, Retry.
Start == controls = 0 /\ \E c \in Client : RestartSnapshot(c, "start", Batch)
Press(c) == faults > 0 /\ queue = {} /\ RestartSnapshot(c, habit, Batch)

RecoveryNext ==
    /\ \/ Progress /\ UNCHANGED <<faults, controls>>
       \/ Start /\ controls' = 1 /\ UNCHANGED faults
       \/ /\ faults < MaxFaults /\ faults' = faults + 1 /\ UNCHANGED controls
          /\ InterruptingFault \/ (habit = "retry" /\ FailingFault)
       \/ (\E c \in Client : Press(c)) /\ UNCHANGED <<faults, controls>>
    /\ UNCHANGED habit

RecoveryInit == Init /\ faults = 0 /\ controls = 0 /\ habit \in {"resume", "retry"}

RecoverySpec ==
    /\ RecoveryInit /\ [][RecoveryNext]_mcvars
    /\ Fairness /\ WF_vars(Start) /\ \A c \in Client : WF_vars(Press(c))

Symmetry == Permutations(Worker) \cup Permutations(JobId) \cup Permutations(Client)
=============================================================================
