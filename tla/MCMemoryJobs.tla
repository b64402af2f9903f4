---------------------------- MODULE MCMemoryJobs ----------------------------
(***************************************************************************)
(* Model-checking harness for MemoryJobs: it counts faults and controls.   *)
(***************************************************************************)
EXTENDS MemoryJobs, TLC

CONSTANTS
    MaxFaults,    \* bound on crashes, losses, slow leases and failing calls
    MaxControls,  \* bound on start, retry, abort and delete requests of any user
    MaxStarts     \* bound on the starts of a patient user

VARIABLES faults, controls,
          patient     \* the user of this behaviour acts as described below

mcvars == <<vars, faults, controls, patient>>

MCInit == Init /\ faults = 0 /\ controls = 0 /\ patient \in BOOLEAN

\* Any user: controls at any time.
AnyUser == ~patient /\ controls < MaxControls /\ User /\ controls' = controls + 1

\* A patient user starts the job up to MaxStarts times.  Only after a fault he
\* looks again, when nothing is queued: retries what failed, aborts a job that
\* has processing tasks but no claim, and starts any other that nobody runs.
Start == patient /\ controls < MaxStarts /\ StartJob
FirstStart == controls = 0 /\ Start
Quiet == patient /\ faults > 0 /\ queue = {} /\ retrying = {}
Stuck == claim = None /\ Has({"processing"})
PressStart    == Quiet /\ ~live /\ ~Stuck /\ StartJob
PressRetry(t) == Quiet /\ RetryTask(t)
PressAbort    == Quiet /\ Stuck /\ AbortJob

MCNext ==
    /\ \/ Progress /\ UNCHANGED <<faults, controls>>
       \/ faults < MaxFaults /\ faults' = faults + 1 /\ Fault /\ UNCHANGED controls
       \/ AnyUser /\ UNCHANGED faults
       \/ Start /\ controls' = controls + 1 /\ UNCHANGED faults
       \/ /\ \/ PressStart \/ PressAbort
             \/ \E t \in Task : PressRetry(t)
          /\ UNCHANGED <<faults, controls>>
    /\ UNCHANGED patient

MCSpec ==
    /\ MCInit /\ [][MCNext]_mcvars /\ Fairness
    /\ WF_vars(FirstStart) /\ WF_vars(PressStart) /\ WF_vars(PressAbort)
    /\ \A t \in Task : WF_vars(PressRetry(t))

\* A job that is started by a patient user runs all its stages to the end.
PatienceCompletes == patient => Recovers
=============================================================================
