------------------------ MODULE TranslationJobsProofs ------------------------
(***************************************************************************)
(* Proofs about TranslationJobs for any number of batches, stages, workers *)
(* and concurrent controls.  One inductive invariant carries them: every   *)
(* row is well formed on its own (RowOK), rows of a batch are in stage     *)
(* order, what a worker is about to write fits the row it still owns, and  *)
(* a control only holds rows that are still as its snapshot saw them.      *)
(***************************************************************************)
EXTENDS TranslationJobs, TLAPS

Submitted == {"processing", "processed", "finalizing", "complete"}

\* The artifacts a row of action a holds in its state.
ArtifactsOK(r, a) ==
    /\ r.output # None <=> r.status = "complete"
    /\ a = "combine_chapter" =>
          /\ r.input = None /\ r.job = None /\ r.result = None
          /\ r.status \in {"waiting", "ready", "finalizing", "complete"}
    /\ a # "combine_chapter" =>
          /\ r.input # None <=> r.status \in Submitted \cup {"prepared", "submitting"}
          /\ r.job # None <=> r.status \in Submitted
          /\ r.result = IF r.status \in Submitted \ {"processing"} THEN r.job ELSE None

RowOK(r, a) ==
    /\ r \in Row
    /\ ArtifactsOK(r, a)
    /\ r.status = "complete" => r.claim = None /\ ~r.failed
    /\ r.failed => r.claim = None /\ ~r.live
    /\ r.gate # "none" => r.status = "processing"

ClaimedRow(r, s, w) == [r EXCEPT !.status = During(s), !.claim = w, !.live = TRUE]

-----------------------------------------------------------------------------
(***************************************************************************)
(* Steps and states.                                                       *)
(***************************************************************************)
\* A step is claimed from one of two states and never from COMPLETE.
LEMMA StepStates ==
    ASSUME NEW s \in StepName
    PROVE  /\ Expect(s) \in {"ready", "prepared", "processing", "processed"}
           /\ During(s) \in {"preparing", "submitting", "processing", "finalizing"}
           /\ Finish(s) \in {"prepared", "processing", "processed", "complete"}
BY DEF StepName, Expect, During, Finish

\* The dispatched next step belongs to the same action.
LEMMA NextStepRegistered ==
    ASSUME NEW a \in ActionName, NEW s \in StepsOf(a), NextStep(s) # None
    PROVE  NextStep(s) \in StepsOf(a)
BY DEF StepsOf, StepName, NextStep

\* The entrypoint dispatches a step the action has.
LEMMA FirstStepRegistered ==
    ASSUME NEW a \in ActionName
    PROVE  FirstStep(a) \in StepsOf(a)
BY DEF StepsOf, StepName, FirstStep

\* Every unfinished state of an action has a step to resume at.
LEMMA LastStepRegistered ==
    ASSUME NEW a \in ActionName, NEW st \in Status \ {"complete"},
           a = "combine_chapter" => st \in {"waiting", "ready", "finalizing"}
    PROVE  LastStep(a, st) \in StepsOf(a)
<1>1. CASE a = "combine_chapter"
  <2>1. Expect("combine") = "ready" /\ During("combine") = "finalizing"
    BY DEF Expect, During
  <2> QED BY <1>1, <2>1 DEF LastStep, StepsOf, FirstStep
<1>2. CASE a # "combine_chapter"
  <2>1. /\ Expect("prepare") = "ready" /\ Expect("submit") = "prepared"
        /\ Expect("poll") = "processing" /\ Expect("finalize") = "processed"
        /\ During("prepare") = "preparing" /\ During("submit") = "submitting"
        /\ During("poll") = "processing" /\ During("finalize") = "finalizing"
    BY DEF Expect, During
  <2>2. StepsOf(a) = {"prepare", "submit", "poll", "finalize"}
    BY <1>2 DEF StepsOf, StepName
  <2>3. CASE st \in {"waiting", "complete"}
    BY <1>2, <2>2, <2>3 DEF LastStep, FirstStep
  <2>4. CASE st \in {"ready", "prepared", "processing", "processed"}
    <3>1. \E s \in StepsOf(a) : Expect(s) = st
      BY <2>1, <2>2, <2>4
    <3> QED BY <2>4, <3>1 DEF LastStep
  <2>5. CASE st \in {"preparing", "submitting", "finalizing"}
    <3>1. \E s \in StepsOf(a) : During(s) = st
      BY <2>1, <2>2, <2>5
    <3> QED BY <2>5, <3>1 DEF LastStep
  <2> QED BY <2>3, <2>4, <2>5 DEF Status
<1> QED BY <1>1, <1>2

-----------------------------------------------------------------------------
(***************************************************************************)
(* Transitions of one row.                                                 *)
(***************************************************************************)
\* A new row holds nothing.
LEMMA NewRowOK ==
    ASSUME NEW n \in Stage, NEW a \in ActionName
    PROVE  RowOK(NewRow(n), a)
BY DEF RowOK, ArtifactsOK, NewRow, Row, Status, Gate, Submitted

\* Claiming keeps a row well formed.
LEMMA ClaimedRowOK ==
    ASSUME NEW a \in ActionName, NEW s \in StepsOf(a), NEW r, RowOK(r, a), ~r.failed,
           r.status \in {Expect(s), During(s)}, NEW w \in Worker
    PROVE  RowOK(ClaimedRow(r, s, w), a)
<1> SUFFICES ASSUME NEW n, n = ClaimedRow(r, s, w) PROVE RowOK(n, a)
  OBVIOUS
<1>1. /\ n \in Row /\ n.status = During(s) /\ n.failed = r.failed /\ n.gate = r.gate
      /\ n.input = r.input /\ n.job = r.job /\ n.result = r.result /\ n.output = r.output
  <2>1. During(s) \in Status
    BY StepStates DEF StepsOf, StepName, Status
  <2> QED BY <2>1 DEF RowOK, Row, ClaimedRow
<1>2. r.gate # "none" => n.status = "processing"
  BY <1>1 DEF RowOK, StepsOf, StepName, Expect, During
<1>3. ArtifactsOK(n, a)
  BY <1>1 DEF RowOK, ArtifactsOK, StepsOf, StepName, Expect, During, Submitted
<1>4. n.status # "complete"
  BY <1>1 DEF StepsOf, StepName, During
<1> QED BY <1>1, <1>2, <1>3, <1>4 DEF RowOK

\* What a worker that still owns r may be about to write into it.
ValueFits(r, s, done, value) ==
    /\ s = "submit" => done /\ value \in JobId
    /\ s = "poll" => IF done THEN value = r.job /\ value \in JobId ELSE value = None
    /\ s \in {"prepare", "finalize", "combine"} => done /\ value \in Artifact

\* Finishing a step with a fitting value keeps the row well formed.
LEMMA ReleasedRowOK ==
    ASSUME NEW a \in ActionName, NEW s \in StepsOf(a), NEW r, RowOK(r, a), ~r.failed,
           r.status = During(s), NEW done \in BOOLEAN, NEW value, ValueFits(r, s, done, value)
    PROVE  RowOK(Released(Written(r, s, value), s, done), a)
<1> SUFFICES ASSUME NEW n, n = Released(Written(r, s, value), s, done) PROVE RowOK(n, a)
  OBVIOUS
<1> USE NoneAssumption, PinnedAssumption
<1>0. r \in Row /\ ArtifactsOK(r, a)
  BY DEF RowOK
<1>1. CASE s = "prepare"
  <2>1. r.status = "preparing" /\ a # "combine_chapter" /\ value \in Artifact /\ done
    BY <1>1 DEF ValueFits, During, StepsOf
  <2>2. Written(r, s, value) = [r EXCEPT !.input = value]
    BY <1>0, <1>1, <2>1 DEF Written, Artifact
  <2>3. n = [r EXCEPT !.input = value, !.status = "prepared", !.claim = None, !.live = FALSE, !.gate = "none"]
    BY <1>0, <1>1, <2>1, <2>2 DEF Released, Finish, Expect, Row
  <2>4. /\ n \in Row /\ n.status = "prepared" /\ n.claim = None /\ n.gate = "none" /\ n.failed = r.failed
        /\ n.input = value /\ n.job = r.job /\ n.result = r.result /\ n.output = r.output
    BY <1>0, <2>1, <2>3 DEF Row, Status, Gate, Artifact
  <2>5. ArtifactsOK(n, a)
    BY <1>0, <2>1, <2>4 DEF ArtifactsOK, Submitted, Artifact
  <2> QED BY <2>4, <2>5 DEF RowOK
<1>2. CASE s = "submit"
  <2>1. r.status = "submitting" /\ a # "combine_chapter" /\ value \in JobId /\ done
    BY <1>2 DEF ValueFits, During, StepsOf
  <2>2. Written(r, s, value) = [r EXCEPT !.job = value]
    BY <1>0, <1>2, <2>1 DEF Written, Artifact
  <2>3. n = [r EXCEPT !.job = value, !.status = "processing", !.claim = None, !.live = FALSE, !.gate = "none"]
    BY <1>0, <1>2, <2>1, <2>2 DEF Released, Finish, Expect, Row
  <2>4. /\ n \in Row /\ n.status = "processing" /\ n.claim = None /\ n.gate = "none" /\ n.failed = r.failed
        /\ n.input = r.input /\ n.job = value /\ n.result = r.result /\ n.output = r.output
    BY <1>0, <2>1, <2>3 DEF Row, Status, Gate, Artifact
  <2>5. ArtifactsOK(n, a)
    BY <1>0, <2>1, <2>4 DEF ArtifactsOK, Submitted, Artifact
  <2> QED BY <2>4, <2>5 DEF RowOK
<1>3. CASE s = "poll" /\ done
  <2>1. r.status = "processing" /\ a # "combine_chapter" /\ value = r.job /\ value \in JobId
    BY <1>3 DEF ValueFits, During, StepsOf
  <2>2. Written(r, s, value) = [r EXCEPT !.result = value]
    BY <1>0, <1>3, <2>1 DEF Written, Artifact
  <2>3. n = [r EXCEPT !.result = value, !.status = "processed", !.claim = None, !.live = FALSE, !.gate = "none"]
    BY <1>0, <1>3, <2>1, <2>2 DEF Released, Finish, Expect, Row
  <2>4. /\ n \in Row /\ n.status = "processed" /\ n.claim = None /\ n.gate = "none" /\ n.failed = r.failed
        /\ n.input = r.input /\ n.job = r.job /\ n.result = value /\ n.output = r.output
    BY <1>0, <2>1, <2>3 DEF Row, Status, Gate, Artifact
  <2>5. ArtifactsOK(n, a)
    BY <1>0, <2>1, <2>4 DEF ArtifactsOK, Submitted, Artifact
  <2> QED BY <2>4, <2>5 DEF RowOK
<1>4. CASE s = "poll" /\ ~done
  <2>1. r.status = "processing" /\ a # "combine_chapter" /\ value = None
    BY <1>4 DEF ValueFits, During, StepsOf
  <2>2. Written(r, s, value) = r
    BY <1>0, <1>4, <2>1 DEF Written, Artifact
  <2>3. n = [r EXCEPT !.status = "processing", !.claim = None, !.live = FALSE, !.gate = "closed"]
    BY <1>0, <1>4, <2>1, <2>2 DEF Released, Finish, Expect, Row
  <2>4. /\ n \in Row /\ n.status = "processing" /\ n.claim = None /\ n.gate = "closed" /\ n.failed = r.failed
        /\ n.input = r.input /\ n.job = r.job /\ n.result = r.result /\ n.output = r.output
    BY <1>0, <2>1, <2>3 DEF Row, Status, Gate, Artifact
  <2>5. ArtifactsOK(n, a)
    BY <1>0, <2>1, <2>4 DEF ArtifactsOK, Submitted, Artifact
  <2> QED BY <2>4, <2>5 DEF RowOK
<1>5. CASE s \in {"finalize", "combine"}
  <2>1. r.status = "finalizing" /\ value \in Artifact /\ done
    BY <1>5 DEF ValueFits, During, StepsOf
  <2>2. Written(r, s, value) = [r EXCEPT !.output = value]
    BY <1>0, <1>5, <2>1 DEF Written, Artifact
  <2>3. n = [r EXCEPT !.output = value, !.status = "complete", !.claim = None, !.live = FALSE, !.gate = "none"]
    BY <1>0, <1>5, <2>1, <2>2 DEF Released, Finish, Expect, Row
  <2>4. /\ n \in Row /\ n.status = "complete" /\ n.claim = None /\ n.gate = "none" /\ n.failed = r.failed
        /\ n.input = r.input /\ n.job = r.job /\ n.result = r.result /\ n.output = value
    BY <1>0, <2>1, <2>3 DEF Row, Status, Gate, Artifact
  <2>5. ArtifactsOK(n, a)
    BY <1>0, <2>1, <2>4 DEF ArtifactsOK, Submitted, Artifact
  <2> QED BY <2>4, <2>5 DEF RowOK
<1> QED BY <1>1, <1>2, <1>3, <1>4, <1>5 DEF StepsOf, StepName

\* The state a restart resumes a row in.
ResumeState(a, st) ==
    CASE a = "combine_chapter" \/ st \in {"waiting", "ready", "preparing"} -> "ready"
      [] a # "combine_chapter" /\ st \in {"prepared", "submitting"} -> "prepared"
      [] a # "combine_chapter" /\ st = "processing" -> "processing"
      [] OTHER -> "processed"

\* What a restart, with or without clearing the failure, makes of a row.
RestartedRow(r, goal, failed) ==
    [r EXCEPT !.status = goal, !.gate = IF goal # r.status THEN "none" ELSE @,
              !.claim = None, !.live = FALSE, !.failed = failed]

\* Restarting a row in its own state or in the one it resumes in keeps it well
\* formed.
LEMMA RestartedRowOK ==
    ASSUME NEW a \in ActionName, NEW r, RowOK(r, a), r.status # "complete",
           NEW goal \in {r.status, ResumeState(a, r.status)}, NEW failed \in BOOLEAN
    PROVE  RowOK(RestartedRow(r, goal, failed), a)
<1> SUFFICES ASSUME NEW n, n = RestartedRow(r, goal, failed) PROVE RowOK(n, a)
  OBVIOUS
<1>1. r \in Row /\ ArtifactsOK(r, a)
  BY DEF RowOK
<1>2. goal \in Status \ {"complete"}
  BY <1>1, r.status # "complete" DEF Row, ResumeState, Status
<1>3. /\ n \in Row /\ n.status = goal /\ n.claim = None /\ ~n.live
      /\ n.input = r.input /\ n.job = r.job /\ n.result = r.result /\ n.output = r.output
  BY <1>1, <1>2, ZenonT(40) DEF RestartedRow, Row, Gate
<1>4. n.gate # "none" => n.status = "processing"
  BY <1>1, <1>3 DEF RestartedRow, RowOK, Row
<1>5. ArtifactsOK(n, a)
  <2>1. CASE goal = r.status
    BY <1>1, <1>3, <2>1 DEF ArtifactsOK
  <2>2. CASE goal = ResumeState(a, r.status) /\ a = "combine_chapter"
    BY <1>1, <1>3, <2>2, r.status # "complete" DEF ArtifactsOK, ResumeState
  <2>3. CASE goal = ResumeState(a, r.status) /\ a # "combine_chapter"
    BY <1>1, <1>3, <2>3, r.status # "complete" DEF ArtifactsOK, ResumeState, Row, Status, Submitted
  <2> QED BY <2>1, <2>2, <2>3
<1> QED BY <1>2, <1>3, <1>4, <1>5 DEF RowOK

\* A row restarted at READY holds nothing yet, so clearing it changes nothing.
LEMMA ReadyRowHoldsNothing ==
    ASSUME NEW a \in ActionName, NEW r, RowOK(r, a), r.status = "ready"
    PROVE  /\ r.input = None /\ r.job = None /\ r.result = None /\ r.output = None
           /\ [r EXCEPT !.input = None, !.job = None, !.result = None, !.output = None] = r
<1>1. r.input = None /\ r.job = None /\ r.result = None /\ r.output = None
  BY DEF RowOK, ArtifactsOK, Submitted
<1> QED BY <1>1 DEF RowOK, Row

-----------------------------------------------------------------------------
(***************************************************************************)
(* The inductive invariant.                                                *)
(***************************************************************************)
RowsOK == \A t \in Task : RowOK(task[t], Action(t))

\* What a worker is about to commit fits the row, as long as it owns the row.
PendingOK(w) ==
    worker[w].pc = "returned" /\ Owned(w) =>
        LET t == worker[w].task
        IN  /\ ValueFits(task[t], worker[w].step, worker[w].done, worker[w].value)
            /\ (worker[w].step = "prepare" /\ KeepsInitial(t))
                  => worker[w].publish \/ initial[t[1]]

\* What a worker is about to submit is its row's request file, as long as it owns it.
RenewedOK(w) ==
    worker[w].pc = "renewed" =>
        /\ worker[w].step = "submit" /\ worker[w].value \in Artifact
        /\ Owned(w) => worker[w].value = task[worker[w].task].input

\* The rows a control is about to update are unfinished, and unfailed unless it
\* is a retry; the current ones have their predecessor's output.
ControlOK(c) ==
    ctl[c].phase = "snapshot" =>
        /\ \A t \in ctl[c].rows : /\ task[t].status # "complete"
                                  /\ task[t].failed => ctl[c].op = "retry"
        /\ \A t \in ctl[c].rows \cap ctl[c].current : t[2] > 0 => PreviousOutput(t)

IInv ==
    /\ TypeOK
    /\ RowsOK
    /\ StageOrder
    /\ CandidatesSaved
    /\ \A w \in Worker : PendingOK(w) /\ RenewedOK(w)
    /\ \A c \in Client : ControlOK(c)

(***************************************************************************)
(* What every step does, row by row, worker by worker and control by       *)
(* control; the invariant is inductive because all steps are of this form. *)
(***************************************************************************)
Early == {"waiting", "ready", "preparing"}

\* Only a retry takes a failed row.
FrozenStep(t) ==
    task[t].failed =>
        IF task'[t].failed
        THEN task'[t] = [task[t] EXCEPT !.gate = task'[t].gate]
        ELSE \E c \in Client : ctl[c].phase = "snapshot" /\ ctl[c].op = "retry"

\* A live lease ends with its holder's commit or with a failure.
LeaseStep(t) ==
    (Live(t) /\ task'[t].claim # task[t].claim) =>
        \/ task'[t].failed
        \/ LET w == task[t].claim
           IN  worker[w].task = t /\ worker[w].pc = "returned" /\ worker'[w].pc = "committed"

RowStep(t) ==
    /\ FrozenStep(t)
    /\ LeaseStep(t)
    /\ RowOK(task'[t], Action(t))
    /\ task[t].status = "complete" => task'[t] = task[t]
    /\ task[t].job # None => task'[t].job = task[t].job
    /\ (t[2] > 0 /\ task'[t].status # "waiting") => task[t].status # "waiting" \/ PreviousOutput(t)
    /\ (KeepsInitial(t) /\ task'[t].status \notin Early) => initial'[t[1]]
    /\ \A w \in Worker : (task'[t].claim = w /\ task'[t].live) =>
          \/ worker'[w].pc = "claimed"
          \/ /\ task[t].claim = w /\ task[t].live /\ task'[t].failed = task[t].failed
             /\ task'[t].status = task[t].status /\ task'[t].job = task[t].job
             /\ task'[t].input = task[t].input

InitialStep == \A b \in Batch : initial[b] => initial'[b]

WorkerStepOK(w) ==
    /\ worker'[w].pc = "returned" => worker'[w] = worker[w] \/ PendingOK(w)'
    /\ worker'[w].pc = "renewed" => worker'[w] = worker[w] \/ RenewedOK(w)'

Undisturbed(t) ==
    /\ task[t].status # "complete" => task'[t].status # "complete"
    /\ task'[t].failed => task[t].failed

ControlStepOK(c) ==
    ctl'[c].phase = "snapshot" =>
        \/ ControlOK(c)'
        \/ /\ ctl[c].phase = "snapshot" /\ ctl'[c].current = ctl[c].current
           /\ ctl'[c].rows \subseteq ctl[c].rows /\ ctl'[c].op = ctl[c].op
           /\ \A t \in ctl'[c].rows : Undisturbed(t)

Step ==
    /\ TypeOK'
    /\ \A t \in Task : RowStep(t)
    /\ InitialStep
    /\ \A w \in Worker : WorkerStepOK(w)
    /\ \A c \in Client : ControlStepOK(c)

\* A task is a batch and a stage; its predecessor is one too.
LEMMA TaskShape ==
    ASSUME NEW t \in Task
    PROVE  /\ t[1] \in Batch /\ t[2] \in Stage /\ t[2] \in Nat /\ t = <<t[1], t[2]>>
           /\ Action(t) \in ActionName
           /\ t[2] > 0 => Previous(t) \in Task
BY StageAssumption, ActionAssumption DEF Task, Stage, Action, Previous

\* A completed predecessor keeps its output.
LEMMA PreviousOutputStable ==
    ASSUME NEW t \in Task, RowsOK, \A u \in Task : RowStep(u), PreviousOutput(t)
    PROVE  PreviousOutput(t)' /\ task'[Previous(t)] = task[Previous(t)]
<1>1. Previous(t) \in Task /\ task[Previous(t)].status = "complete"
  BY TaskShape DEF PreviousOutput
<1>2. task'[Previous(t)] = task[Previous(t)]
  BY <1>1 DEF RowStep
<1> QED BY <1>2 DEF PreviousOutput, Previous

\* Steps of this form preserve the invariant.
LEMMA StepPreserves ==
    ASSUME IInv, Step
    PROVE  IInv'
<1> USE DEF IInv, Step
<1>1. RowsOK'
  BY DEF RowsOK, RowStep, Action
<1>2. StageOrder'
  <2> SUFFICES ASSUME NEW t \in Task, t[2] > 0, task'[t].status # "waiting"
               PROVE  PreviousOutput(t)'
    BY DEF StageOrder
  <2>1. task[t].status # "waiting" \/ PreviousOutput(t)
    BY DEF RowStep
  <2>2. PreviousOutput(t)
    BY <2>1 DEF StageOrder
  <2> QED BY <2>2, PreviousOutputStable
<1>3. CandidatesSaved'
  BY DEF CandidatesSaved, RowStep, KeepsInitial, Action, Early
<1>4. ASSUME NEW w \in Worker PROVE PendingOK(w)'
  <2>1. CASE worker'[w].pc # "returned"
    BY <2>1 DEF PendingOK
  <2>2. CASE worker'[w].pc = "returned" /\ worker'[w] = worker[w]
    <3> DEFINE t == worker[w].task
    <3> SUFFICES ASSUME Owned(w)'
                 PROVE  /\ ValueFits(task'[t], worker[w].step, worker[w].done, worker[w].value)
                        /\ (worker[w].step = "prepare" /\ KeepsInitial(t))
                              => worker[w].publish \/ initial'[t[1]]
      BY <2>2 DEF PendingOK, KeepsInitial, Action
    <3>1. t \in Task
      BY <2>2 DEF TypeOK
    <3>2. task'[t].claim = w /\ task'[t].live /\ task'[t].status = During(worker[w].step) /\ ~task'[t].failed
      BY <2>2 DEF Owned
    <3>3. /\ task[t].claim = w /\ task[t].live /\ task'[t].failed = task[t].failed
          /\ task'[t].status = task[t].status /\ task'[t].job = task[t].job
      BY <2>2, <3>1, <3>2 DEF RowStep
    <3>4. Owned(w)
      BY <3>2, <3>3 DEF Owned
    <3>5. /\ ValueFits(task[t], worker[w].step, worker[w].done, worker[w].value)
          /\ (worker[w].step = "prepare" /\ KeepsInitial(t)) => worker[w].publish \/ initial[t[1]]
      BY <2>2, <3>4 DEF PendingOK
    <3>6. initial[t[1]] => initial'[t[1]]
      BY <3>1, TaskShape DEF InitialStep
    <3> QED BY <3>3, <3>5, <3>6 DEF ValueFits
  <2> QED BY <2>1, <2>2 DEF WorkerStepOK
<1>6. ASSUME NEW w \in Worker PROVE RenewedOK(w)'
  <2>1. CASE worker'[w].pc # "renewed"
    BY <2>1 DEF RenewedOK
  <2>2. CASE worker'[w].pc = "renewed" /\ worker'[w] = worker[w]
    <3>1. RenewedOK(w) /\ worker[w].task \in Task
      BY <2>2 DEF TypeOK
    <3>2. ASSUME Owned(w)' PROVE Owned(w) /\ task'[worker[w].task].input = task[worker[w].task].input
      <4>1. /\ task'[worker[w].task].claim = w /\ task'[worker[w].task].live
            /\ task'[worker[w].task].status = During(worker[w].step) /\ ~task'[worker[w].task].failed
        BY <2>2, <3>2 DEF Owned
      <4>2. RowStep(worker[w].task)
        BY <3>1
      <4>3. /\ task[worker[w].task].claim = w /\ task[worker[w].task].live
            /\ task'[worker[w].task].failed = task[worker[w].task].failed
            /\ task'[worker[w].task].status = task[worker[w].task].status
            /\ task'[worker[w].task].input = task[worker[w].task].input
        BY <2>2, <4>1, <4>2 DEF RowStep
      <4> QED BY <4>1, <4>3 DEF Owned
    <3> QED BY <2>2, <3>1, <3>2 DEF RenewedOK
  <2> QED BY <2>1, <2>2 DEF WorkerStepOK
<1>5. ASSUME NEW c \in Client PROVE ControlOK(c)'
  <2> SUFFICES ASSUME ctl[c].phase = "snapshot", ctl'[c].current = ctl[c].current,
                      ctl'[c].rows \subseteq ctl[c].rows, ctl'[c].op = ctl[c].op,
                      \A t \in ctl'[c].rows : Undisturbed(t)
               PROVE  ControlOK(c)'
    BY DEF ControlStepOK, ControlOK
  <2>1. ctl[c].rows \subseteq Task
    BY DEF TypeOK, Control
  <2>2. ASSUME NEW t \in ctl'[c].rows \cap ctl'[c].current, t[2] > 0
        PROVE  PreviousOutput(t)'
    <3>1. t \in Task /\ PreviousOutput(t)
      BY <2>1, <2>2 DEF ControlOK
    <3> QED BY <3>1, PreviousOutputStable
  <2>3. ASSUME NEW t \in ctl'[c].rows
        PROVE  task'[t].status # "complete" /\ (task'[t].failed => ctl'[c].op = "retry")
    <3>1. task[t].status # "complete" /\ (task[t].failed => ctl[c].op = "retry")
      <4>1. ControlOK(c) /\ t \in ctl[c].rows
        OBVIOUS
      <4> QED BY <4>1, Zenon DEF ControlOK
    <3>2. Undisturbed(t)
      OBVIOUS
    <3> QED BY <3>1, <3>2 DEF Undisturbed
  <2> QED BY <2>2, <2>3 DEF ControlOK
<1> QED BY <1>1, <1>2, <1>3, <1>4, <1>5, <1>6

\* Job creation establishes the invariant.
LEMMA InitIInv == Init => IInv
<1> SUFFICES ASSUME Init PROVE IInv
  OBVIOUS
<1> USE DEF Init
<1>1. task \in [Task -> Row] /\ RowsOK
  <2>1. \A t \in Task : task[t] = NewRow(t[2]) /\ RowOK(task[t], Action(t))
    BY TaskShape, NewRowOK
  <2> QED BY <2>1 DEF RowsOK, RowOK
<1>2. TypeOK
  BY <1>1 DEF TypeOK, IdleWorker, WorkerState, WorkerPC, UnusedJob, ProviderJob, JobState,
              IdleControl, Control, Routed
<1>3. \A t \in Task : task[t].status \in {"waiting", "ready"} /\ (t[2] > 0 => task[t].status = "waiting")
  BY TaskShape DEF NewRow
<1>4. StageOrder /\ CandidatesSaved
  BY <1>3 DEF StageOrder, CandidatesSaved
<1>5. (\A w \in Worker : PendingOK(w) /\ RenewedOK(w)) /\ (\A c \in Client : ControlOK(c))
  BY DEF PendingOK, RenewedOK, ControlOK, IdleWorker, IdleControl
<1> QED BY <1>1, <1>2, <1>4, <1>5 DEF IInv

-----------------------------------------------------------------------------
(***************************************************************************)
(* What most actions leave alone.                                          *)
(***************************************************************************)
\* A row that is not written makes a step of the required form.
LEMMA RowKept ==
    ASSUME IInv, InitialStep, NEW t \in Task, task'[t] = task[t]
    PROVE  RowStep(t)
<1>1. RowOK(task'[t], Action(t))
  BY DEF IInv, RowsOK
<1>2. (t[2] > 0 /\ task'[t].status # "waiting") => task[t].status # "waiting" \/ PreviousOutput(t)
  OBVIOUS
<1>3. (KeepsInitial(t) /\ task'[t].status \notin Early) => initial'[t[1]]
  BY TaskShape DEF IInv, CandidatesSaved, Early, InitialStep
<1>4. FrozenStep(t) /\ LeaseStep(t)
  BY DEF FrozenStep, LeaseStep, IInv, TypeOK, Row
<1> QED BY <1>1, <1>2, <1>3, <1>4 DEF RowStep

\* Unchanged rows take a row step, whatever workers and controls do.
LEMMA RowsKept ==
    ASSUME IInv, UNCHANGED <<task, initial>>
    PROVE  (\A t \in Task : RowStep(t)) /\ InitialStep
BY RowKept DEF InitialStep

\* A control that keeps what it holds, after rows were written.
LEMMA ControlsKept ==
    ASSUME IInv, UNCHANGED ctl,
           \A t \in Task : Undisturbed(t)
    PROVE  \A c \in Client : ControlStepOK(c)
<1>1. \A c \in Client : ctl[c].rows \subseteq Task
  BY DEF IInv, TypeOK, Control
<1> QED BY <1>1 DEF ControlStepOK, IInv, ControlOK

\* Rows outside S do not finish, those in S drop out of every snapshot.
LEMMA ControlsOutdated ==
    ASSUME IInv, NEW S, Outdate(S),
           \A t \in Task \ S : Undisturbed(t)
    PROVE  /\ ctl' \in [Client -> Control]
           /\ \A c \in Client : ctl'[c].msgs \subseteq Routed
           /\ \A c \in Client : ControlStepOK(c)
<1> USE DEF IInv
<1>1. ctl \in [Client -> Control] /\ \A c \in Client : ctl[c].msgs \subseteq Routed
  BY DEF TypeOK
<1> SUFFICES ASSUME NEW c \in Client
             PROVE  /\ ctl'[c] \in Control /\ ctl'[c].msgs \subseteq Routed
                    /\ ControlStepOK(c)
  BY DEF Outdate
<1>2. CASE ctl[c].phase = "snapshot"
  <2>1. ctl'[c] = [ctl[c] EXCEPT !.rows = ctl[c].rows \ S]
    BY <1>2 DEF Outdate
  <2>2. /\ ctl'[c] \in Control /\ ctl'[c].msgs = ctl[c].msgs /\ ctl'[c].current = ctl[c].current
        /\ ctl'[c].op = ctl[c].op /\ ctl'[c].rows = ctl[c].rows \ S /\ ctl[c].rows \subseteq Task
    BY <1>1, <2>1 DEF Control
  <2> QED BY <1>1, <1>2, <2>2 DEF ControlStepOK, ControlOK
<1>3. CASE ctl[c].phase # "snapshot"
  BY <1>1, <1>3 DEF Outdate, ControlStepOK
<1> QED BY <1>2, <1>3

\* The shape TypeOK asks of a worker.
Assigned(wk) ==
    /\ wk \in WorkerState
    /\ wk.pc = "idle" \/ wk.task \in Task
    /\ wk.pc \in {"idle", "advanced"} \/ wk.step \in StepsOf(Action(wk.task))

\* One worker changes and the new value is either not about to commit or fits.
LEMMA WorkerChanged ==
    ASSUME IInv, NEW w \in Worker, NEW wk, Assigned(wk), worker' = [worker EXCEPT ![w] = wk],
           wk.pc = "returned" => PendingOK(w)', wk.pc = "renewed" => RenewedOK(w)'
    PROVE  /\ worker' \in [Worker -> WorkerState]
           /\ \A v \in Worker : Assigned(worker'[v])
           /\ \A v \in Worker : WorkerStepOK(v)
BY DEF IInv, TypeOK, Assigned, WorkerStepOK

\* An idle worker is well assigned.
LEMMA IdleAssigned == Assigned(IdleWorker) /\ IdleWorker.pc = "idle"
BY DEF Assigned, IdleWorker, WorkerState, WorkerPC

\* The parts of the next TypeOK.
LEMMA NextTypeOK ==
    ASSUME task' \in [Task -> Row], initial' \in [Batch -> BOOLEAN],
           worker' \in [Worker -> WorkerState], \A v \in Worker : Assigned(worker'[v]),
           queue' \subseteq Routed, provider' \in [JobId -> ProviderJob],
           ctl' \in [Client -> Control], \A c \in Client : ctl'[c].msgs \subseteq Routed
    PROVE  TypeOK'
BY DEF TypeOK, Assigned, Routed, Action

\* A message for a registered step.
LEMMA MsgRouted ==
    ASSUME NEW t \in Task, NEW s \in StepsOf(Action(t)), NEW timed \in BOOLEAN
    PROVE  Msg(t, s, timed) \in Routed
BY TaskShape DEF Msg, Routed, Message, StepsOf, StepName

-----------------------------------------------------------------------------
(***************************************************************************)
(* Every action makes such a step.                                         *)
(***************************************************************************)
\* Steps of one worker that write no row.
LEMMA RowlessStep ==
    ASSUME IInv, NEW w \in Worker, NEW wk, Assigned(wk), worker' = [worker EXCEPT ![w] = wk],
           wk.pc = "returned" => PendingOK(w)', wk.pc = "renewed" => RenewedOK(w)',
           UNCHANGED <<task, initial, ctl>>,
           queue' \subseteq Routed, provider' \in [JobId -> ProviderJob]
    PROVE  Step
<1>1. (\A t \in Task : RowStep(t)) /\ InitialStep
  BY RowsKept
<1>2. \A c \in Client : ControlStepOK(c)
  BY ControlsKept DEF Undisturbed
<1>3. TypeOK'
  BY WorkerChanged, NextTypeOK DEF IInv, TypeOK
<1> QED BY <1>1, <1>2, <1>3, WorkerChanged DEF Step

\* The value a callback returns fits the row while the worker owns it.
LEMMA ReturnedStep ==
    ASSUME IInv, NEW w \in Worker, worker[w].pc \in {"claimed", "renewed"},
           NEW done \in BOOLEAN, NEW value \in Artifact \cup {None}, NEW publish \in BOOLEAN,
           Returned(w, done, value, publish), UNCHANGED <<task, initial, queue, ctl>>,
           provider' \in [JobId -> ProviderJob],
           Owned(w) => LET t == worker[w].task
                       IN  /\ ValueFits(task[t], worker[w].step, done, value)
                           /\ (worker[w].step = "prepare" /\ KeepsInitial(t))
                                 => publish \/ initial[t[1]]
    PROVE  Step
<1> DEFINE wk == [worker[w] EXCEPT !.pc = "returned", !.done = done,
                                   !.value = value, !.publish = publish]
<1>1. worker[w] \in WorkerState /\ Assigned(worker[w])
  BY DEF IInv, TypeOK, Assigned
<1>2. Assigned(wk) /\ wk.task = worker[w].task /\ wk.step = worker[w].step /\ wk.pc # "renewed"
  BY <1>1 DEF Assigned, WorkerState, WorkerPC
<1>3. worker' = [worker EXCEPT ![w] = wk] /\ worker'[w] = wk
  BY DEF Returned, IInv, TypeOK
<1>4. Owned(w)' => Owned(w)
  BY <1>2, <1>3 DEF Owned
<1>5. wk.done = done /\ wk.value = value /\ wk.publish = publish
  BY <1>1 DEF WorkerState
<1>6. PendingOK(w)'
  BY <1>2, <1>3, <1>4, <1>5 DEF PendingOK, KeepsInitial, Action
<1>7. queue' \subseteq Routed
  BY DEF IInv, TypeOK
<1> HIDE DEF wk
<1> QED BY <1>2, <1>3, <1>6, <1>7, RowlessStep

\* Prepare only computes an artifact for the row its worker owns.
LEMMA PrepareStep ==
    ASSUME IInv, NEW w \in Worker, Prepare(w)
    PROVE  Step
<1> DEFINE t == worker[w].task
<1> USE DEF Prepare
<1>1. t \in Task /\ task \in [Task -> Row] /\ initial \in [Batch -> BOOLEAN]
  BY DEF IInv, TypeOK
<1>2. StageInput(t) \in Artifact
  <2>1. t[2] = 0 \/ PreviousOutput(t)
    BY DEF CanRun
  <2> QED BY <1>1, <2>1, TaskShape DEF PreviousOutput, StageInput, Artifact, Row
<1>3. (KeepsInitial(t) /\ ~initial[t[1]]) \in BOOLEAN
  OBVIOUS
<1>4. ValueFits(task[t], worker[w].step, TRUE, StageInput(t))
  BY <1>2 DEF ValueFits
<1>5. KeepsInitial(t) => (KeepsInitial(t) /\ ~initial[t[1]]) \/ initial[t[1]]
  OBVIOUS
<1>6. provider' \in [JobId -> ProviderJob]
  BY DEF IInv, TypeOK
<1> QED BY <1>2, <1>3, <1>4, <1>5, <1>6, ReturnedStep

\* Before the provider is called the worker holds its row's request file.
LEMMA RenewStep ==
    ASSUME IInv, NEW w \in Worker, RenewForSubmit(w)
    PROVE  Step /\ RenewsItsOwn(w)
<1> DEFINE t == worker[w].task
           wk == [worker[w] EXCEPT !.pc = "renewed", !.value = task[t].input]
<1> USE DEF RenewForSubmit
<1>1. /\ t \in Task /\ task[t] \in Row /\ worker[w] \in WorkerState /\ Assigned(worker[w])
      /\ queue' \subseteq Routed /\ provider' \in [JobId -> ProviderJob]
  BY DEF IInv, TypeOK, Assigned
<1>2. Owned(w) /\ task[t].input # None /\ task[t].job = None /\ worker[w].step = "submit"
  BY DEF CanRun
<1>3. task[t].input \in Artifact
  BY <1>1, <1>2 DEF Row
<1>4. /\ Assigned(wk) /\ wk.task = t /\ wk.step = "submit" /\ wk.pc = "renewed"
      /\ wk.value = task[t].input
  BY <1>1, <1>2, <1>3 DEF Assigned, WorkerState, WorkerPC
<1>5. worker' = [worker EXCEPT ![w] = wk] /\ worker'[w] = wk
  BY DEF IInv, TypeOK
<1>6. RenewedOK(w)'
  BY <1>3, <1>4, <1>5 DEF RenewedOK
<1>7. RenewsItsOwn(w)
  BY <1>2, <1>4, <1>5 DEF RenewsItsOwn, Owned, During
<1> HIDE DEF wk
<1> QED BY <1>1, <1>4, <1>5, <1>6, <1>7, RowlessStep

\* Submit creates at most one provider job and offers it to its row.
LEMMA SubmitStep ==
    ASSUME IInv, NEW w \in Worker, Submit(w)
    PROVE  Step
<1> DEFINE t == worker[w].task
<1> USE DEF Submit
<1>1. t \in Task /\ provider \in [JobId -> ProviderJob] /\ task \in [Task -> Row]
  BY DEF IInv, TypeOK
<1>2. CASE /\ worker[w].pc = "claimed" /\ worker[w].step = "submit" /\ task[t].job # None
           /\ Returned(w, TRUE, None, FALSE) /\ UNCHANGED provider
  <2>1. ~Owned(w)
    <3>1. RowOK(task[t], Action(t)) /\ worker[w].step \in StepsOf(Action(t))
      BY <1>1, <1>2 DEF IInv, RowsOK, TypeOK
    <3>2. Action(t) # "combine_chapter" /\ During(worker[w].step) = "submitting"
      BY <1>2, <3>1 DEF StepsOf, During
    <3>3. task[t].status # "submitting"
      BY <1>2, <3>1, <3>2 DEF RowOK, ArtifactsOK, Submitted
    <3> QED BY <3>2, <3>3 DEF Owned
  <2> QED BY <1>1, <1>2, <2>1, ReturnedStep
<1>3. CASE /\ worker[w].pc = "renewed"
           /\ \E j \in JobId : CreateBatchJob(t, worker[w].value, j) /\ Returned(w, TRUE, j, FALSE)
  <2>1. PICK j \in JobId : CreateBatchJob(t, worker[w].value, j) /\ Returned(w, TRUE, j, FALSE)
    BY <1>3
  <2>2. worker[w].step = "submit" /\ worker[w].value \in Artifact
    BY <1>3 DEF IInv, RenewedOK
  <2>3. provider' \in [JobId -> ProviderJob]
    BY <1>1, <2>1, <2>2 DEF CreateBatchJob, ProviderJob, JobState
  <2>4. j \in Artifact /\ ValueFits(task[t], worker[w].step, TRUE, j)
    BY <2>2 DEF Artifact, ValueFits
  <2> QED BY <1>3, <2>1, <2>2, <2>3, <2>4, ReturnedStep
<1> QED BY <1>2, <1>3

\* Poll offers the result of the recorded job, or nothing.
LEMMA PollStep ==
    ASSUME IInv, NEW w \in Worker, Poll(w)
    PROVE  Step
<1> DEFINE t == worker[w].task
<1>1. t \in Task /\ task \in [Task -> Row] /\ provider' \in [JobId -> ProviderJob]
  BY DEF Poll, IInv, TypeOK
<1>2. task[t].job \in JobId /\ task[t].job \in Artifact
  BY <1>1 DEF Poll, CanRun, Row, Artifact
<1>3. worker[w].pc = "claimed" /\ worker[w].step = "poll" /\ UNCHANGED <<task, initial, queue, ctl>>
  BY DEF Poll
<1>4. \/ Returned(w, FALSE, None, FALSE)
      \/ Returned(w, TRUE, task[t].job, FALSE)
  BY DEF Poll
<1>5. /\ ValueFits(task[t], worker[w].step, FALSE, None)
      /\ ValueFits(task[t], worker[w].step, TRUE, task[t].job)
  BY <1>2, <1>3 DEF ValueFits
<1> QED BY <1>1, <1>2, <1>3, <1>4, <1>5, ReturnedStep

\* Finalize offers an output.
LEMMA FinalizeStep ==
    ASSUME IInv, NEW w \in Worker, Finalize(w)
    PROVE  Step
<1> DEFINE t == worker[w].task
<1>1. t \in Task /\ task \in [Task -> Row] /\ provider' \in [JobId -> ProviderJob]
  BY DEF Finalize, IInv, TypeOK
<1>2. task[t].result \in Artifact
  BY <1>1 DEF Finalize, CanRun, Row, Artifact
<1>3. ValueFits(task[t], worker[w].step, TRUE, task[t].result)
  BY <1>2 DEF Finalize, ValueFits
<1> QED BY <1>1, <1>2, <1>3, ReturnedStep DEF Finalize

\* Combine offers an output, once its predecessor has one.
LEMMA CombineStep ==
    ASSUME IInv, NEW w \in Worker, Combine(w)
    PROVE  Step
<1> DEFINE t == worker[w].task
<1>1. t \in Task /\ task \in [Task -> Row] /\ provider' \in [JobId -> ProviderJob]
  BY DEF Combine, IInv, TypeOK
<1>2. PreviousOutput(t)
  BY DEF Combine, CanRun
<1>3. StageInput(t) \in Artifact
  BY <1>1, <1>2, TaskShape DEF PreviousOutput, StageInput, Artifact, Row
<1>4. ValueFits(task[t], worker[w].step, TRUE, StageInput(t))
  BY <1>3 DEF Combine, ValueFits
<1> QED BY <1>1, <1>3, <1>4, ReturnedStep DEF Combine

\* A callback that raises, whatever it did at the provider.
LEMMA RaisedStep ==
    ASSUME IInv, NEW w \in Worker, worker[w].pc \in {"claimed", "renewed", "returned"}, Raised(w),
           UNCHANGED <<task, initial, queue, ctl>>, provider' \in [JobId -> ProviderJob]
    PROVE  Step
<1> DEFINE wk == [worker[w] EXCEPT !.pc = "raised"]
<1>1. Assigned(wk) /\ wk.pc \notin {"returned", "renewed"}
  BY DEF IInv, TypeOK, Assigned, WorkerState, WorkerPC
<1>2. worker' = [worker EXCEPT ![w] = wk] /\ queue' \subseteq Routed
  BY DEF Raised, IInv, TypeOK
<1> HIDE DEF wk
<1> QED BY <1>1, <1>2, RowlessStep

\* A failing callback leaves every row alone.
LEMMA CallbackErrorStep ==
    ASSUME IInv, NEW w \in Worker,
           CallbackRefuses(w) \/ CallbackFails(w) \/ SubmitUnanswered(w)
    PROVE  Step
<1>1. provider \in [JobId -> ProviderJob] /\ task \in [Task -> Row]
  BY DEF IInv, TypeOK
<1>2. CASE CallbackRefuses(w) \/ CallbackFails(w)
  BY <1>1, <1>2, RaisedStep DEF CallbackRefuses, CallbackFails
<1>3. CASE SubmitUnanswered(w)
  <2>1. worker[w].task \in Task /\ worker[w].value \in Artifact
    BY <1>3 DEF SubmitUnanswered, IInv, TypeOK, RenewedOK
  <2>2. provider' \in [JobId -> ProviderJob]
    BY <1>1, <1>3, <2>1 DEF SubmitUnanswered, CreateBatchJob, ProviderJob, JobState
  <2> QED BY <1>3, <2>2, RaisedStep DEF SubmitUnanswered
<1> QED BY <1>2, <1>3

\* Dispatching, an entrypoint and a crash end the invocation.
LEMMA EndStep ==
    ASSUME IInv, NEW w \in Worker, DispatchStep(w) \/ Entrypoint(w) \/ Crash(w)
    PROVE  Step
<1>1. queue \subseteq Routed /\ Assigned(worker[w])
  BY DEF IInv, TypeOK, Assigned
<1>2. queue' \subseteq Routed
  <2>1. CASE DispatchStep(w)
    <3>1. worker[w].task \in Task /\ worker[w].step \in StepsOf(Action(worker[w].task))
      BY <1>1, <2>1 DEF DispatchStep, Assigned
    <3>2. worker[w].done => NextStep(worker[w].step) \in StepsOf(Action(worker[w].task))
      BY <2>1, <3>1, NextStepRegistered, TaskShape DEF DispatchStep
    <3> QED BY <1>1, <2>1, <3>1, <3>2, MsgRouted DEF DispatchStep
  <2>2. CASE Entrypoint(w)
    <3>1. worker[w].task \in Task
      BY <1>1, <2>2 DEF Entrypoint, Assigned
    <3>2. FirstStep(Action(worker[w].task)) \in StepsOf(Action(worker[w].task))
      BY <3>1, FirstStepRegistered, TaskShape
    <3> QED BY <1>1, <2>2, <3>1, <3>2, MsgRouted DEF Entrypoint
  <2>3. CASE Crash(w)
    BY <1>1, <2>3 DEF Crash
  <2> QED BY <2>1, <2>2, <2>3
<1>3. worker' = [worker EXCEPT ![w] = IdleWorker] /\ UNCHANGED <<task, initial, ctl, provider>>
  BY DEF DispatchStep, Entrypoint, Crash
<1>4. provider' \in [JobId -> ProviderJob]
  BY <1>3 DEF IInv, TypeOK
<1> QED BY <1>2, <1>3, <1>4, IdleAssigned, RowlessStep

\* A step that writes the single row t.
LEMMA RowChanged ==
    ASSUME IInv, NEW t \in Task, NEW r, task' = [task EXCEPT ![t] = r], InitialStep, RowStep(t)
    PROVE  /\ task' \in [Task -> Row]
           /\ \A u \in Task : RowStep(u)
           /\ task'[t] = r
           /\ \A u \in Task \ {t} : task'[u] = task[u]
<1>1. task \in [Task -> Row]
  BY DEF IInv, TypeOK
<1>2. task'[t] = r /\ r \in Row /\ \A u \in Task \ {t} : task'[u] = task[u]
  BY <1>1 DEF RowStep, RowOK
<1> QED BY <1>1, <1>2, RowKept

\* A claim: only the claimed row changes and its new holder has not run yet.
LEMMA ClaimStep ==
    ASSUME IInv, NEW w \in Worker, NEW m \in queue, NEW rest \in SUBSET queue, Claim(w, m, rest)
    PROVE  Step
<1> DEFINE t == m.task
           s == m.step
           wk == [IdleWorker EXCEPT !.pc = "claimed", !.task = t, !.step = s]
<1>1. t \in Task /\ s \in StepsOf(Action(t)) /\ queue' \subseteq Routed
  BY DEF IInv, TypeOK, Routed, Message, Claim
<1>2. /\ task \in [Task -> Row] /\ initial' \in [Batch -> BOOLEAN] /\ provider' \in [JobId -> ProviderJob]
      /\ InitialStep /\ RowOK(task[t], Action(t)) /\ Action(t) \in ActionName
      /\ UNCHANGED <<initial, provider>>
  BY <1>1, TaskShape DEF IInv, TypeOK, RowsOK, Claim, InitialStep
<1>3. CASE Claimable(t, s)
  <2>1. /\ task' = [task EXCEPT ![t] = ClaimedRow(task[t], s, w)]
        /\ worker' = [worker EXCEPT ![w] = wk] /\ Outdate({t})
    BY <1>3 DEF Claim, ClaimedRow
  <2>2. Assigned(wk) /\ wk.pc = "claimed"
    BY <1>1 DEF Assigned, IdleWorker, WorkerState, WorkerPC, StepsOf, StepName
  <2>3. worker'[w].pc = "claimed"
    BY <2>1, <2>2 DEF IInv, TypeOK
  <2>4. RowOK(ClaimedRow(task[t], s, w), Action(t))
    BY <1>1, <1>2, <1>3, ClaimedRowOK DEF Claimable
  <2>5. task'[t] = ClaimedRow(task[t], s, w)
    BY <1>1, <1>2, <2>1
  <2>6. RowStep(t)
    <3>1. task[t].status \in {Expect(s), During(s)} /\ s \in StepName
      BY <1>1, <1>3 DEF Claimable, StepsOf, StepName
    <3>2. /\ task'[t].status = During(s) /\ task'[t].claim = w /\ task'[t].job = task[t].job
      BY <1>2, <2>5, <1>1 DEF ClaimedRow, Row
    <3>3. task[t].status # "complete" /\ task[t].status # "waiting"
      BY <3>1, StepStates
    <3>4. (KeepsInitial(t) /\ task'[t].status \notin Early) => initial'[t[1]]
      <4> SUFFICES ASSUME KeepsInitial(t), task'[t].status \notin Early PROVE initial[t[1]]
        BY <1>2
      <4>1. task[t].status \notin {"waiting", "ready", "preparing"}
        BY <1>1, <3>1, <3>2 DEF Early, StepsOf, StepName, Expect, During, KeepsInitial
      <4> QED BY <1>1, <4>1 DEF IInv, CandidatesSaved
    <3>5. FrozenStep(t) /\ LeaseStep(t)
      BY <1>3 DEF FrozenStep, LeaseStep, Claimable, Live
    <3> QED BY <2>3, <2>4, <2>5, <3>2, <3>3, <3>4, <3>5 DEF RowStep
  <2>7. task' \in [Task -> Row] /\ (\A u \in Task : RowStep(u)) /\ \A u \in Task \ {t} : task'[u] = task[u]
    BY <1>1, <1>2, <2>1, <2>6, RowChanged
  <2>8. /\ ctl' \in [Client -> Control] /\ \A c \in Client : ctl'[c].msgs \subseteq Routed
        /\ \A c \in Client : ControlStepOK(c)
    BY <2>1, <2>7, ControlsOutdated DEF Undisturbed
  <2>9. /\ worker' \in [Worker -> WorkerState]
        /\ \A v \in Worker : Assigned(worker'[v]) /\ WorkerStepOK(v)
    <3> HIDE DEF wk
    <3> QED BY <2>1, <2>2, WorkerChanged
  <2> QED BY <1>1, <1>2, <2>7, <2>8, <2>9, NextTypeOK DEF Step
<1>4. CASE ~Claimable(t, s)
  <2>1. UNCHANGED <<task, initial, worker, ctl>>
    BY <1>4 DEF Claim
  <2>2. worker' = [worker EXCEPT ![w] = worker[w]] /\ Assigned(worker[w])
    BY <2>1 DEF IInv, TypeOK, Assigned
  <2>3. worker[w].pc \notin {"returned", "renewed"}
    BY DEF Claim
  <2> QED BY <1>1, <1>2, <2>1, <2>2, <2>3, RowlessStep
<1> QED BY <1>3, <1>4

\* Time passes for one row.
LEMMA TimeStep ==
    ASSUME IInv, NEW t \in Task, LeaseExpires(t) \/ PollDue(t)
    PROVE  Step
<1>1. UNCHANGED <<initial, worker, queue, provider, ctl>>
  BY DEF LeaseExpires, PollDue
<1>2. task \in [Task -> Row] /\ RowOK(task[t], Action(t)) /\ InitialStep /\ task[t] \in Row
  BY <1>1 DEF IInv, TypeOK, RowsOK, InitialStep
<1>3. PICK r : /\ task' = [task EXCEPT ![t] = r]
               /\ r \in {[task[t] EXCEPT !.live = FALSE], [task[t] EXCEPT !.gate = "slack"],
                         [task[t] EXCEPT !.gate = "due"]}
               /\ task[t].status # "complete"
               /\ r.gate = task[t].gate \/ task[t].status = "processing"
  <2>1. CASE LeaseExpires(t)
    <3>1. task[t].status # "complete"
      BY <1>2, <2>1 DEF LeaseExpires, Live, RowOK
    <3>2. [task[t] EXCEPT !.live = FALSE].gate = task[t].gate
      BY <1>2 DEF Row
    <3>3. task' = [task EXCEPT ![t] = [task[t] EXCEPT !.live = FALSE]]
      BY <2>1 DEF LeaseExpires
    <3> QED BY <3>1, <3>2, <3>3
  <2>2. CASE PollDue(t)
    <3>1. task[t].status = "processing"
      BY <1>2, <2>2 DEF PollDue, RowOK
    <3> QED BY <2>2, <3>1 DEF PollDue
  <2> QED BY <2>1, <2>2
<1>4. /\ r \in Row /\ r.status = task[t].status /\ r.claim = task[t].claim /\ r.failed = task[t].failed
      /\ r.live => task[t].live
      /\ r.input = task[t].input /\ r.job = task[t].job /\ r.result = task[t].result
      /\ r.output = task[t].output
  BY <1>2, <1>3, ZenonT(40) DEF Row, Gate
<1>5. task'[t] = r
  BY <1>2, <1>3
<1>6. RowOK(r, Action(t))
  BY <1>2, <1>3, <1>4 DEF RowOK, ArtifactsOK
<1>7. RowStep(t)
  <2>1. (KeepsInitial(t) /\ r.status \notin Early) => initial'[t[1]]
    BY <1>1, <1>4 DEF IInv, CandidatesSaved, Early
  <2>2. LeaseStep(t)
    BY <1>4, <1>5 DEF LeaseStep
  <2>3. FrozenStep(t)
    <3> SUFFICES ASSUME task[t].failed PROVE r = [task[t] EXCEPT !.gate = r.gate]
      BY <1>4, <1>5 DEF FrozenStep
    <3>1. ~task[t].live
      BY <1>2 DEF RowOK
    <3> QED BY <1>2, <1>3, <3>1 DEF Row
  <2> QED BY <1>3, <1>4, <1>5, <1>6, <2>1, <2>2, <2>3 DEF RowStep
<1>8. task' \in [Task -> Row] /\ (\A u \in Task : RowStep(u)) /\ \A u \in Task \ {t} : task'[u] = task[u]
  BY <1>2, <1>3, <1>7, RowChanged
<1>9. \A c \in Client : ControlStepOK(c)
  BY <1>1, <1>3, <1>4, <1>5, <1>8, ControlsKept DEF Undisturbed
<1>10. \A v \in Worker : Assigned(worker'[v]) /\ WorkerStepOK(v)
  BY <1>1 DEF IInv, TypeOK, Assigned, WorkerStepOK
<1>11. TypeOK'
  BY <1>1, <1>8, <1>10, NextTypeOK DEF IInv, TypeOK
<1> QED BY <1>2, <1>8, <1>9, <1>10, <1>11 DEF Step

\* Losing a message, the provider finishing a job, and the controls' own steps
\* that touch no row.
LEMMA EnvironmentStep ==
    ASSUME IInv, UNCHANGED <<task, initial, worker>>, queue' \subseteq Routed,
           provider' \in [JobId -> ProviderJob], ctl' \in [Client -> Control],
           \A c \in Client : ctl'[c].msgs \subseteq Routed,
           \A c \in Client : ControlStepOK(c)
    PROVE  Step
<1>1. (\A t \in Task : RowStep(t)) /\ InitialStep
  BY RowsKept
<1>2. \A v \in Worker : Assigned(worker'[v]) /\ WorkerStepOK(v)
  BY DEF IInv, TypeOK, Assigned, WorkerStepOK
<1>3. TypeOK'
  BY <1>2, NextTypeOK DEF IInv, TypeOK
<1> QED BY <1>1, <1>2, <1>3 DEF Step

\* Losing a message leaves every row alone.
LEMMA LossStep ==
    ASSUME IInv, NEW m, LoseMessage(m)
    PROVE  Step
<1>1. /\ UNCHANGED <<task, initial, worker, provider, ctl>> /\ queue' \subseteq Routed
      /\ \A c \in Client : ControlStepOK(c)
  BY ControlsKept DEF Undisturbed, LoseMessage, IInv, TypeOK
<1> QED BY <1>1, EnvironmentStep DEF IInv, TypeOK

\* The provider leaves every row alone.
LEMMA ProviderStep ==
    ASSUME IInv, NEW j \in JobId, NEW state, ProviderEnds(j, state)
    PROVE  Step
<1>1. /\ UNCHANGED <<task, initial, worker, queue, ctl>>
      /\ \A c \in Client : ControlStepOK(c)
  BY ControlsKept DEF Undisturbed, ProviderEnds
<1>2. provider' \in [JobId -> ProviderJob]
  BY DEF ProviderEnds, IInv, TypeOK, ProviderJob, JobState
<1> QED BY <1>1, <1>2, EnvironmentStep DEF IInv, TypeOK

\* The holder commits: the row gets a fitting value, or the callback is rolled back.
LEMMA FinishClaimStep ==
    ASSUME IInv, NEW w \in Worker, FinishClaim(w)
    PROVE  Step
<1> DEFINE t == worker[w].task
           s == worker[w].step
           done == worker[w].done
           value == worker[w].value
           r == Released(Written(task[t], s, value), s, done)
           wk == [worker[w] EXCEPT !.pc = "committed"]
<1>1. /\ worker[w].pc = "returned" /\ t \in Task /\ s \in StepsOf(Action(t)) /\ done \in BOOLEAN
      /\ Action(t) \in ActionName /\ RowOK(task[t], Action(t)) /\ UNCHANGED provider
      /\ task \in [Task -> Row] /\ initial \in [Batch -> BOOLEAN] /\ queue \subseteq Routed
      /\ provider' \in [JobId -> ProviderJob] /\ s \in StepName
  BY TaskShape DEF FinishClaim, IInv, TypeOK, RowsOK, WorkerState, StepsOf, StepName
<1>2. CASE Owned(w) /\ (worker[w].publish => ~initial[t[1]])
  <2>1. /\ task' = [task EXCEPT ![t] = r]
        /\ initial' = [initial EXCEPT ![t[1]] = initial[t[1]] \/ worker[w].publish]
        /\ worker' = [worker EXCEPT ![w] = wk]
        /\ queue' = IF done THEN queue ELSE Overdue(t)
        /\ Outdate({t})
    BY <1>2 DEF FinishClaim
  <2>2. /\ ValueFits(task[t], s, done, value)
        /\ (s = "prepare" /\ KeepsInitial(t)) => worker[w].publish \/ initial[t[1]]
    BY <1>1, <1>2 DEF IInv, PendingOK
  <2>3. task[t].status = During(s) /\ ~task[t].failed
    BY <1>2 DEF Owned
  <2>4. RowOK(r, Action(t))
    BY <1>1, <2>2, <2>3, ReleasedRowOK
  <2>5. InitialStep /\ initial' \in [Batch -> BOOLEAN]
        /\ (initial'[t[1]] <=> (initial[t[1]] \/ worker[w].publish))
    BY <1>1, <2>1, TaskShape DEF InitialStep, IInv, TypeOK, WorkerState
  <2>6. /\ r.claim = None /\ r.status = IF done THEN Finish(s) ELSE Expect(s)
        /\ s # "submit" => r.job = task[t].job
    <3>1. /\ Written(task[t], s, value) \in [DOMAIN task[t] -> {Written(task[t], s, value)[x] : x \in DOMAIN task[t]}]
          /\ DOMAIN task[t] = {"status", "failed", "gate", "claim", "live", "input", "job", "result", "output"}
          /\ s # "submit" => Written(task[t], s, value).job = task[t].job
      BY <1>1 DEF Written, Row, StepName
    <3> QED BY <1>1, <3>1 DEF Released
  <2>7. task'[t] = r
    BY <1>1, <2>1
  <2>8. RowStep(t)
    <3>1. task[t].status # "complete" /\ task[t].status # "waiting"
      BY <1>1, <2>3, StepStates
    <3>2. task[t].job # None => r.job = task[t].job
      <4>1. s = "submit" => task[t].job = None
        BY <1>1, <2>3 DEF RowOK, ArtifactsOK, During, Submitted, StepsOf
      <4> QED BY <2>6, <4>1
    <3>3. (KeepsInitial(t) /\ r.status \notin Early) => initial'[t[1]]
      <4>1. CASE s = "prepare"
        BY <2>2, <2>5, <4>1
      <4>2. CASE s # "prepare"
        <5>1. KeepsInitial(t) => task[t].status \notin {"waiting", "ready", "preparing"}
          BY <1>1, <2>3, <4>2 DEF During, StepsOf, StepName, KeepsInitial
        <5> QED BY <1>1, <2>5, <5>1 DEF IInv, CandidatesSaved
      <4> QED BY <4>1, <4>2
    <3>4. \A v \in Worker : r.claim # v
      BY <2>6, NoneAssumption
    <3>5. FrozenStep(t)
      BY <2>3 DEF FrozenStep
    <3>6. LeaseStep(t)
      <4>1. task[t].claim = w /\ worker'[w].pc = "committed"
        BY <1>2, <2>1 DEF Owned, IInv, TypeOK, WorkerState
      <4> QED BY <1>1, <4>1 DEF LeaseStep
    <3> QED BY <2>4, <2>7, <3>1, <3>2, <3>3, <3>4, <3>5, <3>6 DEF RowStep
  <2>9. task' \in [Task -> Row] /\ (\A u \in Task : RowStep(u)) /\ \A u \in Task \ {t} : task'[u] = task[u]
    BY <1>1, <2>1, <2>5, <2>8, RowChanged
  <2>10. /\ ctl' \in [Client -> Control] /\ \A c \in Client : ctl'[c].msgs \subseteq Routed
         /\ \A c \in Client : ControlStepOK(c)
    BY <2>1, <2>9, ControlsOutdated DEF Undisturbed
  <2>11. /\ worker' \in [Worker -> WorkerState]
         /\ \A v \in Worker : Assigned(worker'[v]) /\ WorkerStepOK(v)
    <3>0. worker[w] \in WorkerState /\ Assigned(worker[w])
      BY DEF IInv, TypeOK, Assigned
    <3>1. Assigned(wk) /\ wk.pc = "committed"
      BY <1>1, <3>0 DEF Assigned, WorkerState, WorkerPC
    <3> HIDE DEF wk
    <3> QED BY <2>1, <3>1, WorkerChanged
  <2>12. queue' \subseteq Routed
    BY <1>1, <2>1, ZenonT(40) DEF Overdue, Routed, Message
  <2> QED BY <1>1, <2>5, <2>9, <2>10, <2>11, <2>12, NextTypeOK DEF Step
<1>3. CASE ~(Owned(w) /\ (worker[w].publish => ~initial[t[1]]))
  <2>1. Raised(w) /\ UNCHANGED <<task, initial, queue, ctl>>
    BY <1>3 DEF FinishClaim
  <2> QED BY <1>1, <2>1, RaisedStep
<1> QED BY <1>2, <1>3

\* A claim ends in failure, or was lost already.
LEMMA FailClaimStep ==
    ASSUME IInv, NEW w \in Worker, FailClaim(w)
    PROVE  Step
<1> DEFINE t == worker[w].task
           r == [task[t] EXCEPT !.failed = TRUE, !.claim = None, !.live = FALSE]
<1>1. /\ t \in Task /\ task \in [Task -> Row] /\ task[t] \in Row /\ RowOK(task[t], Action(t))
      /\ queue' \subseteq Routed /\ provider' \in [JobId -> ProviderJob]
      /\ UNCHANGED <<initial, queue, provider>> /\ worker' = [worker EXCEPT ![w] = IdleWorker]
      /\ worker[w].step \in StepName
  BY DEF FailClaim, IInv, TypeOK, RowsOK, StepsOf, StepName
<1>2. CASE Owned(w)
  <2>1. task' = [task EXCEPT ![t] = r] /\ Outdate({t})
    BY <1>2 DEF FailClaim
  <2>2. /\ task[t].status = During(worker[w].step) /\ task[t].status # "complete"
        /\ task[t].status # "waiting"
    BY <1>1, <1>2, StepStates DEF Owned
  <2>3. /\ r \in Row /\ r.status = task[t].status /\ r.claim = None /\ r.gate = task[t].gate
        /\ r.input = task[t].input /\ r.job = task[t].job /\ r.result = task[t].result
        /\ r.output = task[t].output
    BY <1>1 DEF Row
  <2>4. task'[t] = r /\ InitialStep
    BY <1>1, <2>1 DEF InitialStep
  <2>5. RowOK(r, Action(t))
    BY <1>1, <2>2, <2>3 DEF RowOK, ArtifactsOK
  <2>6. RowStep(t)
    <3>1. (KeepsInitial(t) /\ r.status \notin Early) => initial'[t[1]]
      BY <1>1, <2>3 DEF IInv, CandidatesSaved, Early
    <3>2. \A v \in Worker : r.claim # v
      BY <2>3, NoneAssumption
    <3>3. FrozenStep(t) /\ LeaseStep(t)
      BY <1>1, <1>2, <2>4 DEF FrozenStep, LeaseStep, Owned, Row
    <3> QED BY <2>2, <2>3, <2>4, <2>5, <3>1, <3>2, <3>3 DEF RowStep
  <2>7. task' \in [Task -> Row] /\ (\A u \in Task : RowStep(u)) /\ \A u \in Task \ {t} : task'[u] = task[u]
    BY <1>1, <2>1, <2>4, <2>6, RowChanged
  <2>8. /\ ctl' \in [Client -> Control] /\ \A c \in Client : ctl'[c].msgs \subseteq Routed
        /\ \A c \in Client : ControlStepOK(c)
    BY <2>1, <2>7, ControlsOutdated DEF Undisturbed
  <2>9. /\ worker' \in [Worker -> WorkerState]
        /\ \A v \in Worker : Assigned(worker'[v]) /\ WorkerStepOK(v)
    BY <1>1, IdleAssigned, WorkerChanged
  <2> QED BY <1>1, <2>4, <2>7, <2>8, <2>9, NextTypeOK DEF Step, IInv, TypeOK
<1>3. CASE ~Owned(w)
  BY <1>1, <1>3, IdleAssigned, RowlessStep DEF FailClaim
<1> QED BY <1>2, <1>3

\* The last step of a stage hands over to the next one, which finds its output.
LEMMA ExitpointStep ==
    ASSUME IInv, NEW w \in Worker, Exitpoint(w)
    PROVE  Step
<1> DEFINE t == worker[w].task
           n == <<t[1], t[2] + 1>>
           r == [task[n] EXCEPT !.status = "ready"]
           wk == [IdleWorker EXCEPT !.pc = "advanced", !.task = n]
           go == /\ task[t].status = "complete" /\ ~task[t].failed /\ t[2] < LastStage
                 /\ task[n].status \in {"waiting", "ready"} /\ ~task[n].failed
                 /\ task[n].claim = None
<1>1. /\ t \in Task /\ task \in [Task -> Row] /\ UNCHANGED <<initial, queue, provider>>
      /\ initial' \in [Batch -> BOOLEAN] /\ queue' \subseteq Routed
      /\ provider' \in [JobId -> ProviderJob] /\ InitialStep /\ RowOK(task[t], Action(t))
  BY DEF Exitpoint, IInv, TypeOK, InitialStep, RowsOK
<1>2. CASE go
  <2>1. /\ task' = [task EXCEPT ![n] = r] /\ worker' = [worker EXCEPT ![w] = wk]
        /\ Outdate(IF task[n].status = "waiting" THEN {n} ELSE {})
    BY <1>2 DEF Exitpoint
  <2>2. n \in Task /\ n[2] > 0 /\ Previous(n) = t
    <3>1. t[1] \in Batch /\ t[2] \in Nat /\ t = <<t[1], t[2]>> /\ t[2] < LastStage
      BY <1>1, <1>2, TaskShape
    <3>2. t[2] + 1 \in Stage /\ t[2] + 1 > 0 /\ (t[2] + 1) - 1 = t[2]
      BY <3>1, StageAssumption DEF Stage
    <3>3. n[1] = t[1] /\ n[2] = t[2] + 1
      OBVIOUS
    <3>4. n \in Task
      BY <3>1, <3>2 DEF Task
    <3>5. Previous(n) = <<t[1], t[2]>>
      BY <3>2, <3>3 DEF Previous
    <3> QED BY <3>1, <3>2, <3>3, <3>4, <3>5
  <2>3. task[n] \in Row /\ RowOK(task[n], Action(n))
    BY <1>1, <2>2 DEF IInv, RowsOK
  <2>4. PreviousOutput(n)
    BY <1>1, <1>2, <2>2 DEF PreviousOutput, RowOK, ArtifactsOK
  <2>5. /\ r \in Row /\ r.status = "ready" /\ r.claim = None /\ r.gate = task[n].gate
        /\ r.input = task[n].input /\ r.job = task[n].job /\ r.result = task[n].result
        /\ r.output = task[n].output
    BY <1>2, <2>3, SMTT(30) DEF Row, Status
  <2>6. RowOK(r, Action(n))
    BY <1>2, <2>3, <2>5 DEF RowOK, ArtifactsOK, Submitted
  <2>7. task'[n] = r
    BY <1>1, <2>1, <2>2
  <2>8. RowStep(n)
    <3>1. \A v \in Worker : r.claim # v
      BY <2>5, NoneAssumption
    <3>2. FrozenStep(n) /\ LeaseStep(n)
      BY <1>2 DEF FrozenStep, LeaseStep, Live
    <3> HIDE DEF r, n
    <3> QED BY <1>2, <2>4, <2>5, <2>6, <2>7, <3>1, <3>2 DEF RowStep, Early
  <2>9. task' \in [Task -> Row] /\ (\A u \in Task : RowStep(u)) /\ \A u \in Task \ {n} : task'[u] = task[u]
    <3> HIDE DEF r, n
    <3> QED BY <1>1, <2>1, <2>2, <2>8, RowChanged
  <2>10. \A u \in Task : Undisturbed(u)
    BY <1>2, <2>3, <2>5, <2>7, <2>9, ZenonT(40) DEF Undisturbed, Row
  <2>11. /\ ctl' \in [Client -> Control] /\ \A c \in Client : ctl'[c].msgs \subseteq Routed
         /\ \A c \in Client : ControlStepOK(c)
    BY <2>1, <2>10, ControlsOutdated
  <2>12. /\ worker' \in [Worker -> WorkerState]
         /\ \A v \in Worker : Assigned(worker'[v]) /\ WorkerStepOK(v)
    <3>1. Assigned(wk) /\ wk.pc = "advanced"
      BY <2>2 DEF Assigned, IdleWorker, WorkerState, WorkerPC
    <3> HIDE DEF wk
    <3> QED BY <2>1, <3>1, WorkerChanged
  <2> QED BY <1>1, <2>9, <2>11, <2>12, NextTypeOK DEF Step
<1>3. CASE ~go
  <2>1. worker' = [worker EXCEPT ![w] = IdleWorker] /\ UNCHANGED <<task, ctl>>
    BY <1>3 DEF Exitpoint
  <2> QED BY <1>1, <2>1, IdleAssigned, RowlessStep
<1> QED BY <1>2, <1>3

\* A cancellation fails every unfinished row in scope.
LEMMA CancelStep ==
    ASSUME IInv, NEW scope, Cancel(scope)
    PROVE  Step
<1> DEFINE rows == {t \in Task : t[1] \in scope /\ task[t].status # "complete"}
           r(t) == [task[t] EXCEPT !.failed = TRUE, !.claim = None, !.live = FALSE]
<1>1. /\ task' = [t \in Task |-> IF t \in rows THEN r(t) ELSE task[t]] /\ Outdate(rows)
      /\ UNCHANGED <<initial, worker, queue, provider>> /\ InitialStep
  BY DEF Cancel, InitialStep
<1>2. ASSUME NEW t \in Task PROVE RowStep(t) /\ task'[t] \in Row
  <2>1. CASE t \in rows
    <3>1. task[t].status # "complete" /\ task'[t] = r(t) /\ RowOK(task[t], Action(t)) /\ task[t] \in Row
      BY <1>1, <2>1 DEF IInv, RowsOK, RowOK
    <3>2. /\ r(t) \in Row /\ r(t).status = task[t].status /\ r(t).claim = None /\ ~r(t).live
          /\ r(t).gate = task[t].gate /\ r(t).input = task[t].input /\ r(t).job = task[t].job
          /\ r(t).result = task[t].result /\ r(t).output = task[t].output
      BY <3>1 DEF Row
    <3> HIDE DEF r
    <3>3. RowOK(r(t), Action(t))
      BY <3>1, <3>2 DEF RowOK, ArtifactsOK
    <3>4. (KeepsInitial(t) /\ r(t).status \notin Early) => initial'[t[1]]
      BY <1>1, <3>2 DEF IInv, CandidatesSaved, Early
    <3>5. \A v \in Worker : r(t).claim # v
      BY <3>2, NoneAssumption
    <3>6. FrozenStep(t) /\ LeaseStep(t)
      <4>1. r(t).failed
        BY <3>1 DEF r, Row
      <4>2. task[t].failed => r(t) = [task[t] EXCEPT !.gate = r(t).gate]
        <5> SUFFICES ASSUME task[t].failed PROVE r(t) = [task[t] EXCEPT !.gate = r(t).gate]
          OBVIOUS
        <5>1. task[t].failed = TRUE /\ task[t].claim = None /\ task[t].live = FALSE
          BY <3>1 DEF RowOK, Row
        <5>2. r(t) = task[t]
          BY <3>1, <5>1 DEF r, Row
        <5> QED BY <3>1, <5>2 DEF Row
      <4> QED BY <3>1, <4>1, <4>2 DEF FrozenStep, LeaseStep
    <3> QED BY <3>1, <3>2, <3>3, <3>4, <3>5, <3>6 DEF RowStep
  <2>2. CASE t \notin rows
    <3>1. task'[t] = task[t] /\ task[t] \in Row
      BY <1>1, <2>2 DEF IInv, TypeOK
    <3> QED BY <1>1, <3>1, RowKept
  <2> QED BY <2>1, <2>2
<1>3. task' \in [Task -> Row]
  BY <1>1, <1>2
<1>4. /\ ctl' \in [Client -> Control] /\ \A c \in Client : ctl'[c].msgs \subseteq Routed
      /\ \A c \in Client : ControlStepOK(c)
  BY <1>1, ControlsOutdated DEF Undisturbed
<1>5. \A v \in Worker : Assigned(worker'[v]) /\ WorkerStepOK(v)
  BY <1>1 DEF IInv, TypeOK, Assigned, WorkerStepOK
<1>6. TypeOK'
  BY <1>1, <1>3, <1>4, <1>5, NextTypeOK DEF IInv, TypeOK
<1> QED BY <1>1, <1>2, <1>4, <1>5, <1>6 DEF Step

-----------------------------------------------------------------------------
(***************************************************************************)
(* The restart controls.                                                   *)
(***************************************************************************)
\* The expected state of the step that resumes a row.
LEMMA LastStepExpects ==
    ASSUME NEW a \in ActionName, NEW st \in Status \ {"complete"},
           a = "combine_chapter" => st \in {"waiting", "ready", "finalizing"}
    PROVE  Expect(LastStep(a, st)) = ResumeState(a, st)
<1>1. LastStep(a, st) \in StepsOf(a)
  BY LastStepRegistered
<1>2. CASE a = "combine_chapter"
  BY <1>1, <1>2 DEF StepsOf, Expect, ResumeState
<1>3. CASE a # "combine_chapter"
  <2>1. StepsOf(a) = {"prepare", "submit", "poll", "finalize"}
    BY <1>3 DEF StepsOf, StepName
  <2>2. /\ Expect("prepare") = "ready" /\ Expect("submit") = "prepared"
        /\ Expect("poll") = "processing" /\ Expect("finalize") = "processed"
        /\ During("prepare") = "preparing" /\ During("submit") = "submitting"
        /\ During("poll") = "processing" /\ During("finalize") = "finalizing"
    BY DEF Expect, During
  <2>3. CASE st = "waiting"
    BY <1>3, <2>2, <2>3 DEF LastStep, FirstStep, ResumeState
  <2>4. CASE st \in {"ready", "prepared", "processing", "processed"}
    <3>1. \E s \in StepsOf(a) : Expect(s) = st
      BY <2>1, <2>2, <2>4
    <3>2. Expect(LastStep(a, st)) = st
      BY <2>4, <3>1 DEF LastStep
    <3> QED BY <1>3, <2>4, <3>2 DEF ResumeState
  <2>5. CASE st \in {"preparing", "submitting", "finalizing"}
    <3>1. (\E s \in StepsOf(a) : During(s) = st) /\ ~(\E s \in StepsOf(a) : Expect(s) = st)
      BY <2>1, <2>2, <2>5
    <3>2. During(LastStep(a, st)) = st
      BY <2>5, <3>1 DEF LastStep
    <3> QED BY <1>1, <1>3, <2>1, <2>2, <2>5, <3>2 DEF ResumeState
  <2> QED BY <2>3, <2>4, <2>5 DEF Status
<1> QED BY <1>2, <1>3

\* A resume state is one a row can be in, and not a finished one.
LEMMA ResumeStateShape ==
    ASSUME NEW a \in ActionName, NEW st
    PROVE  /\ ResumeState(a, st) \in Status \ {"complete"}
           /\ a = "combine_chapter" => ResumeState(a, st) = "ready"
           /\ st \in Early => ResumeState(a, st) = "ready"
BY DEF ResumeState, Status, Early

\* Walking back never finds an artifact missing: it stays where it is, or returns
\* a row that holds nothing yet to READY.
LEMMA WalkBackStays ==
    ASSUME IInv, NEW t \in Task, task[t].status # "complete"
    PROVE  \/ WalkBack(t) = task[t].status
           \/ WalkBack(t) = "ready" /\ task[t].status \in Early /\ Action(t) # "combine_chapter"
<1>1. RowOK(task[t], Action(t))
  BY DEF IInv, RowsOK
<1>2. CASE Action(t) = "combine_chapter"
  BY <1>2 DEF WalkBack
<1>3. CASE KeepsInitial(t) /\ ~initial[t[1]]
  BY <1>3 DEF WalkBack, KeepsInitial, IInv, CandidatesSaved, Early
<1>4. CASE Action(t) # "combine_chapter" /\ ~(KeepsInitial(t) /\ ~initial[t[1]])
  <2>1. /\ task[t].status \in {"processed", "finalizing"} => task[t].result # None
        /\ task[t].status = "processing" => task[t].job # None
        /\ task[t].status \in {"prepared", "submitting"} => task[t].input # None
    BY <1>1, <1>4 DEF RowOK, ArtifactsOK, Submitted
  <2> QED BY <1>4, <2>1 DEF WalkBack
<1> QED BY <1>2, <1>3, <1>4

\* Every unfinished row has a step to restart at.
LEMMA RestartStepRegistered ==
    ASSUME IInv, NEW t \in Task, task[t].status # "complete", NEW op
    PROVE  /\ RestartStep(op, t) \in StepsOf(Action(t))
           /\ Expect(RestartStep(op, t)) = ResumeState(Action(t), task[t].status)
<1> DEFINE st == IF op = "retry" THEN WalkBack(t) ELSE task[t].status
<1>1. RowOK(task[t], Action(t)) /\ task[t] \in Row /\ Action(t) \in ActionName
  BY TaskShape DEF IInv, RowsOK, RowOK
<1>2. task[t].status \in Status \ {"complete"}
      /\ (Action(t) = "combine_chapter" => task[t].status \in {"waiting", "ready", "finalizing"})
  BY <1>1 DEF RowOK, ArtifactsOK, Row
<1>3. \/ st = task[t].status
      \/ st = "ready" /\ task[t].status \in Early /\ Action(t) # "combine_chapter"
  BY WalkBackStays
<1>4. /\ st \in Status \ {"complete"}
      /\ Action(t) = "combine_chapter" => st \in {"waiting", "ready", "finalizing"}
  BY <1>2, <1>3 DEF Status
<1>5. ResumeState(Action(t), st) = ResumeState(Action(t), task[t].status)
  BY <1>1, <1>3, ResumeStateShape DEF Early
<1>6. RestartStep(op, t) = LastStep(Action(t), st)
  BY DEF RestartStep
<1> HIDE DEF st
<1> QED BY <1>1, <1>4, <1>5, <1>6, LastStepRegistered, LastStepExpects

\* What the UPDATE makes of a row it hits: clearing artifacts changes nothing.
LEMMA RestartedShape ==
    ASSUME IInv, NEW c \in Client, ctl[c].phase = "snapshot", NEW t \in Hit(c)
    PROVE  /\ t \in Task /\ task[t].status # "complete"
           /\ Goal(c, t) = IF t \in ctl[c].current THEN ResumeState(Action(t), task[t].status)
                                                   ELSE task[t].status
           /\ Goal(c, t) \in Status \ {"complete"}
           /\ \E failed \in BOOLEAN : /\ failed => task[t].failed /\ ctl[c].op # "retry"
                                      /\ Restarted(c, t) = RestartedRow(task[t], Goal(c, t), failed)
<1>1. t \in ctl[c].rows /\ t \in Task /\ task[t].status # "complete"
  <2>1. t \in ctl[c].rows /\ ctl[c].rows \subseteq Task
    BY DEF Hit, IInv, TypeOK, Control
  <2>2. ControlOK(c)
    BY DEF IInv
  <2> QED BY <2>1, <2>2, Zenon DEF ControlOK
<1>2. RowOK(task[t], Action(t)) /\ task[t] \in Row /\ Action(t) \in ActionName
  BY <1>1, TaskShape DEF IInv, RowsOK, RowOK
<1>3. Goal(c, t) = IF t \in ctl[c].current THEN ResumeState(Action(t), task[t].status)
                                           ELSE task[t].status
  BY <1>1, RestartStepRegistered DEF Goal
<1>4. Goal(c, t) \in Status \ {"complete"}
  BY <1>1, <1>2, <1>3, ResumeStateShape DEF Row
<1>5. \E failed \in BOOLEAN : /\ failed => task[t].failed /\ ctl[c].op # "retry"
                              /\ Restarted(c, t) = RestartedRow(task[t], Goal(c, t), failed)
  <2>1. CASE ctl[c].op # "retry"
    <3>1. Restarted(c, t) = RestartedRow(task[t], Goal(c, t), task[t].failed)
      BY <1>2, <1>4, <2>1 DEF Restarted, RestartedRow, Row
    <3> QED BY <1>2, <2>1, <3>1 DEF Row
  <2>2. CASE ctl[c].op = "retry" /\ ~(t \in ctl[c].current /\ Goal(c, t) = "ready")
    <3>1. Restarted(c, t) = RestartedRow(task[t], Goal(c, t), FALSE)
      BY <1>2, <1>4, <2>2 DEF Restarted, RestartedRow, Row
    <3> QED BY <3>1
  <2>3. CASE ctl[c].op = "retry" /\ t \in ctl[c].current /\ Goal(c, t) = "ready"
    <3> DEFINE r == RestartedRow(task[t], Goal(c, t), FALSE)
    <3>1. RowOK(r, Action(t))
      BY <1>1, <1>2, <1>3, RestartedRowOK
    <3>2. r.status = "ready"
      BY <1>2, <1>4, <2>3 DEF RestartedRow, Row
    <3>3. [r EXCEPT !.input = None, !.job = None, !.result = None, !.output = None] = r
      <4> HIDE DEF r
      <4> QED BY <1>2, <3>1, <3>2, ReadyRowHoldsNothing
    <3>4. Restarted(c, t) = [r EXCEPT !.input = None, !.job = None, !.result = None, !.output = None]
      BY <1>2, <1>4, <2>3 DEF Restarted, RestartedRow, Row
    <3> QED BY <3>3, <3>4
  <2> QED BY <2>1, <2>2, <2>3
<1> QED BY <1>1, <1>3, <1>4, <1>5

\* The predecessor of the first unfinished row of a batch is complete.
LEMMA CurrentHasInput ==
    ASSUME IInv, NEW t \in Task, Current(t), t[2] > 0
    PROVE  PreviousOutput(t)
<1> DEFINE p == Previous(t)
<1>1. /\ p \in Task /\ p[1] = t[1] /\ p[2] = t[2] - 1 /\ t[2] \in Nat
  BY TaskShape DEF Previous
<1>2. task[p].status = "complete"
  <2> SUFFICES ASSUME task[p].status # "complete" PROVE FALSE
    OBVIOUS
  <2>1. p \in Unfinished(t[1])
    BY <1>1 DEF Unfinished
  <2>2. t[2] <= p[2]
    BY <2>1 DEF Current
  <2> QED BY <1>1, <2>2
<1>3. RowOK(task[p], Action(p))
  BY <1>1 DEF IInv, RowsOK
<1> QED BY <1>2, <1>3 DEF PreviousOutput, RowOK, ArtifactsOK

\* A control decides on a snapshot, dispatches, or gives up on a message.
LEMMA ControlOnlyStep ==
    ASSUME IInv, NEW c \in Client, NEW k \in Control, k.msgs \subseteq Routed,
           ctl' = [ctl EXCEPT ![c] = k], ControlStepOK(c),
           UNCHANGED <<task, initial, worker, provider>>, queue' \subseteq Routed
    PROVE  Step
<1>1. ctl' \in [Client -> Control] /\ \A d \in Client : ctl'[d].msgs \subseteq Routed
  BY DEF IInv, TypeOK
<1>2. ASSUME NEW d \in Client PROVE ControlStepOK(d)
  <2>1. CASE d = c
    BY <2>1
  <2>2. CASE d # c
    <3>1. ctl'[d] = ctl[d] /\ ctl[d].rows \subseteq Task
      BY <2>2 DEF IInv, TypeOK, Control
    <3>2. \A t \in Task : Undisturbed(t)
      BY DEF Undisturbed
    <3> QED BY <3>1, <3>2 DEF ControlStepOK
  <2> QED BY <2>1, <2>2
<1> QED BY <1>1, <1>2, EnvironmentStep DEF IInv, TypeOK

\* A restart snapshots only rows that are unfinished and allowed to restart.
LEMMA RestartSnapshotStep ==
    ASSUME IInv, NEW c \in Client, NEW op \in Operation, NEW scope, RestartSnapshot(c, op, scope)
    PROVE  Step
<1> DEFINE rows == Eligible(op, scope)
           k == [IdleControl EXCEPT !.phase = "snapshot", !.op = op, !.rows = rows,
                                    !.current = {t \in rows : Current(t)}]
<1>1. /\ rows \subseteq Task
      /\ \A t \in rows : task[t].status # "complete" /\ (task[t].failed => op = "retry")
  BY TaskShape DEF Eligible, FailedBatch, Unfinished
<1>2. /\ k \in Control /\ k.phase = "snapshot" /\ k.msgs = {} /\ k.rows = rows /\ k.op = op
      /\ k.current = {t \in rows : Current(t)}
  BY <1>1 DEF IdleControl, Control
<1>3. ctl' = [ctl EXCEPT ![c] = k] /\ UNCHANGED <<task, initial, worker, queue, provider>>
  BY DEF RestartSnapshot
<1>4. ctl'[c] = k
  <2> HIDE DEF k
  <2> QED BY <1>3 DEF IInv, TypeOK
<1>5. ASSUME NEW t \in k.rows \cap k.current, t[2] > 0 PROVE PreviousOutput(t)'
  <2>1. t \in Task /\ Current(t)
    BY <1>1, <1>2, <1>5
  <2>2. PreviousOutput(t)
    BY <1>5, <2>1, CurrentHasInput
  <2> QED BY <1>3, <2>2 DEF PreviousOutput, Previous
<1>6. ControlOK(c)'
  <2> HIDE DEF k, rows
  <2> QED BY <1>1, <1>2, <1>3, <1>4, <1>5 DEF ControlOK
<1>7. queue' \subseteq Routed /\ k.msgs \subseteq Routed
  BY <1>2, <1>3 DEF IInv, TypeOK
<1> HIDE DEF k, rows
<1> QED BY <1>2, <1>3, <1>6, <1>7, ControlOnlyStep DEF ControlStepOK

\* Dispatching a restart leaves every row alone.
LEMMA DispatchingStep ==
    ASSUME IInv, NEW c \in Client, NEW m \in ctl[c].msgs,
           RestartDispatch(c, m) \/ RestartDispatchFails(c, m)
    PROVE  Step
<1> DEFINE k == IF ctl[c].msgs = {m} THEN IdleControl ELSE [ctl[c] EXCEPT !.msgs = @ \ {m}]
<1>1. ctl[c] \in Control /\ ctl[c].msgs \subseteq Routed /\ queue \subseteq Routed
  BY DEF IInv, TypeOK
<1>2. k \in Control /\ k.phase # "snapshot" /\ k.msgs \subseteq Routed
  BY <1>1 DEF RestartDispatch, RestartDispatchFails, IdleControl, Control
<1>3. ctl' = [ctl EXCEPT ![c] = k] /\ UNCHANGED <<task, initial, worker, provider>>
  <2>1. AfterDispatch(c, m) /\ UNCHANGED <<task, initial, worker, provider>>
    BY DEF RestartDispatch, RestartDispatchFails
  <2>2. ctl' = [ctl EXCEPT ![c] = k]
    BY <2>1 DEF AfterDispatch
  <2> QED BY <2>1, <2>2
<1>4. queue' \subseteq Routed
  BY <1>1 DEF RestartDispatch, RestartDispatchFails
<1>5. ControlStepOK(c)
  <2> HIDE DEF k
  <2> QED BY <1>2, <1>3 DEF ControlStepOK, IInv, TypeOK
<1> HIDE DEF k
<1> QED BY <1>2, <1>3, <1>4, <1>5, ControlOnlyStep

\* The restart UPDATE and its messages.
LEMMA RestartApplyStep ==
    ASSUME IInv, NEW c \in Client, RestartApply(c)
    PROVE  Step
<1> DEFINE hit == Hit(c)
           due == hit \cap ctl[c].current
           msgs == {RestartMessage(c, t) : t \in due}
<1>1. /\ ctl[c].phase = "snapshot" /\ UNCHANGED <<initial, worker, queue, provider>>
      /\ task' = [t \in Task |-> IF t \in hit THEN Restarted(c, t) ELSE task[t]]
      /\ hit \subseteq Task /\ InitialStep /\ ctl \in [Client -> Control] /\ task \in [Task -> Row]
  BY DEF RestartApply, Hit, InitialStep, IInv, TypeOK, Control
<1>2. ASSUME NEW t \in hit
      PROVE  RowStep(t) /\ Undisturbed(t)
  <2>1. /\ t \in Task /\ task[t].status # "complete" /\ task'[t] = Restarted(c, t)
        /\ Goal(c, t) = IF t \in ctl[c].current THEN ResumeState(Action(t), task[t].status)
                                                ELSE task[t].status
        /\ Goal(c, t) \in Status \ {"complete"}
    BY <1>1, <1>2, RestartedShape
  <2>2. PICK failed \in BOOLEAN : /\ failed => task[t].failed /\ ctl[c].op # "retry"
                                  /\ task'[t] = RestartedRow(task[t], Goal(c, t), failed)
    BY <1>1, <1>2, <2>1, RestartedShape
  <2>3. RowOK(task[t], Action(t)) /\ task[t] \in Row /\ Action(t) \in ActionName
    BY <2>1, TaskShape DEF IInv, RowsOK, RowOK
  <2>4. /\ task'[t].status = Goal(c, t) /\ task'[t].claim = None /\ task'[t].job = task[t].job
        /\ task'[t].failed => task[t].failed
    BY <2>2, <2>3 DEF RestartedRow, Row
  <2>5. RowOK(task'[t], Action(t))
    BY <2>1, <2>2, <2>3, RestartedRowOK
  <2>6. t[2] > 0 /\ task'[t].status # "waiting" => task[t].status # "waiting" \/ PreviousOutput(t)
    <3>1. CASE t \in ctl[c].current
      BY <1>1, <1>2, <3>1 DEF IInv, ControlOK, Hit
    <3>2. CASE t \notin ctl[c].current
      BY <2>1, <2>4, <3>2
    <3> QED BY <3>1, <3>2
  <2>7. KeepsInitial(t) /\ task'[t].status \notin Early => initial'[t[1]]
    <3>1. task'[t].status \notin Early => task[t].status \notin Early
      BY <2>1, <2>3, <2>4, ResumeStateShape DEF Early
    <3> QED BY <1>1, <2>1, <3>1 DEF IInv, CandidatesSaved, Early
  <2>8. \A v \in Worker : task'[t].claim # v
    BY <2>4, NoneAssumption
  <2>9. FrozenStep(t)
    <3>1. ControlOK(c) /\ t \in ctl[c].rows
      BY <1>2 DEF IInv, Hit
    <3>2. task[t].failed => ctl[c].op = "retry"
      BY <1>1, <3>1, Zenon DEF ControlOK
    <3>3. ctl[c].op = "retry" => ~task'[t].failed
      BY <2>2, <2>3 DEF RestartedRow, Row
    <3> QED BY <1>1, <3>2, <3>3 DEF FrozenStep
  <2>10. LeaseStep(t)
    BY <1>2 DEF LeaseStep, Hit
  <2> QED BY <2>1, <2>4, <2>5, <2>6, <2>7, <2>8, <2>9, <2>10 DEF RowStep, Undisturbed
<1>3. ASSUME NEW t \in Task PROVE RowStep(t) /\ Undisturbed(t)
  <2>1. CASE t \notin hit
    BY <1>1, <2>1, RowKept DEF Undisturbed
  <2> QED BY <1>2, <2>1
<1>4. task' \in [Task -> Row]
  BY <1>1, <1>3 DEF RowStep, RowOK
<1>5. msgs \subseteq Routed
  <2> SUFFICES ASSUME NEW t \in due PROVE RestartMessage(c, t) \in Routed
    OBVIOUS
  <2>1. /\ t \in Task /\ Goal(c, t) = ResumeState(Action(t), task[t].status)
        /\ Action(t) \in ActionName
    BY <1>1, RestartedShape, TaskShape
  <2>2. LastStep(Action(t), Goal(c, t)) \in StepsOf(Action(t))
    BY <2>1, ResumeStateShape, LastStepRegistered
  <2>3. FirstStep(Action(t)) \in StepsOf(Action(t))
    BY <2>1, FirstStepRegistered
  <2> QED BY <2>1, <2>2, <2>3, MsgRouted DEF RestartMessage
<1>6. ASSUME NEW d \in Client
      PROVE  ctl'[d] \in Control /\ ctl'[d].msgs \subseteq Routed /\ ControlStepOK(d)
  <2> DEFINE left == IF ctl[d].phase # "snapshot" THEN ctl[d].rows
                     ELSE ctl[d].rows \ {t \in hit : Restarted(c, t) # task[t]}
  <2>1. CASE d # c
    <3>1. ctl'[d] = [ctl[d] EXCEPT !.rows = left]
      BY <2>1 DEF RestartApply
    <3>2. /\ ctl'[d] \in Control /\ ctl'[d].msgs = ctl[d].msgs /\ ctl'[d].phase = ctl[d].phase
          /\ ctl'[d].op = ctl[d].op /\ ctl'[d].current = ctl[d].current /\ ctl'[d].rows \subseteq ctl[d].rows
          /\ ctl[d].rows \subseteq Task
      BY <1>1, <3>1 DEF Control
    <3>3. \A t \in ctl'[d].rows : Undisturbed(t)
      BY <1>3, <3>2
    <3> QED BY <3>2, <3>3 DEF ControlStepOK, IInv, TypeOK
  <2>2. CASE d = c /\ due = {}
    <3>1. ctl'[d] = IdleControl
      BY <2>2 DEF RestartApply
    <3> QED BY <3>1 DEF IdleControl, Control, ControlStepOK
  <2>3. CASE d = c /\ due # {}
    <3>1. ctl'[d] = [IdleControl EXCEPT !.phase = "dispatch", !.msgs = msgs]
      BY <2>3 DEF RestartApply
    <3>2. ctl'[d] \in Control /\ ctl'[d].msgs = msgs /\ ctl'[d].phase = "dispatch"
      <4>1. msgs \subseteq Message
        BY <1>5 DEF Routed
      <4> HIDE DEF msgs
      <4> QED BY <3>1, <4>1 DEF IdleControl, Control
    <3> QED BY <1>5, <3>2 DEF ControlStepOK
  <2> QED BY <2>1, <2>2, <2>3
<1>7. ctl' \in [Client -> Control]
  <2>1. ctl' = [d \in Client |-> ctl'[d]]
    BY DEF RestartApply
  <2> QED BY <1>6, <2>1
<1>8. \A v \in Worker : Assigned(worker'[v]) /\ WorkerStepOK(v)
  BY <1>1 DEF IInv, TypeOK, Assigned, WorkerStepOK
<1>9. TypeOK'
  BY <1>1, <1>4, <1>6, <1>7, <1>8, NextTypeOK DEF IInv, TypeOK
<1> QED BY <1>1, <1>3, <1>6, <1>8, <1>9 DEF Step

-----------------------------------------------------------------------------
(***************************************************************************)
(* The theorems.                                                           *)
(***************************************************************************)
LEMMA NextIsStep ==
    ASSUME IInv, [Next]_vars
    PROVE  Step
<1>1. CASE UNCHANGED vars
  <2>1. \A c \in Client : ControlStepOK(c)
    BY <1>1, ControlsKept DEF Undisturbed, vars
  <2> QED BY <1>1, <2>1, EnvironmentStep DEF vars, IInv, TypeOK
<1>2. CASE Deliver \/ Redeliver
  <2>1. PICK w \in Worker, m \in queue, rest \in SUBSET queue : Claim(w, m, rest)
    BY <1>2 DEF Deliver, Redeliver
  <2> QED BY <2>1, ClaimStep
<1>3. CASE \E w \in Worker : WorkerStep(w) \/ Crash(w) \/ CallbackFails(w) \/ SubmitUnanswered(w)
  <2> SUFFICES ASSUME NEW w \in Worker,
                      WorkerStep(w) \/ Crash(w) \/ CallbackFails(w) \/ SubmitUnanswered(w)
               PROVE  Step
    BY <1>3
  <2>1. CASE Callback(w)
    BY <2>1, PrepareStep, RenewStep, SubmitStep, PollStep, FinalizeStep, CombineStep DEF Callback
  <2>2. CASE CallbackRefuses(w) \/ CallbackFails(w) \/ SubmitUnanswered(w)
    BY <2>2, CallbackErrorStep
  <2>3. CASE FinishClaim(w)
    BY <2>3, FinishClaimStep
  <2>4. CASE FailClaim(w)
    BY <2>4, FailClaimStep
  <2>5. CASE Exitpoint(w)
    BY <2>5, ExitpointStep
  <2>6. CASE DispatchStep(w) \/ Entrypoint(w) \/ Crash(w)
    BY <2>6, EndStep
  <2> QED BY <2>1, <2>2, <2>3, <2>4, <2>5, <2>6 DEF WorkerStep
<1>4. CASE \E t \in Task : PollDue(t) \/ LeaseExpires(t)
  BY <1>4, TimeStep
<1>5. CASE \E j \in JobId : ProviderEnds(j, "done") \/ ProviderEnds(j, "failed")
  BY <1>5, ProviderStep
<1>6. CASE \E m \in queue : LoseMessage(m)
  BY <1>6, LossStep
<1>7. CASE \E c \in Client : ControlStep(c) \/ \E m \in ctl[c].msgs : RestartDispatchFails(c, m)
  BY <1>7, RestartApplyStep, DispatchingStep DEF ControlStep
<1>8. CASE User
  BY <1>8, RestartSnapshotStep, CancelStep DEF User
<1> QED BY <1>1, <1>2, <1>3, <1>4, <1>5, <1>6, <1>7, <1>8 DEF Next, Progress, Fault

\* The inductive invariant holds in every reachable state.
THEOREM Invariance == Spec => []IInv
<1>1. IInv /\ [Next]_vars => IInv'
  BY NextIsStep, StepPreserves
<1> QED BY InitIInv, <1>1, PTL DEF Spec

\* Rows, workers, messages and controls keep their shape, and every message names
\* a step of its task's action.
THEOREM TypeCorrect == Spec => []TypeOK
<1>1. IInv => TypeOK
  BY DEF IInv
<1> QED BY Invariance, <1>1, PTL

\* The lifecycle state of a row says exactly which artifacts it holds.
THEOREM ArtifactsCorrect == Spec => []ArtifactsMatchStatus
<1>1. IInv => ArtifactsMatchStatus
  BY DEF IInv, RowsOK, RowOK, ArtifactsOK, ArtifactsMatchStatus, Submitted
<1> QED BY Invariance, <1>1, PTL

\* No stage starts before the preceding one has completed with an output.
THEOREM StagesInOrder == Spec => []StageOrder
<1>1. IInv => StageOrder
  BY DEF IInv
<1> QED BY Invariance, <1>1, PTL

\* The candidates of a first pruning stage are saved before it is prepared.
THEOREM CandidatesKept == Spec => []CandidatesSaved
<1>1. IInv => CandidatesSaved
  BY DEF IInv
<1> QED BY Invariance, <1>1, PTL

\* A poll deadline never outlives the polling.
THEOREM GateCorrect == Spec => []GateOnlyWhilePolling
<1>1. IInv => GateOnlyWhilePolling
  BY DEF IInv, RowsOK, RowOK, GateOnlyWhilePolling
<1> QED BY Invariance, <1>1, PTL

\* Nothing rewrites a completed row.
THEOREM CompletedRowsFinal == Spec => CompletedIsFinal
<1>1. IInv /\ [Next]_vars =>
        [\A t \in Task : task[t].status = "complete" => task'[t] = task[t]]_vars
  BY NextIsStep DEF Step, RowStep
<1> QED BY Invariance, <1>1, PTL DEF Spec, CompletedIsFinal

\* A recorded provider job is neither replaced nor forgotten.
THEOREM ProviderJobsKept == Spec => ProviderJobKept
<1>1. IInv /\ [Next]_vars =>
        [\A t \in Task : task[t].job # None => task'[t].job = task[t].job]_vars
  BY NextIsStep DEF Step, RowStep
<1> QED BY Invariance, <1>1, PTL DEF Spec, ProviderJobKept

\* A failed row is frozen until a retry takes it.
THEOREM FailedRowsFrozen == Spec => FailedIsFrozen
<1>1. IInv /\ [Next]_vars => [\A t \in Task : FrozenStep(t)]_vars
  BY NextIsStep DEF Step, RowStep
<1> QED BY Invariance, <1>1, PTL DEF Spec, FailedIsFrozen, FrozenStep

\* Nobody takes a row from the holder of a live lease, except by failing it.
THEOREM LeasesProtect == Spec => LeaseProtectsHolder
<1>1. IInv /\ [Next]_vars => [\A t \in Task : LeaseStep(t)]_vars
  BY NextIsStep DEF Step, RowStep
<1> QED BY Invariance, <1>1, PTL DEF Spec, LeaseProtectsHolder, LeaseStep

\* Only submissions and the provider itself change provider jobs.
LEMMA ProviderChanges ==
    ASSUME [Next]_vars
    PROVE  \/ UNCHANGED provider
           \/ \E w \in Worker : Submit(w) \/ SubmitUnanswered(w)
           \/ \E j \in JobId : ProviderEnds(j, "done") \/ ProviderEnds(j, "failed")
<1>1. CASE UNCHANGED vars
  BY <1>1 DEF vars
<1>2. CASE Deliver \/ Redeliver
  BY <1>2 DEF Deliver, Redeliver, Claim
<1>3. CASE \E w \in Worker : WorkerStep(w) \/ Crash(w) \/ CallbackFails(w) \/ SubmitUnanswered(w)
  <2> SUFFICES ASSUME NEW w \in Worker,
                      WorkerStep(w) \/ Crash(w) \/ CallbackFails(w) \/ SubmitUnanswered(w)
               PROVE  UNCHANGED provider \/ Submit(w) \/ SubmitUnanswered(w)
    BY <1>3
  <2>1. CASE Prepare(w) \/ RenewForSubmit(w) \/ Poll(w) \/ Finalize(w) \/ Combine(w)
    BY <2>1 DEF Prepare, RenewForSubmit, Poll, Finalize, Combine
  <2>2. CASE CallbackRefuses(w) \/ CallbackFails(w) \/ Crash(w)
    BY <2>2 DEF CallbackRefuses, CallbackFails, Crash
  <2>3. CASE FinishClaim(w) \/ FailClaim(w)
    BY <2>3 DEF FinishClaim, FailClaim
  <2>4. CASE DispatchStep(w) \/ Exitpoint(w) \/ Entrypoint(w)
    BY <2>4 DEF DispatchStep, Exitpoint, Entrypoint
  <2> QED BY <2>1, <2>2, <2>3, <2>4 DEF WorkerStep, Callback
<1>4. CASE \E t \in Task : PollDue(t) \/ LeaseExpires(t)
  BY <1>4 DEF PollDue, LeaseExpires
<1>5. CASE \E m \in queue : LoseMessage(m)
  BY <1>5 DEF LoseMessage
<1>6. CASE \E c \in Client : ControlStep(c) \/ \E m \in ctl[c].msgs : RestartDispatchFails(c, m)
  BY <1>6 DEF ControlStep, RestartApply, RestartDispatch, RestartDispatchFails
<1>7. CASE User
  BY <1>7 DEF User, RestartSnapshot, Cancel
<1> QED BY <1>1, <1>2, <1>3, <1>4, <1>5, <1>6, <1>7 DEF Next, Progress, Fault

-----------------------------------------------------------------------------
(***************************************************************************)
(* Provenance.  Every artifact of a row, and every value that its owner is  *)
(* about to write into it, stems from what the stage should read: the       *)
(* preceding output cannot change once the stage has left WAITING, and a    *)
(* provider job keeps the task and the input it was created with.           *)
(***************************************************************************)
Artifacts(r) == <<r.input, r.job, r.result, r.output>>

SubmittedFor(j, t) ==
    provider[j].state # "unused" /\ provider[j].task = t /\ provider[j].input = StageInput(t)

OriginOK(t) ==
    LET r == task[t]
    IN  /\ r.input # None => r.input = StageInput(t)
        /\ r.job # None => SubmittedFor(r.job, t)
        /\ r.result # None => provider[r.result].state = "done"
        /\ r.output # None => r.output = IF Action(t) = "combine_chapter" THEN StageInput(t) ELSE r.job

ValueOrigin(w) ==
    worker[w].pc = "returned" /\ Owned(w) =>
        LET t == worker[w].task
            v == worker[w].value
            s == worker[w].step
        IN  /\ s \in {"prepare", "combine"} => v = StageInput(t)
            /\ s = "submit" => SubmittedFor(v, t)
            /\ (s = "poll" /\ worker[w].done) => provider[v].state = "done"
            /\ s = "finalize" => v = task[t].job

OInv == IInv /\ (\A t \in Task : OriginOK(t)) /\ (\A w \in Worker : ValueOrigin(w))

\* A provider job keeps its task and its input, and a job that is done stays done.
JobKept(j) ==
    provider[j].state # "unused" =>
        /\ provider'[j].state # "unused" /\ provider'[j].task = provider[j].task
        /\ provider'[j].input = provider[j].input
        /\ provider[j].state = "done" => provider'[j].state = "done"

LEMMA JobsKept ==
    ASSUME IInv, [Next]_vars, NEW j \in JobId
    PROVE  JobKept(j)
<1>0. provider \in [JobId -> ProviderJob]
  BY DEF IInv, TypeOK
<1>1. CASE UNCHANGED provider
  BY <1>1 DEF JobKept
<1>2. CASE \E w \in Worker : Submit(w) \/ SubmitUnanswered(w)
  <2>1. UNCHANGED provider \/ \E t, input : \E i \in JobId : CreateBatchJob(t, input, i)
    BY <1>2 DEF Submit, SubmitUnanswered
  <2> QED BY <1>0, <2>1 DEF CreateBatchJob, JobKept
<1>3. CASE \E i \in JobId : ProviderEnds(i, "done") \/ ProviderEnds(i, "failed")
  BY <1>0, <1>3 DEF ProviderEnds, JobKept, ProviderJob
<1> QED BY <1>1, <1>2, <1>3, ProviderChanges

\* What a stage reads cannot change once it has left WAITING.
LEMMA InputKept ==
    ASSUME IInv, Step, NEW t \in Task, task[t].status # "waiting"
    PROVE  StageInput(t)' = StageInput(t)
<1>1. CASE t[2] = 0
  BY <1>1 DEF StageInput
<1>2. CASE t[2] # 0
  <2>1. t[2] > 0
    BY <1>2, TaskShape
  <2>2. PreviousOutput(t)
    BY <2>1 DEF IInv, StageOrder
  <2>3. task'[Previous(t)] = task[Previous(t)]
    BY <2>2, PreviousOutputStable DEF IInv, Step
  <2> QED BY <1>2, <2>3 DEF StageInput, Previous
<1> QED BY <1>1, <1>2

\* A row whose artifacts stay has them from where it had them.
LEMMA OriginKept ==
    ASSUME IInv, Step, \A j \in JobId : JobKept(j), NEW t \in Task, OriginOK(t),
           Artifacts(task'[t]) = Artifacts(task[t])
    PROVE  OriginOK(t)'
<1>1. task[t] \in Row /\ ArtifactsOK(task[t], Action(t))
  BY DEF IInv, RowsOK, RowOK
<1>2. /\ task'[t].input = task[t].input /\ task'[t].job = task[t].job
      /\ task'[t].result = task[t].result /\ task'[t].output = task[t].output
  BY DEF Artifacts
<1>3. CASE task[t].status = "waiting"
  BY <1>1, <1>2, <1>3 DEF OriginOK, ArtifactsOK, Submitted
<1>4. CASE task[t].status # "waiting"
  <2>1. StageInput(t)' = StageInput(t)
    BY <1>4, InputKept
  <2>2. task[t].job # None => JobKept(task[t].job)
    BY <1>1 DEF Row
  <2>3. task[t].result # None => JobKept(task[t].result)
    BY <1>1 DEF Row
  <2> QED BY <1>2, <2>1, <2>2, <2>3 DEF OriginOK, SubmittedFor, JobKept, Action
<1> QED BY <1>3, <1>4

\* The rows that a step writes.
LEMMA RowChanges ==
    ASSUME [Next]_vars
    PROVE  \/ UNCHANGED task
           \/ \E w \in Worker, m \in queue, rest \in SUBSET queue : Claim(w, m, rest)
           \/ \E w \in Worker : FinishClaim(w) \/ FailClaim(w) \/ Exitpoint(w)
           \/ \E t \in Task : PollDue(t) \/ LeaseExpires(t)
           \/ \E c \in Client : RestartApply(c)
           \/ \E scope : Cancel(scope)
<1>1. CASE UNCHANGED vars
  BY <1>1 DEF vars
<1>2. CASE Deliver \/ Redeliver
  BY <1>2 DEF Deliver, Redeliver
<1>3. CASE \E w \in Worker : WorkerStep(w) \/ Crash(w) \/ CallbackFails(w) \/ SubmitUnanswered(w)
  <2> SUFFICES ASSUME NEW w \in Worker,
                      WorkerStep(w) \/ Crash(w) \/ CallbackFails(w) \/ SubmitUnanswered(w)
               PROVE  UNCHANGED task \/ FinishClaim(w) \/ FailClaim(w) \/ Exitpoint(w)
    BY <1>3
  <2>1. CASE Callback(w)
    BY <2>1 DEF Callback, Prepare, RenewForSubmit, Submit, Poll, Finalize, Combine
  <2>2. CASE CallbackRefuses(w) \/ CallbackFails(w) \/ Crash(w) \/ SubmitUnanswered(w)
    BY <2>2 DEF CallbackRefuses, CallbackFails, Crash, SubmitUnanswered
  <2>3. CASE DispatchStep(w) \/ Entrypoint(w)
    BY <2>3 DEF DispatchStep, Entrypoint
  <2> QED BY <2>1, <2>2, <2>3 DEF WorkerStep
<1>4. CASE \E j \in JobId : ProviderEnds(j, "done") \/ ProviderEnds(j, "failed")
  BY <1>4 DEF ProviderEnds
<1>5. CASE \E m \in queue : LoseMessage(m)
  BY <1>5 DEF LoseMessage
<1>6. CASE \E c \in Client : ControlStep(c) \/ \E m \in ctl[c].msgs : RestartDispatchFails(c, m)
  BY <1>6 DEF ControlStep, RestartDispatch, RestartDispatchFails
<1>7. CASE User
  BY <1>7 DEF User, RestartSnapshot
<1> QED BY <1>1, <1>2, <1>3, <1>4, <1>5, <1>6, <1>7 DEF Next, Progress, Fault

\* The holder of a row commits a callback.
Commits(w) ==
    LET t == worker[w].task
        s == worker[w].step
    IN  /\ worker[w].pc = "returned" /\ Owned(w)
        /\ task' = [task EXCEPT ![t] = Released(Written(task[t], s, worker[w].value), s, worker[w].done)]

\* Only that writes artifacts.
LEMMA ArtifactChanges ==
    ASSUME IInv, [Next]_vars, NEW t \in Task
    PROVE  \/ Artifacts(task'[t]) = Artifacts(task[t])
           \/ \E w \in Worker : worker[w].task = t /\ Commits(w)
<1>0. task \in [Task -> Row] /\ task[t] \in Row
  BY DEF IInv, TypeOK
<1>1. CASE UNCHANGED task
  BY <1>1
<1>2. CASE \E w \in Worker, m \in queue, rest \in SUBSET queue : Claim(w, m, rest)
  <2>1. PICK w \in Worker, m \in queue, rest \in SUBSET queue : Claim(w, m, rest)
    BY <1>2
  <2>2. UNCHANGED task \/ task' = [task EXCEPT ![m.task] = ClaimedRow(task[m.task], m.step, w)]
    BY <2>1 DEF Claim, ClaimedRow
  <2>3. Artifacts(ClaimedRow(task[t], m.step, w)) = Artifacts(task[t])
    BY <1>0 DEF ClaimedRow, Artifacts, Row
  <2> QED BY <1>0, <2>2, <2>3
<1>3. ASSUME NEW w \in Worker, FinishClaim(w), Artifacts(task'[t]) # Artifacts(task[t])
      PROVE  worker[w].task = t /\ Commits(w)
  <2>1. task' # task
    BY <1>3
  <2>2. Owned(w) /\ worker[w].pc = "returned"
    BY <1>3, <2>1 DEF FinishClaim
  <2>3. Commits(w)
    BY <1>3, <2>1, <2>2 DEF FinishClaim, Commits
  <2> QED BY <1>0, <1>3, <2>3 DEF Commits
<1>4. CASE \E w \in Worker : FailClaim(w)
  <2>1. PICK r : r = [task[t] EXCEPT !.failed = TRUE, !.claim = None, !.live = FALSE]
    OBVIOUS
  <2>2. task'[t] = task[t] \/ task'[t] = r
    BY <1>0, <1>4, <2>1 DEF FailClaim
  <2> QED BY <1>0, <2>1, <2>2 DEF Artifacts, Row
<1>5. CASE \E w \in Worker : Exitpoint(w)
  BY <1>0, <1>5 DEF Exitpoint, Artifacts, Row
<1>6. CASE \E u \in Task : PollDue(u) \/ LeaseExpires(u)
  BY <1>0, <1>6 DEF PollDue, LeaseExpires, Artifacts, Row
<1>7. CASE \E c \in Client : RestartApply(c)
  <2>1. PICK c \in Client : RestartApply(c)
    BY <1>7
  <2>2. ctl[c].phase = "snapshot" /\ task'[t] = IF t \in Hit(c) THEN Restarted(c, t) ELSE task[t]
    BY <2>1 DEF RestartApply
  <2>3. ASSUME t \in Hit(c) PROVE Artifacts(Restarted(c, t)) = Artifacts(task[t])
    <3>1. PICK failed : Restarted(c, t) = RestartedRow(task[t], Goal(c, t), failed)
      BY <2>2, <2>3, RestartedShape
    <3>2. Artifacts(RestartedRow(task[t], Goal(c, t), failed)) = Artifacts(task[t])
      BY <1>0 DEF RestartedRow, Artifacts, Row
    <3> QED BY <3>1, <3>2
  <2> QED BY <2>2, <2>3
<1>8. CASE \E scope : Cancel(scope)
  <2>1. PICK r : r = [task[t] EXCEPT !.failed = TRUE, !.claim = None, !.live = FALSE]
    OBVIOUS
  <2>2. task'[t] = task[t] \/ task'[t] = r
    BY <1>8, <2>1 DEF Cancel
  <2> QED BY <1>0, <2>1, <2>2 DEF Artifacts, Row
<1> QED BY <1>1, <1>2, <1>3, <1>4, <1>5, <1>6, <1>7, <1>8, RowChanges

\* What the holder commits has the origin of what it held.
LEMMA CommitOrigin ==
    ASSUME OInv, Step, \A j \in JobId : JobKept(j), NEW w \in Worker, NEW t \in Task,
           worker[w].task = t, Commits(w)
    PROVE  OriginOK(t)'
<1> USE NoneAssumption, PinnedAssumption
<1>1. PICK r, s, v, done, n :
         /\ r = task[t] /\ s = worker[w].step /\ v = worker[w].value /\ done = worker[w].done
         /\ n = Released(Written(r, s, v), s, done)
  OBVIOUS
<1>2. /\ r \in Row /\ ArtifactsOK(r, Action(t)) /\ task'[t] = n
      /\ r.status = During(s) /\ s \in StepsOf(Action(t)) /\ s \in StepName
  BY <1>1 DEF OInv, IInv, TypeOK, RowsOK, RowOK, Commits, Owned, StepsOf, StepName
<1>3. OriginOK(t) /\ ValueOrigin(w) /\ ValueFits(r, s, done, v)
  BY <1>1 DEF OInv, IInv, PendingOK, Commits
<1>4. r.status # "waiting"
  BY <1>2, StepStates
<1>5. StageInput(t)' = StageInput(t)
  BY <1>1, <1>4, InputKept DEF OInv
<1>6. /\ s \in {"prepare", "combine"} => v = StageInput(t)
      /\ s = "submit" => SubmittedFor(v, t)
      /\ (s = "poll" /\ done) => provider[v].state = "done"
      /\ s = "finalize" => v = r.job
  BY <1>1, <1>3 DEF ValueOrigin, Commits
<1>7. /\ r.input # None => r.input = StageInput(t)
      /\ r.job # None => SubmittedFor(r.job, t)
      /\ r.result # None => provider[r.result].state = "done"
  BY <1>1, <1>3 DEF OriginOK
<1>8. ASSUME NEW j \in JobId PROVE /\ SubmittedFor(j, t) => SubmittedFor(j, t)'
                                   /\ provider[j].state = "done" => provider'[j].state = "done"
  BY <1>5, <1>8 DEF JobKept, SubmittedFor
<1>9. /\ Released(Written(r, s, v), s, done).input = Written(r, s, v).input
      /\ Released(Written(r, s, v), s, done).job = Written(r, s, v).job
      /\ Released(Written(r, s, v), s, done).result = Written(r, s, v).result
      /\ Released(Written(r, s, v), s, done).output = Written(r, s, v).output
  <2>1. PICK m : m = Written(r, s, v)
    OBVIOUS
  <2>2. m \in [DOMAIN r -> {m[x] : x \in DOMAIN r}] /\
        DOMAIN r = {"status", "failed", "gate", "claim", "live", "input", "job", "result", "output"}
    BY <1>2, <2>1 DEF Written, Row
  <2> QED BY <2>1, <2>2 DEF Released
<1>10. r.job \in JobId \cup {None} /\ r.result \in JobId \cup {None}
  BY <1>2 DEF Row
<1>11. CASE s = "prepare"
  <2>1. v # None /\ n.input = v /\ n.job = r.job /\ n.result = r.result /\ n.output = r.output
    BY <1>1, <1>2, <1>3, <1>9, <1>11 DEF ValueFits, Written, Row, Artifact
  <2>2. n.job = None /\ n.result = None /\ n.output = None
    BY <1>2, <1>11, <2>1 DEF ArtifactsOK, During, StepsOf, Submitted
  <2> QED BY <1>2, <1>5, <1>6, <1>11, <2>1, <2>2 DEF OriginOK
<1>12. CASE s = "submit"
  <2>1. v \in JobId /\ n.input = r.input /\ n.job = v /\ n.result = r.result /\ n.output = r.output
    BY <1>1, <1>2, <1>3, <1>9, <1>12 DEF ValueFits, Written, Row, Artifact
  <2>2. n.result = None /\ n.output = None
    BY <1>2, <1>12, <2>1 DEF ArtifactsOK, During, StepsOf, Submitted
  <2>3. SubmittedFor(v, t)'
    BY <1>6, <1>8, <1>12, <2>1
  <2> QED BY <1>2, <1>5, <1>7, <2>1, <2>2, <2>3 DEF OriginOK, SubmittedFor
<1>13. CASE s = "poll" /\ done
  <2>1. v \in JobId /\ v = r.job /\ n.input = r.input /\ n.job = r.job /\ n.result = v /\ n.output = r.output
    BY <1>1, <1>2, <1>3, <1>9, <1>13 DEF ValueFits, Written, Row, Artifact
  <2>2. n.output = None
    BY <1>2, <1>13, <2>1 DEF ArtifactsOK, During, StepsOf, Submitted
  <2>3. SubmittedFor(v, t)' /\ provider'[v].state = "done"
    BY <1>6, <1>7, <1>8, <1>13, <2>1
  <2> QED BY <1>2, <1>5, <1>7, <2>1, <2>2, <2>3 DEF OriginOK, SubmittedFor
<1>14. CASE s = "poll" /\ ~done
  <2>1. n.input = r.input /\ n.job = r.job /\ n.result = r.result /\ n.output = r.output
    BY <1>1, <1>3, <1>9, <1>14 DEF ValueFits, Written
  <2> QED BY <1>1, <1>2, <1>3, <2>1, OriginKept DEF OInv, Artifacts
<1>15. CASE s \in {"finalize", "combine"}
  <2>1. v # None /\ n.input = r.input /\ n.job = r.job /\ n.result = r.result /\ n.output = v
    BY <1>1, <1>2, <1>3, <1>9, <1>15 DEF ValueFits, Written, Row, Artifact
  <2>2. Action(t) = "combine_chapter" <=> s = "combine"
    BY <1>2, <1>15 DEF StepsOf
  <2>3. n.output = IF Action(t) = "combine_chapter" THEN StageInput(t) ELSE n.job
    BY <1>6, <1>15, <2>1, <2>2
  <2>4. /\ n.job # None => SubmittedFor(n.job, t)'
        /\ n.result # None => provider'[n.result].state = "done"
    BY <1>7, <1>8, <1>10, <2>1
  <2> QED BY <1>2, <1>5, <1>7, <2>1, <2>3, <2>4 DEF OriginOK, SubmittedFor, Action
<1> QED BY <1>2, <1>11, <1>12, <1>13, <1>14, <1>15 DEF StepName

\* The value of a worker whose callback has not just returned stems from where it did.
LEMMA ValueKept ==
    ASSUME IInv, Step, \A j \in JobId : JobKept(j), NEW w \in Worker, ValueOrigin(w),
           worker'[w] = worker[w]
    PROVE  ValueOrigin(w)'
<1> SUFFICES ASSUME worker[w].pc = "returned", Owned(w)' PROVE ValueOrigin(w)'
  BY DEF ValueOrigin
<1>1. PICK t, s, v : t = worker[w].task /\ s = worker[w].step /\ v = worker[w].value
  OBVIOUS
<1>2. t \in Task /\ s \in StepName
  BY <1>1 DEF IInv, TypeOK, StepsOf, StepName
<1>3. task'[t].claim = w /\ task'[t].live /\ task'[t].status = During(s) /\ ~task'[t].failed
  BY <1>1 DEF Owned
<1>4. /\ task[t].claim = w /\ task[t].live /\ task'[t].failed = task[t].failed
      /\ task'[t].status = task[t].status /\ task'[t].job = task[t].job
  BY <1>2, <1>3 DEF Step, RowStep
<1>5. Owned(w)
  BY <1>1, <1>3, <1>4 DEF Owned
<1>6. /\ s \in {"prepare", "combine"} => v = StageInput(t)
      /\ s = "submit" => SubmittedFor(v, t)
      /\ (s = "poll" /\ worker[w].done) => provider[v].state = "done"
      /\ s = "finalize" => v = task[t].job
      /\ s = "submit" => v \in JobId
      /\ (s = "poll" /\ worker[w].done) => v \in JobId
  BY <1>1, <1>5 DEF ValueOrigin, IInv, PendingOK, ValueFits
<1>7. StageInput(t)' = StageInput(t)
  BY <1>2, <1>3, <1>4, StepStates, InputKept
<1>8. /\ s = "submit" => SubmittedFor(v, t)'
      /\ (s = "poll" /\ worker[w].done) => provider'[v].state = "done"
  BY <1>6, <1>7 DEF SubmittedFor, JobKept
<1>9. /\ s \in {"prepare", "combine"} => v = StageInput(t)'
      /\ s = "finalize" => v = task'[t].job
  BY <1>4, <1>6, <1>7
<1> QED BY <1>1, <1>8, <1>9 DEF ValueOrigin

\* Only a callback gives its worker something to submit or to write.
LEMMA WorkerChanges ==
    ASSUME IInv, [Next]_vars, NEW w \in Worker, worker'[w].pc \in {"returned", "renewed"}
    PROVE  worker'[w] = worker[w] \/ Callback(w)
<1>0. worker \in [Worker -> WorkerState] /\ IdleWorker.pc = "idle"
  BY DEF IInv, TypeOK, IdleWorker
<1>1. CASE UNCHANGED vars
  BY <1>1 DEF vars
<1>2. CASE Deliver \/ Redeliver
  <2>1. PICK v \in Worker, m \in queue, rest \in SUBSET queue : Claim(v, m, rest)
    BY <1>2 DEF Deliver, Redeliver
  <2>2. PICK wk : wk = [IdleWorker EXCEPT !.pc = "claimed", !.task = m.task, !.step = m.step]
    OBVIOUS
  <2>3. wk.pc = "claimed"
    BY <2>2 DEF IdleWorker
  <2>4. UNCHANGED worker \/ worker' = [worker EXCEPT ![v] = wk]
    BY <2>1, <2>2 DEF Claim
  <2> QED BY <1>0, <2>3, <2>4
<1>3. CASE \E v \in Worker : WorkerStep(v) \/ Crash(v) \/ CallbackFails(v) \/ SubmitUnanswered(v)
  <2> SUFFICES ASSUME NEW v \in Worker,
                      WorkerStep(v) \/ Crash(v) \/ CallbackFails(v) \/ SubmitUnanswered(v)
               PROVE  worker'[w] = worker[w] \/ Callback(w)
    BY <1>3
  <2>1. CASE Callback(v)
    <3>1. \E x : worker' = [worker EXCEPT ![v] = x]
      BY <2>1 DEF Callback, Prepare, RenewForSubmit, Submit, Poll, Finalize, Combine, Returned
    <3> QED BY <1>0, <2>1, <3>1
  <2>2. ASSUME Raised(v) PROVE worker'[w] = worker[w]
    <3>1. worker[v] \in WorkerState
      BY <1>0
    <3>2. PICK wk : wk = [worker[v] EXCEPT !.pc = "raised"]
      OBVIOUS
    <3>3. wk.pc = "raised" /\ worker' = [worker EXCEPT ![v] = wk]
      BY <2>2, <3>1, <3>2 DEF Raised, WorkerState
    <3> QED BY <1>0, <3>3
  <2>3. CASE CallbackRefuses(v) \/ CallbackFails(v) \/ SubmitUnanswered(v)
    BY <2>2, <2>3 DEF CallbackRefuses, CallbackFails, SubmitUnanswered
  <2>4. CASE FinishClaim(v)
    <3>1. worker[v] \in WorkerState
      BY <1>0
    <3>2. PICK wk : wk = [worker[v] EXCEPT !.pc = "committed"]
      OBVIOUS
    <3>3. wk.pc = "committed"
      BY <3>1, <3>2 DEF WorkerState
    <3>4. Raised(v) \/ worker' = [worker EXCEPT ![v] = wk]
      BY <2>4, <3>2 DEF FinishClaim
    <3> QED BY <1>0, <2>2, <3>3, <3>4
  <2>5. CASE Exitpoint(v)
    <3>1. PICK wk : wk = [IdleWorker EXCEPT !.pc = "advanced",
                                            !.task = <<worker[v].task[1], worker[v].task[2] + 1>>]
      OBVIOUS
    <3>2. wk.pc = "advanced"
      BY <3>1 DEF IdleWorker
    <3>3. worker' = [worker EXCEPT ![v] = wk] \/ worker' = [worker EXCEPT ![v] = IdleWorker]
      BY <2>5, <3>1 DEF Exitpoint
    <3> QED BY <1>0, <3>2, <3>3
  <2>6. CASE FailClaim(v) \/ DispatchStep(v) \/ Entrypoint(v) \/ Crash(v)
    <3>1. worker' = [worker EXCEPT ![v] = IdleWorker]
      BY <2>6 DEF FailClaim, DispatchStep, Entrypoint, Crash
    <3> QED BY <1>0, <3>1
  <2> QED BY <2>1, <2>3, <2>4, <2>5, <2>6 DEF WorkerStep
<1>4. CASE \E t \in Task : PollDue(t) \/ LeaseExpires(t)
  BY <1>4 DEF PollDue, LeaseExpires
<1>5. CASE \E j \in JobId : ProviderEnds(j, "done") \/ ProviderEnds(j, "failed")
  BY <1>5 DEF ProviderEnds
<1>6. CASE \E m \in queue : LoseMessage(m)
  BY <1>6 DEF LoseMessage
<1>7. CASE \E c \in Client : ControlStep(c) \/ \E m \in ctl[c].msgs : RestartDispatchFails(c, m)
  BY <1>7 DEF ControlStep, RestartApply, RestartDispatch, RestartDispatchFails
<1>8. CASE User
  BY <1>8 DEF User, RestartSnapshot, Cancel
<1> QED BY <1>1, <1>2, <1>3, <1>4, <1>5, <1>6, <1>7, <1>8 DEF Next, Progress, Fault

\* What a callback returns stems from what its row holds.
LEMMA CallbackOrigin ==
    ASSUME OInv, NEW w \in Worker, Callback(w)
    PROVE  ValueOrigin(w)'
<1> SUFFICES ASSUME Owned(w)', worker'[w].pc = "returned" PROVE ValueOrigin(w)'
  BY DEF ValueOrigin
<1>1. PICK t, s, r : t = worker[w].task /\ s = worker[w].step /\ r = task[t]
  OBVIOUS
<1>0. ~RenewForSubmit(w)
  <2> SUFFICES ASSUME RenewForSubmit(w) PROVE FALSE
    OBVIOUS
  <2>1. worker'[w].pc = "renewed"
    BY DEF RenewForSubmit, OInv, IInv, TypeOK, WorkerState
  <2> QED BY <2>1
<1>2. /\ worker[w].pc \in {"claimed", "renewed"} /\ UNCHANGED task
      /\ \E done, value, publish : Returned(w, done, value, publish)
  BY <1>0 DEF Callback, Prepare, Submit, Poll, Finalize, Combine
<1>3. /\ t \in Task /\ worker[w] \in WorkerState /\ worker \in [Worker -> WorkerState]
      /\ s \in StepsOf(Action(t)) /\ s \in StepName
      /\ r \in Row /\ ArtifactsOK(r, Action(t)) /\ OriginOK(t)
  BY <1>1, <1>2 DEF OInv, IInv, TypeOK, RowsOK, RowOK, StepsOf, StepName
<1>4. PICK done, value, publish : Returned(w, done, value, publish)
  BY <1>2
<1>5. /\ worker'[w].task = t /\ worker'[w].step = s /\ worker'[w].done = done /\ worker'[w].value = value
  BY <1>1, <1>3, <1>4 DEF Returned, WorkerState
<1>6. r.status = During(s) /\ StageInput(t)' = StageInput(t)
  BY <1>1, <1>2, <1>5 DEF Owned, StageInput, Previous
<1>7. SUFFICES /\ s \in {"prepare", "combine"} => value = StageInput(t)
               /\ s = "submit" => SubmittedFor(value, t)'
               /\ (s = "poll" /\ done) => provider'[value].state = "done"
               /\ s = "finalize" => value = r.job
  BY <1>1, <1>2, <1>5, <1>6 DEF ValueOrigin
<1>8. CASE Prepare(w)
  <2>1. s = "prepare" /\ Returned(w, TRUE, StageInput(t), KeepsInitial(t) /\ ~initial[t[1]])
    BY <1>1, <1>8 DEF Prepare
  <2>2. worker'[w].value = StageInput(t)
    BY <1>3, <2>1 DEF Returned, WorkerState
  <2> QED BY <1>5, <2>1, <2>2
<1>9. CASE Submit(w)
  <2>1. worker[w].pc = "renewed"
    <3> SUFFICES ASSUME s = "submit", r.job # None PROVE FALSE
      BY <1>1, <1>9 DEF Submit
    <3> QED BY <1>3, <1>6 DEF During, StepsOf, ArtifactsOK, Submitted
  <2>2. PICK j \in JobId : CreateBatchJob(t, worker[w].value, j) /\ Returned(w, TRUE, j, FALSE)
    BY <1>1, <1>9, <2>1 DEF Submit
  <2>3. worker'[w].value = j
    BY <1>3, <2>2 DEF Returned, WorkerState
  <2>4. Owned(w)
    BY <1>1, <1>2, <1>5 DEF Owned
  <2>5. s = "submit" /\ worker[w].value = r.input /\ r.input # None
    BY <1>1, <2>1, <2>4, NoneAssumption, PinnedAssumption DEF OInv, IInv, RenewedOK, Artifact
  <2>6. provider'[j].state = "pending" /\ provider'[j].task = t /\ provider'[j].input = r.input
    BY <1>1, <2>2, <2>5 DEF CreateBatchJob, OInv, IInv, TypeOK
  <2>7. r.input = StageInput(t)
    BY <1>1, <1>3, <2>5 DEF OriginOK
  <2> QED BY <1>5, <1>6, <2>3, <2>5, <2>6, <2>7 DEF SubmittedFor
<1>10. CASE Poll(w)
  <2>1. s = "poll" /\ UNCHANGED provider /\ provider[r.job].state # "failed" /\ r.job \in JobId
    BY <1>1, <1>3, <1>10 DEF Poll, CanRun, Row
  <2>2. \/ Returned(w, FALSE, None, FALSE)
        \/ Returned(w, TRUE, r.job, FALSE) /\ provider[r.job].state # "pending"
    BY <1>1, <1>10 DEF Poll
  <2>3. \/ ~worker'[w].done
        \/ worker'[w].value = r.job /\ provider[r.job].state # "pending"
    <3>1. CASE Returned(w, FALSE, None, FALSE)
      BY <1>3, <3>1 DEF Returned, WorkerState
    <3>2. CASE Returned(w, TRUE, r.job, FALSE) /\ provider[r.job].state # "pending"
      BY <1>3, <3>2 DEF Returned, WorkerState
    <3> QED BY <2>2, <3>1, <3>2
  <2>4. provider[r.job].state \in JobState /\ provider[r.job].state # "unused"
    BY <1>1, <1>3, <2>1, NoneAssumption DEF OInv, IInv, TypeOK, ProviderJob, OriginOK, SubmittedFor
  <2> QED BY <1>5, <2>1, <2>3, <2>4 DEF JobState
<1>11. CASE Finalize(w)
  <2>1. s = "finalize" /\ Returned(w, TRUE, r.result, FALSE)
    BY <1>1, <1>11 DEF Finalize
  <2>2. worker'[w].value = r.result
    BY <1>3, <2>1 DEF Returned, WorkerState
  <2>3. r.result = r.job
    BY <1>3, <1>6, <2>1 DEF ArtifactsOK, During, StepsOf, Submitted
  <2> QED BY <1>5, <2>1, <2>2, <2>3
<1>12. CASE Combine(w)
  <2>1. s = "combine" /\ Returned(w, TRUE, StageInput(t), FALSE)
    BY <1>1, <1>12 DEF Combine
  <2>2. worker'[w].value = StageInput(t)
    BY <1>3, <2>1 DEF Returned, WorkerState
  <2> QED BY <1>5, <2>1, <2>2
<1> QED BY <1>0, <1>8, <1>9, <1>10, <1>11, <1>12 DEF Callback

LEMMA OriginStep ==
    ASSUME OInv, [Next]_vars
    PROVE  OInv'
<1>1. IInv /\ Step /\ IInv'
  BY NextIsStep, StepPreserves DEF OInv
<1>2. \A j \in JobId : JobKept(j)
  BY <1>1, JobsKept
<1>3. ASSUME NEW t \in Task PROVE OriginOK(t)'
  <2>1. CASE Artifacts(task'[t]) = Artifacts(task[t])
    BY <1>1, <1>2, <2>1, OriginKept DEF OInv
  <2>2. CASE \E w \in Worker : worker[w].task = t /\ Commits(w)
    BY <1>1, <1>2, <2>2, CommitOrigin
  <2> QED BY <1>1, <2>1, <2>2, ArtifactChanges
<1>4. ASSUME NEW w \in Worker PROVE ValueOrigin(w)'
  <2>1. CASE worker'[w].pc # "returned"
    BY <2>1 DEF ValueOrigin
  <2>2. CASE worker'[w] = worker[w]
    BY <1>1, <1>2, <2>2, ValueKept DEF OInv
  <2>3. CASE Callback(w)
    BY <2>3, CallbackOrigin
  <2> QED BY <1>1, <2>1, <2>2, <2>3, WorkerChanges
<1> QED BY <1>1, <1>3, <1>4 DEF OInv

\* What a completed stage publishes was computed from what it should read, for any
\* lost and repeated messages, crashes, restarts and late workers.
THEOREM OutputsHaveProvenance == Spec => []Provenance
<1>1. Init => OInv
  <2> SUFFICES ASSUME Init PROVE OInv
    OBVIOUS
  <2>1. \A t \in Task : task[t] = NewRow(t[2])
    BY DEF Init
  <2>2. \A w \in Worker : worker[w].pc # "returned"
    BY DEF Init, IdleWorker
  <2>3. ASSUME NEW t \in Task PROVE OriginOK(t)
    <3>1. PICK r : r = NewRow(t[2])
      OBVIOUS
    <3>2. r.input = None /\ r.job = None /\ r.result = None /\ r.output = None
      BY <3>1 DEF NewRow
    <3>3. task[t] = r
      BY <2>1, <3>1
    <3> QED BY <3>2, <3>3 DEF OriginOK
  <2>4. \A w \in Worker : ValueOrigin(w)
    BY <2>2 DEF ValueOrigin
  <2> QED BY <2>3, <2>4, InitIInv DEF OInv
<1>2. OInv /\ [Next]_vars => OInv'
  BY OriginStep
<1>3. OInv => Provenance
  <2> SUFFICES ASSUME OInv, NEW t \in Task, task[t].status = "complete"
               PROVE  IF Action(t) = "combine_chapter"
                      THEN task[t].output = StageInput(t)
                      ELSE /\ task[t].output = task[t].job
                           /\ provider[task[t].job] = [state |-> "done", task |-> t, input |-> StageInput(t)]
    BY DEF Provenance
  <2>1. task[t] \in Row /\ ArtifactsOK(task[t], Action(t)) /\ OriginOK(t) /\ task[t].output # None
    BY DEF OInv, IInv, RowsOK, RowOK, ArtifactsOK
  <2>2. CASE Action(t) = "combine_chapter"
    BY <2>1, <2>2 DEF OriginOK
  <2>3. CASE Action(t) # "combine_chapter"
    <3>1. task[t].job \in JobId /\ task[t].job # None /\ task[t].result = task[t].job
      BY <2>1, <2>3 DEF ArtifactsOK, Submitted, Row
    <3>2. provider[task[t].job] \in ProviderJob
      BY <3>1 DEF OInv, IInv, TypeOK
    <3>3. /\ task[t].output = task[t].job /\ provider[task[t].job].state = "done"
          /\ provider[task[t].job].task = t /\ provider[task[t].job].input = StageInput(t)
      BY <2>1, <2>3, <3>1 DEF OriginOK, SubmittedFor
    <3> QED BY <2>3, <3>2, <3>3 DEF ProviderJob
  <2> QED BY <2>2, <2>3
<1> QED BY <1>1, <1>2, <1>3, PTL DEF Spec

-----------------------------------------------------------------------------
(***************************************************************************)
(* Submission.                                                             *)
(***************************************************************************)
\* A callback works for one task and step from its claim to its commit.
LEMMA CallbackKeeps ==
    ASSUME IInv, NEW w \in Worker, Callback(w)
    PROVE  /\ UNCHANGED task /\ worker'[w].task = worker[w].task /\ worker'[w].step = worker[w].step
           /\ worker'[w].pc = "renewed" => RenewForSubmit(w)
<1>0. worker \in [Worker -> WorkerState] /\ worker[w] \in WorkerState
  BY DEF IInv, TypeOK
<1>1. CASE RenewForSubmit(w)
  BY <1>0, <1>1 DEF RenewForSubmit, WorkerState
<1>2. CASE ~RenewForSubmit(w)
  <2>1. UNCHANGED task /\ \E done, value, publish : Returned(w, done, value, publish)
    BY <1>2 DEF Callback, Prepare, Submit, Poll, Finalize, Combine
  <2>2. PICK done, value, publish : Returned(w, done, value, publish)
    BY <2>1
  <2>3. /\ worker'[w].task = worker[w].task /\ worker'[w].step = worker[w].step
        /\ worker'[w].pc = "returned"
    BY <1>0, <2>2 DEF Returned, WorkerState
  <2> QED BY <2>1, <2>3
<1> QED BY <1>1, <1>2

\* What the owner of a row commits changes its job to the value it submitted.
LEMMA CommittedJob ==
    ASSUME IInv, NEW w \in Worker, NEW t \in Task, worker[w].task = t, Commits(w),
           task'[t].job # task[t].job
    PROVE  task'[t].job = worker[w].value
<1>1. PICK r, s, v, done, m :
         /\ r = task[t] /\ s = worker[w].step /\ v = worker[w].value /\ done = worker[w].done
         /\ m = Written(r, s, v)
  OBVIOUS
<1>2. /\ r \in Row /\ s \in StepName /\ task'[t] = Released(m, s, done)
  BY <1>1 DEF IInv, TypeOK, Commits, StepsOf, StepName
<1>3. /\ m \in [DOMAIN r -> {m[x] : x \in DOMAIN r}]
      /\ DOMAIN r = {"status", "failed", "gate", "claim", "live", "input", "job", "result", "output"}
      /\ m.job = r.job \/ m.job = v
  BY <1>1, <1>2 DEF Written, Row
<1>4. Released(m, s, done).job = m.job
  BY <1>3 DEF Released
<1> QED BY <1>1, <1>2, <1>3, <1>4

\* A worker renews its lease for its own row and submits that row's request; a job
\* created after the row was lost is never recorded.
THEOREM SubmissionsFenced == Spec => SubmissionIsFenced
<1>1. ASSUME IInv, [Next]_vars, NEW w \in Worker PROVE RenewsItsOwn(w) /\ StaysLost(w)
  <2>1. Step
    BY <1>1, NextIsStep
  <2>2. RenewsItsOwn(w)
    <3> SUFFICES ASSUME worker[w].pc # "renewed", worker'[w].pc = "renewed" PROVE RenewsItsOwn(w)
      BY DEF RenewsItsOwn
    <3>1. Callback(w)
      BY <1>1, WorkerChanges
    <3>2. RenewForSubmit(w)
      BY <1>1, <3>1, CallbackKeeps
    <3> QED BY <1>1, <3>2, RenewStep
  <2>3. StaysLost(w)
    <3> SUFFICES ASSUME worker[w].pc \in {"renewed", "returned"},
                        worker'[w].pc \in {"renewed", "returned"}, Owned(w)'
                 PROVE  Owned(w)
      BY DEF StaysLost
    <3>1. worker'[w] = worker[w] \/ Callback(w)
      BY <1>1, WorkerChanges
    <3>2. /\ worker'[w].task = worker[w].task /\ worker'[w].step = worker[w].step
          /\ worker'[w] # worker[w] => UNCHANGED task
      BY <1>1, <3>1, CallbackKeeps
    <3>3. PICK t : t = worker[w].task /\ t \in Task
      BY <1>1 DEF IInv, TypeOK
    <3>4. /\ task'[t].claim = w /\ task'[t].live /\ task'[t].status = During(worker[w].step)
          /\ ~task'[t].failed
      BY <3>2, <3>3 DEF Owned
    <3>5. /\ task[t].claim = w /\ task[t].live /\ task[t].status = task'[t].status
          /\ task[t].failed = task'[t].failed
      BY <2>1, <3>3, <3>4 DEF Step, RowStep
    <3> QED BY <3>3, <3>4, <3>5 DEF Owned
  <2> QED BY <2>2, <2>3
<1>2. ASSUME IInv, [Next]_vars, NEW j \in JobId PROVE CreatesOnce(j)
  <2> SUFFICES ASSUME provider[j].state = "unused", provider'[j].state # "unused"
               PROVE  CreatesOnce(j)
    BY DEF CreatesOnce
  <2>0. provider \in [JobId -> ProviderJob] /\ worker \in [Worker -> WorkerState]
    BY <1>2 DEF IInv, TypeOK
  <2>1. ~\E i \in JobId : ProviderEnds(i, "done") \/ ProviderEnds(i, "failed")
    BY <2>0 DEF ProviderEnds, ProviderJob
  <2>2. PICK w \in Worker : Submit(w) \/ SubmitUnanswered(w)
    BY <1>2, <2>1, ProviderChanges
  <2>3. worker[w].pc = "renewed" /\ \E i \in JobId : CreateBatchJob(worker[w].task, worker[w].value, i)
    BY <2>2 DEF Submit, SubmitUnanswered
  <2>4. PICK i \in JobId : CreateBatchJob(worker[w].task, worker[w].value, i)
    BY <2>3
  <2>5. i = j
    BY <2>0, <2>4 DEF CreateBatchJob
  <2>6. /\ provider'[j].task = worker[w].task /\ provider'[j].input = worker[w].value
        /\ \A k \in JobId \ {j} : provider'[k] = provider[k]
    BY <2>0, <2>4, <2>5 DEF CreateBatchJob
  <2>7. worker'[w].pc \in {"returned", "raised"}
    BY <2>0, <2>2, <2>3 DEF Submit, SubmitUnanswered, Returned, Raised, WorkerState
  <2> QED BY <2>3, <2>6, <2>7 DEF CreatesOnce
<1>3. ASSUME IInv, [Next]_vars, NEW t \in Task PROVE RecordsItsOwn(t)
  <2> SUFFICES ASSUME task'[t].job # task[t].job PROVE RecordsItsOwn(t)
    BY DEF RecordsItsOwn
  <2>1. PICK w \in Worker : worker[w].task = t /\ Commits(w)
    BY <1>3, ArtifactChanges DEF Artifacts
  <2>2. task'[t].job = worker[w].value
    BY <1>3, <2>1, CommittedJob
  <2>3. worker[w].pc = "returned" /\ Owned(w)
    BY <2>1 DEF Commits
  <2> QED BY <2>1, <2>2, <2>3 DEF RecordsItsOwn
<1>4. IInv /\ [Next]_vars =>
        [/\ \A w \in Worker : RenewsItsOwn(w) /\ StaysLost(w)
         /\ \A j \in JobId : CreatesOnce(j)
         /\ \A t \in Task : RecordsItsOwn(t)]_vars
  BY <1>1, <1>2, <1>3
<1> QED BY Invariance, <1>4, PTL DEF Spec, SubmissionIsFenced
=============================================================================
