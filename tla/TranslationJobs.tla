--------------------------- MODULE TranslationJobs ---------------------------
(***************************************************************************)
(* The batch translation pipeline of backend/src/translations: the task    *)
(* rows in PostgreSQL, the worker processes that claim a row, run one step *)
(* of its action and publish the result, the queue messages between them,  *)
(* the inference provider, and the user's start/resume/retry/cancel        *)
(* controls.                                                               *)
(*                                                                         *)
(* A row is read and written by many processes and protected by nothing    *)
(* but a lease (claim token and expiry) and guarded UPDATE statements.     *)
(* Each action below is one committed transaction of the code or one call  *)
(* to the queue or the provider, so a process may crash between any two.   *)
(*                                                                         *)
(* Clock times are abstracted to what the guards ask of them: whether a    *)
(* lease is still live, and how far next_poll_at is from now.              *)
(***************************************************************************)
EXTENDS Naturals, FiniteSets

CONSTANTS
    Batch,      \* the batches of one job
    LastStage,  \* stages are numbered 0..LastStage
    ActionOf,   \* stage number -> name of the stage's action
    Worker,     \* Celery worker processes; a process runs one message at a time
    Client,     \* API requests that run a restart control
    JobId,      \* identifiers the provider can return for a batch job
    Pinned,     \* the pinned source chapters a first stage reads
    None        \* SQL NULL / Python None

Stage == 0 .. LastStage
Task  == Batch \X Stage

ActionName == {"prune_memories", "combine_chapter",
               "translate_with_memories", "translate"}

\* What an action reads of its predecessor's output, and what it writes.
InputTypes(a) ==
    CASE a \in {"prune_memories", "translate_with_memories"} -> {"chapter", "memories"}
      [] a = "combine_chapter" -> {"memories"}
      [] OTHER -> {"chapter"}

OutputTypes(a) ==
    CASE a = "prune_memories"  -> {"memories"}
      [] a = "combine_chapter" -> {"chapter", "memories"}
      [] OTHER -> {"chapter"}

\* The stages of a job that was created fit each other, and stay as they are.
ASSUME StageAssumption  == LastStage \in Nat
ASSUME ActionAssumption == ActionOf \in [Stage -> ActionName]
ASSUME PipelineAssumption ==
    \A s \in 1 .. LastStage : InputTypes(ActionOf[s]) \subseteq OutputTypes(ActionOf[s - 1])
ASSUME FirstStageAssumption == ActionOf[0] # "combine_chapter"
ASSUME PinnedAssumption == Pinned \notin JobId
ASSUME NoneAssumption ==
    /\ None \notin JobId /\ None # Pinned /\ None \notin Task
    /\ None \notin Worker

(***************************************************************************)
(* The registered steps of the actions, as expect/during/finish states.    *)
(***************************************************************************)
Status == {"waiting", "ready", "preparing", "prepared", "submitting",
           "processing", "processed", "finalizing", "complete"}

StepName == {"prepare", "submit", "poll", "finalize", "combine"}

Expect(s) ==
    CASE s = "prepare"  -> "ready"
      [] s = "submit"   -> "prepared"
      [] s = "poll"     -> "processing"
      [] s = "finalize" -> "processed"
      [] OTHER          -> "ready"

During(s) ==
    CASE s = "prepare"  -> "preparing"
      [] s = "submit"   -> "submitting"
      [] s = "poll"     -> "processing"
      [] s = "finalize" -> "finalizing"
      [] OTHER          -> "finalizing"

Finish(s) ==
    CASE s = "prepare"  -> "prepared"
      [] s = "submit"   -> "processing"
      [] s = "poll"     -> "processed"
      [] OTHER          -> "complete"

StepsOf(action) ==
    IF action = "combine_chapter" THEN {"combine"} ELSE StepName \ {"combine"}

FirstStep(action) == IF action = "combine_chapter" THEN "combine" ELSE "prepare"

\* The step dispatched after s, None when s is the last one of its action.
NextStep(s) ==
    CASE s = "prepare" -> "submit"
      [] s = "submit"  -> "poll"
      [] s = "poll"    -> "finalize"
      [] OTHER         -> None

\* Mutant: a stage still WAITING has no step to resume at.
LastStepOfStarted(action, state) ==
    IF state \in {"complete", "waiting"} THEN None
    ELSE IF \E s \in StepsOf(action) : Expect(s) = state
         THEN CHOOSE s \in StepsOf(action) : Expect(s) = state
    ELSE IF \E s \in StepsOf(action) : During(s) = state
         THEN CHOOSE s \in StepsOf(action) : During(s) = state
    ELSE None

\* The step that resumes a task in the given state, an expected state taking
\* precedence over a state a step passes through.
LastStep(action, state) ==
    IF state = "complete" THEN None
    ELSE IF state = "waiting" THEN FirstStep(action)
    ELSE IF \E s \in StepsOf(action) : Expect(s) = state
         THEN CHOOSE s \in StepsOf(action) : Expect(s) = state
    ELSE IF \E s \in StepsOf(action) : During(s) = state
         THEN CHOOSE s \in StepsOf(action) : During(s) = state
    ELSE None

-----------------------------------------------------------------------------
VARIABLES
    task,      \* the rows of translation_tasks
    initial,   \* translation_batches.initial_file_id
    worker,    \* what each worker process is doing
    queue,     \* messages in the broker
    provider,  \* batch jobs at the provider
    ctl        \* restart controls in progress

vars == <<task, initial, worker, queue, provider, ctl>>

(***************************************************************************)
(* Artifacts are identified by what they were computed from: the pinned    *)
(* source, or the provider job whose results they hold.                    *)
(***************************************************************************)
Artifact == {Pinned} \cup JobId

\* next_poll_at: NULL, more than POLL_GATE_SLACK ahead, within it, or past.
Gate == {"none", "closed", "slack", "due"}

Row == [status : Status,
        failed : BOOLEAN,               \* failed_at is not null
        gate   : Gate,
        claim  : Worker \cup {None},    \* whose token the row holds
        live   : BOOLEAN,               \* claim_expires_at > now
        input  : Artifact \cup {None},  \* input_file_id
        job    : JobId \cup {None},     \* provider_batch_id
        result : JobId \cup {None},     \* provider_output_id
        output : Artifact \cup {None}]  \* output_file_id

NewRow(s) == [status |-> IF s = 0 THEN "ready" ELSE "waiting",
              failed |-> FALSE, gate |-> "none", claim |-> None, live |-> FALSE,
              input |-> None, job |-> None, result |-> None, output |-> None]

Message == [task : Task, step : StepName, timed : BOOLEAN]
Msg(t, s, timed) == [task |-> t, step |-> s, timed |-> timed]

\* claimed: the claim is committed, the callback has not run; renewed: submit has
\* renewed the lease and not yet called the provider; returned, raised: how the callback ended; committed: finish_claim is
\* committed; advanced: exitpoint is committed. Messages are sent last.
WorkerPC == {"idle", "claimed", "renewed", "returned", "raised", "committed", "advanced"}

WorkerState == [pc    : WorkerPC,
                task  : Task \cup {None},
                step  : StepName \cup {None},
                done  : BOOLEAN,                 \* the callback's return value
                value : Artifact \cup {None},    \* what it submits or wants to write
                publish : BOOLEAN]               \* it also writes initial_file_id

IdleWorker == [pc |-> "idle", task |-> None, step |-> None, done |-> FALSE,
               value |-> None, publish |-> FALSE]

JobState == {"unused", "pending", "done", "failed"}
ProviderJob == [state : JobState, task : Task \cup {None}, input : Artifact \cup {None}]
UnusedJob == [state |-> "unused", task |-> None, input |-> None]

Operation == {"start", "resume", "retry"}
Control == [phase : {"idle", "snapshot", "dispatch"}, op : Operation \cup {None},
            rows : SUBSET Task, current : SUBSET Task, msgs : SUBSET Message]
IdleControl == [phase |-> "idle", op |-> None, rows |-> {}, current |-> {}, msgs |-> {}]

Init ==
    /\ task = [t \in Task |-> NewRow(t[2])]
    /\ initial = [b \in Batch |-> FALSE]
    /\ worker = [w \in Worker |-> IdleWorker]
    /\ queue = {}
    /\ provider = [j \in JobId |-> UnusedJob]
    /\ ctl = [c \in Client |-> IdleControl]

-----------------------------------------------------------------------------
(***************************************************************************)
(* Claims.                                                                 *)
(***************************************************************************)
Action(t)   == ActionOf[t[2]]
Previous(t) == <<t[1], t[2] - 1>>
Live(t)     == task[t].claim # None /\ task[t].live

\* A restart control decides on a snapshot and rechecks status, token, expiry,
\* failure and deadline of every row it updates; tokens and timestamps are
\* fresh at each write, so a row written since the snapshot drops out.
Outdate(S) ==
    ctl' = [c \in Client |-> IF ctl[c].phase = "snapshot"
                             THEN [ctl[c] EXCEPT !.rows = @ \ S]
                             ELSE ctl[c]]

\* Mutants: a failed row, a row whose lease is live, or no early poll is claimed.
ClaimableFailed(t, s) ==
    /\ task[t].gate # "closed"
    /\ \/ task[t].status = Expect(s) /\ task[t].claim = None
       \/ task[t].status = During(s) /\ task[t].claim # None /\ ~task[t].live

ClaimableLeased(t, s) ==
    /\ ~task[t].failed
    /\ task[t].gate # "closed"
    /\ \/ task[t].status = Expect(s) /\ task[t].claim = None
       \/ task[t].status = During(s) /\ task[t].claim # None

ClaimableWithoutSlack(t, s) ==
    /\ ~task[t].failed
    /\ task[t].gate \in {"none", "due"}
    /\ \/ task[t].status = Expect(s) /\ task[t].claim = None
       \/ task[t].status = During(s) /\ task[t].claim # None /\ ~task[t].live

Claimable(t, s) ==
    /\ ~task[t].failed
    /\ task[t].gate # "closed"
    /\ \/ task[t].status = Expect(s) /\ task[t].claim = None
       \/ task[t].status = During(s) /\ task[t].claim # None /\ ~task[t].live

\* Mutant: the fence compares neither token nor status.
OwnedByAnyone(w) ==
    LET t == worker[w].task IN task[t].live /\ ~task[t].failed

\* The process w still owns the task it is working on.
Owned(w) ==
    LET t == worker[w].task
    IN  /\ task[t].claim = w
        /\ task[t].live
        /\ task[t].status = During(worker[w].step)
        /\ ~task[t].failed

\* celery_task, first transaction: claim the row for a fresh token, or drop the
\* message. One sent with a countdown arrives when next_poll_at is at most the
\* slack away. rest is what stays queued: equal messages published twice are one
\* element of the set, so a delivered message may be left behind.
Claim(w, m, rest) ==
    /\ worker[w].pc = "idle" /\ m \in queue
    /\ m.timed => task[m.task].gate # "closed"
    /\ queue' = rest
    /\ IF Claimable(m.task, m.step)
       THEN /\ task' = [task EXCEPT ![m.task] =
                          [@ EXCEPT !.status = During(m.step), !.claim = w, !.live = TRUE]]
            /\ worker' = [worker EXCEPT ![w] =
                            [IdleWorker EXCEPT !.pc = "claimed", !.task = m.task, !.step = m.step]]
            /\ Outdate({m.task})
       ELSE UNCHANGED <<task, worker, ctl>>
    /\ UNCHANGED <<initial, provider>>

\* The lease of a claim runs out: its holder crashed or is too slow.
LeaseExpires(t) ==
    /\ Live(t)
    /\ task' = [task EXCEPT ![t] = [@ EXCEPT !.live = FALSE]]
    /\ UNCHANGED <<initial, worker, queue, provider, ctl>>

\* Time passes towards next_poll_at.
PollDue(t) ==
    /\ task[t].gate \in {"closed", "slack"}
    /\ task' = [task EXCEPT ![t] =
                  [task[t] EXCEPT !.gate = IF @ = "closed" THEN "slack" ELSE "due"]]
    /\ UNCHANGED <<initial, worker, queue, provider, ctl>>

-----------------------------------------------------------------------------
(***************************************************************************)
(* Callbacks, run in a transaction that writes nothing before it finishes. *)
(* Each but poll renews the lease, in a transaction of its own, before its  *)
(* one blocking call. Only the provider call of submit has an effect that   *)
(* outlives a lost lease, so only there is the renewal a step of its own.   *)
(***************************************************************************)
PreviousOutput(t) ==
    /\ t[2] > 0
    /\ task[Previous(t)].status = "complete"
    /\ ~task[Previous(t)].failed
    /\ task[Previous(t)].output # None

StageInput(t) == IF t[2] = 0 THEN Pinned ELSE task[Previous(t)].output

\* A first pruning stage keeps its candidates as the batch's initial file.
KeepsInitial(t) == Action(t) = "prune_memories" /\ t[2] = 0

Returned(w, done, value, publish) ==
    worker' = [worker EXCEPT ![w] = [@ EXCEPT !.pc = "returned", !.done = done,
                                              !.value = value, !.publish = publish]]

Raised(w) == worker' = [worker EXCEPT ![w] = [@ EXCEPT !.pc = "raised"]]

\* Mutant: poll takes a failed batch for an ended one.
CanRunOnFailed(w) ==
    LET t == worker[w].task  row == task[t]
    IN  CASE worker[w].step = "prepare"  -> Owned(w) /\ (t[2] = 0 \/ PreviousOutput(t))
          [] worker[w].step = "submit"   -> row.job # None \/ (row.input # None /\ Owned(w))
          [] worker[w].step = "poll"     -> row.job # None
          [] worker[w].step = "finalize" -> Owned(w) /\ row.result # None
          [] OTHER -> Owned(w) /\ PreviousOutput(t)

\* The callback finds what it needs and its renewal succeeds. That the preceding
\* action writes what this one reads is checked again by some; it always does.
CanRun(w) ==
    LET t == worker[w].task  row == task[t]
    IN  CASE worker[w].step = "prepare"  -> Owned(w) /\ (t[2] = 0 \/ PreviousOutput(t))
          [] worker[w].step = "submit"   -> row.job # None \/ (row.input # None /\ Owned(w))
          [] worker[w].step = "poll"     -> row.job # None /\ provider[row.job].state # "failed"
          [] worker[w].step = "finalize" ->
                /\ Owned(w) /\ row.result # None
                /\ KeepsInitial(t) => initial[t[1]]
                /\ (Action(t) = "prune_memories" /\ t[2] > 0) => PreviousOutput(t)
          [] OTHER -> Owned(w) /\ PreviousOutput(t)

Prepare(w) ==
    LET t == worker[w].task
    IN  /\ worker[w].pc = "claimed" /\ worker[w].step = "prepare" /\ CanRun(w)
        /\ Returned(w, TRUE, StageInput(t), KeepsInitial(t) /\ ~initial[t[1]])
        /\ UNCHANGED <<task, initial, queue, provider, ctl>>

\* submit reads the request file's id and renews the lease, which commits.
RenewForSubmit(w) ==
    LET row == task[worker[w].task]
    IN  /\ worker[w].pc = "claimed" /\ worker[w].step = "submit" /\ CanRun(w)
        /\ row.job = None
        /\ worker' = [worker EXCEPT ![w] = [@ EXCEPT !.pc = "renewed", !.value = row.input]]
        /\ UNCHANGED <<task, initial, queue, provider, ctl>>

CreateBatchJob(t, input, j) ==
    /\ provider[j].state = "unused"
    /\ provider' = [provider EXCEPT ![j] =
                      [state |-> "pending", task |-> t, input |-> input]]

\* The rest of submit, which asks nothing more of the row: a job already recorded
\* is kept, otherwise the provider gets the file, whoever owns the row by now.
Submit(w) ==
    LET t == worker[w].task
    IN  /\ \/ /\ worker[w].pc = "claimed" /\ worker[w].step = "submit"
              /\ task[t].job # None
              /\ Returned(w, TRUE, None, FALSE) /\ UNCHANGED provider
           \/ /\ worker[w].pc = "renewed"
              /\ \E j \in JobId : /\ CreateBatchJob(t, worker[w].value, j)
                                 /\ Returned(w, TRUE, j, FALSE)
        /\ UNCHANGED <<task, initial, queue, ctl>>

Poll(w) ==
    LET job == task[worker[w].task].job
    IN  /\ worker[w].pc = "claimed" /\ worker[w].step = "poll" /\ CanRun(w)
        /\ IF provider[job].state = "pending"
           THEN Returned(w, FALSE, None, FALSE)
           ELSE Returned(w, TRUE, job, FALSE)
        /\ UNCHANGED <<task, initial, queue, provider, ctl>>

Finalize(w) ==
    /\ worker[w].pc = "claimed" /\ worker[w].step = "finalize" /\ CanRun(w)
    /\ Returned(w, TRUE, task[worker[w].task].result, FALSE)
    /\ UNCHANGED <<task, initial, queue, provider, ctl>>

Combine(w) ==
    /\ worker[w].pc = "claimed" /\ worker[w].step = "combine" /\ CanRun(w)
    /\ Returned(w, TRUE, StageInput(worker[w].task), FALSE)
    /\ UNCHANGED <<task, initial, queue, provider, ctl>>

\* Missing artifacts, a failed provider batch or a lost lease.
CallbackRefuses(w) ==
    /\ worker[w].pc = "claimed" /\ ~CanRun(w)
    /\ Raised(w)
    /\ UNCHANGED <<task, initial, queue, provider, ctl>>

\* The object store, the provider or the validation of its records fails, or a
\* renewal while the request file is being sent.
CallbackFails(w) ==
    /\ worker[w].pc \in {"claimed", "renewed"}
    /\ Raised(w)
    /\ UNCHANGED <<task, initial, queue, provider, ctl>>

\* The provider accepts the job but its answer is lost.
SubmitUnanswered(w) ==
    /\ worker[w].pc = "renewed"
    /\ \E j \in JobId : CreateBatchJob(worker[w].task, worker[w].value, j)
    /\ Raised(w)
    /\ UNCHANGED <<task, initial, queue, ctl>>

-----------------------------------------------------------------------------
(***************************************************************************)
(* The end of a worker invocation.                                         *)
(***************************************************************************)
\* The fields a callback assigned to its row, flushed by finish_claim.
Written(row, s, value) ==
    IF value = None THEN row
    ELSE CASE s = "prepare" -> [row EXCEPT !.input = value]
           [] s = "submit"  -> [row EXCEPT !.job = value]
           [] s = "poll"    -> [row EXCEPT !.result = value]
           [] OTHER         -> [row EXCEPT !.output = value]

Released(row, s, done) ==
    [row EXCEPT !.status = IF done THEN Finish(s) ELSE Expect(s),
                !.claim = None, !.live = FALSE,
                !.gate = IF done THEN "none" ELSE "closed"]

\* Countdowns already running were set for earlier deadlines.
Overdue(t) == {IF m.task = t THEN [m EXCEPT !.timed = FALSE] ELSE m : m \in queue}

\* finish_claim: fence, write and release in the callback's transaction, or
\* roll it back because the claim is lost.
FinishClaim(w) ==
    LET t == worker[w].task  s == worker[w].step  done == worker[w].done
    IN  /\ worker[w].pc = "returned"
        /\ IF Owned(w) /\ (worker[w].publish => ~initial[t[1]])
           THEN /\ task' = [task EXCEPT ![t] =
                              Released(Written(@, s, worker[w].value), s, done)]
                /\ initial' = [initial EXCEPT ![t[1]] = @ \/ worker[w].publish]
                /\ worker' = [worker EXCEPT ![w] = [@ EXCEPT !.pc = "committed"]]
                /\ queue' = IF done THEN queue ELSE Overdue(t)
                /\ Outdate({t})
           ELSE /\ Raised(w)
                /\ UNCHANGED <<task, initial, queue, ctl>>
        /\ UNCHANGED provider

\* fail_claim, in a transaction of its own, then the exception ends the message.
FailClaim(w) ==
    LET t == worker[w].task
    IN  /\ worker[w].pc = "raised"
        /\ IF Owned(w)
           THEN /\ task' = [task EXCEPT ![t] =
                              [@ EXCEPT !.failed = TRUE, !.claim = None, !.live = FALSE]]
                /\ Outdate({t})
           ELSE UNCHANGED <<task, ctl>>
        /\ worker' = [worker EXCEPT ![w] = IdleWorker]
        /\ UNCHANGED <<initial, queue, provider>>

\* Queue the same step again after the poll interval, or the next step.
DispatchStep(w) ==
    LET t == worker[w].task  s == worker[w].step
    IN  /\ worker[w].pc = "committed"
        /\ worker[w].done => NextStep(s) # None
        /\ queue' = queue \cup {IF worker[w].done THEN Msg(t, NextStep(s), FALSE)
                                                  ELSE Msg(t, s, TRUE)}
        /\ worker' = [worker EXCEPT ![w] = IdleWorker]
        /\ UNCHANGED <<task, initial, provider, ctl>>

\* exitpoint: the last step makes the batch's next stage ready.
Exitpoint(w) ==
    LET t == worker[w].task  n == <<t[1], t[2] + 1>>
    IN  /\ worker[w].pc = "committed" /\ worker[w].done /\ NextStep(worker[w].step) = None
        /\ IF /\ task[t].status = "complete" /\ ~task[t].failed /\ t[2] < LastStage
              /\ task[n].status \in {"waiting", "ready"} /\ ~task[n].failed
              /\ task[n].claim = None
           THEN /\ task' = [task EXCEPT ![n] = [@ EXCEPT !.status = "ready"]]
                /\ worker' = [worker EXCEPT ![w] = [IdleWorker EXCEPT !.pc = "advanced", !.task = n]]
                /\ Outdate(IF task[n].status = "waiting" THEN {n} ELSE {})
           ELSE /\ worker' = [worker EXCEPT ![w] = IdleWorker]
                /\ UNCHANGED <<task, ctl>>
        /\ UNCHANGED <<initial, queue, provider>>

\* The next action's entrypoint, after exitpoint's commit.
Entrypoint(w) ==
    LET n == worker[w].task
    IN  /\ worker[w].pc = "advanced"
        /\ queue' = queue \cup {Msg(n, FirstStep(Action(n)), FALSE)}
        /\ worker' = [worker EXCEPT ![w] = IdleWorker]
        /\ UNCHANGED <<task, initial, provider, ctl>>

\* The process dies, or publishing a message raises: nothing is rolled forward.
Crash(w) ==
    /\ worker[w].pc # "idle"
    /\ worker' = [worker EXCEPT ![w] = IdleWorker]
    /\ UNCHANGED <<task, initial, queue, provider, ctl>>

LoseMessage(m) ==
    /\ m \in queue
    /\ queue' = queue \ {m}
    /\ UNCHANGED <<task, initial, worker, provider, ctl>>

ProviderEnds(j, state) ==
    /\ provider[j].state = "pending" /\ state \in {"done", "failed"}
    /\ provider' = [provider EXCEPT ![j] = [@ EXCEPT !.state = state]]
    /\ UNCHANGED <<task, initial, worker, queue, ctl>>

-----------------------------------------------------------------------------
(***************************************************************************)
(* User controls.                                                          *)
(***************************************************************************)
Unfinished(b) == {t \in Task : t[1] = b /\ task[t].status # "complete"}

\* The first unfinished task of its batch (position 1 of the ranking).
Current(t) ==
    /\ task[t].status # "complete"
    /\ \A u \in Unfinished(t[1]) : t[2] <= u[2]

LiveBatch(b)   == \E t \in Unfinished(b) : Live(t)
FailedBatch(b) == \E t \in Unfinished(b) : task[t].failed

\* Retry walks back to the earliest artifact that is missing.
WalkBack(t) ==
    LET row == task[t]
        s1 == IF row.status \in {"processed", "finalizing"} /\ row.result = None
              THEN "processing" ELSE row.status
        s2 == IF s1 = "processing" /\ row.job = None THEN "prepared" ELSE s1
        s3 == IF s2 \in {"prepared", "submitting"} /\ row.input = None THEN "ready" ELSE s2
    IN  IF Action(t) = "combine_chapter" THEN row.status
        ELSE IF KeepsInitial(t) /\ ~initial[t[1]] THEN "ready"
        ELSE s3

RestartStep(op, t) ==
    LastStep(Action(t), IF op = "retry" THEN WalkBack(t) ELSE task[t].status)

\* Mutant: retry leaves batches with a failed task alone.
EligibleUnfailed(op, scope) ==
    {t \in Task :
        /\ t[1] \in scope /\ task[t].status # "complete"
        /\ ~LiveBatch(t[1]) /\ ~FailedBatch(t[1]) /\ Current(t)
        /\ op = "start" => t[2] = 0 /\ task[t].status = "ready"
        /\ RestartStep(op, t) # None}

\* The rows a restart may update, judged on its snapshot.
Eligible(op, scope) ==
    {t \in Task :
        /\ t[1] \in scope /\ task[t].status # "complete"
        /\ ~LiveBatch(t[1])
        /\ op # "retry" => ~FailedBatch(t[1]) /\ Current(t)
        /\ op = "start" => t[2] = 0 /\ task[t].status = "ready"
        /\ Current(t) => RestartStep(op, t) # None}

\* The UPDATE takes its snapshot; scope is the whole job or one batch.
RestartSnapshot(c, op, scope) ==
    /\ ctl[c].phase = "idle"
    /\ LET rows == Eligible(op, scope)
       IN  ctl' = [ctl EXCEPT ![c] =
                     [IdleControl EXCEPT !.phase = "snapshot", !.op = op, !.rows = rows,
                                         !.current = {t \in rows : Current(t)}]]
    /\ UNCHANGED <<task, initial, worker, queue, provider>>

\* Rows whose recheck passes when the UPDATE reaches them.
Hit(c) == {t \in ctl[c].rows : ~Live(t)}

\* Mutant: every row of the batch restarts, not only its current one.
GoalOfAll(c, t) == Expect(RestartStep(ctl[c].op, t))

\* The state a restarted row gets: only the current one leaves its state.
Goal(c, t) ==
    IF t \in ctl[c].current THEN Expect(RestartStep(ctl[c].op, t)) ELSE task[t].status

Restarted(c, t) ==
    LET goal == Goal(c, t)
        row  == [task[t] EXCEPT !.status = goal,
                                !.gate = IF goal # task[t].status THEN "none" ELSE @,
                                !.claim = None, !.live = FALSE]
    IN  IF ctl[c].op # "retry" THEN row
        ELSE IF t \in ctl[c].current /\ goal = "ready"
             THEN [row EXCEPT !.failed = FALSE, !.input = None, !.job = None,
                              !.result = None, !.output = None]
             ELSE [row EXCEPT !.failed = FALSE]

RestartMessage(c, t) ==
    IF ctl[c].op = "start" THEN Msg(t, FirstStep(Action(t)), FALSE)
    ELSE LET goal == Goal(c, t)
         IN  Msg(t, LastStep(Action(t), goal),
                 goal = task[t].status /\ task[t].gate # "none")

\* The UPDATE rechecks its rows and commits; dispatching comes after.
RestartApply(c) ==
    LET hit == Hit(c)
        rows(d) == IF ctl[d].phase # "snapshot" THEN ctl[d].rows
                   ELSE ctl[d].rows \ {t \in hit : Restarted(c, t) # task[t]}
    IN  /\ ctl[c].phase = "snapshot"
        /\ task' = [t \in Task |-> IF t \in hit THEN Restarted(c, t) ELSE task[t]]
        /\ ctl' = [d \in Client |->
                     IF d # c THEN [ctl[d] EXCEPT !.rows = rows(d)]
                     ELSE IF hit \cap ctl[c].current = {} THEN IdleControl
                     ELSE [IdleControl EXCEPT !.phase = "dispatch",
                             !.msgs = {RestartMessage(c, t) : t \in hit \cap ctl[c].current}]]
        /\ UNCHANGED <<initial, worker, queue, provider>>

AfterDispatch(c, m) ==
    ctl' = [ctl EXCEPT ![c] = IF ctl[c].msgs = {m} THEN IdleControl
                              ELSE [ctl[c] EXCEPT !.msgs = @ \ {m}]]

RestartDispatch(c, m) ==
    /\ ctl[c].phase = "dispatch" /\ m \in ctl[c].msgs
    /\ queue' = queue \cup {m}
    /\ AfterDispatch(c, m)
    /\ UNCHANGED <<task, initial, worker, provider>>

\* Publishing fails and is reported, or the API process dies.
RestartDispatchFails(c, m) ==
    /\ ctl[c].phase = "dispatch" /\ m \in ctl[c].msgs
    /\ AfterDispatch(c, m)
    /\ UNCHANGED <<task, initial, worker, queue, provider>>

\* One UPDATE whose conditions are rechecked on the rows it locks.
Cancel(scope) ==
    LET rows == {t \in Task : t[1] \in scope /\ task[t].status # "complete"}
    IN  /\ task' = [t \in Task |->
                      IF t \in rows
                      THEN [task[t] EXCEPT !.failed = TRUE, !.claim = None, !.live = FALSE]
                      ELSE task[t]]
        /\ Outdate(rows)
        /\ UNCHANGED <<initial, worker, queue, provider>>

Scope == {Batch} \cup {{b} : b \in Batch}

-----------------------------------------------------------------------------
\* What runs by itself once work is queued.
Callback(w) ==
    \/ Prepare(w) \/ RenewForSubmit(w) \/ Submit(w) \/ Poll(w)
    \/ Finalize(w) \/ Combine(w)

WorkerStep(w) ==
    \/ Callback(w) \/ CallbackRefuses(w)
    \/ FinishClaim(w) \/ FailClaim(w)
    \/ DispatchStep(w) \/ Exitpoint(w) \/ Entrypoint(w)

Deliver   == \E w \in Worker : \E m \in queue : Claim(w, m, queue \ {m})
Redeliver == \E w \in Worker : \E m \in queue : Claim(w, m, queue)

ControlStep(c) == RestartApply(c) \/ \E m \in ctl[c].msgs : RestartDispatch(c, m)

\* A claim whose holder no longer works on the row.
Abandoned(t) == task[t].claim # None => worker[task[t].claim].task # t

Progress ==
    \/ Deliver
    \/ \E w \in Worker : WorkerStep(w)
    \/ \E c \in Client : ControlStep(c)
    \/ \E t \in Task : PollDue(t) \/ (Abandoned(t) /\ LeaseExpires(t))
    \/ \E j \in JobId : ProviderEnds(j, "done")

\* What goes wrong: crashes, lost or repeated messages, slow processes, failing services.
Fault ==
    \/ \E w \in Worker : Crash(w) \/ CallbackFails(w) \/ SubmitUnanswered(w)
    \/ Redeliver
    \/ \E m \in queue : LoseMessage(m)
    \/ \E t \in Task : ~Abandoned(t) /\ LeaseExpires(t)
    \/ \E j \in JobId : ProviderEnds(j, "failed")
    \/ \E c \in Client : \E m \in ctl[c].msgs : RestartDispatchFails(c, m)

User ==
    \/ \E c \in Client, op \in Operation, scope \in Scope : RestartSnapshot(c, op, scope)
    \/ \E scope \in Scope : Cancel(scope)

Next == Progress \/ Fault \/ User

Spec == Init /\ [][Next]_vars

\* Workers finish what they claimed, the broker delivers, a request finishes,
\* time passes and the provider completes its jobs. Nothing is assumed of the
\* user, and no fault has to happen.
Fairness ==
    /\ WF_vars(Deliver)
    /\ \A w \in Worker : WF_vars(WorkerStep(w))
    /\ \A c \in Client : WF_vars(ControlStep(c))
    /\ \A t \in Task : WF_vars(PollDue(t)) /\ WF_vars(Abandoned(t) /\ LeaseExpires(t))
    /\ \A j \in JobId : WF_vars(ProviderEnds(j, "done"))

-----------------------------------------------------------------------------
(***************************************************************************)
(* Properties.                                                             *)
(***************************************************************************)
\* Messages whose step is registered for the action of their task.
Routed == {m \in Message : m.step \in StepsOf(Action(m.task))}

\* Every variable holds values of its declared shape, and whoever dispatches work
\* (registry.py next_step, entrypoint and the restarts) names a step that the
\* action of the task has.
TypeOK ==
    /\ task \in [Task -> Row]
    /\ initial \in [Batch -> BOOLEAN]
    /\ worker \in [Worker -> WorkerState]
    /\ \A w \in Worker : worker[w].pc = "idle" \/ worker[w].task \in Task
    /\ \A w \in Worker : worker[w].pc \in {"idle", "advanced"}
                         \/ worker[w].step \in StepsOf(Action(worker[w].task))
    /\ queue \subseteq Routed
    /\ provider \in [JobId -> ProviderJob]
    /\ ctl \in [Client -> Control]
    /\ \A c \in Client : ctl[c].msgs \subseteq Routed

\* A row's lifecycle state says which artifacts it holds: nothing before it is
\* prepared, the request file from then on, one provider job from PROCESSING on,
\* that job's results from PROCESSED on, and an output exactly when COMPLETE.
\* The steps (tasks/claims.py finish_claim) and the restarts (service.py
\* _restart_statement) must agree on it: it is what makes every step find its
\* inputs and keeps retry from ever walking back.
ArtifactsMatchStatus ==
    \A t \in Task :
        LET row == task[t]
            has == {"processing", "processed", "finalizing", "complete"}
        IN  /\ row.output # None <=> row.status = "complete"
            /\ IF Action(t) = "combine_chapter"
               THEN /\ row.input = None /\ row.job = None /\ row.result = None
                    /\ row.status \in {"waiting", "ready", "finalizing", "complete"}
               ELSE /\ row.input # None <=> row.status \in has \cup {"prepared", "submitting"}
                    /\ row.job # None <=> row.status \in has
                    /\ row.result = IF row.status \in has \ {"processing"} THEN row.job ELSE None

\* A stage leaves WAITING only after the preceding stage of the same batch has
\* completed with an output, whichever of exitpoint, resume and retry moved it.
StageOrder ==
    \A t \in Task : (t[2] > 0 /\ task[t].status # "waiting") => PreviousOutput(t)

\* What a completed stage publishes was computed from what it should read: its
\* output holds the results of a job that succeeded and was submitted for this very
\* task with the preceding stage's output (or the pinned source) as input; a
\* combined artifact stems from the preceding output.
Provenance ==
    \A t \in Task : task[t].status = "complete" =>
        IF Action(t) = "combine_chapter"
        THEN task[t].output = StageInput(t)
        ELSE /\ task[t].output = task[t].job
             /\ provider[task[t].job] = [state |-> "done", task |-> t, input |-> StageInput(t)]

\* A deadline exists only while the task waits for its provider: a stale one
\* would make claim_task refuse the messages of every later step.
GateOnlyWhilePolling ==
    \A t \in Task : task[t].gate # "none" => task[t].status = "processing"

\* A first pruning stage has saved its candidates before it is past PREPARING,
\* although they live in another row: finalize selects from them.
CandidatesSaved ==
    \A t \in Task :
        (KeepsInitial(t) /\ task[t].status \notin {"waiting", "ready", "preparing"})
            => initial[t[1]]

\* A completed row never changes again: no late worker, cancel or retry reopens
\* what the next stage may already have read.
CompletedIsFinal ==
    [][\A t \in Task : task[t].status = "complete" => task'[t] = task[t]]_vars

\* A cancelled or failed row stays as it is until a retry takes it: neither an
\* in-flight worker nor a stage handoff can continue it.
FailedIsFrozen ==
    [][\A t \in Task : task[t].failed =>
         IF task'[t].failed
         THEN task'[t] = [task[t] EXCEPT !.gate = task'[t].gate]
         ELSE \E c \in Client : ctl[c].phase = "snapshot" /\ ctl[c].op = "retry"]_vars

\* While a lease is live nobody but its holder takes the row away, by committing
\* or failing it, except a cancellation, which leaves the row failed: a start,
\* resume or retry decided on an older snapshot never revokes a worker's claim.
LeaseProtectsHolder ==
    [][\A t \in Task :
         (Live(t) /\ task'[t].claim # task[t].claim) =>
            \/ task'[t].failed
            \/ LET w == task[t].claim
               IN  worker[w].task = t /\ worker[w].pc = "returned"
                   /\ worker'[w].pc = "committed"]_vars

\* A provider job that was recorded is neither replaced nor forgotten, so paid
\* inference is never repeated once PROCESSING is committed.
ProviderJobKept ==
    [][\A t \in Task : task[t].job # None => task'[t].job = task[t].job]_vars

\* Paid work is fenced, although nothing stops a lease from lapsing between
\* submit's renewal (actions/translate.py:252, prune_memories.py:260) and the
\* provider's job:
\*  - a worker goes on to the provider only with a lease it has just renewed, for a
\*    row SUBMITTING without a job, and with that row's request file;
\*  - it creates one job there at most, for that task and of that file;
\*  - a worker that lost its row meanwhile does not get it back before it lets go;
\*  - a row records a job only from the worker that owns it and has returned.
\* So a job created for a row no longer owned is never recorded.
RenewsItsOwn(w) ==
    (worker[w].pc # "renewed" /\ worker'[w].pc = "renewed") =>
        LET row == task[worker[w].task]
        IN  /\ Owned(w) /\ row.status = "submitting" /\ row.job = None
            /\ worker'[w].value = row.input /\ row.input # None

CreatesOnce(j) ==
    (provider[j].state = "unused" /\ provider'[j].state # "unused") =>
        \E w \in Worker :
            /\ worker[w].pc = "renewed" /\ worker'[w].pc \in {"returned", "raised"}
            /\ provider'[j].task = worker[w].task /\ provider'[j].input = worker[w].value
            /\ \A i \in JobId \ {j} : provider'[i] = provider[i]

StaysLost(w) ==
    (worker[w].pc \in {"renewed", "returned"} /\ worker'[w].pc \in {"renewed", "returned"}) =>
        (Owned(w)' => Owned(w))

RecordsItsOwn(t) ==
    task'[t].job # task[t].job =>
        \E w \in Worker : /\ worker[w].pc = "returned" /\ worker[w].task = t /\ Owned(w)
                          /\ task'[t].job = worker[w].value

SubmissionIsFenced ==
    [][/\ \A w \in Worker : RenewsItsOwn(w) /\ StaysLost(w)
       /\ \A j \in JobId : CreatesOnce(j)
       /\ \A t \in Task : RecordsItsOwn(t)]_vars

AllComplete == \A t \in Task : task[t].status = "complete"

\* A job that was started runs to the end on its own while nothing goes wrong:
\* no step waits for a message nobody sends, and the poll chain survives messages
\* that arrive up to the slack before their deadline.  Whatever finitely many
\* faults did, a user who keeps asking gets it done: nothing is left in a state
\* the restart controls do not pick up.
Recovers == <>AllComplete

=============================================================================
