# NovelTL: TLA+ verification project

NovelTL is a web application for translating and annotating novels. A FastAPI
backend over PostgreSQL serves a React editor; long work (batch translation,
memory agents, autolabel inference) runs in Celery workers, and large artifacts
live in an object store. This directory models the parts whose correctness
depends on the order in which several processes act, checks the models with TLC
and proves the central invariants with TLAPS.

## 1. Inventory

| Component | State | Operations | Interaction | What makes it hard | What makes it correct |
|---|---|---|---|---|---|
| Translation pipeline (`backend/src/translations`) | `translation_tasks` rows: status, failure, poll deadline, claim, artifacts; `translation_batches.initial_file_id` | step tasks `prepare`, `submit`, `poll`, `finalize`, `combine`; `exitpoint`; start, resume, retry, cancel | Celery messages, provider HTTP API, SQL `UPDATE`s with guards | leases, crashes between commit and publish, late or repeated messages, restarts decided on snapshots | artifacts fit the status and come from the right inputs; stages in order; a row records only the job its holder submitted; a job can always be brought to its end |
| Memory agent jobs (`backend/src/memory/agent`) | `memory_jobs` claim, `memory_chapter_tasks` status | claim, refresh, release, abort a job; claim, release, reset, delete a task; start and retry with enqueue | Celery messages or direct runs from the CLI | a lease per job but a status per task, compensation after a failed enqueue | stages are barriers; results committed once; completed tasks stay; a job can be brought to its end |
| Request cache (`backend/src/requests`) | Redis entry per request key: pending, success, failure, with TTL | reserve a key, run, store the result, refuse a key in use, report an entry | the frontend's calls and status queries | duplicated calls, failures between commit and store, expiry while pending | the function runs once for a key |
| Frontend request manager (`frontend/src/edit/controller`) | request queue, requests to retry, status queries, retries left, id table with statuses and lock counts | enqueue, send pass, settle, retry, poll, fatal error | data managers, id repository, backend | partial success of a pass, polls beside resends, ids that are not bound yet | reservations counted right; conflicting requests in order; every request reported exactly once |
| Filter jobs (`backend/src/filters`) | status and owner of workflows and groupings, their instances and assigned groups | request, queue, publish, claim, run in committed batches, clear, abort; edit an instance | Celery messages, users' edits | no lease: what protects a job is its rows' status; batches committed one by one; requests decided on schemas read earlier | jobs exclude each other on neighbouring rows; what is shown as complete is exact |
| Novels and chapter versions (`backend/src/novels`) | novels, chapters, the versions of a chapter's text | create, rename, publish, delete; a text operation makes a new version and copies its labels | the editor, label and memory rows that hang on a version | two requests on one version; labels read before the version is inserted | the versions are those of one document; labels fit their text |
| Labels (`backend/src/labels`) | label groups, label data per group and version, labels | add, update, delete labels; promote the results of a run | the editor, autolabel runs | read-then-write under READ COMMITTED | labels of a group do not overlap and quote their text; concurrent updates merge |
| Autolabels (`backend/src/autolabels`) | runs, their rows and results per version | create a run, publish, infer, poll, promote | Celery, label data | results of an outdated version; a message that fails or is lost | a run ends; results fit the version they were found in |
| Chapter editor (`frontend/src/edit/controller`, `managers`) | the open chapter's text, labels, id table; queued operations and requests | type, label, load, reload, close, open, promote | the request manager, the backend | an answer meets a text that has moved on; ids that every text request replaces; holes in the queue | what is shown and what is stored agree; answers fit; loads end |
| Autolabel panel (`managers/autolabelManager.ts`, `autolabelDataManager.ts`) | index of runs, selection, preview, spinners | create, select, reload, refresh, preview | the same queue and ids as the editor | events handled in turn while answers come late | labels are previewed over the text they were found in; spinners end |
| Segment manager (`frontend/src/edit/lib/text-model`) | segments that tile the text, labels at offsets in them | insert, delete, add, remove, update | the editor manager | offsets kept twice, splits and merges of segments | text and labels are those of one flat document |
| Files, datasets, languages, authentication, views, agent evaluations | single rows or none | queries, CRUD | SQL, HTTP | mostly one transaction each | |

`PROJECT.json` lists every component with its status, and every hazard with the
line where it bites and the properties that cover it.

## 2. Plan and modules

| Modules | Component | State of the work |
|---|---|---|
| `TranslationJobs`, `TranslationJobsProofs` | translation pipeline | checked; invariants and action properties proved |
| `MemoryJobs`, `MemoryJobsProofs` | memory agent jobs | checked; safety proved |
| `IdRepository`, `RequestCache`, `RequestManager`, `RequestManagerProofs` | send loop, deduplication, ids | checked; safety proved |
| `FilterJobs`, `FilterJobsProofs` | filter jobs and rows | checked; safety proved |
| `TextOps` | text operations and what they do to labels, used by the three modules below | lemmas proved in `ChapterVersionsProofs` |
| `Document`, `ChapterVersions`, `ChapterVersionsProofs` | versions of a chapter, labels, autolabel runs, against an abstract document | checked; the refinement, the fit of labels and the merging of updates proved |
| `ServerIds`, `ChapterEditor` | the editor of one chapter against the backend, with promotions | checked |
| `AutolabelPanel` | the panel beside the editor | checked |
| `FlatLabels`, `SegmentManager`, `EditorLabels`, `SegmentManagerProofs` | the editor's text model against a flat document, and under the data manager's edits | checked; `Tiles` and the refinement proved |
| `GlossaryTools`, `GlossaryAliases`, `MemoryStore`, `MemoryStoreProofs` | the memory group that agents and users write | checked; its four properties proved |
| `LibraryAccess`, `LibraryReads`, `Library`, `Shelf`, `LibraryProofs` | novels, chapters and label groups, against requests answered in one step | checked; `WholeRows`, `ReadsAgree`, `OwnWritesRead` and `ImplementsShelf` proved |
Each `MC` module bounds what the environment may do for TLC and gives the constants
that a `.cfg` cannot write down. Left for later: batch planning and record validation of the translation worker
as pure operators; the filter function language.

What TLC checks and no theorem states:

| Properties | Why |
|---|---|
| `Recovers`, `PatienceCompletes`, `EndsUnlessStranded`, `WaitsEnd`, `Settles`, `SpinnersEnd`, `RunsEnd`, `CallsEnd` | liveness, out of the prover's reach |
| `LabelsShown` | violated by the code |
| `Converged`, `AnswersFit`, `BlockedByNewGroup`, `PreviewFitsText` | a flush, a pass of the send loop and its answers are folds over sequences of requests; each would need a recursion and an invariant of its own, as the loops of `SegmentManager` have |

## 3. TranslationJobs

### Correspondence with the code

| Specification | Code |
|---|---|
| `task[<<b, s>>]`, a `Row` | a row of `translation_tasks` for batch `b` and stage `s` (`models.py`) |
| `initial[b]` | `translation_batches.initial_file_id` is set |
| `worker[w]` | what a Celery process does with its current message (`celery_task` in `actions/celery_actions.py`) |
| `queue` | messages in the broker; `timed` ones carry a countdown to `next_poll_at` |
| `provider[j]` | a batch job at the inference provider |
| `ctl[c]` | a start, resume or retry request: the snapshot of its `UPDATE`, then the messages it still has to publish |
| `Claim` | `claim_task`, the worker's first transaction |
| `Prepare`, `RenewForSubmit`, `Submit`, `Poll`, `Finalize`, `Combine` | the callbacks of `actions/*.py`; `submit` renews its lease in a transaction of its own and then calls the provider; `CallbackRefuses` is a callback that finds an artifact missing, its provider batch failed or its lease lost |
| `FinishClaim`, `FailClaim` | `finish_claim` (with `publish_initial_file`) in the callback's transaction, `fail_claim` in one of its own |
| `DispatchStep`, `Exitpoint`, `Entrypoint` | what follows the commit: the next message, or readying the next stage and publishing its first message |
| `RestartSnapshot`, `RestartApply`, `RestartDispatch` | `_restart_statement` and the loop after its commit |
| `Cancel` | `_cancel_statement` |

`Expect`, `During` and `Finish` are the registrations of the steps. All four
actions share them: three run `prepare`, `submit`, `poll`, `finalize` and
`combine_chapter` runs `combine`.

### Abstractions

* **Time.** A lease is live or not, and `next_poll_at` is absent, more than
  `POLL_GATE_SLACK` ahead, within it, or past: these are all the guards ask.
  `LeaseExpires` and `PollDue` let time pass.
* **Tokens.** A process runs one message at a time (prefork pool), and its token
  is fresh for each claim; the row stores the process. A process that lost its
  claim cannot own the same row again before it ends its invocation, so the
  process identifies the token.
* **Artifacts** are identified by what they were computed from: the pinned
  source chapters or the provider job whose results they hold. That is what
  `Provenance` needs; record contents and prompts are left out.
* **Callbacks** write nothing before `finish_claim` flushes, so one action reads
  the row, renews the lease and makes the external call, and a second commits.
  A crash, an expiry or a control may come between them. In `submit` the renewal
  (`translate.py:252`) and the provider's job (`translate.py:253`) are two actions,
  since only that call has an effect that outlives a lost lease: the lease may lapse,
  or the row be failed, between them, and the provider then gets a job for a row whose
  worker no longer owns it. A renewal while the
  file is sent changes nothing here while it succeeds, and is a `CallbackFails` when not.
* **Pipelines** are those that a job can be created with (`PipelineAssumption`, from
  `types.py:31-48` and `schemas.py:240-248`): a stage reads only what its predecessor
  writes. Stages do not change afterwards, so the checks of `output_types` that some
  callbacks repeat always pass, and `CanRun` leaves them out.
* **Restarts.** The `UPDATE` evaluates its candidates on a snapshot and rechecks
  status, token, expiry, failure and deadline on each row it locks. Tokens and
  timestamps are fresh at every write, so "unchanged since the snapshot" is
  "not written since": `Outdate` drops a written row from every snapshot.
* **Handoff.** `exitpoint` reads the completed row and updates the next one in
  one transaction; completed rows never change (`CompletedIsFinal`), so it is
  one action.
* **Broker.** Messages are acknowledged when delivered (Celery's default), so a
  crash loses the message in hand; `Redeliver` and `LoseMessage` add duplicates
  and losses. Equal queued messages are one element of a set, which `Redeliver`
  makes up for.
* A batch that fails at the provider stays failed.

### Runs

| Run | Instance | Shows |
|---|---|---|
| `translation_pipeline` | 1 batch, prune, combine, translate; 2 workers, 2 clients, 2 provider jobs, 1 fault, 3 controls | the invariants, and the action properties under restarts racing each other, workers and cancels |
| `translation_recovery` | prune then combine, 2 workers, one start, 1 fault; after it a user who keeps pressing Resume or, in other behaviours (which may also meet failing callbacks, unanswered submissions and cancels), Retry | `Recovers` |

Rows of different batches are never updated together except by job-wide controls,
whose statements treat batches independently, so one batch suffices for the
invariants; two stages include a handoff between two kinds of action and a
first-stage candidate file; two workers allow a take-over; a second provider job
allows a repeated submission, whether the first answer was lost or the lease lapsed. One fault anywhere, with three controls to
answer it and to race it, already needs every conjunct of the invariants. The proofs below hold for all values of these constants.

The runs state `CHECK_DEADLOCK FALSE`: a finished or abandoned job is where the
system really stops.

### Fairness

`Fairness` assumes that a worker that claimed a message carries on, that the
broker delivers, that a control request finishes, that time passes (deadlines
come, leases nobody works under expire) and that the provider completes its jobs.
It assumes nothing of users or faults, and not that a slow worker's lease
expires. `RecoverySpec` adds that the job is started and that, after a fault, the
user's button is pressed again whenever nothing is queued, which is what the UI
offers. Before the first fault nobody presses anything, so `Recovers` also says
that a job runs to its end unattended. The provider does not fail a batch there:
such a batch is polled again by every retry and fails again
(`docs/translations/ui-layout.md` names the limitation).

### Proofs (`TranslationJobsProofs`)

The assumptions are those of the module: stages are numbered from 0, the first
stage is not `combine_chapter` (`service.create_translation_job` rejects it), the
stages fit each other, and `None` and `Pinned` are no identifiers.

`ArtifactsMatchStatus` and the rest are not inductive: that a worker writes a
fitting artifact depends on what it computed while it owned the row, and that a
restart keeps the order of stages depends on what its snapshot saw. `IInv` adds

* `RowsOK`: every row is well formed on its own (`RowOK`: shape, artifacts,
  no claim on completed or failed rows, deadlines only while polling);
* `PendingOK(w)`: what a worker is about to commit fits the row *as long as it
  still owns it*;
* `RenewedOK(w)`: a worker between its renewal and the provider holds the request file
  of its row, and the row has no job, *as long as it owns it*;
* `ControlOK(c)`: rows in a snapshot are unfinished, unfailed unless the control
  is a retry, and the current ones have their predecessor's output.

Every action is shown to be a `Step`: row by row a well-formed transition
(`RowStep`), monotone `initial`, workers whose pending values fit
(`WorkerStepOK`) and controls that only drop rows (`ControlStepOK`).
`StepPreserves` shows once that steps of this form keep `IInv`; the action
properties (`CompletedIsFinal`, `ProviderJobKept`, `FailedIsFrozen`,
`LeaseProtectsHolder`) are conjuncts of `RowStep`. `WalkBackStays` shows that the
branches of `_restart_state_sql` that replace a state whose artifact is missing
are never taken in a reachable state.

`Provenance` speaks of two tables, the rows and the provider's records, and needs a
second layer, `OInv`. `OriginOK` says of *every* row what `Provenance` says of completed
ones: its input is what the stage reads (`StageInput`), its job was submitted for this
task with that input, a result is of a job that succeeded. `ValueOrigin` says the same
of what a worker is about to commit *as long as it owns the row*; of a worker that
lost its lease nothing is known, and nothing needs to be. Four facts carry both
through a step: what a stage reads does not change once it has left `waiting`
(`InputKept`, from `StageOrder` and `CompletedIsFinal`); a provider job keeps its task
and its input, and stays done (`JobsKept`); only the commit of the holder writes
artifacts, all other steps keep or drop them (`ArtifactChanges`); a worker's value
changes only when it starts, when the call returns or when it is done
(`WorkerChanges`).

`SubmissionsFenced` says what the fence around a paid submission is worth. It cannot be
that the provider is called only under a live lease, since the call follows the renewal's
commit. What holds is that a worker goes to the provider from a renewal of its own row in
SUBMITTING, without a job, and with that row's request file; that it creates one job there
at most; that a row lost in between is not regained; and that a row records a job only
from its owner. Together: a job that was created for a row no longer owned is paid for,
and never recorded. `SubmissionIsFenced` is proved and in no run.

Model-checked only: the liveness properties, which are out of the prover's reach.

## 4. MemoryJobs

### Correspondence with the code

| Specification | Code |
|---|---|
| `status[t]`, `t = <<stage, chapter>>` | `memory_chapter_tasks.task_status`; `"deleted"` is a row that is gone |
| `claim`, `live` | `memory_jobs.claim_token` (whose it is) and whether `claim_expires_at` is ahead |
| `written[t]` | how many committed transactions hold results of the task's agent |
| `worker[w]` | where a thread is in `run_tasks` and `arun_tasks` (`tasks/tasks.py`) |
| `queue` | messages: a task for `run_memory_task`, `None` for `run_memory_job` |
| `retrying` | retry requests between `reset_failed_task` and the end of `enqueue_task` |
| `ClaimJob`, `Refresh`, `ReleaseJob`, `AbortJob` | `claim_job`, `refresh_job`, `release_job`, `abort_job` (`tasks/jobs.py`) |
| `SelectTask`, `TakeTask` | `claim_next_task`, and `claim_task` when the message names a task |
| `FinishTask`, `CommitTask` | `release_task(COMPLETED)` at the end of the task's transaction |
| `FailTask`, `MarkFailed` | `release_task(FAILED)` in a session of its own |
| `StartJob`, `StartTask`, `RetryTask`, `RetryEnqueue`, `RetryEnqueueFails`, `DeleteTask`, `DeleteJob` | `service.py` |

`RangeWide` names the stages of kind `summarize_conventions`, which have one task,
on the last chapter of the range.

### Abstractions

* **Statements.** The claim is a row of `memory_jobs`, the status a row of
  `memory_chapter_tasks`. Under READ COMMITTED an `UPDATE` of a task evaluates its
  `EXISTS` on the claim, and the choice of the next task, in the statement's
  snapshot; when it reaches the task's row it rechecks only that row. Claiming and
  releasing a task are therefore two actions, the snapshot and the write.
  `claim_job` and `abort_job` lock the job's row first and are one action.
* **Time.** `now()` is when a transaction began. The transaction of a task begins
  before its agent runs, so completing it asks whether the lease was live *then*
  (`begun`), while recording a failure, in a new transaction, asks whether it is
  live now.
* **Tokens.** A run draws one token and a thread runs one message at a time, so
  the thread identifies the token.
* **Results.** The agent writes in the task's transaction only; what it writes is
  counted, not described. `attempt_count` is left out: nothing reads it.
* **Crashes** take threads one by one; the death of a process is several of them.
* One job: no statement touches two.

### Runs

| Run | Instance | Shows |
|---|---|---|
| `memory_jobs` | chapters 1..3, a stage per chapter, then a range-wide one, then a stage per chapter; 2 threads, 2 faults; either 2 requests of any user at any time, or a patient user with up to 2 starts (the variable `patient`) | `StageBarrier`, `WrittenOnce`; with the patient user `PatienceCompletes` |

Two threads allow a take-over and two messages at once; two faults allow, for
example, a lease that expires under a running agent followed by a repeated
message; the middle stage has one task, so that barriers lie on both sides of it.

### Fairness

Threads carry on, the broker delivers, retry requests finish, and a lease nobody
works under runs out. The code renews a lease only between tasks, so an agent that
outlives it is a fault here, not an impossibility. The patient user starts the job
and, after a fault, whenever nothing is queued, retries what failed, starts a job
nobody runs and aborts one that is processing without a claim. Before the first
fault nobody helps: `PatienceCompletes` (that is, `Recovers` for this user)
includes the unattended run.

### Known divergences

* A run that cannot record the failure of its task (its lease has expired, or the
  database call fails and is only logged, `tasks/tasks.py:251`) still releases the
  job, because `release_job` asks only for the token. A test
  (`tests/memory/test_memory_jobs.py:184`) calls the resulting state, an unclaimed
  job with a processing task, invalid. `claim_job` does not adopt it, so
  `start_job` accepts the request and the message is dropped. The way out is to
  retry or start while another task is pending, or to abort the job; a run that
  forbade the state was violated, and `PatienceCompletes` shows the way out.
* The documentation (`.agents/docs/memory-jobs.md:74`) says that a replaced worker
  cannot finalize work. It can, if it is replaced between the snapshot of its last
  `UPDATE` and the row lock, and the successor has taken the task again
  (`tasks/jobs.py:363`). `WrittenOnce` shows that this does no harm to the
  results: exactly one of the two is committed.

### Proofs (`MemoryJobsProofs`)

From the assumptions of the module (chapters and stages are numbers, `None` is no
task and no thread). `StageBarrier` is not inductive: a thread picks a task on a
snapshot and takes it later. `IInv` adds `PickedBarrier`, that the lower stages of
a picked task are finished. Each action is shown to be a `Step`: every row makes
one of five moves (`RowStep`), and a thread comes to hold a picked task only if it
saw the lower stages finished. What is finished stays finished (`DoneStays`), so
`BarrierStep`, `WrittenStep` and `PickedStep` follow once for all actions, and
`CompletedIsFinal` from `RowStep` alone.

Model-checked only: the liveness properties.

## 5. RequestManager, RequestCache, IdRepository

### Correspondence with the code

`IdRepository` holds the operators on one entry of the id repository
(`idRepository.ts`, `idTypes.ts`); `RequestCache` the steps of a call through
`attl_cache` and Redis (`backend/src/requests`); `RequestManager` instantiates
both and adds the send loop of `requestmanager.ts`.

| Specification | Code |
|---|---|
| `1..N`, `enqueued`, `started` | the requests of a session in the order of `enqueueRequest`; `requestQueue` is `started + 1..enqueued` |
| `retry`, `polls` | `retryRequests`, `statusQueries` |
| `left[r]`, `KeyOf(r)` | `request.retries`; `request.requestKey`, which `regenerateKey` replaces |
| `flight[r]` | what the current pass knows of a request it has sent or polled |
| `repo[i]` | status, `lockCount` and whether `serverId` is set |
| `ended[r]` | the handlers that were called: `postSend` (success), `onFailure`, `onFatalError`; `"skipped"` is a `skip()` that answered true |
| `calls`, `cache`, `ran` | HTTP calls on their way, Redis entries, completed executions of the endpoint's function per key |
| `Exhaust` | the first part of `send()`: requests without retries left are removed and reported, and the pass fails |
| `StartPass` | the walk over the queue with `reserveAction`, then the calls and status queries of the pass |
| `Serve`, `ServerRefuses`, `StoreFails`, `ServerDies`, `AnswerUncached`, `AnswerPoll`, `Timeout`, `ConnectionFails`, `CallLost`, `EntryExpires` | what happens while the pass waits for its results |
| `FinishPass` | the last part of `send()`: `postSend`, releases, requeueing, fatal errors |

### Abstractions

* `send()` is atomic between its start and its only wait: JavaScript runs it
  without interruption up to the calls, and again once all of them have a result.
  The debounce latch is left out: nothing waits for it.
* The order of `retryRequests` and `statusQueries` has no effect and is dropped.
  Copies of a call nobody waits for, equal in key and stage, are one.
* A status query comes due after a delay; `StartPass` polls any subset of those
  waiting. Only the queue's first request that is not reservable ends the walk.
* `skip()` depends on the data managers' state: any answer, for the requests in
  `Skippable`. What a request reserves (`Needs`) and whether it is `cached` follow
  the data managers; they enqueue nothing for an id after its removal
  (`RemovesLast`), so the `NotFound` paths are left out, as is `waitFlush`, which
  the application never calls.
* An endpoint without the cache has no state here.
* `EntryExpires`: the TTL is 60 seconds, retries and timeouts take 10 at most. An
  entry therefore outlives the calls with its key and the resend or poll that
  follows, except that a client may poll a pending entry for as long as it exists.

### Runs

| Run | Instance | Shows |
|---|---|---|
| `requests_lossy` | four requests (`SessionNeeds`), the first and the last of which may be refused, 3 timeouts, connection errors, server deaths or failing cache writes, calls lost after them, one resend | `ReservationsHeld`, `ReportedOnce`, `CompletesBefore`, `KeyRunsOnce`, `TakesEffectOnce`, `EndsUnlessStranded` |

`SessionNeeds` is a session of the editor: create a label data set while its
group is locked, reload, edit text, detach the data set. It has two readers of one
id, an exclusive use after a shared one, a use of an id that a request before it
creates, and an id that is given up. All properties speak of
a session up to its first fatal error (`NoFatal`): what a fatal error leaves behind
is described below.
`MaxFaults` bounds timeouts, connection errors and server failures together;
`MaxReports` bounds what happens after a request was reported too often. The runs
state `CHECK_DEADLOCK FALSE`: a session that has nothing left to send stops.

The code allows 3 retries (`requestTypes.ts`). A connection that breaks, or a server
that dies, after the key was reserved costs two of them: one for the error, one for
the 409 that the resend with the same key meets. One resend is therefore enough to
see a request used up, and three faults let it be used up while another is resent.
For what may happen to one key it is not; for the properties of keys the proofs below
leave the number of retries open.

What has failed is in the variable `broken` of `MCRequestManager`. `TakesEffectOnce`
speaks of behaviours in which nothing has: a timeout of a call that has reached the
server is no failure, but after a broken connection a resend with the same key is
answered with 409, the key is regenerated and the request runs again. `KeyRunsOnce`
allows for every failure of the network. It does not hold once a server died, or stored
neither the result nor the failure, after the function committed: the entry stays
pending until its TTL ends, the client that polls it is then answered that there is no
entry, and runs the request again. Nothing in the repository promises otherwise in either
case.

### Fairness

The send loop is `Effect.forever`: enqueueing, `Exhaust`, passes and `Settle` are
weakly fair. Each waiting status query becomes due over and over, so a pass that
polls it is strongly fair. Calls and status queries are answered unless a fault
interferes, and entries expire. Retries are finite, but a pending answer costs
none: that a poll ends rests on the server's answer or on the entry's expiry.

### Known divergences

* A fatal error ends `send()` before `retryRequests` is emptied
  (`requestmanager.ts:435`). A request that was resent in that pass and settled is
  still there, so it would be sent, released and reported again. `ReportedOnce`
  speaks of sessions without a fatal error.
* A creation that runs out of retries leaves its id pending and unbound. Requests
  that need the id wait at the head of the queue for ever, with everything behind
  them, and are never reported, though the comment at `requestTypes.ts:185`
  promises a report; `EndsUnlessStranded` makes this one exception.

### Proofs (`RequestManagerProofs`)

For any number of requests, ids and retries and any `Needs` that the data managers may
produce (`RemovesLast`), and without a bound on faults: the bounds of the MC module are
guards the proofs do not use. The argument has three layers.

* `SInv`, for `Spec`. `QueuesOK` says where a request can be: in the queue with all its
  retries and its first key, in `retryRequests`, or in `statusQueries`; a pass sends
  everything that is to be retried, so the queues may be overwritten when it settles.
  `CallsOK` says that a call has a key its request has or had, and that a request waits for
  one call at most. Until an error is fatal, `Held` gives each entry from the requests
  that hold it, and `Reported` says that a started request is outstanding or was
  reported once. `ReservationsHeld`, `ReportedOnce` and `CompletesBefore` follow.
  That `Held` is kept rests on four lemmas about whole repositories: `ReserveHolds`,
  `WalkHolds` (the walk over the queue, by well-founded induction on its length),
  `BindHolds` and `FreedHolds` (`n` releases in one step).
* `KeysOK`, for `SessionSpec`: while no server dies or loses a result, `KeyOK` relates a
  Redis entry to the calls that work under its key and to how often the function ran.
  The part that carries `KeyRunsOnce` is about an entry that is gone after its function
  ran: no call with this key is on its way, and the request has another key or has been
  reported, so none will be. It needs `Growth`: keys are only replaced by newer
  ones, and reports are not taken back.
* `EffectOK`: while nothing breaks, `OneCall` says that a cached request is never resent,
  because its call is answered or times out after it reserved its key, and its entry is
  there for as long as it is polled.

The assumption on `NoFatal` is carried backwards: reports only accumulate
(`NoFatalBefore`), so a step that ends in a session without fatal errors began in one.

Model-checked only: `EndsUnlessStranded`, which is liveness.

## 6. FilterJobs

### Correspondence with the code

| Specification | Code |
|---|---|
| `wf[w]`, `gr[<<w, f>>]` | rows of workflows and groupings: `status`, the last `fjob_id`, a workflow's schema (`models.py`) |
| `row[w][i]`, `assigned[g]` | instances, by the item they stem from; `group_assignments` |
| `job[j]` | what a job was queued to do; the parameters of its message |
| `ctl[c]` | a run endpoint: schema read, rows queued, message published or not (`service.py`) |
| `worker[k]` | an invocation of a runner (`runners/python`), with the last item it handled |
| `AskLabelSource` ... `AskGroup`, `Refused`, `Reserve` | the run endpoints up to the commit that inserts rows and queues them (`queue_fjob`) |
| `Publish`, `PublishFails`, `Abort` | `dispatch_fjob` after the commit: publish, or abort the job |
| `Claim`, `Raise`, `Complete` | `claim_fjob`, `abort_fjob`, `clear_fjob`; `Whole` and `Move` are the rule they share: all rows the job still owns or none |
| `Inspect`, `DeriveBatch`, `GroupBatch` | the committed batches of map, filter, label source, annotation and group runners |
| `EditInstance` | `update_instance` |

Each action is one committed transaction or one call to the broker. Values are left
out: an instance is the item it stems from, its annotated fields and how often it
was edited; a function is what it accepts (`Passing`). The rows that a transaction
locks are locked in one order (`lifecycle.py:65`), so it is atomic.

### Run

`filter_jobs`: a filled workflow and one more, one function, one field, two items in
batches of one, two jobs, two API requests, two workers, an edit of each instance
and one fault. Two jobs on two workflows contend for a source, an output and a
grouping; batches of one let an edit, an annotation or a death come between two
batches. `Settles` says that a job comes to rest unless its message or its process
was lost: the code has no lease and no sweeper for those (`service.py:689`).
Fairness: a request that has begun is carried through, delivered messages run.

### Proofs (`FilterJobsProofs`)

For any workflows, functions, requests, workers, items and batch size. Assumed is what
the module assumes: `None` is no identifier and no request, a batch has at least one
instance, the items a function accepts are items. The invariant has four layers, each
inductive by those before it:

* the types: a job, once queued, is a request the service accepted;
* `Owning`: a row names the job that queued it last, a job owns all its rows until all
  are complete (`KeptWhole`), a workflow is the output of one job and is given away when
  another reads it (`OneProducer`). With this `Move`, which moves all rows of a job or
  none, keeps `UniformJob` and `NeighbourhoodExclusive`;
* `Running`: a runner's job still owns all its rows and is processing or failed, so no
  second message can claim it; `OneRunner` follows;
* `Exact`: a runner has written to its output exactly what it has read (`Written`), and
  an output that is complete, or given away, is exact and stays so, since only a runner
  that holds it writes it. `BatchSegment` is the lemma that a batch has all items up to
  its last; that equal counts mean equal sets makes the counts of `Done` sufficient.

`StepKinds` reduces the actions to eight kinds of steps, most of which leave the rows
alone or fail a whole job; each layer has a lemma for each kind. `OneRunner` and
`InstancesMatchSchema` are proved and in no run; `Settles` is a liveness property and
only checked.

## 7. TextOps, Document, ChapterVersions

### Correspondence with the code

| Specification | Code |
|---|---|
| `ApplyTextOp`, `Edited`, `Overlaps` | `novels/utils.py`; the exclusion constraint on labels (`labels/models.py`) |
| `revs` | `chapter_contents` with the label data and labels of each version |
| `tx[w]` | what a request has read and not yet written |
| `EditBegin`, `EditRead`, `EditInsert`, `EditPort`, `EditCommit` | the statements of `modify_chapter_content`: check the version, read the labels, insert the next version (unique with its number), copy the labels, commit |
| `AddLabel`, `DeleteLabel`, `UpdateBegin`, `UpdateEnd` | `labels/utils.py`; an update reads the row, then writes it under its optimistic lock |
| `InsertLabelData`, `ReadBegin`, `ReadEnd` | label data made on demand (`labels/service.py`, `editing/service.py`) |
| `CreateRun`, `AssignJob`, `Enqueue`, `Report` | `insert_auto_labels` and its transactions |
| `Claim`, `SetupFails`, `Infer` | the worker's task (`autolabels/worker/tasks.py`) |
| `PromoteBegin`, `PromoteEnd` | `insert_label_datas_by_autolabels` |
| `Abort`, `RunDies` | a rollback; the loss of a request, message or worker |

PostgreSQL runs READ COMMITTED: a statement sees what is committed when it begins,
and an insert waits for an uncommitted one with the same unique key (`Inserting`,
`NobodyInserts`). A request that reads first and writes later is several actions;
one whose effect lies in one statement is one. A stream of label operations is
modelled one operation at a time, each a transaction of its own, while the code runs a
stream in one transaction that is committed or rolled back as a whole
(`labels/service.py:417-424`): more can come between its operations here than there, and
no property speaks of a stream as a whole. The longest word a label may have, empty text operations and scores are left out.

### Refinement

`Document` is what the versions promise to those who edit: one text, and a log of
accepted operations, each with the version its writer had seen, which is the one in
force. `ImplementsDocument` is that specification with the latest version's text for
`text`; `log` records what the code accepts and the version the client named.

### Run

`chapter_versions`: two writers, a labelled group and one without label data, one
run, a text of two characters, an insertion and a deletion, four requests, one
fault. Two writers allow every pair of requests to interleave; four requests allow
two edits with label changes between and after them. `UpdatesMerge` compares a label
with what its editors were told (`asked`): of two partial updates the second must
not undo the first. Fairness: a run's steps are taken; writers owe nothing.

### Proofs (`ChapterVersionsProofs`)

The first lemmas are about `TextOps`: an operation leaves labels within the edited text,
over the same words and apart. `LabelsFit` and the refinement are proved for all values
of the constants. `LabelsFit` is not inductive: an edit
copies labels it read before it inserted its version, and a promotion writes what a
run found in a version it chose earlier. `IInv` adds that what a request holds
between two statements fits the version it will be written to, that label rows have
one number each, and that at most one request has an uncommitted version, which
follows the latest. One lemma per action; `Refinement` shows that `EditCommit` is
`Accept` and every other action a stutter.

`UpdatesMerge` needs to know *which* row a request read. `RowsOK` adds: a row is known
by its number, in its version and in every copy of it; a change of a label raises the
version of its row, so that whoever finds the version it read finds the bounds it read, and the bounds it
did not mean to change are still those it writes back; an edit moves a label's bounds
and those its editors expect alike; the labels that a promotion adds get distinct new
numbers (`Ranks`). The one assumption, `RowsAssumption`, is about the rows that the
database starts with: their numbers identify them and their bounds are those last asked
for. `RunsEnd`, which is liveness, is model-checked only.

## 8. ServerIds, ChapterEditor

### Correspondence with the code

| Specification | Code |
|---|---|
| `server` | the latest version with its label data, as the backend's answers give it |
| `ids` (`ServerIds`) | the id repository with the server's ids: `newIdAndBindId`, `bindServerId`, `replaceServerId`, and how requests reserve and release |
| `text`, `cc`, `slot`, `ops`, `orphans`, `reloads`, `gen` | `chapterDataManager.ts` |
| `open` | the chapter's slot in `novelDataManager.ts` |
| `held`, `queue`, `sent`, `passing` | the dispatcher's inactive requests (`dmHelpers.ts`) and the queue of the request manager |
| `InsertText`, `DeleteText`, `AddLabel`, `UpdateLabel`, `DeleteLabel`, `LoadGroup`, `Promote`, `CloseChapter`, `OpenChapter` | handlers of user events |
| `Tick` | the flush that the controller calls once a second |
| `StartPass`, `Serve`, `Settle`, `SettleLate`, `GiveUp` | the send loop, one pass at a time; `RequestManager` has its retries and keys |
| `PostText`, `PostLabel`, `PostRefresh`, `PostReload`, `PostOpen`, `PostPromote` | the `postSend` functions |

A label is its interval in a group; scores, words and entity groups are left out.
Two reservations are left out, that of the label groups by a refresh
(`chapterDataManager.ts:654-658`) and by the clean-up of labels that lost their ids
(lines 1539 and 1589): they keep changes of the group out, so more requests may be out at once here.
The user's operations since the last flush are modelled as the queue they form
(`ops`), batches as `splitLabelOpBatches` makes them. A text operation is answered
with a new version and new ids for all labels, which a refresh then fetches.

### Run

`chapter_editor`: a text of two characters, at most three, one labelled group and one
without label data, a run with one label to promote, three things the user does, one
request answered late or given up. Three operations reach a text operation between
two label operations, an operation during a reload and one during its repetition,
and a promotion beside either. The properties name their exceptions:

* `BlockedByNewGroup`: text typed, then within the same second a group shown that has
  no label data yet: the text request tracks label data without an id, waits for an
  id that only the load behind it would bind, and the queue stands still.
* `AnswersFit`: a text request that is answered together with the first load of a new
  group omits that group's copy; the next text operation ends in the fatal error
  "omitted a tracked label data ID". And promoted labels, below.
* `Converged` and `WaitsEnd` say nothing of a session in which a request was given
  up: the text of a text request that is given up stays ahead of the server's.

Fairness: the browser's event loop (`Fair` is weak fairness of `Progress` with
`ENABLED` written out); the user and the network's failures owe nothing.

### Known divergences

* `docs/autolabels.md:321` says that promoted labels appear in the active group.
  When a promotion has ended the manager only releases the workspace
  (`autolabelManager.ts:308`), and nothing loads the group again; the next text
  operation's refresh finds more labels than were loaded and ends in a fatal error.
  No property says so: `AnswersFit` makes an exception of these labels.
* `docs/autolabels.md:125` says that pending operations are flushed before a promotion:
  nothing is flushed, and label requests reserve no label group.
* Label changes that one user makes during another user's text edit are lost in the
  new version (`.agents/docs/editor-persistence.md:26`); those that are copied still
  fit the text.

## 9. AutolabelPanel

`panel` is what `autolabelManager.ts` and the hooks of the panel keep, `index` the
run index of `autolabelDataManager.ts`, `posted` the events that the controller
handles one after the other; requests, ids and passes are as in `ChapterEditor`. A
run has one autolabel, known by the version it was made for and whether it is done.
Which labels it holds does not matter here: a preview is the version it belongs to.

`autolabel_panel`: a chapter with one run, done or not, selected or not; three clicks
or keys (`User`), one request late or given up, and one pass whose failure makes the
client send a request again (`MaxAgain`; without a bound two of them may feed each
other for ever). Three clicks reach a run that is made, listed and selected, and a
selection that is reloaded while text is typed.

`PreviewFitsText` excepts text typed while an earlier text request is out or while
the selected run has just left the index: neither leaves a mark that lasts, and the
preview may come back over the new text until that request is answered.
`docs/autolabels.md:109` claims more: that text typed "marks the current content version
invalid until the queued text change produces a new `chapterContentId`" and that this
"prevents cached labels from being drawn over optimistically edited text". `SpinnersEnd`
excepts what was given up and a run in error, whose spinner is hidden. Met on the way
and left as they are in the code: a reload or selection answered in the same pass as,
or while, a text request is out may fail fatally; so may a preview that is answered
while its run is reloaded, or a creation answered after a refresh that lists its run,
behind which a queued reload waits for ever; a refresh answered late drops a run that
was created meanwhile; `docs/autolabels.md:122` says that a refresh keeps
promotions and reloads out, whose locks on the run are shared with its own.
Fairness: events, timers, passes and answers; the worker may never finish a run.

## 10. FlatLabels, SegmentManager, EditorLabels

`SegmentManager` follows `segmentManager.ts` operation by operation: `splitSegment`,
`mergeSegments`, `insertTextAt`, `deleteTextAt`, `addLabel`, `removeLabel`,
`updateLabel` on a row of segments and on `labelsById`, the second copy of each
label's offsets. A segment is named by its place, so `segmentIdsByLabelId` is the
place of the segment that lists the label. The editor builds the manager with gap 0;
the branches for longer gaps, the subscribers and the lock are left out.

`FlatLabels` is the interface's promise: a text and labels at absolute positions that
follow it. `ImplementsFlatLabels` is the refinement, with two cases in which the code
does less, spelled out in `HeldBack` and `MayThrow`:

* text typed exactly where a label starts is put into the label's segment, so that
  this label and those of the segment stay in place (`labels_shown` compares with the
  chapter's own labels, which move, and with `docs/editor/backend.md:87`);
* removing a label may throw half-way when another one ends inside it
  (`segmentManager.ts:592`: the first split moves the segment the next one is to
  split; the comment at lines 39-45 is untrue for a label that reaches over a later
  one). The label has gone by then, an update loses it, and subscribers are not told.
  The interface says that only a missing id makes it throw. `Tiles` holds all the same.

| Run | Instance | Shows |
|---|---|---|
| `segment_manager` | chapters of three characters with up to two labels, and the empty one; three labels, pieces of up to two characters, texts of up to four; labels and characters symmetric | `Tiles`, `ImplementsFlatLabels` |
| `labels_shown` | chapters with one label, under the data manager's edits | the violation above |

Three labels allow two that overlap a third at either end; four characters allow a
segment in the middle of three others.

### Proofs (`SegmentManagerProofs`)

`SegmentsTile` shows `Tiles`, and `SegmentsImplement` shows `ImplementsFlatLabels`, for any
characters, label ids, pieces of text and chapters, with texts of any length. Assumed is `ChapterAssumption`: what is typed is not empty, and
the labels of a chapter that is opened have ids of their own and cover some of its text.

The inductive invariant is `Held`: each segment starts where the one before it ends and
shows the text from there (`Tiled`), a label has one place in the row (`Placed`), and
`labelsById` is what the segments list. `Tiles` says of the text that it is the
concatenation of the segments; `Tiled` says so character by character, which survives a
splice, and `Flattens` shows that the two agree.

* `Replaced` and `Relabelling` say when a row in which a stretch is exchanged, and the rest
  moved, is still `Tiled` and `Placed`: what the new stretch must show, and that its labels
  are labels of the old one or new in the row. Split, merge, insert and delete each reduce
  to one of these, so a proof about an operation is about the stretch it exchanges.
* Labels in the way of a position are dropped before the gap around it is split off
  (`RoomIs`), which is why neither of the two splits can throw (`Free`): an exception there would
  leave a text and a row that do not fit. In `removeLabel` a split may throw; `SplitHeld`
  says that the row stays whole whether it does or not.
* What a loop computes (`mergeSegments`, `getUncoveredSubintervals`, the splits of
  `removeLabel`, `makeBasicSegmenter`, `FlattenSeq`) is a function over an interval.
  `Climbs` stands in for induction: of a set of places that are wrong, the least one
  follows a place that is right, for `Nat` is well founded. Each loop has an
  invariant that one turn keeps (`GatherStep`, `WalkStep`, `CutHeld`, `GrowingIs`). Sorting
  enters as an order in which the members of a finite set can be put (`KeyOrders`).

The refinement needs no further invariant: `Seen` is what a row shows, the labels of each
segment moved by its start, and each operation is followed there (`Held` says of an
operation what it keeps whole, and what it makes of `Seen`):

* Splits, merges and `Relabelling` are not seen: `SplitSeen`, `MergeHeld`, `KeepSeen`.
  `SeenSpliced` says what a row shows in which a stretch is exchanged and the rest moved,
  as the union of three parts; the operations on text reduce to it.
* `Typed` and `Dropped` are `Insert` and `Delete` of `FlatLabels` as relations between
  the labels before and after. `TypedFrom` and `DroppedFrom` reach them from a division of
  the labels into those before the edit, those behind it and those it cuts. The labels
  that are held back are those of the segment the text enters, which is why one of them
  starts at the position.
* `UncoveredAre` says what `getUncoveredSubintervals` finds: with two places or more
  another label lies wholly within the one that goes; a single place is its start, which no
  label covers if it is the only one, or the end of a label within it. A split
  at that end throws only if a third label covers it. These are the two cases of
  `MayThrow` (`Clash`, `ClashSeen`, `RemoveHeld`).
* `InsertStep`, `DeleteStep`, `AddStep`, `RemoveStep` and `UpdateStep` map a step to the
  step of the document with the same name.

## 11. GlossaryTools, GlossaryAliases, MemoryStore

One memory group, written by runs of the agent and by users.

| Specification | Code |
|---|---|
| `db` | what is committed: `glossary_terms`, `memories`, `glossary_associations` (`links`), `term_translations` (`renderings`) |
| `draft[a]` | the open transaction of a run (`_run_single_task`, `arun_tasks`): it lasts from the first prompt to the end of the chapter |
| `View` | what the run reads: its own writes over what is committed when the statement runs |
| `Create`, `Supersede`, `Expire`, `AddTerm`, `Transform`, `Correct` | the writing tools, each in a savepoint (`AfterTool`); `ToolOf` says which types, marks, scopes and numbers of terms each toolset asks for, and which memories it may replace or end |
| `BeginNaming`, `FinishNaming`, `Summarised` | the naming stage and the continuity summary, written after the model's last answer |
| `ReviewMemory` ... `DeleteTranslation` | the users' services, one statement each |
| `EditChapter`, `RemoveChapter` | a new content version, and the cascade of a chapter's removal |
| `Held`, `Referred` | rows that an open transaction wrote, and terms that its associations refer to: statements on them wait, so in the model they are not enabled |

What a model writes is any call that its tools accept; its prompts are not modelled.
A memory's content is a number that says who wrote it last. `MaxNames`, `Mark` and
`Lasting` bound what is tried, not what the tools allow.

`memory_store`: three terms, memories and chapters, two runs. The windows are shorter
than the code's (`RECENT_SCOPE_LENGTH` 15, retention and 32 terms or 64 links of an
alias walk), so that three chapters, three occurrences and three links pass them. A
job enables one of eight combinations of toolsets (`Jobs`), each with as many runs and
edits as its question needs; `Full` starts from every group of three alias memories
between two or three terms, ended or not, rejected or not. Three memories reach a
replacement of a replacement, and two that compete for one.

| Property | Why it can fail |
|---|---|
| `Succession` | a memory is ended and replaced by runs and users at chapters in any order, and its successor may be ended, deleted or replaced before |
| `AliasesExact` | two bounds, a queue and a sort decide which links are followed |
| `ReviewedKept` | what a run decided to write is minutes old when it is committed |
| `RetentionKept` | the window counts occurrences, of which corrections are none, among rows that may have ended |

Met on the way and left as they are in the code:

* `RetentionKept` says that the occurrence just told is kept only if the chapter told no
  other. Within one chapter occurrences are ordered by their random ids, so the "FIFO
  window of the newest" (`gender_advanced_events.py:328`) may drop the newest.
* A chapter processed after a later one can give a memory a second successor: ended at
  chapter 3, it may still be replaced at chapter 2, and both successors stay active.
* A user's edit of a summary leaves it pending and the agent's, so that the next run of
  the chapter overwrites it; a translation that a user enters over a rejected one stays
  rejected, and the next naming run replaces it.
* `supersede_gender_fact_memory` may give a person two active memories of one aspect,
  which `new_gender_fact_memory` refuses.
* A deleted successor leaves the memory it replaced ended; a memory may lose its last
  term when that term is deleted.

### Proofs (`MemoryStoreProofs`)

For any terms, memories, chapters, runs at once and enabled tools. Assumed is
`StoreAssumption`: ids and chapters are positive numbers, so that `sup = 0` names no
memory and `Never` is no chapter, the scopes tried are those the tools know, and terms and
memories are finitely many; and `AliasAssumption`, that the bounds of the walk are numbers.

`Succession` is not inductive: it says nothing of a successor that its run has not
committed yet, whose predecessor others may end, delete or replace meanwhile, and of two
rows whose ends are committed together. `SInv` adds

* `Chained`: a committed memory that replaces another names a committed one that began
  before it and ended where it begins or before (`Fits`), for no chapter at all, not only those that exist;
* `Ahead`: a run's row of a committed memory ends it earlier at most (`Lowered`), and a
  memory that the run added replaces one whose ended row the run holds too, so that both
  are committed together or not at all;
* `Apart`: no two runs have written one memory, which is what the row locks are for;
* `TypeOK`, with no summary among a run's rows before it ends, and `Named`, that only
  terms are translated, without which a rename could meet a translation of the new name.

Three facts carry the steps. Ending a memory only lowers its end, which keeps whatever
fitted behind it (`LoweredFits`); that is why `MayEnd` must refuse a memory that has ended
before, and why the retention window may end any number of occurrences (`LoweredAhead`). A
row that a run holds is changed by nobody else (`Editable`, `MayGo`, `HeldByOthers`), so
that `Ahead` survives what others do (`HeldAhead`). And a commit of rows that are `Ahead`
of a chained table leaves it chained (`CommittedChained`).

`ReviewedKept` uses the same invariant: the only steps that change a draft and the tables
are the two commits; a run holds no summary that is committed, since its rows keep the
type of the memory they end, and the ones it rewrites at the end are pending.

`AliasesExact` is a theorem about one state: that the walk, with the links and terms of that
state, ends where it should. It rests on two facts about the store. `MemoriesTied` is a
second inductive invariant: every memory has its set of terms, and they are terms that
exist, those of a run's memories too before they are committed (`OwnTied`), because
nobody deletes or renames a term that a run refers to. So a link of two terms that are not
rejected is a pair of usable terms. And terms and memories are finitely many, so that the
sorts of the walk are enumerations (`OrderedIs`).

The walk itself is a loop in a loop over a queue. `Sane` is its invariant, with the number of
terms taken from the queue so far: what is reached is linked to the start, is within
the bound or is the start, both ends of a used link are reached, the terms taken and
the terms waiting are together the terms reached, and unless the walk is truncated every term
reached waits in the queue or has all its neighbours reached. `ReachSane`, `VisitSane` and
`WalkSane` carry it through one neighbour, one term and the whole walk; the loops are
recursive functions on numbers, and an argument about them is one about the
least number for which it fails (`LeastNat`, `Climbs`), which needs no rule of induction. Since
each term is queued once, the queue is empty after as many turns as there are terms. An
untruncated walk has then reached a set that no link leaves, which holds all that
is linked (`LinkedIs`).

For `RetentionKept` the invariant gives that a correction begins after what it corrects
(`Fits`, in `Chained`), so that the occurrences of a subject up to a chapter descend
(`Descends`) and the recursive `Root` is defined on all of them and is one of them
(`UpwardIs`, `RootIs`). `ByChapter` enumerates the roots (`ByChapterIs`). A root that keeps an
active occurrence has one of the first `KeepFirst` or the last `KeepRolling` places, and
there are no more of those than that (`WindowKeeps`, by counting places: `Fewer`, `Outside`).
The ends that the step writes change neither which occurrences there are nor their roots
(`RootsAgree`, `DropRetains`). That the property speaks of `Transform` alone is a lemma, not a
reading of the model: no other step of the run, another run or a user gives a run
a new row with this mark that corrects nothing (`ToolMarks`, `TellingIs`).

## 12. LibraryAccess, LibraryReads, Library, Shelf

Novels, source works, chapters, contents, label groups and label data, and every
endpoint of `novels/router.py` and `labels/router.py` but the label operations by stream
and the promotions, which are in `ChapterVersions`.

| Specification | Code |
|---|---|
| `LibraryAccess` | the tables, and `novels/permissions.py`, `labels/permissions.py`: each function adds a condition to a statement, here the condition for one row |
| `LibraryReads` | the queries of the two services, and the endpoints that are one query: rows or an exception, and its status; `SignedIn` is the 401 for guests where an endpoint asks for a user (`get_current_user`) |
| `call[r]` | a request: `insert` while it has written rows that are not committed, `revise`, `port` and `store` while it edits a chapter's contents, `query` between a statement that found nothing and the query that explains it, `novels` between the two queries of the source works |
| `insert_...`, `modify_...`, `remove_chapter`, ... | the functions of the services up to their first point where another request can come in |
| `InsertRow`, `CommitChapters`, `CommitNovel`, `CommitGroup` | the rest of the functions that insert into two tables |
| `modify_chapter_content`, `InsertVersion`, `FindLabelDatas`, `CommitVersion` | an edit, statement by statement: the version it finds, the next one inserted (unique with its number), the label data to copy, the copies and the commit |
| `RefusedBySchema` | data that the request's schema refuses before the service is called: 400 of an upload (`novels/router.py:664`), 422 of a label group (`labels/schemas.py`) |
| `Deadlock`, `Die` | PostgreSQL ends one of two that wait for each other; a process dies |
| `Shelf` | the promise: each request is answered in one step |

Requests run in several processes of the API under READ COMMITTED: a statement sees
what is committed when it runs. One uvicorn process serves the novels' endpoints one at
a time, since they are `async` functions that call the database directly; two processes
do not. A statement that changes a row is one step, since it locks the row and
tests its condition again. Titles and texts are left out, but one that is too long
is an error of its own (`bad`). Ids are fresh: a model of random UUIDs.

`library`: one novel with a chapter and a group, its owner, an administrator and a third
account that is an editor, a viewer or a stranger. Two requests are enough for one
to change what another has read, and for two uploads to wait for each other. The tables
in which no request is made cover every visibility, publication and role.

| Property | Why it can fail |
|---|---|
| `WholeRows` | novels, groups and chapters are written in two tables, and contents are deleted that label data may refer to |
| `ReadsAgree` | the same thing is read by joins, subqueries and conditions written separately; of endpoints that ask for a login it speaks for users only, since a guest gets 401 from each |
| `OwnWritesRead` | the right to write and the right to read are separate functions, and rights come from rows the request itself inserts; a label group whose novel became private before the commit is excepted (`labels/service.py:257`) |
| `ImplementsShelf` | changes are refused, and lists found empty, on one snapshot and explained on a later one |
| `CallsEnd` | uploads wait for rows of uploads that wait for them |

What `Shelf` allows although no single moment justifies it: an empty list, or contents
not found, although the rows have become readable since; a label group in a novel that
has become private since its creator was admitted; a refusal to rename a source work
whose user has since become the owner of one of its novels; a 500 for an edit that another
edit or a deletion overtook; a new version with a copy of only those label data that were
there when the edit looked for them.

Met on the way and left as they are in the code:

* A source work without novels is visible to nobody, administrators and its creator
  included (`permissions.py:88`).
* A chapter with label data or autolabels can never be deleted; the answer is 500
  (`labels/models.py`, `autolabels/models.py:79`: neither key is deleted with the
  contents). Autolabels are in `ChapterVersions`; here any deletion may meet one.
* `novels/router.py:604` promises 409 for an edit of outdated contents. Of two edits that
  find the same version, the one that inserts second violates the uniqueness of its number
  (`novels/service.py:798`); the error is raised again at line 809 and mapped by no one, so
  the answer is 500. No edit is lost, and `Shelf.Revision` allows this answer.
* `create_chapter` does not map `DataTooLong`: a title that is too long is a 500.
* An upload to a novel that does not exist answers 401; `imports.py:44` speaks of
  `NovelNotFoundException`.

### Proofs (`LibraryProofs`)

For any accounts, rows, numbers, searches, files and number of requests at once. Assumed
is what the modules assume: `Absent` and `None` are no ids and `None` is no row, an
administrator is an account, a file is a sequence of rows. The tables are not inductive
alone: a request that inserts rows decides in one statement what it commits in a later
one. `CallsOK` says what it knows until then, and that no step of another request takes
it away:

* `CreateOK`, `GroupingOK`: the ids it chose are unused, and its source work or novel
  exists; nothing deletes one of these;
* `UploadOK`: the rows inserted so far are the first of the file, with ids that are
  unused and numbers that are free and different, in a novel that exists;
* `NovelQueryOK`, `ChapterQueryOK`, `WorkQueryOK`: what refused a request still refuses
  it, since rights come only with new novels and a chapter that is gone does not return;
* `Apart`: two requests hold neither the same id nor the same number of one novel
  (`InsertRow` waits), and no new chapter gets the id of one that a refused request named.

`WholeRows` then follows action by action, and `RightsNest` (who may change a row may read
it) for any tables at all. `ReadsAgree` needs of `WholeRows` that a novel has an owner, so
that the join with its contributors is not empty, and that a chapter has a first version,
so that it has a latest one (`LatestIs`, for any finite table).

`ImplementsShelf` uses the same invariant. The step of `Shelf` is the one that answers:
the only statement, the commit, or the second query of a request whose first statement
found nothing. The first lemmas show that `Shelf` reads the tables as `Library` does; one
lemma per request shows that its answering step is `Serve`, with the tables as they are
*then*. For a commit that is what `CallsOK` says about unused ids and free numbers; for a second query
it is that the row is still missing or the right still lacking, so that a 404 or 401 computed
from two moments is right for the later one; for a collision (409) it is that the number
is taken when the transaction ends. An edit answers with its commit: while its version is
inserted but not committed no other can be, and the chapter cannot go (`EditOK`, `VersionOK`), so
that the version it found is still the latest. All other steps leave the tables and the answers alone.

`OwnWritesRead` is proved from what an answer means when it is given (`Owned`): its author
may *change* every row it names, in the tables as they are after the step. For a request
that decided earlier this rests on `CallsOK` again, since no step takes a right away
while it waits. That who may change a row may read it are the lemmas `RightsNest` rests
on, and that a chapter's new version is read back as its latest is `LatestRowsIs`.

`CallsEnd` is a liveness property and only checked.
## Not modelled

* Generated API clients (about 15,000 lines of `frontend/src/api`), schemas, views,
  pages, command line and terminal interfaces: they keep no state of their own or only
  what is drawn. They are most of the lines no module maps.
* Prompts, language models and what they answer; agents enter as what they may write.
* Record formats, batch planning and validation of the translation worker
  (`worker/utils.py`, `validation.py`), the filter function language and its compiler:
  sequential functions over data, left for later as pure operators.
* A provider batch that was accepted but whose id was never committed
  (`translate.py:253`) stays orphaned at the provider: in the model it is a job that no
  row names, and nothing is claimed of it.
* An autolabel run that the API reports as failed may still be finished by its worker
  and become done, and a late report may turn done into failed; a run whose worker died
  stays in processing for ever (`RunsEnd` speaks of the others).
* In the editor: closing a chapter and selecting it again while it loads, and loading
  groups for chapters that are not shown.
* The conventions plugin: its rows refer to nothing here, and each of its statements
  stands alone. The flat gender toolset (`toolsets/glossary/gender.py`), which no
  configuration can select.
* Stored files, datasets, languages, authentication, agent evaluations, migrations,
  deployment: see the notes in `PROJECT.json`.
