------------------------------ MODULE MemoryJobs ------------------------------
(***************************************************************************)
(* One memory-agent job of backend/src/memory/agent: its chapter tasks,    *)
(* the claim (token and expiry) on the whole job, the workers that claim   *)
(* the job, run its tasks one after the other in stage order and release   *)
(* it, the queue messages, and the user's start, retry, abort and delete.  *)
(*                                                                         *)
(* The claim is on the job and the status on the task, so a statement that *)
(* updates a task reads the job's claim in its snapshot and rechecks only  *)
(* the task's row when it gets to it (READ COMMITTED).  Statements of that *)
(* kind are two actions here: one takes the snapshot, one writes.          *)
(***************************************************************************)
EXTENDS Naturals, FiniteSets

CONSTANTS
    Chapter,    \* chapter numbers of the job's range
    LastStage,  \* stages are numbered 0..LastStage
    RangeWide,  \* stages with a single task, on the last chapter of the range
    Worker,     \* worker threads; a thread runs one message at a time
    None        \* SQL NULL / Python None

ASSUME ChapterAssumption == Chapter \subseteq Nat /\ Chapter # {}
ASSUME StageAssumption   == LastStage \in Nat
ASSUME WorkerAssumption  == None \notin Worker

Stage == 0 .. LastStage

Task == {t \in Stage \X Chapter : t[1] \in RangeWide => \A c \in Chapter : c <= t[2]}

ASSUME NoneAssumption == None \notin Task

Status == {"pending", "processing", "completed", "failed", "deleted"}

\* selecting: about to claim a task; picked: the claiming statement chose it;
\* working: the agent runs in the task's transaction; finishing and marking: the
\* statement that completes or fails the task saw the claim; failing: the
\* transaction is rolled back; refreshing, stopping: about to refresh or release
\* the job's claim.
WorkerPC == {"idle", "selecting", "picked", "working", "finishing",
             "failing", "marking", "refreshing", "stopping"}

WorkerState == [pc    : WorkerPC,
                only  : Task \cup {None},   \* the task of a direct run
                task  : Task \cup {None},
                begun : BOOLEAN]            \* its lease was live when the transaction began

IdleWorker == [pc |-> "idle", only |-> None, task |-> None, begun |-> FALSE]

VARIABLES
    status,    \* memory_chapter_tasks.task_status
    written,   \* how many committed transactions hold the task's agent results
    claim,     \* whose token memory_jobs.claim_token is
    live,      \* claim_expires_at is not past
    worker,    \* what each thread is doing
    queue,     \* messages: the task to run, None for the whole job
    retrying   \* retry requests that have reset a task and not yet queued it

vars == <<status, written, claim, live, worker, queue, retrying>>

Init ==
    /\ status = [t \in Task |-> "pending"]
    /\ written = [t \in Task |-> 0]
    /\ claim = None /\ live = FALSE
    /\ worker = [w \in Worker |-> IdleWorker]
    /\ queue = {} /\ retrying = {}

-----------------------------------------------------------------------------
(***************************************************************************)
(* Schedule: stages are barriers, chapters run in order within a stage.    *)
(***************************************************************************)
Before(t, u) == t[1] < u[1] \/ (t[1] = u[1] /\ t[2] < u[2])

\* Mutant: a failed task does not hold up the tasks after it.
UnfinishedButFailed == {t \in Task : status[t] \notin {"completed", "deleted", "failed"}}

Unfinished == {t \in Task : status[t] \notin {"completed", "deleted"}}

NextUnfinished(t) == t \in Unfinished /\ \A u \in Unfinished \ {t} : Before(t, u)

UnfinishedPrerequisites(t) == {u \in Unfinished : u[1] < t[1]}

-----------------------------------------------------------------------------
(***************************************************************************)
(* Job claims.                                                             *)
(***************************************************************************)
Has(S) == \E t \in Task : status[t] \in S

Owns(w) == claim = w /\ live

\* Mutant: an expired claim is not replaced.
ClaimableUnclaimed == claim = None /\ Has({"pending"})

ClaimableJob ==
    \/ claim = None /\ Has({"pending"})
    \/ claim # None /\ ~live /\ Has({"pending", "processing"})

\* Work of the previous owner is pending again.
Reclaimed == [t \in Task |-> IF status[t] = "processing" THEN "pending" ELSE status[t]]

\* A message is delivered: claim the job, or drop the message. rest is what stays
\* queued, since equal messages published twice are one element of the set.
ClaimJob(w, m, rest) ==
    /\ worker[w].pc = "idle" /\ m \in queue
    /\ queue' = rest
    /\ IF ClaimableJob
       THEN /\ claim' = w /\ live' = TRUE /\ status' = Reclaimed
            /\ worker' = [worker EXCEPT ![w] = [IdleWorker EXCEPT !.pc = "selecting", !.only = m]]
       ELSE UNCHANGED <<claim, live, status, worker>>
    /\ UNCHANGED <<written, retrying>>

Goto(w, pc) == worker' = [worker EXCEPT ![w] = [@ EXCEPT !.pc = pc]]

\* Mutant: a run stops after its first task.
RefreshAndStop(w) ==
    /\ worker[w].pc = "refreshing"
    /\ Goto(w, "stopping")
    /\ UNCHANGED <<status, written, claim, live, queue, retrying>>

Refresh(w) ==
    /\ worker[w].pc = "refreshing"
    /\ Goto(w, IF Owns(w) THEN "selecting" ELSE "stopping")
    /\ UNCHANGED <<status, written, claim, live, queue, retrying>>

\* The run ends, whatever ended it; the lease need not be live.
ReleaseJob(w) ==
    /\ worker[w].pc = "stopping"
    /\ IF claim = w THEN claim' = None /\ live' = FALSE ELSE UNCHANGED <<claim, live>>
    /\ worker' = [worker EXCEPT ![w] = IdleWorker]
    /\ UNCHANGED <<status, written, queue, retrying>>

LeaseExpires ==
    /\ claim # None /\ live
    /\ live' = FALSE
    /\ UNCHANGED <<status, written, claim, worker, queue, retrying>>

-----------------------------------------------------------------------------
(***************************************************************************)
(* Tasks.                                                                  *)
(***************************************************************************)
\* claim_next_task and claim_task, as their snapshot sees it.
MayRun(w, t) ==
    /\ status[t] = "pending" /\ Owns(w)
    /\ IF worker[w].only = None THEN NextUnfinished(t)
       ELSE t = worker[w].only /\ UnfinishedPrerequisites(t) = {}

SelectTask(w) ==
    /\ worker[w].pc = "selecting"
    /\ \/ \E t \in Task :
             /\ MayRun(w, t)
             /\ worker' = [worker EXCEPT ![w] = [@ EXCEPT !.pc = "picked", !.task = t]]
       \/ /\ \A t \in Task : ~MayRun(w, t)
          /\ Goto(w, "stopping")
    /\ UNCHANGED <<status, written, claim, live, queue, retrying>>

\* The row is updated if it is still pending; the task's transaction begins next.
TakeTask(w) ==
    LET t == worker[w].task
    IN  /\ worker[w].pc = "picked"
        /\ IF status[t] = "pending"
           THEN /\ status' = [status EXCEPT ![t] = "processing"]
                /\ worker' = [worker EXCEPT ![w] = [@ EXCEPT !.pc = "working", !.begun = live]]
           ELSE Goto(w, "stopping") /\ UNCHANGED status
        /\ UNCHANGED <<written, claim, live, queue, retrying>>

\* release_task(COMPLETED) in the task's transaction, whose now() is its start.
FinishTask(w) ==
    /\ worker[w].pc = "working"
    /\ Goto(w, IF claim = w /\ worker[w].begun /\ status[worker[w].task] = "processing"
               THEN "finishing" ELSE "stopping")
    /\ UNCHANGED <<status, written, claim, live, queue, retrying>>

\* Mutant: completion does not recheck the task.
CommitUnchecked(w) ==
    LET t == worker[w].task
    IN  /\ worker[w].pc = "finishing"
        /\ status' = [status EXCEPT ![t] = "completed"]
        /\ written' = [written EXCEPT ![t] = @ + 1]
        /\ Goto(w, "refreshing")
        /\ UNCHANGED <<claim, live, queue, retrying>>

\* The task's results and its completion commit together, or roll back.
CommitTask(w) ==
    LET t == worker[w].task
    IN  /\ worker[w].pc = "finishing"
        /\ IF status[t] = "processing"
           THEN /\ status' = [status EXCEPT ![t] = "completed"]
                /\ written' = [written EXCEPT ![t] = @ + 1]
                /\ Goto(w, "refreshing")
           ELSE Goto(w, "stopping") /\ UNCHANGED <<status, written>>
        /\ UNCHANGED <<claim, live, queue, retrying>>

\* The agent, or the commit of its results, raises.
AgentFails(w) ==
    /\ worker[w].pc \in {"working", "finishing"}
    /\ Goto(w, "failing")
    /\ UNCHANGED <<status, written, claim, live, queue, retrying>>

\* release_task(FAILED) in a session of its own.
FailTask(w) ==
    /\ worker[w].pc = "failing"
    /\ Goto(w, IF Owns(w) /\ status[worker[w].task] = "processing" THEN "marking" ELSE "stopping")
    /\ UNCHANGED <<status, written, claim, live, queue, retrying>>

MarkFailed(w) ==
    LET t == worker[w].task
    IN  /\ worker[w].pc = "marking"
        /\ status' = [status EXCEPT ![t] = IF @ = "processing" THEN "failed" ELSE @]
        /\ Goto(w, "stopping")
        /\ UNCHANGED <<written, claim, live, queue, retrying>>

\* A statement of the run raises: failing to mark a task failed is only logged,
\* any other error ends the run; both go on to release the job.
RunFails(w) ==
    /\ worker[w].pc \in {"selecting", "picked", "refreshing", "failing", "marking"}
    /\ Goto(w, "stopping")
    /\ UNCHANGED <<status, written, claim, live, queue, retrying>>

\* The thread's process dies, or the release raises.
Crash(w) ==
    /\ worker[w].pc # "idle"
    /\ worker' = [worker EXCEPT ![w] = IdleWorker]
    /\ UNCHANGED <<status, written, claim, live, queue, retrying>>

LoseMessage(m) ==
    /\ m \in queue
    /\ queue' = queue \ {m}
    /\ UNCHANGED <<status, written, claim, live, worker, retrying>>

-----------------------------------------------------------------------------
(***************************************************************************)
(* User controls.                                                          *)
(***************************************************************************)
StartJob ==
    /\ Has({"pending", "processing"})
    /\ \A t \in Task : NextUnfinished(t) => status[t] # "failed"
    /\ queue' = queue \cup {None}
    /\ UNCHANGED <<status, written, claim, live, worker, retrying>>

StartTask(t) ==
    /\ status[t] = "pending" /\ UnfinishedPrerequisites(t) = {}
    /\ queue' = queue \cup {t}
    /\ UNCHANGED <<status, written, claim, live, worker, retrying>>

\* retry_task resets the task and commits, then publishes it, and restores the
\* failure if publishing fails.
RetryTask(t) ==
    /\ status[t] = "failed"
    /\ status' = [status EXCEPT ![t] = "pending"]
    /\ retrying' = retrying \cup {t}
    /\ UNCHANGED <<written, claim, live, worker, queue>>

RetryEnqueue(t) ==
    /\ t \in retrying
    /\ retrying' = retrying \ {t}
    /\ queue' = queue \cup {t}
    /\ UNCHANGED <<status, written, claim, live, worker>>

RetryEnqueueFails(t) ==
    /\ t \in retrying
    /\ retrying' = retrying \ {t}
    /\ status' = [status EXCEPT ![t] = IF @ = "pending" THEN "failed" ELSE @]
    /\ UNCHANGED <<written, claim, live, worker, queue>>

\* The API process dies between the reset and the publication.
RetryLost(t) ==
    /\ t \in retrying
    /\ retrying' = retrying \ {t}
    /\ UNCHANGED <<status, written, claim, live, worker, queue>>

AbortJob ==
    /\ claim' = None /\ live' = FALSE
    /\ status' = [t \in Task |-> IF status[t] = "processing" THEN "failed" ELSE status[t]]
    /\ UNCHANGED <<written, worker, queue, retrying>>

DeleteTask(t) ==
    /\ status[t] \notin {"processing", "deleted"}
    /\ status' = [status EXCEPT ![t] = "deleted"]
    /\ UNCHANGED <<written, claim, live, worker, queue, retrying>>

\* An unclaimed or expired job goes with all its tasks.
DeleteJob ==
    /\ claim = None \/ ~live
    /\ status' = [t \in Task |-> "deleted"]
    /\ claim' = None /\ live' = FALSE
    /\ UNCHANGED <<written, worker, queue, retrying>>

-----------------------------------------------------------------------------
WorkerStep(w) ==
    \/ SelectTask(w) \/ TakeTask(w) \/ FinishTask(w) \/ CommitTask(w)
    \/ FailTask(w) \/ MarkFailed(w) \/ Refresh(w) \/ ReleaseJob(w)

Deliver   == \E w \in Worker : \E m \in queue : ClaimJob(w, m, queue \ {m})
Redeliver == \E w \in Worker : \E m \in queue : ClaimJob(w, m, queue)

\* A claim that no thread works under any more.
Abandoned == claim # None => worker[claim].pc = "idle"

Progress ==
    \/ Deliver
    \/ \E w \in Worker : WorkerStep(w)
    \/ \E t \in Task : RetryEnqueue(t)
    \/ Abandoned /\ LeaseExpires

Fault ==
    \/ \E w \in Worker : AgentFails(w) \/ RunFails(w) \/ Crash(w)
    \/ Redeliver
    \/ \E m \in queue : LoseMessage(m)
    \/ ~Abandoned /\ LeaseExpires
    \/ \E t \in Task : RetryEnqueueFails(t) \/ RetryLost(t)

Delete == DeleteJob \/ \E t \in Task : DeleteTask(t)

User ==
    \/ StartJob \/ AbortJob \/ Delete
    \/ \E t \in Task : StartTask(t) \/ RetryTask(t)

Next == Progress \/ Fault \/ User

Spec == Init /\ [][Next]_vars

\* Threads carry on with what they claimed, the broker delivers, retry requests
\* finish and leases nobody works under run out. Nothing is assumed of the user.
Fairness ==
    /\ WF_vars(Deliver)
    /\ \A w \in Worker : WF_vars(WorkerStep(w))
    /\ \A t \in Task : WF_vars(RetryEnqueue(t))
    /\ WF_vars(Abandoned /\ LeaseExpires)

-----------------------------------------------------------------------------
(***************************************************************************)
(* Properties.                                                             *)
(***************************************************************************)
\* Every variable has its type; the token and the expiry of the claim are set and
\* cleared together (ck_memory_jobs_claim_token_expiration in models.py), and a
\* thread past selecting has a task.
TypeOK ==
    /\ status \in [Task -> Status]
    /\ written \in [Task -> Nat]
    /\ claim \in Worker \cup {None} /\ live \in BOOLEAN
    /\ claim = None => ~live
    /\ worker \in [Worker -> WorkerState]
    /\ \A w \in Worker : worker[w].pc \in {"idle", "selecting", "stopping"}
                         \/ worker[w].task \in Task
    /\ queue \subseteq Task \cup {None}
    /\ retrying \subseteq Task

\* Stages are job-wide barriers: a task runs, and completes, only when every task
\* of a lower stage is complete or deleted, also for direct runs and after any
\* sequence of retries, aborts and take-overs (tasks/schedule.py).
StageBarrier ==
    \A t, u \in Task :
        (u[1] < t[1] /\ status[t] \in {"processing", "completed"})
            => status[u] \in {"completed", "deleted"}

\* The results of a task are committed exactly once and together with its
\* completion, however many threads ran its agent (tasks.py arun_tasks).
WrittenOnce ==
    \A t \in Task :
        /\ status[t] = "completed" => written[t] = 1
        /\ status[t] \in {"pending", "processing", "failed"} => written[t] = 0
        /\ written[t] <= 1

\* A completed task is never run again or failed: an abort, a reclaim or the
\* compensation of a retry leaves it alone; only deletion removes it.
CompletedIsFinal ==
    [][\A t \in Task : status[t] = "completed" =>
         status'[t] \in {"completed", "deleted"}]_vars

AllComplete == \A t \in Task : status[t] = "completed"

\* A job that was started runs all its stages to the end while nothing goes wrong.
\* Whatever finitely many faults did, a user who keeps retrying failed tasks,
\* starting the job and aborting one that is stuck unclaimed gets it completed.
Recovers == <>AllComplete

=============================================================================
