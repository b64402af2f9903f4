--------------------------- MODULE MemoryJobsProofs ---------------------------
(***************************************************************************)
(* Theorems about MemoryJobs for any job, number of threads, faults and    *)
(* user requests.                                                          *)
(*                                                                         *)
(* StageBarrier and WrittenOnce are not inductive: a thread that has       *)
(* picked a task writes its row later, and then looks only at that row.    *)
(* IInv adds what the thread saw when it picked (PickedBarrier).  Each     *)
(* action is shown to be a Step: every row makes a RowStep and only a      *)
(* thread that saw the lower stages finished has picked a task.  Steps     *)
(* keep IInv, and never take a completed row back.                         *)
(***************************************************************************)
EXTENDS MemoryJobs, TLAPS

Done == {"completed", "deleted"}

LowerDone(t) == \A u \in Task : u[1] < t[1] => status[u] \in Done

PickedBarrier == \A w \in Worker : worker[w].pc = "picked" => LowerDone(worker[w].task)

IInv == TypeOK /\ StageBarrier /\ WrittenOnce /\ PickedBarrier

\* What one step may do to the row of a task and to the results written for it.
Kept(t)  == status'[t] = status[t] /\ written'[t] = written[t]
Reset(t) == status[t] \notin Done /\ status'[t] \in {"pending", "failed"} /\ written'[t] = written[t]
Gone(t)  == status'[t] = "deleted" /\ written'[t] = written[t]
Taken(t) == status[t] = "pending" /\ status'[t] = "processing" /\ LowerDone(t) /\ written'[t] = written[t]
Finished(t) == status[t] = "processing" /\ status'[t] = "completed" /\ written'[t] = written[t] + 1

RowStep(t) == Kept(t) \/ Reset(t) \/ Gone(t) \/ Taken(t) \/ Finished(t)

PickStep(w) ==
    worker'[w].pc = "picked" =>
        (worker[w].pc = "picked" /\ worker'[w].task = worker[w].task) \/ LowerDone(worker'[w].task)

Step ==
    /\ TypeOK'
    /\ \A t \in Task : RowStep(t)
    /\ \A w \in Worker : PickStep(w)

-----------------------------------------------------------------------------
\* The coordinates of a task are numbers, so that stages can be compared.
LEMMA TaskNumbers == \A t \in Task : t[1] \in Nat /\ t[2] \in Nat
<1> SUFFICES ASSUME NEW t \in Task PROVE t[1] \in Nat /\ t[2] \in Nat
  OBVIOUS
<1>1. t \in Stage \X Chapter
  BY DEF Task
<1>2. t[1] \in Stage /\ t[2] \in Chapter
  BY <1>1
<1>3. t[1] \in Nat
  BY <1>2, StageAssumption DEF Stage
<1>4. t[2] \in Nat
  BY <1>2, ChapterAssumption
<1> QED
  BY <1>3, <1>4

\* claim_next_task and claim_task choose a task only when the lower stages are
\* finished: the first by the order of next_unfinished, the second by asking.
LEMMA MayRunLowerDone ==
  ASSUME TypeOK, NEW w \in Worker, NEW t \in Task, MayRun(w, t)
  PROVE  LowerDone(t)
<1> SUFFICES ASSUME NEW u \in Task, u[1] < t[1], u \in Unfinished PROVE FALSE
  BY DEF LowerDone, Unfinished, Done, TypeOK
<1> t[1] \in Nat /\ u[1] \in Nat
  BY TaskNumbers
<1>1. CASE worker[w].only = None
  <2> NextUnfinished(t)
    BY <1>1 DEF MayRun
  <2> u # t => Before(t, u)
    BY DEF NextUnfinished
  <2> QED
    BY DEF Before
<1>2. CASE worker[w].only # None
  BY <1>2 DEF MayRun, UnfinishedPrerequisites
<1> QED
  BY <1>1, <1>2

\* Moving a thread to another point of its run keeps the type of the threads.
LEMMA GotoType ==
  ASSUME TypeOK, NEW w \in Worker, NEW pc \in WorkerPC, Goto(w, pc),
         pc \in {"idle", "selecting", "stopping"} \/ worker[w].task \in Task
  PROVE  /\ worker' \in [Worker -> WorkerState]
         /\ \A v \in Worker : worker'[v].pc \in {"idle", "selecting", "stopping"}
                              \/ worker'[v].task \in Task
         /\ worker'[w].pc = pc
         /\ \A v \in Worker : v # w => worker'[v] = worker[v]
         /\ \A v \in Worker : worker'[v].task = worker[v].task
<1> worker[w] \in WorkerState
  BY DEF TypeOK
<1> [worker[w] EXCEPT !.pc = pc] \in WorkerState
  BY DEF WorkerState
<1> QED
  BY DEF Goto, TypeOK, WorkerState

\* A step that keeps or clears the claim keeps its type.
LEMMA ClaimType ==
  ASSUME TypeOK, (claim' = None /\ live' = FALSE) \/ (claim' = claim /\ live' \in {live, FALSE})
  PROVE  /\ claim' \in Worker \cup {None}
         /\ live' \in BOOLEAN
         /\ claim' = None => ~live'
<1>1. claim \in Worker \cup {None} /\ live \in BOOLEAN
  BY DEF TypeOK
<1>2. claim = None => ~live
  BY DEF TypeOK
<1>3. claim' \in Worker \cup {None}
  BY <1>1
<1>4. live' = live \/ live' = FALSE
  OBVIOUS
<1>5. live' \in BOOLEAN
  BY <1>1, <1>4, Zenon
<1>6. claim' = None => ~live'
  BY <1>1, <1>2, Zenon
<1> QED
  BY <1>3, <1>5, <1>6

-----------------------------------------------------------------------------
\* A step that changes no row and picks no task is a Step if it keeps the types.
LEMMA QuietStep ==
  ASSUME TypeOK', UNCHANGED <<status, written>>,
         \A w \in Worker : worker'[w].pc = "picked" => worker'[w] = worker[w]
  PROVE  Step
  BY DEF Step, RowStep, Kept, PickStep

\* A thread that only moves on, away from picking, makes a Step.
LEMMA GotoStep ==
  ASSUME TypeOK, NEW w \in Worker, NEW pc \in WorkerPC \ {"picked"}, Goto(w, pc),
         pc \in {"idle", "selecting", "stopping"} \/ worker[w].task \in Task,
         UNCHANGED <<status, written, claim, live, queue, retrying>>
  PROVE  Step
<1>1. TypeOK'
  BY GotoType DEF TypeOK
<1>2. \A v \in Worker : worker'[v].pc = "picked" => worker'[v] = worker[v]
  BY GotoType
<1> QED
  BY <1>1, <1>2, QuietStep

-----------------------------------------------------------------------------
(***************************************************************************)
(* Every action is a Step.                                                 *)
(***************************************************************************)
\* Claiming a job resets the rows of the previous owner and starts one thread.
LEMMA ClaimJobStep ==
  ASSUME TypeOK, NEW w \in Worker, NEW m \in queue, NEW rest \in SUBSET queue,
         ClaimJob(w, m, rest)
  PROVE  Step
<1> DEFINE started == [IdleWorker EXCEPT !.pc = "selecting", !.only = m]
<1>1. started \in WorkerState
  BY DEF IdleWorker, WorkerState, WorkerPC, TypeOK
<1>2. queue' \subseteq Task \cup {None}
  BY DEF ClaimJob, TypeOK
<1>3. CASE ClaimableJob
  <2>1. /\ claim' = w /\ live' = TRUE /\ status' = Reclaimed
        /\ worker' = [worker EXCEPT ![w] = started]
        /\ UNCHANGED <<written, retrying>>
    BY <1>3 DEF ClaimJob
  <2>2. /\ worker' \in [Worker -> WorkerState]
        /\ worker'[w].pc = "selecting"
        /\ \A v \in Worker : v # w => worker'[v] = worker[v]
    BY <1>1, <2>1 DEF TypeOK, IdleWorker
  <2>3. \A t \in Task : Kept(t) \/ Reset(t)
    BY <2>1 DEF Reclaimed, Kept, Reset, Done
  <2>4. status' \in [Task -> Status]
    BY <2>1 DEF Reclaimed, TypeOK, Status
  <2>5. TypeOK'
    BY <1>2, <2>1, <2>2, <2>4, WorkerAssumption DEF TypeOK
  <2> QED
    BY <2>2, <2>3, <2>5 DEF Step, RowStep, PickStep
<1>4. CASE ~ClaimableJob
  <2>1. UNCHANGED <<claim, live, status, worker, written, retrying>>
    BY <1>4 DEF ClaimJob
  <2>2. TypeOK'
    BY <1>2, <2>1 DEF TypeOK
  <2> QED
    BY <2>1, <2>2, QuietStep
<1> QED
  BY <1>3, <1>4

\* The thread picks a task whose lower stages are finished, or stops.
LEMMA SelectTaskStep ==
  ASSUME TypeOK, NEW w \in Worker, SelectTask(w)
  PROVE  Step
<1>1. CASE Goto(w, "stopping")
  BY <1>1, GotoStep DEF SelectTask, WorkerPC
<1>2. ASSUME NEW t \in Task, MayRun(w, t),
             worker' = [worker EXCEPT ![w] = [@ EXCEPT !.pc = "picked", !.task = t]]
      PROVE  Step
  <2>1. [worker[w] EXCEPT !.pc = "picked", !.task = t] \in WorkerState
    BY DEF TypeOK, WorkerState, WorkerPC
  <2>2. /\ worker' \in [Worker -> WorkerState]
        /\ worker'[w].task = t
        /\ \A v \in Worker : v # w => worker'[v] = worker[v]
    BY <1>2, <2>1 DEF TypeOK, WorkerState
  <2>3. UNCHANGED <<status, written, claim, live, queue, retrying>>
    BY DEF SelectTask
  <2>4. TypeOK'
    BY <2>2, <2>3 DEF TypeOK
  <2>5. LowerDone(t)
    BY <1>2, MayRunLowerDone
  <2>6. \A v \in Worker : PickStep(v)
    BY <2>2, <2>5 DEF PickStep
  <2> QED
    BY <2>3, <2>4, <2>6 DEF Step, RowStep, Kept
<1> QED
  BY <1>1, <1>2 DEF SelectTask

\* A picked row that is still pending is taken; its lower stages were finished when
\* it was picked and still are.
LEMMA TakeTaskStep ==
  ASSUME TypeOK, PickedBarrier, NEW w \in Worker, TakeTask(w)
  PROVE  Step
<1> DEFINE t == worker[w].task
<1>1. t \in Task /\ worker[w].pc = "picked" /\ LowerDone(t)
  BY DEF TakeTask, TypeOK, PickedBarrier
<1>2. UNCHANGED <<written, claim, live, queue, retrying>>
  BY DEF TakeTask
<1>3. CASE status[t] = "pending"
  <2>1. /\ status' = [status EXCEPT ![t] = "processing"]
        /\ worker' = [worker EXCEPT ![w] = [@ EXCEPT !.pc = "working", !.begun = live]]
    BY <1>3 DEF TakeTask
  <2>2. [worker[w] EXCEPT !.pc = "working", !.begun = live] \in WorkerState
    BY DEF TypeOK, WorkerState, WorkerPC
  <2>3. /\ worker' \in [Worker -> WorkerState]
        /\ worker'[w].pc = "working" /\ worker'[w].task = t
        /\ \A v \in Worker : v # w => worker'[v] = worker[v]
    BY <2>1, <2>2 DEF TypeOK, WorkerState
  <2>4. status' \in [Task -> Status]
    BY <2>1 DEF TypeOK, Status
  <2>5. TypeOK'
    BY <1>1, <1>2, <2>3, <2>4 DEF TypeOK
  <2>6. Taken(t) /\ \A u \in Task : u # t => Kept(u)
    BY <1>1, <1>2, <1>3, <2>1 DEF Taken, Kept, TypeOK
  <2> QED
    BY <2>3, <2>5, <2>6 DEF Step, RowStep, PickStep
<1>4. CASE status[t] # "pending"
  BY <1>1, <1>2, <1>4, GotoStep DEF TakeTask, WorkerPC
<1> QED
  BY <1>3, <1>4

\* The moves of a thread that change no row.
LEMMA MoveStep ==
  ASSUME TypeOK, NEW w \in Worker,
         FinishTask(w) \/ AgentFails(w) \/ FailTask(w) \/ RunFails(w) \/ Refresh(w)
  PROVE  Step
<1>1. CASE FinishTask(w)
  <2> worker[w].task \in Task
    BY <1>1 DEF FinishTask, TypeOK
  <2> QED
    BY <1>1, GotoStep DEF FinishTask, WorkerPC
<1>2. CASE AgentFails(w)
  <2> worker[w].task \in Task
    BY <1>2 DEF AgentFails, TypeOK
  <2> QED
    BY <1>2, GotoStep DEF AgentFails, WorkerPC
<1>3. CASE FailTask(w)
  <2> worker[w].task \in Task
    BY <1>3 DEF FailTask, TypeOK
  <2> QED
    BY <1>3, GotoStep DEF FailTask, WorkerPC
<1>4. CASE RunFails(w)
  BY <1>4, GotoStep DEF RunFails, WorkerPC
<1>5. CASE Refresh(w)
  BY <1>5, GotoStep DEF Refresh, WorkerPC
<1> QED
  BY <1>1, <1>2, <1>3, <1>4, <1>5

\* The results are committed for a row that is still processing, or rolled back.
LEMMA CommitTaskStep ==
  ASSUME TypeOK, NEW w \in Worker, CommitTask(w)
  PROVE  Step
<1> DEFINE t == worker[w].task
<1>1. t \in Task
  BY DEF CommitTask, TypeOK
<1>2. UNCHANGED <<claim, live, queue, retrying>>
  BY DEF CommitTask
<1>3. CASE status[t] = "processing"
  <2>1. /\ status' = [status EXCEPT ![t] = "completed"]
        /\ written' = [written EXCEPT ![t] = @ + 1]
        /\ Goto(w, "refreshing")
    BY <1>3 DEF CommitTask
  <2>2. /\ worker' \in [Worker -> WorkerState]
        /\ \A v \in Worker : worker'[v].pc \in {"idle", "selecting", "stopping"}
                              \/ worker'[v].task \in Task
        /\ worker'[w].pc = "refreshing"
        /\ \A v \in Worker : v # w => worker'[v] = worker[v]
    BY <1>1, <2>1, GotoType DEF WorkerPC
  <2>3. status' \in [Task -> Status]
    BY <2>1 DEF TypeOK, Status
  <2>4. written' \in [Task -> Nat]
    BY <1>1, <2>1 DEF TypeOK
  <2>5. TypeOK'
    BY <1>2, <2>2, <2>3, <2>4 DEF TypeOK
  <2>6. Finished(t) /\ \A u \in Task : u # t => Kept(u)
    BY <1>1, <1>3, <2>1 DEF Finished, Kept, TypeOK
  <2> QED
    BY <2>2, <2>5, <2>6 DEF Step, RowStep, PickStep
<1>4. CASE status[t] # "processing"
  BY <1>1, <1>2, <1>4, GotoStep DEF CommitTask, WorkerPC
<1> QED
  BY <1>3, <1>4

\* A task that is still processing is marked failed.
LEMMA MarkFailedStep ==
  ASSUME TypeOK, NEW w \in Worker, MarkFailed(w)
  PROVE  Step
<1> DEFINE t == worker[w].task
<1>1. t \in Task
  BY DEF MarkFailed, TypeOK
<1>2. /\ UNCHANGED <<written, claim, live, queue, retrying>>
      /\ Goto(w, "stopping")
      /\ status' = [status EXCEPT ![t] = IF @ = "processing" THEN "failed" ELSE @]
  BY DEF MarkFailed
<1>3. /\ worker' \in [Worker -> WorkerState]
      /\ \A v \in Worker : worker'[v].pc \in {"idle", "selecting", "stopping"}
                            \/ worker'[v].task \in Task
      /\ worker'[w].pc = "stopping"
      /\ \A v \in Worker : v # w => worker'[v] = worker[v]
  BY <1>1, <1>2, GotoType DEF WorkerPC
<1>4. status' \in [Task -> Status]
  BY <1>1, <1>2 DEF TypeOK, Status
<1>5. TypeOK'
  BY <1>2, <1>3, <1>4 DEF TypeOK
<1>6. \A u \in Task : Kept(u) \/ Reset(u)
  BY <1>1, <1>2 DEF Kept, Reset, Done, TypeOK
<1> QED
  BY <1>3, <1>5, <1>6 DEF Step, RowStep, PickStep

\* Ending a run, with or without releasing the claim, leaves the thread idle.
LEMMA EndRunStep ==
  ASSUME TypeOK, NEW w \in Worker, ReleaseJob(w) \/ Crash(w)
  PROVE  Step
<1>1. IdleWorker \in WorkerState
  BY DEF IdleWorker, WorkerState, WorkerPC
<1>2. /\ worker' = [worker EXCEPT ![w] = IdleWorker]
      /\ UNCHANGED <<status, written, queue, retrying>>
  BY DEF ReleaseJob, Crash
<1>3. /\ worker' \in [Worker -> WorkerState]
      /\ worker'[w].pc = "idle"
      /\ \A v \in Worker : v # w => worker'[v] = worker[v]
  BY <1>1, <1>2 DEF TypeOK, IdleWorker
<1>4. /\ claim' \in Worker \cup {None} /\ live' \in BOOLEAN
      /\ claim' = None => ~live'
  <2> \/ claim' = None /\ live' = FALSE
      \/ claim' = claim /\ live' = live
    BY DEF ReleaseJob, Crash
  <2> QED
    BY ClaimType
<1>5. TypeOK'
  BY <1>2, <1>3, <1>4 DEF TypeOK
<1> QED
  BY <1>2, <1>3, <1>5, QuietStep

\* Steps that touch neither rows nor threads.
LEMMA OutsideStep ==
  ASSUME TypeOK,
         \/ LeaseExpires \/ StartJob
         \/ \E m \in queue : LoseMessage(m)
         \/ \E t \in Task : StartTask(t) \/ RetryEnqueue(t) \/ RetryLost(t)
  PROVE  Step
<1>1. UNCHANGED <<status, written, worker>>
  BY DEF LeaseExpires, StartJob, LoseMessage, StartTask, RetryEnqueue, RetryLost
<1>2. /\ queue' \subseteq Task \cup {None} /\ retrying' \subseteq Task
      /\ claim' = claim /\ live' \in {live, FALSE}
  BY DEF LeaseExpires, StartJob, LoseMessage, StartTask, RetryEnqueue, RetryLost, TypeOK
<1>3. claim' \in Worker \cup {None} /\ live' \in BOOLEAN /\ (claim' = None => ~live')
  BY <1>2, ClaimType
<1>4. TypeOK'
  BY <1>1, <1>2, <1>3 DEF TypeOK
<1> QED
  BY <1>1, <1>4, QuietStep

\* The requests and compensations that write rows reset or delete them.
LEMMA ControlStep ==
  ASSUME TypeOK,
         \/ AbortJob \/ DeleteJob
         \/ \E t \in Task : RetryTask(t) \/ RetryEnqueueFails(t) \/ DeleteTask(t)
  PROVE  Step
<1>1. UNCHANGED <<written, worker, queue>>
  BY DEF AbortJob, DeleteJob, RetryTask, RetryEnqueueFails, DeleteTask
<1>2. status' \in [Task -> Status] /\ \A u \in Task : Kept(u) \/ Reset(u) \/ Gone(u)
  <2>1. CASE AbortJob
    BY <2>1 DEF AbortJob, TypeOK, Status, Kept, Reset, Done
  <2>2. CASE DeleteJob
    BY <2>2 DEF DeleteJob, TypeOK, Status, Gone
  <2>3. ASSUME NEW t \in Task, RetryTask(t)
        PROVE  status' \in [Task -> Status] /\ \A u \in Task : Kept(u) \/ Reset(u)
    BY <2>3 DEF RetryTask, TypeOK, Status, Kept, Reset, Done
  <2>4. ASSUME NEW t \in Task, RetryEnqueueFails(t)
        PROVE  status' \in [Task -> Status] /\ \A u \in Task : Kept(u) \/ Reset(u)
    BY <2>4 DEF RetryEnqueueFails, TypeOK, Status, Kept, Reset, Done
  <2>5. ASSUME NEW t \in Task, DeleteTask(t)
        PROVE  status' \in [Task -> Status] /\ \A u \in Task : Kept(u) \/ Gone(u)
    BY <2>5 DEF DeleteTask, TypeOK, Status, Kept, Gone
  <2> QED
    BY <2>1, <2>2, <2>3, <2>4, <2>5
<1>3. /\ claim' \in Worker \cup {None} /\ live' \in BOOLEAN
      /\ claim' = None => ~live'
      /\ retrying' \subseteq Task
  <2>1. \/ claim' = None /\ live' = FALSE
        \/ claim' = claim /\ live' = live
    BY DEF AbortJob, DeleteJob, RetryTask, RetryEnqueueFails, DeleteTask
  <2>2. retrying' \subseteq Task
    BY DEF AbortJob, DeleteJob, RetryTask, RetryEnqueueFails, DeleteTask, TypeOK
  <2> QED
    BY <2>1, <2>2, ClaimType
<1>4. TypeOK'
  BY <1>1, <1>2, <1>3 DEF TypeOK
<1> QED
  BY <1>1, <1>2, <1>4 DEF Step, RowStep, PickStep

\* Every step of the job is a Step.
LEMMA NextStep ==
  ASSUME TypeOK, PickedBarrier, [Next]_vars
  PROVE  Step
<1>1. CASE Progress
  <2>1. ASSUME Deliver PROVE Step
    BY <2>1, ClaimJobStep DEF Deliver
  <2>2. ASSUME NEW w \in Worker, WorkerStep(w) PROVE Step
    BY <2>2, SelectTaskStep, TakeTaskStep, MoveStep, CommitTaskStep, MarkFailedStep, EndRunStep
       DEF WorkerStep
  <2> QED
    BY <1>1, <2>1, <2>2, OutsideStep DEF Progress
<1>2. CASE Fault
  <2>1. ASSUME Redeliver PROVE Step
    BY <2>1, ClaimJobStep DEF Redeliver
  <2> QED
    BY <1>2, <2>1, MoveStep, EndRunStep, OutsideStep, ControlStep DEF Fault
<1>3. CASE User
  BY <1>3, OutsideStep, ControlStep DEF User, Delete
<1>4. CASE UNCHANGED vars
  <2>1. TypeOK'
    BY <1>4 DEF vars, TypeOK
  <2> QED
    BY <1>4, <2>1, QuietStep DEF vars
<1> QED
  BY <1>1, <1>2, <1>3, <1>4 DEF Next

-----------------------------------------------------------------------------
(***************************************************************************)
(* Steps keep the invariant.                                               *)
(***************************************************************************)
\* What is finished stays finished, so whoever saw the lower stages finished may
\* rely on it later.
LEMMA DoneStays ==
  ASSUME TypeOK, Step
  PROVE  /\ \A u \in Task : status[u] \in Done => status'[u] \in Done
         /\ \A t \in Task : LowerDone(t) => LowerDone(t)'
<1>1. \A u \in Task : status[u] \in Done => status'[u] \in Done
  BY DEF Step, RowStep, Kept, Reset, Gone, Taken, Finished, Done
<1> QED
  BY <1>1 DEF LowerDone

\* A row is processing or completed after a step only if its lower stages are finished.
LEMMA BarrierStep ==
  ASSUME TypeOK, StageBarrier, Step
  PROVE  StageBarrier'
<1> SUFFICES ASSUME NEW t \in Task, NEW u \in Task, u[1] < t[1],
                    status'[t] \in {"processing", "completed"}
             PROVE  status'[u] \in Done
  BY DEF StageBarrier, Done
<1>1. CASE status[t] \in {"processing", "completed"}
  <2> status[u] \in Done
    BY <1>1 DEF StageBarrier, Done
  <2> QED
    BY DoneStays
<1>2. CASE status[t] \notin {"processing", "completed"}
  <2>1. RowStep(t)
    BY DEF Step
  <2>2. Taken(t)
    BY <1>2, <2>1 DEF RowStep, Kept, Reset, Gone, Finished
  <2> status[u] \in Done
    BY <2>2 DEF Taken, LowerDone
  <2> QED
    BY DoneStays
<1> QED
  BY <1>1, <1>2

\* Results are added only when a row completes, and a row completes once.
LEMMA WrittenStep ==
  ASSUME TypeOK, WrittenOnce, Step
  PROVE  WrittenOnce'
<1> SUFFICES ASSUME NEW t \in Task
             PROVE  /\ status'[t] = "completed" => written'[t] = 1
                    /\ status'[t] \in {"pending", "processing", "failed"} => written'[t] = 0
                    /\ written'[t] <= 1
  BY DEF WrittenOnce
<1>1. /\ status[t] = "completed" => written[t] = 1
      /\ status[t] \in {"pending", "processing", "failed"} => written[t] = 0
      /\ written[t] <= 1 /\ written[t] \in Nat /\ status[t] \in Status
  BY DEF WrittenOnce, TypeOK
<1>2. RowStep(t)
  BY DEF Step
<1> QED
  BY <1>1, <1>2 DEF RowStep, Kept, Reset, Gone, Taken, Finished, Done, Status

\* What a thread saw when it picked its task still holds after a step.
LEMMA PickedStep ==
  ASSUME TypeOK, PickedBarrier, Step
  PROVE  PickedBarrier'
<1> SUFFICES ASSUME NEW w \in Worker, worker'[w].pc = "picked"
             PROVE  LowerDone(worker[w].task)'
  BY DEF PickedBarrier
<1>1. LowerDone(worker'[w].task)
  BY DEF Step, PickStep, PickedBarrier
<1>2. worker'[w].task \in Task
  BY DEF Step, TypeOK
<1>3. \A u \in Task : status[u] \in Done => status'[u] \in Done
  BY DoneStays
<1> QED
  BY <1>1, <1>2, <1>3 DEF LowerDone

\* IInv holds in every reachable state of the job.
THEOREM Invariance == Spec => []IInv
<1>1. Init => IInv
  <2> SUFFICES ASSUME Init PROVE IInv
    OBVIOUS
  <2>1. IdleWorker \in WorkerState
    BY DEF IdleWorker, WorkerState, WorkerPC
  <2>2. TypeOK
    BY <2>1 DEF Init, TypeOK, Status, IdleWorker
  <2> QED
    BY <2>2 DEF Init, IInv, StageBarrier, WrittenOnce, PickedBarrier, IdleWorker
<1>2. IInv /\ [Next]_vars => IInv'
  BY NextStep, BarrierStep, WrittenStep, PickedStep DEF IInv, Step
<1> QED
  BY <1>1, <1>2, PTL DEF Spec

-----------------------------------------------------------------------------
\* Every variable has its type, and the job's token and expiry are set and cleared
\* together by every claim, release, abort and deletion.
THEOREM TypeCorrect == Spec => []TypeOK
  BY Invariance, PTL DEF IInv

\* A task runs and completes only when all lower stages of its job are finished.
THEOREM BarrierHolds == Spec => []StageBarrier
  BY Invariance, PTL DEF IInv

\* The results of a task are committed once, together with its completion.
THEOREM ResultsWrittenOnce == Spec => []WrittenOnce
  BY Invariance, PTL DEF IInv

\* No step takes a completed task back: it stays completed until it is deleted.
THEOREM CompletedTasksFinal == Spec => CompletedIsFinal
<1>1. TypeOK /\ Step => \A t \in Task : status[t] = "completed" =>
                          status'[t] \in {"completed", "deleted"}
  BY DEF Step, RowStep, Kept, Reset, Gone, Taken, Finished, Done
<1>2. IInv /\ [Next]_vars =>
        [\A t \in Task : status[t] = "completed" => status'[t] \in {"completed", "deleted"}]_vars
  BY <1>1, NextStep DEF IInv
<1> QED
  BY <1>2, Invariance, PTL DEF Spec, CompletedIsFinal

=============================================================================
