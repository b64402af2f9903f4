----------------------------- MODULE FilterJobs -----------------------------
(***************************************************************************)
(* The filter jobs of backend/src/filters: operations on workflows (tables *)
(* of instances) that the API queues in one transaction and a Celery       *)
(* worker claims, runs in committed batches and clears.                    *)
(*                                                                         *)
(* Workflow and grouping rows carry the status and the last owner of a     *)
(* job.  Nothing else protects them: there is no lease, so every action    *)
(* below is one committed transaction, or one call to the broker, and a    *)
(* process may die between any two.  A transaction locks its rows in one    *)
(* order and is atomic.                                                    *)
(*                                                                         *)
(* A row in status new exists only inside the transaction that inserts and *)
(* queues it.  An instance is the item it stems from, with the annotated   *)
(* fields it holds and the number of edits it has seen.                    *)
(***************************************************************************)
EXTENDS Naturals, FiniteSets

CONSTANTS
    Workflow,   \* the workflows there can be
    Base,       \* those that exist, complete and filled, at the start
    Function,   \* function definitions a grouping can use
    Field,      \* mutable fields an annotation can add
    Items,      \* a full workflow has the items 1..Items
    Passing,    \* the items a filter function accepts
    BatchSize,  \* instances per batch
    Job,        \* job ids
    Client,     \* API requests
    Worker,     \* Celery worker processes
    None        \* SQL NULL / Python None

ASSUME SizeAssumption == Items \in Nat /\ BatchSize \in Nat \ {0}
ASSUME BaseAssumption == Base \subseteq Workflow /\ Passing \subseteq 1 .. Items
ASSUME NoneAssumption == None \notin Job \cup Workflow \cup Function \cup Field

Item == 1 .. Items
Grouping == Workflow \X Function

\* absent: the row is not there; new is never committed.
Status == {"absent", "pending", "processing", "complete", "failed"}
Busy   == {"pending", "processing"}
AtRest == {"complete", "failed"}

Kind == {"label_source", "annotation", "map", "filter", "group"}

Request == [kind : Kind, src : Workflow \cup {None}, out : Workflow \cup {None},
            fn : Function \cup {None}, field : Field \cup {None}, schema : SUBSET Field]

ASSUME RequestAssumption == None \notin Request

VARIABLES
    wf,        \* workflows: status, last job and schema
    gr,        \* groupings: status and last job
    row,       \* instances of a workflow, by item
    assigned,  \* group_assignments: the items a grouping has a value for
    job,       \* what each job was queued to do
    ctl,       \* API requests in progress
    worker,    \* runner invocations in progress
    queue,     \* jobs whose message is in the broker
    lost       \* jobs whose message, or the process running them, was lost

vars == <<wf, gr, row, assigned, job, ctl, worker, queue, lost>>

\* n rows of an item, the fields they hold and how often they were edited.
NoInstance == [n |-> 0, fields |-> {}, rev |-> 0]

IdleClient == [pc |-> "idle", job |-> None, req |-> None]
IdleWorker == [pc |-> "idle", job |-> None, last |-> 0, seen |-> 0, goal |-> 0]

Init ==
    /\ wf = [w \in Workflow |-> [status |-> IF w \in Base THEN "complete" ELSE "absent",
                                 job |-> None, schema |-> {}]]
    /\ gr = [g \in Grouping |-> [status |-> "absent", job |-> None]]
    /\ row = [w \in Workflow |-> [i \in Item |->
                IF w \in Base THEN [NoInstance EXCEPT !.n = 1] ELSE NoInstance]]
    /\ assigned = [g \in Grouping |-> {}]
    /\ job = [j \in Job |-> None]
    /\ ctl = [c \in Client |-> IdleClient]
    /\ worker = [k \in Worker |-> IdleWorker]
    /\ queue = {} /\ lost = {}

-----------------------------------------------------------------------------
(***************************************************************************)
(* Lifecycle transitions.                                                  *)
(***************************************************************************)
Attached(w) == {g \in Grouping : g[1] = w /\ gr[g].status # "absent"}

\* Mutant: already queued members may be queued.
QueueablePending(ws, gs) ==
    /\ \A w \in ws : wf[w].status \in {"absent", "complete", "pending"}
    /\ \A g \in gs : gr[g].status \in {"absent", "complete"}

\* queue_fjob: the members are new (absent before this transaction) or complete,
\* the groupings of a member workflow and the workflow of a member at rest.
Queueable(ws, gs) ==
    /\ \A w \in ws : wf[w].status \in {"absent", "complete"}
    /\ \A g \in gs : gr[g].status \in {"absent", "complete"}
    /\ \A w \in ws : \A g \in Attached(w) \ gs : gr[g].status \in AtRest
    /\ \A g \in gs : g[1] \notin ws => wf[g[1]].status \in AtRest

MemberWorkflows(j) == {w \in Workflow : wf[w].job = j}
MemberGroupings(j) == {g \in Grouping : gr[g].job = j}

\* Every row the job still owns has the status.
Whole(j, status) ==
    /\ MemberWorkflows(j) \cup MemberGroupings(j) # {}
    /\ \A w \in MemberWorkflows(j) : wf[w].status = status
    /\ \A g \in MemberGroupings(j) : gr[g].status = status

\* Mutant: the groupings of a job are left as they are.
MoveWorkflows(j, from, to) ==
    IF Whole(j, from)
    THEN /\ wf' = [w \in Workflow |-> IF wf[w].job = j THEN [wf[w] EXCEPT !.status = to] ELSE wf[w]]
         /\ UNCHANGED gr
    ELSE UNCHANGED <<wf, gr>>

\* claim_fjob, clear_fjob and abort_fjob: move the whole job, or nothing.
Move(j, from, to) ==
    IF Whole(j, from)
    THEN /\ wf' = [w \in Workflow |-> IF wf[w].job = j THEN [wf[w] EXCEPT !.status = to] ELSE wf[w]]
         /\ gr' = [g \in Grouping |-> IF gr[g].job = j THEN [gr[g] EXCEPT !.status = to] ELSE gr[g]]
    ELSE UNCHANGED <<wf, gr>>

-----------------------------------------------------------------------------
(***************************************************************************)
(* The service: read and validate, then create, queue and commit, publish. *)
(***************************************************************************)
Asks(c, r) ==
    /\ ctl[c].pc = "idle"
    /\ ctl' = [ctl EXCEPT ![c] = [pc |-> "read", job |-> None, req |-> r]]
    /\ UNCHANGED <<wf, gr, row, assigned, job, worker, queue, lost>>

NewRequest(kind, src) ==
    [kind |-> kind, src |-> src, out |-> None, fn |-> None, field |-> None,
     schema |-> IF src = None THEN {} ELSE wf[src].schema]

AskLabelSource(c) == Asks(c, NewRequest("label_source", None))

AskAnnotation(c, w, f) ==
    /\ wf[w].status = "complete" /\ f \notin wf[w].schema
    /\ Asks(c, [NewRequest("annotation", w) EXCEPT !.field = f])

\* map and filter functions of the model require no annotated field.
AskDerived(c, w, kind) ==
    /\ wf[w].status = "complete" /\ kind \in {"map", "filter"}
    /\ Asks(c, NewRequest(kind, w))

AskGroup(c, w, fn) ==
    /\ wf[w].status = "complete"
    /\ Asks(c, [NewRequest("group", w) EXCEPT !.fn = fn])

Refused(c) ==
    /\ ctl' = [ctl EXCEPT ![c] = IdleClient]
    /\ UNCHANGED <<wf, gr, row, assigned, job, worker, queue, lost>>

\* One transaction inserts the new rows, queues all members under a fresh job id
\* and commits; the unique constraint refuses a second grouping of a workflow by a function.
Reserve(c, out) ==
    LET j  == CHOOSE j \in Job : job[j] = None
        r  == [ctl[c].req EXCEPT !.out = out]
        ws == {r.src, out} \ {None}
        gs == IF r.kind = "group" THEN {<<r.src, r.fn>>} ELSE {}
        schema == IF r.kind = "filter" THEN r.schema ELSE {}
    IN  /\ ctl[c].pc = "read" /\ \E k \in Job : job[k] = None
        /\ IF r.kind \in {"label_source", "map", "filter"}
           THEN out # None /\ wf[out].status = "absent"
           ELSE out = None
        /\ IF Queueable(ws, gs) /\ \A g \in gs : gr[g].status = "absent"
           THEN /\ wf' = [w \in Workflow |->
                            IF w \in ws
                            THEN [status |-> "pending", job |-> j,
                                  schema |-> IF w = out THEN schema ELSE wf[w].schema]
                            ELSE wf[w]]
                /\ gr' = [g \in Grouping |->
                            IF g \in gs THEN [status |-> "pending", job |-> j] ELSE gr[g]]
                /\ job' = [job EXCEPT ![j] = r]
                /\ ctl' = [ctl EXCEPT ![c] = [pc |-> "queued", job |-> j, req |-> r]]
                /\ UNCHANGED <<row, assigned, worker, queue, lost>>
           ELSE Refused(c)

Publish(c) ==
    /\ ctl[c].pc = "queued"
    /\ queue' = queue \cup {ctl[c].job}
    /\ ctl' = [ctl EXCEPT ![c] = IdleClient]
    /\ UNCHANGED <<wf, gr, row, assigned, job, worker, lost>>

\* The broker reports an error, whether or not it has kept the message.
PublishFails(c) ==
    /\ ctl[c].pc = "queued"
    /\ queue' \in {queue, queue \cup {ctl[c].job}}
    /\ ctl' = [ctl EXCEPT ![c].pc = "unpublished"]
    /\ UNCHANGED <<wf, gr, row, assigned, job, worker, lost>>

\* Mutant: the refused publication is only reported.
AbortForgotten(c) ==
    /\ ctl[c].pc = "unpublished"
    /\ ctl' = [ctl EXCEPT ![c] = IdleClient]
    /\ UNCHANGED <<wf, gr, row, assigned, job, worker, queue, lost>>

Abort(c) ==
    /\ ctl[c].pc = "unpublished"
    /\ Move(ctl[c].job, "pending", "failed")
    /\ ctl' = [ctl EXCEPT ![c] = IdleClient]
    /\ UNCHANGED <<row, assigned, job, worker, queue, lost>>

ApiDies(c) ==
    /\ ctl[c].pc # "idle"
    /\ lost' = lost \cup ({ctl[c].job} \ {None})
    /\ ctl' = [ctl EXCEPT ![c] = IdleClient]
    /\ UNCHANGED <<wf, gr, row, assigned, job, worker, queue>>

\* update_instance: workflow and instance are locked, only mutable fields change.
EditInstance(w, i) ==
    /\ wf[w].status = "complete" /\ wf[w].schema # {} /\ row[w][i].n > 0
    /\ row' = [row EXCEPT ![w][i].rev = @ + 1]
    /\ UNCHANGED <<wf, gr, assigned, job, ctl, worker, queue, lost>>

-----------------------------------------------------------------------------
(***************************************************************************)
(* The runners.                                                            *)
(***************************************************************************)
JobOf(k) == job[worker[k].job]
Goto(k, pc) == worker' = [worker EXCEPT ![k].pc = pc]
Present(w) == {i \in Item : row[w][i].n > 0}

\* The message is acknowledged on delivery; rest keeps a copy if it is repeated.
Claim(k, j, rest) ==
    /\ worker[k].pc = "idle" /\ j \in queue /\ queue' = rest
    /\ IF Whole(j, "pending")
       THEN worker' = [worker EXCEPT ![k] = [IdleWorker EXCEPT !.pc = "claimed", !.job = j]]
       ELSE UNCHANGED worker
    /\ Move(j, "pending", "processing")
    /\ UNCHANGED <<row, assigned, job, ctl, lost>>

\* The claiming transaction raises: its handler clears the job all the same.
ClaimRaises(k, j) ==
    /\ worker[k].pc = "idle" /\ j \in queue /\ queue' = queue \ {j}
    /\ Move(j, "processing", "failed")
    /\ lost' = lost \cup {j}
    /\ UNCHANGED <<row, assigned, job, ctl, worker>>

\* Any exception, also the soft time limit: rolled back, cleared, raised again.
Raise(k) ==
    /\ worker[k].pc # "idle"
    /\ Move(worker[k].job, "processing", "failed")
    /\ worker' = [worker EXCEPT ![k] = IdleWorker]
    /\ UNCHANGED <<row, assigned, job, ctl, queue, lost>>

\* What a runner checks of the rows it has claimed before it starts.
Fit(r) ==
    CASE r.kind = "annotation" -> r.field \notin wf[r.src].schema
      [] r.kind = "group" -> TRUE
      [] r.kind = "filter" -> Present(r.out) = {} /\ wf[r.out].schema = wf[r.src].schema
      [] OTHER -> Present(r.out) = {}

Batches(n) == (n + BatchSize - 1) \div BatchSize

Inspect(k) ==
    LET r == JobOf(k)
        n == CASE r.kind = "group" -> Cardinality(Present(r.src) \ assigned[<<r.src, r.fn>>])
               [] r.kind \in {"map", "filter"} -> Cardinality(Present(r.src))
               [] OTHER -> 0
    IN  /\ worker[k].pc = "claimed"
        /\ IF Fit(r)
           THEN /\ worker' = [worker EXCEPT ![k].pc = "running", ![k].goal = Batches(n)]
                /\ UNCHANGED <<wf, gr, row, assigned, job, ctl, queue, lost>>
           ELSE Raise(k)

\* The first elements of S, at most a batch.
Batch(S) == {i \in S : Cardinality({h \in S : h < i}) < BatchSize}

\* The instances, or the labels there may be, behind the cursor.
Remaining(k) ==
    {i \in IF JobOf(k).kind = "label_source" THEN Item ELSE Present(JobOf(k).src) : i > worker[k].last}

\* The instances of a batch are read, computed and stored in one transaction.
\* A label source meets any of the next labels, which may change as it reads.
DeriveBatch(k) ==
    LET r == JobOf(k)  next == Remaining(k)
    IN  /\ worker[k].pc = "running" /\ r.kind \in {"label_source", "map", "filter"}
        /\ r.kind # "label_source" => worker[k].goal > 0
        /\ Batch(next) # {}
        /\ \E new \in SUBSET Batch(next) :
             /\ r.kind = "map" => new = Batch(next)
             /\ r.kind = "filter" => new = Batch(next) \cap Passing
             /\ row' = [row EXCEPT ![r.out] = [i \in Item |->
                          IF i \in new
                          THEN [n |-> @[i].n + 1,
                                fields |-> IF r.kind = "filter" THEN row[r.src][i].fields ELSE {},
                                rev |-> IF r.kind = "filter" THEN row[r.src][i].rev ELSE 0]
                          ELSE @[i]]]
        /\ worker' = [worker EXCEPT
                        ![k].last = CHOOSE m \in Batch(next) : \A i \in Batch(next) : i <= m,
                        ![k].seen = @ + Cardinality(Batch(next)),
                        ![k].goal = IF @ = 0 THEN 0 ELSE @ - 1]
        /\ UNCHANGED <<wf, gr, assigned, job, ctl, queue, lost>>

\* Any instances without a value, at most a batch of them.
GroupBatch(k) ==
    LET r == JobOf(k)  g == <<r.src, r.fn>>
    IN  /\ worker[k].pc = "running" /\ r.kind = "group" /\ worker[k].goal > 0
        /\ \E new \in SUBSET (Present(r.src) \ assigned[g]) :
             /\ Cardinality(new) = BatchSize \/ new = Present(r.src) \ assigned[g]
             /\ Cardinality(new) <= BatchSize
             /\ assigned' = [assigned EXCEPT ![g] = @ \cup new]
        /\ worker' = [worker EXCEPT ![k].goal = @ - 1]
        /\ UNCHANGED <<wf, gr, row, job, ctl, queue, lost>>

\* Mutant: a grouping is completed whatever its counts.
DoneEarly(k) ==
    LET r == JobOf(k)
    IN  CASE r.kind = "label_source" -> Remaining(k) = {}
          [] r.kind \in {"annotation", "group"} -> TRUE
          [] OTHER -> worker[k].goal = 0 /\ worker[k].seen = Cardinality(Present(r.src))

\* The loop is over and its counts agree.
Done(k) ==
    LET r == JobOf(k)
    IN  CASE r.kind = "label_source" -> Remaining(k) = {}
          [] r.kind = "annotation" -> TRUE
          [] r.kind = "group" -> /\ worker[k].goal = 0
                                 /\ Cardinality(assigned[<<r.src, r.fn>>])
                                      = Cardinality(Present(r.src))
          [] OTHER -> worker[k].goal = 0 /\ worker[k].seen = Cardinality(Present(r.src))

\* An instance with one more field, if there is an instance.
Annotated(u, field) == IF u.n = 0 THEN u ELSE [u EXCEPT !.fields = @ \cup {field}]

\* The last transaction clears the job, and for an annotation also writes
\* every instance and the schema.
Complete(k) ==
    LET j == worker[k].job  r == job[j]
    IN  /\ worker[k].pc = "running" /\ Done(k)
        /\ IF ~Whole(j, "processing") THEN Raise(k)
           ELSE /\ wf' = [w \in Workflow |->
                            IF wf[w].job # j THEN wf[w]
                            ELSE [wf[w] EXCEPT !.status = "complete",
                                               !.schema = @ \cup ({r.field} \ {None})]]
                /\ gr' = [g \in Grouping |->
                            IF gr[g].job = j THEN [gr[g] EXCEPT !.status = "complete"] ELSE gr[g]]
                /\ row' = IF r.kind = "annotation"
                          THEN [row EXCEPT ![r.src] =
                                  [i \in Item |-> Annotated(row[r.src][i], r.field)]]
                          ELSE row
                /\ worker' = [worker EXCEPT ![k] = IdleWorker]
                /\ UNCHANGED <<assigned, job, ctl, queue, lost>>

\* The process dies or is killed at the hard time limit.
WorkerDies(k) ==
    /\ worker[k].pc # "idle"
    /\ lost' = lost \cup {worker[k].job}
    /\ worker' = [worker EXCEPT ![k] = IdleWorker]
    /\ UNCHANGED <<wf, gr, row, assigned, job, ctl, queue>>

LoseMessage(j) ==
    /\ j \in queue
    /\ queue' = queue \ {j} /\ lost' = lost \cup {j}
    /\ UNCHANGED <<wf, gr, row, assigned, job, ctl, worker>>

-----------------------------------------------------------------------------
Ask ==
    \E c \in Client : \/ AskLabelSource(c)
                      \/ \E w \in Workflow, f \in Field : AskAnnotation(c, w, f)
                      \/ \E w \in Workflow, kind \in Kind : AskDerived(c, w, kind)
                      \/ \E w \in Workflow, fn \in Function : AskGroup(c, w, fn)

Serve(c) ==
    \/ \E out \in Workflow \cup {None} : Reserve(c, out)
    \/ Publish(c)
    \/ Abort(c)

Deliver(k) == \E j \in queue : Claim(k, j, queue \ {j})

Run(k) == Inspect(k) \/ DeriveBatch(k) \/ GroupBatch(k) \/ Complete(k)

Edit == \E w \in Workflow, i \in Item : EditInstance(w, i)

\* Something of the environment fails.
Fault ==
    \/ \E c \in Client : PublishFails(c) \/ ApiDies(c)
    \/ \E k \in Worker : Raise(k) \/ WorkerDies(k)
    \/ \E k \in Worker, j \in queue : ClaimRaises(k, j) \/ Claim(k, j, queue)
    \/ \E j \in queue : LoseMessage(j)

Next ==
    \/ Ask \/ Edit
    \/ \E c \in Client : Serve(c)
    \/ \E k \in Worker : Deliver(k) \/ Run(k)
    \/ Fault

Spec == Init /\ [][Next]_vars

\* Requests are carried through, delivered messages run.
Fairness ==
    /\ \A c \in Client : WF_vars(Publish(c)) /\ WF_vars(Abort(c))
    /\ \A k \in Worker : WF_vars(Deliver(k)) /\ WF_vars(Run(k))

-----------------------------------------------------------------------------
(***************************************************************************)
(* Properties.                                                             *)
(***************************************************************************)
\* The rows a job last owned always share one status: transitions take the
\* whole job or nothing, and a row that went to another job leaves only
\* completed ones behind (docs/filters/README.md: "move the whole job uniformly").
UniformJob ==
    \A j \in Job : MemberWorkflows(j) \cup MemberGroupings(j) # {} =>
                      \E s \in Status : Whole(j, s)

\* A busy workflow and its busy groupings belong to one job, so two jobs never
\* run in one neighbourhood, however requests and stale messages interleave.
NeighbourhoodExclusive ==
    \A g \in Grouping :
        gr[g].status \in Busy => /\ wf[g[1]].status \in Busy
                                 /\ wf[g[1]].job = gr[g].job

\* At most one runner works for a job, and no two touch the same workflow,
\* although messages are repeated and failed jobs may still be running.
OneRunner ==
    \A k, l \in Worker :
        k # l /\ worker[k].pc # "idle" /\ worker[l].pc # "idle" =>
        /\ worker[k].job # worker[l].job
        /\ ({JobOf(k).src, JobOf(k).out} \cap {JobOf(l).src, JobOf(l).out}) \subseteq {None}

\* Every instance has exactly the annotated fields of its workflow's schema:
\* annotations are atomic, and a filter never copies values of a schema that
\* an annotation changed after the request had read it.
InstancesMatchSchema ==
    \A w \in Workflow, i \in Item : row[w][i].n > 0 => row[w][i].fields = wf[w].schema

\* What is shown as complete is exact, in spite of batches committed one by one:
\* the output of a map or filter has one instance for each (passing) instance of
\* its source, a grouping has a value for every instance of its workflow.
CompleteIsExact ==
    /\ \A j \in Job : job[j] # None /\ job[j].kind \in {"map", "filter"} =>
          LET r == job[j]
          IN  wf[r.out].status = "complete" =>
                \A i \in Item :
                  row[r.out][i].n = IF i \in Present(r.src) /\ (r.kind = "filter" => i \in Passing)
                                    THEN 1 ELSE 0
    /\ \A g \in Grouping : gr[g].status = "complete" => assigned[g] = Present(g[1])

\* A queued job comes to rest unless its message or its process was lost.
Settles ==
    \A j \in Job :
        [](Whole(j, "pending") => <>(j \in lost \/ ~(Whole(j, "pending") \/ Whole(j, "processing"))))
=============================================================================
