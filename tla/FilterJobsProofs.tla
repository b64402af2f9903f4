--------------------------- MODULE FilterJobsProofs ---------------------------
(***************************************************************************)
(* Theorems about FilterJobs for any workflows, jobs, requests, workers and  *)
(* batch size.                                                             *)
(*                                                                         *)
(* Four layers, each an invariant by the ones before it: the types; who owns  *)
(* which row (Owning), by which a job keeps all its rows until they are       *)
(* complete; the runners (Running), who hold their jobs' rows, never two the   *)
(* same; and the instances (Exact), which only the runner that holds the       *)
(* output writes.                                                          *)
(***************************************************************************)
EXTENDS FilterJobs, FiniteSetTheorems, WellFoundedInduction, TLAPS

\* What a request may look like, and its job with an output.
WellFormed(r) ==
    /\ r \in Request
    /\ r.kind = "label_source" <=> r.src = None
    /\ r.kind = "group" <=> r.fn # None
    /\ r.kind = "annotation" <=> r.field # None

Derived == {"map", "filter"}
WellFormedJob(r) ==
    /\ WellFormed(r)
    /\ r.kind \in Derived \cup {"label_source"} <=> r.out # None

WfRow == [status : Status, job : Job \cup {None}, schema : SUBSET Field]
GrRow == [status : Status, job : Job \cup {None}]
Instance == [n : Nat, fields : SUBSET Field, rev : Nat]

TypeOK ==
    /\ wf \in [Workflow -> WfRow]
    /\ gr \in [Grouping -> GrRow]
    /\ row \in [Workflow -> [Item -> Instance]]
    /\ assigned \in [Grouping -> SUBSET Item]
    /\ job \in [Job -> Request \cup {None}]
    /\ \A j \in Job : job[j] # None => WellFormedJob(job[j])
    /\ ctl \in [Client -> [pc : {"idle", "read", "queued", "unpublished"},
                           job : Job \cup {None}, req : Request \cup {None}]]
    /\ \A c \in Client :
          /\ ctl[c].pc = "read" => WellFormed(ctl[c].req)
          /\ ctl[c].pc \in {"queued", "unpublished"} => ctl[c].job \in Job /\ job[ctl[c].job] # None
    /\ worker \in [Worker -> [pc : {"idle", "claimed", "running"}, job : Job \cup {None},
                              last : Nat, seen : Nat, goal : Nat]]
    /\ \A k \in Worker : worker[k].pc # "idle" => worker[k].job \in Job /\ job[worker[k].job] # None
    /\ queue \subseteq Job /\ lost \subseteq Job
    /\ \A j \in queue : job[j] # None

\* The rows a job was queued with, and whether it still owns them all.
WorkflowsOf(r) == {r.src, r.out} \ {None}
GroupingsOf(r) == IF r.kind = "group" THEN {<<r.src, r.fn>>} ELSE {}
Owns(j) ==
    /\ \A w \in WorkflowsOf(job[j]) : wf[w].job = j
    /\ \A g \in GroupingsOf(job[j]) : gr[g].job = j

AllAre(j, status) ==
    /\ \A w \in MemberWorkflows(j) : wf[w].status = status
    /\ \A g \in MemberGroupings(j) : gr[g].status = status

\* Rows name the job that queued them last, and are never absent again.
RowsNameJobs ==
    /\ \A w \in Workflow :
          /\ wf[w].job # None => /\ job[wf[w].job] # None
                                 /\ w \in WorkflowsOf(job[wf[w].job])
          /\ wf[w].status \in Busy \cup {"failed"} => wf[w].job # None
          /\ wf[w].status = "absent" => wf[w].job = None /\ Present(w) = {}
    /\ \A g \in Grouping :
          /\ gr[g].job # None => /\ job[gr[g].job] # None
                                 /\ g \in GroupingsOf(job[gr[g].job])
          /\ gr[g].status = "absent" <=> gr[g].job = None
    /\ \A j \in Job : job[j] # None => \A w \in WorkflowsOf(job[j]) : wf[w].status # "absent"
    /\ \A c \in Client : ctl[c].pc = "read" /\ ctl[c].req.src # None => wf[ctl[c].req.src].status # "absent"

\* A workflow is the output of one job, which gives it away when others read it.
OneProducer ==
    \A i, j \in Job : job[i] # None /\ job[j] # None /\ job[i].out # None =>
        /\ job[i].out = job[j].out => i = j
        /\ job[i].out = job[j].src => wf[job[i].out].job # i

\* A job owns all its rows until they are complete.
KeptWhole == \A j \in Job : job[j] # None => Owns(j) \/ AllAre(j, "complete")

Owning == RowsNameJobs /\ OneProducer /\ KeptWhole /\ UniformJob /\ NeighbourhoodExclusive

\* A runner holds all rows of its job, which has no other runner.
Holds(j) == Owns(j) /\ (Whole(j, "processing") \/ Whole(j, "failed"))
Running ==
    /\ \A k \in Worker : worker[k].pc # "idle" => Holds(worker[k].job)
    /\ \A k, l \in Worker :
          worker[k].pc # "idle" /\ worker[l].pc # "idle" /\ worker[k].job = worker[l].job => k = l

\* The instances of i in the output of a map or filter, and what its runner has read.
Expected(r, i) == IF i \in Present(r.src) /\ (r.kind = "filter" => i \in Passing) THEN 1 ELSE 0
OutputExact(r) == \A i \in Item : row[r.out][i].n = Expected(r, i)
Read(k) == {i \in Present(JobOf(k).src) : i <= worker[k].last}

\* A runner has written what it has read, and counted it.
Written(k) ==
    /\ \A i \in Item :
          row[JobOf(k).out][i].n = IF i <= worker[k].last THEN Expected(JobOf(k), i) ELSE 0
    /\ worker[k].seen = Cardinality(Read(k))

Progress ==
    \A k \in Worker :
        /\ worker[k].pc = "claimed" => worker[k].last = 0 /\ worker[k].seen = 0
        /\ worker[k].pc = "running" /\ JobOf(k).kind \in Derived => Written(k)

\* An output is exact once it is complete, and still when the job has given it away.
OutputsExact ==
    \A j \in Job :
        /\ job[j] # None /\ job[j].kind \in Derived
        /\ wf[job[j].out].job # j \/ wf[job[j].out].status = "complete"
        => OutputExact(job[j])

GroupsExact ==
    \A g \in Grouping : /\ assigned[g] \subseteq Present(g[1])
                        /\ gr[g].status = "complete" => assigned[g] = Present(g[1])

\* What a runner adds to an output has the schema of the output.
NewSchemas ==
    \A j \in Job :
        /\ job[j] # None /\ job[j].kind \in {"map", "label_source"}
        /\ wf[job[j].out].job = j
        => wf[job[j].out].schema = {}

FilterSchemas ==
    \A k \in Worker :
        worker[k].pc = "running" /\ JobOf(k).kind = "filter" =>
            wf[JobOf(k).out].schema = wf[JobOf(k).src].schema

Exact ==
    /\ Progress /\ OutputsExact /\ GroupsExact
    /\ NewSchemas /\ FilterSchemas /\ InstancesMatchSchema

IInv == TypeOK /\ Owning /\ Running /\ Exact

-----------------------------------------------------------------------------
(***************************************************************************)
(* Types.                                                                  *)
(***************************************************************************)
Ctl == [pc : {"idle", "read", "queued", "unpublished"}, job : Job \cup {None}, req : Request \cup {None}]
Runner == [pc : {"idle", "claimed", "running"}, job : Job \cup {None}, last : Nat, seen : Nat, goal : Nat]

\* The job id of a new job is a free one.
LEMMA FreeJob ==
  ASSUME NEW j, j = (CHOOSE k \in Job : job[k] = None), \E k \in Job : job[k] = None
  PROVE  j \in Job /\ job[j] = None
  OBVIOUS

\* Asking for a job keeps the types when the request is well formed.
LEMMA AsksType ==
  ASSUME TypeOK, NEW c \in Client, NEW r, WellFormed(r), Asks(c, r)
  PROVE  TypeOK'
<1>1. [pc |-> "read", job |-> None, req |-> r] \in Ctl
  BY DEF Ctl, WellFormed
<1>2. ctl' \in [Client -> Ctl]
  BY <1>1 DEF TypeOK, Asks, Ctl
<1>3. \A d \in Client : d # c => ctl'[d] = ctl[d]
  BY DEF Asks, TypeOK
<1>4. ctl'[c] = [pc |-> "read", job |-> None, req |-> r]
  BY DEF Asks, TypeOK
<1>5. \A d \in Client :
          /\ ctl'[d].pc = "read" => WellFormed(ctl'[d].req)
          /\ ctl'[d].pc \in {"queued", "unpublished"} =>
                ctl'[d].job \in Job /\ job[ctl'[d].job] # None
  BY <1>3, <1>4 DEF TypeOK
<1>6. UNCHANGED <<wf, gr, row, assigned, job, worker, queue, lost>>
  BY DEF Asks
<1> QED
  BY <1>2, <1>5, <1>6 DEF TypeOK, Ctl, WellFormed, WellFormedJob

\* A new request names what it needs.
LEMMA NewRequestWellFormed ==
  ASSUME TypeOK, NEW w \in Workflow, NEW kind \in Kind
  PROVE  /\ kind = "label_source" => WellFormed(NewRequest(kind, None))
         /\ kind \in Derived => WellFormed(NewRequest(kind, w))
         /\ \A f \in Field : kind = "annotation" =>
               WellFormed([NewRequest(kind, w) EXCEPT !.field = f])
         /\ \A fn \in Function : kind = "group" =>
               WellFormed([NewRequest(kind, w) EXCEPT !.fn = fn])
<1>1. wf[w].schema \in SUBSET Field
  BY DEF TypeOK, WfRow
<1>2. NewRequest(kind, None) \in Request /\ NewRequest(kind, w) \in Request
  BY <1>1 DEF NewRequest, Request
<1> QED
  BY <1>1, <1>2, NoneAssumption DEF WellFormed, NewRequest, Request, Derived, Kind

LEMMA AskType ==
  ASSUME TypeOK, Ask
  PROVE  TypeOK'
<1>1. PICK c \in Client : \/ AskLabelSource(c)
                          \/ \E w \in Workflow, f \in Field : AskAnnotation(c, w, f)
                          \/ \E w \in Workflow, kind \in Kind : AskDerived(c, w, kind)
                          \/ \E w \in Workflow, fn \in Function : AskGroup(c, w, fn)
  BY DEF Ask
<1>2. CASE AskLabelSource(c)
  <2>1. WellFormed(NewRequest("label_source", None))
    BY NoneAssumption DEF WellFormed, NewRequest, Request, Kind
  <2> QED
    BY <1>2, <2>1, AsksType DEF AskLabelSource
<1>3. ASSUME NEW w \in Workflow, NEW f \in Field, AskAnnotation(c, w, f) PROVE TypeOK'
  BY <1>3, NewRequestWellFormed, AsksType DEF AskAnnotation, Kind
<1>4. ASSUME NEW w \in Workflow, NEW kind \in Kind, AskDerived(c, w, kind) PROVE TypeOK'
  BY <1>4, NewRequestWellFormed, AsksType DEF AskDerived, Derived
<1>5. ASSUME NEW w \in Workflow, NEW fn \in Function, AskGroup(c, w, fn) PROVE TypeOK'
  BY <1>5, NewRequestWellFormed, AsksType DEF AskGroup, Kind
<1> QED
  BY <1>1, <1>2, <1>3, <1>4, <1>5

\* Clients that finish or stay, with jobs that stay, keep their types.
LEMMA ClientType ==
  ASSUME TypeOK, UNCHANGED <<wf, gr, row, assigned, job, worker>>, NEW c \in Client,
         NEW d \in Ctl, ctl' = [ctl EXCEPT ![c] = d],
         d.pc \in {"queued", "unpublished"} => d.job \in Job /\ job[d.job] # None,
         d.pc # "read",
         queue' \subseteq Job, \A j \in queue' : job[j] # None, lost' \subseteq Job
  PROVE  TypeOK'
<1>1. ctl' \in [Client -> Ctl]
  BY DEF TypeOK, Ctl
<1>2. \A e \in Client : ctl'[e] = IF e = c THEN d ELSE ctl[e]
  BY DEF TypeOK
<1>3. \A e \in Client :
          /\ ctl'[e].pc = "read" => WellFormed(ctl'[e].req)
          /\ ctl'[e].pc \in {"queued", "unpublished"} =>
                ctl'[e].job \in Job /\ job[ctl'[e].job] # None
  BY <1>2 DEF TypeOK
<1> QED
  BY <1>1, <1>3 DEF TypeOK, Ctl, WellFormed, WellFormedJob

LEMMA IdleTypes == IdleClient \in Ctl /\ IdleWorker \in Runner /\ IdleClient.pc = "idle"
  BY DEF IdleClient, IdleWorker, Ctl, Runner

\* A move writes a status of the type.
LEMMA MoveType ==
  ASSUME TypeOK, NEW j, NEW from, NEW to \in Status, Move(j, from, to)
  PROVE  wf' \in [Workflow -> WfRow] /\ gr' \in [Grouping -> GrRow]
<1>1. CASE Whole(j, from)
  <2>1. wf' = [w \in Workflow |-> IF wf[w].job = j THEN [wf[w] EXCEPT !.status = to] ELSE wf[w]]
    BY <1>1 DEF Move
  <2>2. gr' = [g \in Grouping |-> IF gr[g].job = j THEN [gr[g] EXCEPT !.status = to] ELSE gr[g]]
    BY <1>1 DEF Move
  <2>3. \A r \in WfRow : [r EXCEPT !.status = to] \in WfRow
    BY DEF WfRow
  <2>5. \A w \in Workflow : wf[w] \in WfRow
    BY DEF TypeOK
  <2>4. \A g \in Grouping : gr[g] \in GrRow /\ [gr[g] EXCEPT !.status = to] \in GrRow
    BY DEF TypeOK, GrRow
  <2> QED
    BY <2>1, <2>2, <2>3, <2>4, <2>5
<1> QED
  BY <1>1 DEF Move, TypeOK

LEMMA ReserveType ==
  ASSUME TypeOK, NEW c \in Client, NEW out \in Workflow \cup {None}, Reserve(c, out)
  PROVE  TypeOK'
<1> DEFINE j  == CHOOSE k \in Job : job[k] = None
           r  == [ctl[c].req EXCEPT !.out = out]
           ws == {r.src, out} \ {None}
           gs == IF r.kind = "group" THEN {<<r.src, r.fn>>} ELSE {}
           schema == IF r.kind = "filter" THEN r.schema ELSE {}
<1>1. ctl[c].pc = "read" /\ \E k \in Job : job[k] = None
  BY DEF Reserve
<1>2. j \in Job /\ job[j] = None
  BY <1>1, FreeJob
<1>3. WellFormed(ctl[c].req)
  BY <1>1 DEF TypeOK
<1>4. WellFormed(r) /\ r.out = out /\ r.kind = ctl[c].req.kind
  BY <1>3 DEF WellFormed, Request
<1>5. r.kind \in Derived \cup {"label_source"} <=> r.out # None
  BY <1>4 DEF Reserve, Derived
<1>6. WellFormedJob(r) /\ r # None
  BY <1>4, <1>5, RequestAssumption DEF WellFormedJob, WellFormed
<1>7. CASE UNCHANGED <<wf, gr, job>>
  <2>1. Refused(c) \/ ctl' = [ctl EXCEPT ![c] = [pc |-> "queued", job |-> j, req |-> r]]
    BY DEF Reserve
  <2>2. CASE Refused(c)
    BY <2>2, IdleTypes, ClientType DEF Refused, TypeOK
  <2>3. CASE job' = [job EXCEPT ![j] = r]
    BY <2>3, <1>2, <1>6, <1>7 DEF TypeOK
  <2> QED
    BY <2>1, <2>2, <2>3, <1>7 DEF Reserve
<1>8. CASE ~UNCHANGED <<wf, gr, job>>
  <2> HIDE DEF j, r, ws, gs, schema
  <2>1. /\ wf' = [w \in Workflow |->
                    IF w \in ws
                    THEN [status |-> "pending", job |-> j,
                          schema |-> IF w = out THEN schema ELSE wf[w].schema]
                    ELSE wf[w]]
        /\ gr' = [g \in Grouping |-> IF g \in gs THEN [status |-> "pending", job |-> j] ELSE gr[g]]
        /\ job' = [job EXCEPT ![j] = r]
        /\ ctl' = [ctl EXCEPT ![c] = [pc |-> "queued", job |-> j, req |-> r]]
        /\ UNCHANGED <<row, assigned, worker, queue, lost>>
    BY <1>8 DEF Reserve, Refused, j, r, ws, gs, schema
  <2>2. schema \in SUBSET Field
    BY <1>4 DEF schema, WellFormed, Request
  <2>3. \A w \in Workflow : wf[w] \in WfRow /\ wf[w].schema \in SUBSET Field
    BY DEF TypeOK, WfRow
  <2>4. \A f \in SUBSET Field : [status |-> "pending", job |-> j, schema |-> f] \in WfRow
    BY <1>2 DEF WfRow, Status
  <2>5. wf' \in [Workflow -> WfRow]
    BY <2>1, <2>2, <2>3, <2>4
  <2>6. gr' \in [Grouping -> GrRow]
    BY <2>1, <1>2 DEF TypeOK, GrRow, Status
  <2>7. job' \in [Job -> Request \cup {None}] /\ \A k \in Job : job'[k] = IF k = j THEN r ELSE job[k]
    BY <2>1, <1>2, <1>4 DEF TypeOK, WellFormed
  <2>8. \A k \in Job : /\ job'[k] # None => WellFormedJob(job'[k])
                       /\ job[k] # None => job'[k] # None
    BY <2>7, <1>6 DEF TypeOK
  <2>9. [pc |-> "queued", job |-> j, req |-> r] \in Ctl
    BY <1>2, <1>4 DEF Ctl, WellFormed
  <2>10. ctl' \in [Client -> Ctl]
    BY <2>1, <2>9 DEF TypeOK, Ctl
  <2>11. \A d \in Client : ctl'[d] = IF d = c THEN [pc |-> "queued", job |-> j, req |-> r] ELSE ctl[d]
    BY <2>1 DEF TypeOK
  <2>12. \A d \in Client :
            /\ ctl'[d].pc = "read" => WellFormed(ctl'[d].req)
            /\ ctl'[d].pc \in {"queued", "unpublished"} =>
                  ctl'[d].job \in Job /\ job'[ctl'[d].job] # None
    BY <2>11, <2>7, <2>8, <1>2, <1>6 DEF TypeOK
  <2> HIDE DEF TypeOK
  <2>13. \A k \in Worker : worker'[k].pc # "idle" => worker'[k].job \in Job /\ job'[worker'[k].job] # None
    BY <2>1, <2>8 DEF TypeOK
  <2>14. \A k \in queue' : job'[k] # None
    BY <2>1, <2>8 DEF TypeOK
  <2>15. /\ row' \in [Workflow -> [Item -> Instance]]
         /\ assigned' \in [Grouping -> SUBSET Item]
         /\ worker' \in [Worker -> Runner]
         /\ queue' \subseteq Job /\ lost' \subseteq Job
    BY <2>1 DEF TypeOK, Runner
  <2> QED
    BY <2>5, <2>6, <2>7, <2>8, <2>10, <2>12, <2>13, <2>14, <2>15 DEF TypeOK, Ctl, Runner, WellFormed, WellFormedJob
<1> QED
  BY <1>7, <1>8

LEMMA PublicationType ==
  ASSUME TypeOK, NEW c \in Client, Publish(c) \/ PublishFails(c) \/ ApiDies(c)
  PROVE  TypeOK'
<1>1. ctl[c] \in Ctl
  BY DEF TypeOK, Ctl
<1>2. CASE Publish(c)
  BY <1>2, IdleTypes, ClientType DEF Publish, TypeOK
<1>3. CASE PublishFails(c)
  <2>1. [ctl[c] EXCEPT !.pc = "unpublished"] \in Ctl
    BY <1>1 DEF Ctl
  <2>2. ctl' = [ctl EXCEPT ![c] = [ctl[c] EXCEPT !.pc = "unpublished"]]
    BY <1>3 DEF PublishFails
  <2>3. [ctl[c] EXCEPT !.pc = "unpublished"].job = ctl[c].job /\ [ctl[c] EXCEPT !.pc = "unpublished"].pc = "unpublished"
    BY <1>1 DEF Ctl
  <2>4. ctl[c].job \in Job /\ job[ctl[c].job] # None
    BY <1>3 DEF PublishFails, TypeOK
  <2>5. queue' \subseteq Job /\ (\A j \in queue' : job[j] # None) /\ lost' \subseteq Job
    BY <1>3, <2>4 DEF PublishFails, TypeOK
  <2>6. UNCHANGED <<wf, gr, row, assigned, job, worker>>
    BY <1>3 DEF PublishFails
  <2> DEFINE d == [ctl[c] EXCEPT !.pc = "unpublished"]
  <2>7. d \in Ctl /\ ctl' = [ctl EXCEPT ![c] = d] /\ d.pc = "unpublished" /\ d.job = ctl[c].job
    BY <2>1, <2>2, <2>3
  <2> HIDE DEF d
  <2> QED
    BY <2>4, <2>5, <2>6, <2>7, ClientType
<1>4. CASE ApiDies(c)
  <2>1. lost' \subseteq Job
    BY <1>1, <1>4 DEF ApiDies, TypeOK, Ctl
  <2> QED
    BY <1>4, <2>1, IdleTypes, ClientType DEF ApiDies, TypeOK
<1> QED
  BY <1>2, <1>3, <1>4

LEMMA AbortType ==
  ASSUME TypeOK, NEW c \in Client, Abort(c)
  PROVE  TypeOK'
<1>1. wf' \in [Workflow -> WfRow] /\ gr' \in [Grouping -> GrRow]
  BY MoveType DEF Abort, Status
<1>2. ctl' \in [Client -> Ctl] /\ \A d \in Client : ctl'[d] = IF d = c THEN IdleClient ELSE ctl[d]
  BY IdleTypes DEF Abort, TypeOK, Ctl
<1>3. UNCHANGED <<row, assigned, job, worker, queue, lost>>
  BY DEF Abort
<1>4. \A d \in Client :
          /\ ctl'[d].pc = "read" => WellFormed(ctl'[d].req)
          /\ ctl'[d].pc \in {"queued", "unpublished"} =>
                ctl'[d].job \in Job /\ job'[ctl'[d].job] # None
  BY <1>2, <1>3, IdleTypes DEF TypeOK
<1> QED
  BY <1>1, <1>2, <1>3, <1>4 DEF TypeOK, Ctl, WellFormed, WellFormedJob

-----------------------------------------------------------------------------
(***************************************************************************)
(* Batches of a finite set of numbers.                                     *)
(***************************************************************************)
LEMMA ItemsFinite ==
  ASSUME NEW S \in SUBSET Item
  PROVE  IsFiniteSet(S) /\ Cardinality(S) \in Nat
<1>1. IsFiniteSet(Item)
  BY FS_Interval, SizeAssumption DEF Item
<1>2. IsFiniteSet(S)
  BY <1>1, FS_Subset
<1> QED
  BY <1>2, FS_CardinalityType

\* A nonempty set of items has a greatest element.
LEMMA Greatest ==
  ASSUME NEW S \in SUBSET Item, S # {}
  PROVE  \E m \in S : \A i \in S : i <= m
<1> DEFINE T == {n \in Nat : \E i \in S : n = Items - i}
<1>1. \A i \in S : i \in Nat /\ i <= Items
  BY SizeAssumption DEF Item
<1>2. T \subseteq Nat /\ T # {}
  <2>1. PICK i \in S : TRUE
    OBVIOUS
  <2>2. Items - i \in Nat
    BY <1>1, SizeAssumption
  <2> QED
    BY <2>2
<1>3. PICK n \in T : \A y \in T : ~(<<y, n>> \in OpToRel(<, Nat))
  BY <1>2, NatLessThanWellFounded, WFMin
<1>4. PICK m \in S : n = Items - m
  BY <1>3
<1>5. ASSUME NEW i \in S PROVE i <= m
  <2>1. Items - i \in T
    BY <1>1, SizeAssumption
  <2>2. ~(Items - i < n)
    BY <1>3, <2>1, <1>2 DEF OpToRel
  <2> QED
    BY <2>2, <1>4, <1>1, SizeAssumption
<1> QED
  BY <1>5

Last(B) == CHOOSE m \in B : \A i \in B : i <= m

\* A batch is an initial segment: it has all elements up to its last one.
LEMMA BatchSegment ==
  ASSUME NEW S \in SUBSET Item, Batch(S) # {}
  PROVE  /\ Batch(S) \in SUBSET S
         /\ Last(Batch(S)) \in Batch(S)
         /\ \A i \in S : i \in Batch(S) <=> i <= Last(Batch(S))
<1> DEFINE m == Last(Batch(S))
<1>1. Batch(S) \in SUBSET S
  BY DEF Batch
<1>2. m \in Batch(S) /\ \A i \in Batch(S) : i <= m
  BY <1>1, Greatest DEF Last
<1> HIDE DEF m
<1>3. ASSUME NEW i \in S, i <= m PROVE i \in Batch(S)
  <2> DEFINE Below(x) == {h \in S : h < x}
  <2>1. \A h \in S : h \in Nat
    BY SizeAssumption DEF Item
  <2>2. i \in Nat /\ m \in Nat
    BY <2>1, <1>1, <1>2
  <2>8. \A h \in S : h < i => h < m
    BY <2>1, <2>2, <1>3
  <2>3. Below(i) \in SUBSET Below(m)
    BY <2>8
  <2>4. IsFiniteSet(Below(m)) /\ Cardinality(Below(m)) \in Nat /\ Cardinality(Below(i)) \in Nat
    BY ItemsFinite
  <2>5. Cardinality(Below(i)) <= Cardinality(Below(m))
    BY <2>3, <2>4, FS_Subset
  <2>6. Cardinality(Below(m)) < BatchSize
    BY <1>2 DEF Batch
  <2>7. Cardinality(Below(i)) < BatchSize
    BY <2>4, <2>5, <2>6, SizeAssumption
  <2> QED
    BY <2>7 DEF Batch
<1>4. \A i \in S : i \in Batch(S) <=> i <= m
  BY <1>2, <1>3
<1> QED
  BY <1>1, <1>2, <1>4 DEF m

\* The number of batches of n instances.
LEMMA BatchesType ==
  ASSUME NEW n \in Nat
  PROVE  Batches(n) \in Nat
<1>1. BatchSize \in Nat /\ BatchSize > 0 /\ n + BatchSize - 1 \in Nat
  BY SizeAssumption
<1>2. \A a \in Nat, b \in Nat : b > 0 => a \div b \in Nat
  BY SMT
<1> QED
  BY <1>1, <1>2 DEF Batches

-----------------------------------------------------------------------------
(***************************************************************************)
(* Types, continued: the runners.                                          *)
(***************************************************************************)
LEMMA RunnerType ==
  ASSUME TypeOK,
         wf' \in [Workflow -> WfRow], gr' \in [Grouping -> GrRow],
         row' \in [Workflow -> [Item -> Instance]], assigned' \in [Grouping -> SUBSET Item],
         UNCHANGED <<job, ctl>>,
         worker' \in [Worker -> Runner],
         \A k \in Worker : worker'[k].pc # "idle" => worker'[k].job \in Job /\ job[worker'[k].job] # None,
         queue' \subseteq queue, lost' \subseteq Job
  PROVE  TypeOK'
<1>1. /\ \A j \in Job : job'[j] # None => WellFormedJob(job'[j])
      /\ \A c \in Client :
            /\ ctl'[c].pc = "read" => WellFormed(ctl'[c].req)
            /\ ctl'[c].pc \in {"queued", "unpublished"} =>
                  ctl'[c].job \in Job /\ job'[ctl'[c].job] # None
  BY DEF TypeOK
<1>2. \A j \in queue' : job'[j] # None
  BY DEF TypeOK
<1>3. job' \in [Job -> Request \cup {None}] /\ ctl' \in [Client -> Ctl] /\ queue' \subseteq Job
  BY DEF TypeOK, Ctl
<1> QED
  BY <1>1, <1>2, <1>3 DEF TypeOK, Runner, Ctl, WellFormed, WellFormedJob

\* One worker changes, to a state of the type.
LEMMA OneWorkerType ==
  ASSUME TypeOK, NEW k \in Worker, NEW v \in Runner, worker' = [worker EXCEPT ![k] = v],
         v.pc # "idle" => v.job \in Job /\ job[v.job] # None
  PROVE  /\ worker' \in [Worker -> Runner]
         /\ \A l \in Worker : worker'[l] = IF l = k THEN v ELSE worker[l]
         /\ \A l \in Worker : worker'[l].pc # "idle" => worker'[l].job \in Job /\ job[worker'[l].job] # None
<1>1. worker' \in [Worker -> Runner]
  BY DEF TypeOK, Runner
<1>2. \A l \in Worker : worker'[l] = IF l = k THEN v ELSE worker[l]
  BY DEF TypeOK
<1> QED
  BY <1>1, <1>2 DEF TypeOK

LEMMA ClaimType ==
  ASSUME TypeOK, NEW k \in Worker, NEW j \in queue, NEW rest \in SUBSET queue, Claim(k, j, rest)
  PROVE  TypeOK'
<1> DEFINE v == [IdleWorker EXCEPT !.pc = "claimed", !.job = j]
<1>1. j \in Job /\ job[j] # None
  BY DEF TypeOK
<1>2. v \in Runner /\ v.job = j
  BY <1>1 DEF IdleWorker, Runner
<1>3. wf' \in [Workflow -> WfRow] /\ gr' \in [Grouping -> GrRow]
  BY MoveType DEF Claim, Status
<1>4. UNCHANGED <<row, assigned, job, ctl, lost>> /\ queue' = rest
  BY DEF Claim
<1>5. worker' = [worker EXCEPT ![k] = v] \/ worker' = worker
  BY DEF Claim
<1> HIDE DEF v
<1>6. worker' \in [Worker -> Runner]
      /\ \A l \in Worker : worker'[l].pc # "idle" => worker'[l].job \in Job /\ job[worker'[l].job] # None
  <2>1. CASE worker' = worker
    BY <2>1 DEF TypeOK, Runner
  <2>2. CASE worker' = [worker EXCEPT ![k] = v]
    BY <2>2, <1>1, <1>2, OneWorkerType
  <2> QED
    BY <2>1, <2>2, <1>5
<1>7. row' \in [Workflow -> [Item -> Instance]] /\ assigned' \in [Grouping -> SUBSET Item] /\ lost' \subseteq Job
  BY <1>4 DEF TypeOK
<1> QED
  BY <1>3, <1>4, <1>6, <1>7, RunnerType

LEMMA ClaimRaisesType ==
  ASSUME TypeOK, NEW k \in Worker, NEW j \in queue, ClaimRaises(k, j)
  PROVE  TypeOK'
<1>1. wf' \in [Workflow -> WfRow] /\ gr' \in [Grouping -> GrRow]
  BY MoveType DEF ClaimRaises, Status
<1> QED
  BY <1>1, RunnerType DEF ClaimRaises, TypeOK, Runner

\* A worker goes idle.
LEMMA RaiseType ==
  ASSUME TypeOK, NEW k \in Worker, Raise(k)
  PROVE  TypeOK'
<1>1. wf' \in [Workflow -> WfRow] /\ gr' \in [Grouping -> GrRow]
  BY MoveType DEF Raise, Status
<1>2. /\ worker' \in [Worker -> Runner]
      /\ \A l \in Worker : worker'[l].pc # "idle" => worker'[l].job \in Job /\ job[worker'[l].job] # None
  BY OneWorkerType, IdleTypes DEF Raise, IdleWorker
<1> QED
  BY <1>1, <1>2, RunnerType DEF Raise, TypeOK

LEMMA WorkerDiesType ==
  ASSUME TypeOK, NEW k \in Worker, WorkerDies(k)
  PROVE  TypeOK'
<1>1. /\ worker' \in [Worker -> Runner]
      /\ \A l \in Worker : worker'[l].pc # "idle" => worker'[l].job \in Job /\ job[worker'[l].job] # None
  BY OneWorkerType, IdleTypes DEF WorkerDies, IdleWorker
<1>2. lost' \subseteq Job
  BY DEF WorkerDies, TypeOK
<1> QED
  BY <1>1, <1>2, RunnerType DEF WorkerDies, TypeOK

LEMMA InspectType ==
  ASSUME TypeOK, NEW k \in Worker, Inspect(k)
  PROVE  TypeOK'
<1> DEFINE r == JobOf(k)
           n == CASE r.kind = "group" -> Cardinality(Present(r.src) \ assigned[<<r.src, r.fn>>])
                  [] r.kind \in {"map", "filter"} -> Cardinality(Present(r.src))
                  [] OTHER -> 0
           v == [worker[k] EXCEPT !.pc = "running", !.goal = Batches(n)]
<1>1. CASE Fit(r)
  <2>1. \A S \in SUBSET Item : Cardinality(S) \in Nat
    BY ItemsFinite
  <2>2. Present(r.src) \in SUBSET Item
    BY DEF Present
  <2>3. n \in Nat
    BY <2>1, <2>2
  <2>4. Batches(n) \in Nat
    BY <2>3, BatchesType
  <2>5. worker[k] \in Runner /\ worker[k].pc # "idle"
    BY DEF TypeOK, Runner, Inspect
  <2>6. v \in Runner /\ v.job = worker[k].job /\ v.pc = "running"
    BY <2>4, <2>5 DEF Runner
  <2>7. worker' = [worker EXCEPT ![k].pc = "running", ![k].goal = Batches(n)]
        /\ UNCHANGED <<wf, gr, row, assigned, job, ctl, queue, lost>>
    BY <1>1 DEF Inspect
  <2> HIDE DEF n
  <2>8. worker' = [worker EXCEPT ![k] = v]
    BY <2>7 DEF TypeOK
  <2>9. v.job \in Job /\ job[v.job] # None
    BY <2>5, <2>6 DEF TypeOK
  <2> HIDE DEF v
  <2>10. /\ worker' \in [Worker -> Runner]
         /\ \A l \in Worker : worker'[l].pc # "idle" => worker'[l].job \in Job /\ job[worker'[l].job] # None
    BY <2>6, <2>8, <2>9, OneWorkerType
  <2> QED
    BY <2>7, <2>10, RunnerType DEF TypeOK
<1>2. CASE ~Fit(r)
  BY <1>2, RaiseType DEF Inspect
<1> QED
  BY <1>1, <1>2

\* The job of a runner, and the items it has still to read.
LEMMA RunnersJob ==
  ASSUME TypeOK, NEW k \in Worker, worker[k].pc # "idle"
  PROVE  /\ worker[k] \in Runner /\ worker[k].job \in Job
         /\ JobOf(k) \in Request /\ WellFormedJob(JobOf(k))
         /\ JobOf(k).kind \in Derived => JobOf(k).src \in Workflow /\ JobOf(k).out \in Workflow
         /\ JobOf(k).kind = "label_source" => JobOf(k).out \in Workflow
         /\ JobOf(k).kind = "annotation" => JobOf(k).src \in Workflow /\ JobOf(k).field \in Field
         /\ JobOf(k).kind # "annotation" => JobOf(k).field = None
         /\ JobOf(k).kind = "group" => JobOf(k).src \in Workflow /\ JobOf(k).fn \in Function
<1>1. worker[k] \in Runner /\ worker[k].job \in Job /\ JobOf(k) # None
  BY DEF TypeOK, Runner, JobOf
<1>2. WellFormedJob(JobOf(k)) /\ WellFormed(JobOf(k)) /\ JobOf(k) \in Request
  BY <1>1 DEF TypeOK, WellFormedJob, WellFormed, JobOf
<1> QED
  BY <1>1, <1>2 DEF WellFormedJob, WellFormed, Request, Derived

LEMMA RemainingItems ==
  ASSUME NEW k
  PROVE  Remaining(k) \in SUBSET Item
  BY DEF Remaining, Present

LEMMA DeriveBatchType ==
  ASSUME TypeOK, NEW k \in Worker, DeriveBatch(k)
  PROVE  TypeOK'
<1> DEFINE r == JobOf(k)
           B == Batch(Remaining(k))
           v == [worker[k] EXCEPT !.last = Last(B), !.seen = worker[k].seen + Cardinality(B),
                                  !.goal = IF worker[k].goal = 0 THEN 0 ELSE worker[k].goal - 1]
<1>0. /\ worker[k].pc = "running" /\ r.kind \in {"label_source", "map", "filter"}
      /\ B # {}
      /\ worker' = [worker EXCEPT ![k].last = Last(B), ![k].seen = @ + Cardinality(B),
                                  ![k].goal = IF @ = 0 THEN 0 ELSE @ - 1]
      /\ UNCHANGED <<wf, gr, assigned, job, ctl, queue, lost>>
  BY DEF DeriveBatch, Last
<1>1. /\ worker[k].pc = "running" /\ r.kind \in {"label_source", "map", "filter"}
      /\ B # {}
      /\ worker' = [worker EXCEPT ![k] = v]
      /\ UNCHANGED <<wf, gr, assigned, job, ctl, queue, lost>>
  <2> HIDE DEF B, r
  <2> QED
    BY <1>0 DEF TypeOK
<1>2. worker[k] \in Runner /\ r.out \in Workflow
  BY <1>1, RunnersJob DEF Derived
<1>3. B \in SUBSET Item /\ Last(B) \in Item /\ Cardinality(B) \in Nat
  BY <1>1, BatchSegment, RemainingItems, ItemsFinite
<1>4. Last(B) \in Nat
  BY <1>3, SizeAssumption DEF Item
<1>5. v \in Runner /\ v.job = worker[k].job
  <2> DEFINE goal == IF worker[k].goal = 0 THEN 0 ELSE worker[k].goal - 1
             seen == worker[k].seen + Cardinality(B)
  <2>1. goal \in Nat
    BY <1>2 DEF Runner
  <2>2. seen \in Nat
    BY <1>2, <1>3 DEF Runner
  <2> HIDE DEF B, goal, seen
  <2>3. [worker[k] EXCEPT !.last = Last(B), !.seen = seen, !.goal = goal] \in Runner
    BY <1>2, <1>4, <2>1, <2>2 DEF Runner
  <2>4. [worker[k] EXCEPT !.last = Last(B), !.seen = seen, !.goal = goal].job = worker[k].job
    BY <1>2 DEF Runner
  <2> QED
    BY <2>3, <2>4 DEF goal, seen
<1>6. v.job \in Job /\ job[v.job] # None
  BY <1>1, <1>5 DEF TypeOK
<1>7. row' \in [Workflow -> [Item -> Instance]]
  <2>1. PICK new \in SUBSET B : row' = [row EXCEPT ![r.out] = [i \in Item |->
                          IF i \in new
                          THEN [n |-> row[r.out][i].n + 1,
                                fields |-> IF r.kind = "filter" THEN row[r.src][i].fields ELSE {},
                                rev |-> IF r.kind = "filter" THEN row[r.src][i].rev ELSE 0]
                          ELSE row[r.out][i]]]
    BY DEF DeriveBatch
  <2>2. \A i \in Item : row[r.out][i] \in Instance /\ row[r.out][i].n \in Nat
    BY <1>2 DEF TypeOK, Instance
  <2>3. r.kind = "filter" => \A i \in Item : row[r.src][i].fields \in SUBSET Field /\ row[r.src][i].rev \in Nat
    BY <1>1, RunnersJob DEF TypeOK, Instance, Derived
  <2> DEFINE next(i) == [n |-> row[r.out][i].n + 1,
                         fields |-> IF r.kind = "filter" THEN row[r.src][i].fields ELSE {},
                         rev |-> IF r.kind = "filter" THEN row[r.src][i].rev ELSE 0]
  <2>4. \A i \in Item : next(i) \in Instance
    BY <2>2, <2>3 DEF Instance
  <2>5. row' = [row EXCEPT ![r.out] = [i \in Item |-> IF i \in new THEN next(i) ELSE row[r.out][i]]]
    BY <2>1
  <2> HIDE DEF next
  <2>6. [i \in Item |-> IF i \in new THEN next(i) ELSE row[r.out][i]] \in [Item -> Instance]
    BY <2>2, <2>4
  <2> QED
    BY <2>5, <2>6 DEF TypeOK
<1> HIDE DEF v
<1>8. /\ worker' \in [Worker -> Runner]
      /\ \A l \in Worker : worker'[l].pc # "idle" => worker'[l].job \in Job /\ job[worker'[l].job] # None
  BY <1>1, <1>5, <1>6, OneWorkerType
<1> QED
  BY <1>1, <1>7, <1>8, RunnerType DEF TypeOK

LEMMA GroupBatchType ==
  ASSUME TypeOK, NEW k \in Worker, GroupBatch(k)
  PROVE  TypeOK'
<1> DEFINE v == [worker[k] EXCEPT !.goal = worker[k].goal - 1]
<1>1. /\ worker[k].pc = "running" /\ worker[k].goal > 0
      /\ worker' = [worker EXCEPT ![k] = v]
      /\ UNCHANGED <<wf, gr, row, job, ctl, queue, lost>>
  BY DEF GroupBatch, TypeOK
<1>2. worker[k] \in Runner
  BY <1>1, RunnersJob
<1>3. v \in Runner /\ v.job = worker[k].job
  BY <1>1, <1>2 DEF Runner
<1>4. v.job \in Job /\ job[v.job] # None
  BY <1>1, <1>3 DEF TypeOK
<1>5. assigned' \in [Grouping -> SUBSET Item]
  <2> DEFINE g == <<JobOf(k).src, JobOf(k).fn>>
  <2>1. g \in Grouping
    BY <1>1, RunnersJob DEF GroupBatch, Grouping
  <2>2. PICK new \in SUBSET Present(JobOf(k).src) : assigned' = [assigned EXCEPT ![g] = assigned[g] \cup new]
    BY DEF GroupBatch
  <2>3. new \in SUBSET Item
    BY <2>2 DEF Present
  <2> QED
    BY <2>1, <2>2, <2>3 DEF TypeOK
<1> HIDE DEF v
<1>6. /\ worker' \in [Worker -> Runner]
      /\ \A l \in Worker : worker'[l].pc # "idle" => worker'[l].job \in Job /\ job[worker'[l].job] # None
  BY <1>1, <1>3, <1>4, OneWorkerType
<1> QED
  BY <1>1, <1>5, <1>6, RunnerType DEF TypeOK

LEMMA CompleteType ==
  ASSUME TypeOK, NEW k \in Worker, Complete(k)
  PROVE  TypeOK'
<1> DEFINE j == worker[k].job
           r == job[j]
<1>1. worker[k].pc = "running"
  BY DEF Complete
<1>2. CASE ~Whole(j, "processing")
  BY <1>2, RaiseType DEF Complete
<1>3. CASE Whole(j, "processing")
  <2>1. r.field \in Field \cup {None} /\ (r.kind = "annotation" => r.src \in Workflow /\ r.field \in Field)
    BY <1>1, RunnersJob DEF JobOf, Request
  <2>2. /\ wf' = [w \in Workflow |->
                    IF wf[w].job # j THEN wf[w]
                    ELSE [wf[w] EXCEPT !.status = "complete",
                                       !.schema = @ \cup ({r.field} \ {None})]]
        /\ gr' = [g \in Grouping |->
                    IF gr[g].job = j THEN [gr[g] EXCEPT !.status = "complete"] ELSE gr[g]]
        /\ row' = IF r.kind = "annotation"
                  THEN [row EXCEPT ![r.src] = [i \in Item |-> Annotated(row[r.src][i], r.field)]]
                  ELSE row
        /\ worker' = [worker EXCEPT ![k] = IdleWorker]
        /\ UNCHANGED <<assigned, job, ctl, queue, lost>>
    BY <1>3 DEF Complete
  <2>3. \A w \in Workflow : wf[w] \in WfRow /\ wf[w].schema \in SUBSET Field
    BY DEF TypeOK, WfRow
  <2>4. \A s \in SUBSET Field : s \cup ({r.field} \ {None}) \in SUBSET Field
    BY <2>1
  <2>5. \A u \in WfRow : \A s \in SUBSET Field : [u EXCEPT !.status = "complete", !.schema = s] \in WfRow
    BY DEF WfRow, Status
  <2>6. wf' \in [Workflow -> WfRow]
    BY <2>2, <2>3, <2>4, <2>5
  <2>7. gr' \in [Grouping -> GrRow]
    <3>1. \A g \in Grouping : gr[g] \in GrRow
      BY DEF TypeOK
    <3>2. \A u \in GrRow : [u EXCEPT !.status = "complete"] \in GrRow
      BY DEF GrRow, Status
    <3> QED
      BY <2>2, <3>1, <3>2
  <2>8. row' \in [Workflow -> [Item -> Instance]]
    <3>1. CASE r.kind # "annotation"
      BY <3>1, <2>2 DEF TypeOK
    <3>2. CASE r.kind = "annotation"
      <4>1. \A u \in Instance : Annotated(u, r.field) \in Instance
        BY <2>1, <3>2 DEF Instance, Annotated
      <4>2. \A i \in Item : row[r.src][i] \in Instance
        BY <2>1, <3>2 DEF TypeOK
      <4> QED
        BY <2>2, <3>2, <4>1, <4>2 DEF TypeOK
    <3> QED
      BY <3>1, <3>2
  <2>9. /\ worker' \in [Worker -> Runner]
        /\ \A l \in Worker : worker'[l].pc # "idle" => worker'[l].job \in Job /\ job[worker'[l].job] # None
    BY <2>2, OneWorkerType, IdleTypes DEF IdleWorker
  <2> QED
    BY <2>2, <2>6, <2>7, <2>8, <2>9, RunnerType DEF TypeOK
<1> QED
  BY <1>2, <1>3

LEMMA EditType ==
  ASSUME TypeOK, NEW w \in Workflow, NEW i \in Item, EditInstance(w, i)
  PROVE  TypeOK'
<1>1. row[w][i] \in Instance /\ row[w] \in [Item -> Instance]
  BY DEF TypeOK
<1>2. [row[w][i] EXCEPT !.rev = row[w][i].rev + 1] \in Instance
  BY <1>1 DEF Instance
<1>3. row' = [row EXCEPT ![w] = [row[w] EXCEPT ![i] = [row[w][i] EXCEPT !.rev = row[w][i].rev + 1]]]
  BY DEF EditInstance, TypeOK
<1>4. row' \in [Workflow -> [Item -> Instance]]
  BY <1>1, <1>2, <1>3 DEF TypeOK
<1> QED
  BY <1>4, RunnerType DEF EditInstance, TypeOK, Runner

LEMMA LoseMessageType ==
  ASSUME TypeOK, NEW j \in queue, LoseMessage(j)
  PROVE  TypeOK'
  BY RunnerType DEF LoseMessage, TypeOK, Runner

\* Every step is one of these.
LEMMA StepCases ==
  ASSUME Next
  PROVE  \/ Ask
         \/ \E w \in Workflow, i \in Item : EditInstance(w, i)
         \/ \E c \in Client : \/ \E out \in Workflow \cup {None} : Reserve(c, out)
                              \/ Publish(c) \/ PublishFails(c) \/ ApiDies(c)
                              \/ Abort(c)
         \/ \E k \in Worker : \/ \E j \in queue : \/ \E rest \in SUBSET queue : Claim(k, j, rest)
                                                  \/ ClaimRaises(k, j)
                              \/ Inspect(k) \/ DeriveBatch(k) \/ GroupBatch(k) \/ Complete(k)
                              \/ Raise(k) \/ WorkerDies(k)
         \/ \E j \in queue : LoseMessage(j)
<1>1. \A j \in queue : queue \ {j} \in SUBSET queue /\ queue \in SUBSET queue
  OBVIOUS
<1> QED
  BY <1>1, Zenon DEF Next, Edit, Serve, Deliver, Run, Fault

LEMMA NextType ==
  ASSUME TypeOK, [Next]_vars
  PROVE  TypeOK'
<1>1. CASE UNCHANGED vars
  BY <1>1 DEF vars, TypeOK, WellFormed, WellFormedJob
<1>2. CASE Next
  BY <1>2, StepCases, AskType, EditType, ReserveType, PublicationType, AbortType, ClaimType,
     ClaimRaisesType, InspectType, DeriveBatchType, GroupBatchType, CompleteType, RaiseType,
     WorkerDiesType, LoseMessageType
<1> QED
  BY <1>1, <1>2

-----------------------------------------------------------------------------
(***************************************************************************)
(* What a step does to the rows, the runners and the requests.             *)
(***************************************************************************)
MovedTo(j, to) ==
    /\ \A w \in Workflow : /\ wf'[w].job = wf[w].job
                           /\ wf'[w].status = IF wf[w].job = j THEN to ELSE wf[w].status
    /\ \A g \in Grouping : /\ gr'[g].job = gr[g].job
                           /\ gr'[g].status = IF gr[g].job = j THEN to ELSE gr[g].status
    /\ job' = job

SchemasKept == \A w \in Workflow : wf'[w].schema = wf[w].schema

RowsKept ==
    \A w \in Workflow, i \in Item : /\ row'[w][i].n = row[w][i].n
                                    /\ row'[w][i].fields = row[w][i].fields

\* Absent workflows stay empty.
AbsentKept == \A w \in Workflow : wf[w].status = "absent" => Present(w)' = Present(w)

\* Runners go on as they are, or end.
RunnersKept == \A k \in Worker : worker'[k] = worker[k] \/ worker'[k].pc = "idle"

\* Runners go on with their jobs, or end.
JobsKept == \A k \in Worker :
    worker'[k].pc # "idle" => worker[k].pc # "idle" /\ worker'[k].job = worker[k].job

\* A request that is being read has found its source.
SourcesFound == \A c \in Client :
    ctl'[c].pc = "read" => \/ ctl'[c] = ctl[c]
                           \/ ctl'[c].req.src # None => wf[ctl'[c].req.src].status # "absent"

\* The rows of a job are workflows and groupings.
LEMMA JobRows ==
  ASSUME TypeOK, NEW j \in Job, job[j] # None
  PROVE  /\ WorkflowsOf(job[j]) \in SUBSET Workflow
         /\ GroupingsOf(job[j]) \in SUBSET Grouping
         /\ job[j].out # None => job[j].out \in Workflow /\ job[j].out \in WorkflowsOf(job[j])
         /\ job[j].src # None => job[j].src \in Workflow /\ job[j].src \in WorkflowsOf(job[j])
         /\ \A g \in GroupingsOf(job[j]) : g[1] = job[j].src /\ job[j].src # None
         /\ job[j].kind \in {"map", "filter", "label_source"} <=> job[j].out # None
         /\ job[j].kind \in Derived => job[j].src # None
<1>1. WellFormedJob(job[j])
  BY DEF TypeOK
<1> QED
  BY <1>1 DEF WellFormedJob, WellFormed, Request, WorkflowsOf, GroupingsOf, Grouping, Derived

\* A move takes a job from one busy status to another status, the whole job or nothing.
LEMMA MoveMoved ==
  ASSUME TypeOK, NEW j \in Job, NEW from, NEW to, Move(j, from, to), job' = job
  PROVE  /\ Whole(j, from) => MovedTo(j, to)
         /\ ~Whole(j, from) => UNCHANGED <<wf, gr>>
         /\ SchemasKept
<1>1. CASE Whole(j, from)
  <2>1. /\ wf' = [w \in Workflow |-> IF wf[w].job = j THEN [wf[w] EXCEPT !.status = to] ELSE wf[w]]
        /\ gr' = [g \in Grouping |-> IF gr[g].job = j THEN [gr[g] EXCEPT !.status = to] ELSE gr[g]]
    BY <1>1 DEF Move
  <2>2. /\ \A w \in Workflow : wf[w] \in WfRow
        /\ \A g \in Grouping : gr[g] \in GrRow
    BY DEF TypeOK
  <2>3. \A w \in Workflow : /\ wf'[w].job = wf[w].job
                            /\ wf'[w].status = IF wf[w].job = j THEN to ELSE wf[w].status
                            /\ wf'[w].schema = wf[w].schema
    BY <2>1, <2>2 DEF WfRow
  <2>4. \A g \in Grouping : /\ gr'[g].job = gr[g].job
                            /\ gr'[g].status = IF gr[g].job = j THEN to ELSE gr[g].status
    BY <2>1, <2>2 DEF GrRow
  <2> QED
    BY <1>1, <2>3, <2>4 DEF MovedTo, SchemasKept
<1>2. CASE ~Whole(j, from)
  BY <1>2 DEF Move, SchemasKept
<1> QED
  BY <1>1, <1>2

-----------------------------------------------------------------------------
(***************************************************************************)
(* Who owns which row.                                                     *)
(***************************************************************************)
\* A job with a busy or failed row owns all its rows.
LEMMA BusyOwns ==
  ASSUME Owning, NEW j \in Job, job[j] # None, NEW s, s # "complete", Whole(j, s)
  PROVE  Owns(j)
  BY DEF Owning, KeptWhole, Whole, AllAre

LEMMA WholeExists ==
  ASSUME Owning, TypeOK, NEW j \in Job, NEW s, Whole(j, s)
  PROVE  job[j] # None
  BY NoneAssumption DEF Owning, RowsNameJobs, Whole, MemberWorkflows, MemberGroupings, TypeOK

\* A step that touches no row of ownership keeps it.
LEMMA SteadyOwning ==
  ASSUME TypeOK, Owning, UNCHANGED <<wf, gr, job>>, SourcesFound, AbsentKept
  PROVE  Owning'
<1>1. RowsNameJobs'
  <2>1. \A w \in Workflow :
          /\ wf[w].job # None => job[wf[w].job] # None /\ w \in WorkflowsOf(job[wf[w].job])
          /\ wf[w].status \in Busy \cup {"failed"} => wf[w].job # None
          /\ wf[w].status = "absent" => wf[w].job = None /\ Present(w)' = {}
    BY DEF Owning, RowsNameJobs, AbsentKept
  <2>2. \A c \in Client : ctl'[c].pc = "read" /\ ctl'[c].req.src # None =>
                             wf[ctl'[c].req.src].status # "absent"
    BY DEF Owning, RowsNameJobs, SourcesFound
  <2> QED
    BY <2>1, <2>2 DEF Owning, RowsNameJobs, WorkflowsOf, GroupingsOf, Present
<1>2. OneProducer' /\ KeptWhole'
  BY DEF Owning, OneProducer, KeptWhole, Owns, AllAre, WorkflowsOf, GroupingsOf, MemberWorkflows, MemberGroupings
<1>3. UniformJob' /\ NeighbourhoodExclusive'
  BY DEF Owning, UniformJob, NeighbourhoodExclusive, Whole, MemberWorkflows, MemberGroupings
<1> QED
  BY <1>1, <1>2, <1>3 DEF Owning

\* A job is moved as a whole: its rows are all its own, and stay so.
LEMMA MovedOwning ==
  ASSUME TypeOK, TypeOK', Owning, NEW j \in Job, NEW from \in Busy,
         NEW to \in {"processing", "failed", "complete"},
         Whole(j, from), MovedTo(j, to), SourcesFound, AbsentKept
  PROVE  Owning'
<1>1. job[j] # None /\ Owns(j)
  BY WholeExists, BusyOwns DEF Busy
<1>2. \A i \in Job : MemberWorkflows(i)' = MemberWorkflows(i) /\ MemberGroupings(i)' = MemberGroupings(i)
  BY DEF MemberWorkflows, MemberGroupings, MovedTo
<1>3. \A i \in Job : job[i] # None /\ Owns(i) => Owns(i)'
  <2> SUFFICES ASSUME NEW i \in Job, job[i] # None, Owns(i) PROVE Owns(i)'
    OBVIOUS
  <2>1. WorkflowsOf(job[i])' = WorkflowsOf(job[i]) /\ GroupingsOf(job[i])' = GroupingsOf(job[i])
    BY DEF WorkflowsOf, GroupingsOf, MovedTo
  <2> QED
    BY <2>1, JobRows DEF Owns, MovedTo
<1>4. \A i \in Job : \A s : i # j /\ AllAre(i, s) => AllAre(i, s)'
  BY <1>2 DEF AllAre, MovedTo, MemberWorkflows, MemberGroupings
<1>5. KeptWhole'
  BY <1>1, <1>3, <1>4 DEF Owning, KeptWhole, MovedTo
<1>6. UniformJob'
  <2>1. ASSUME NEW i \in Job, MemberWorkflows(i) \cup MemberGroupings(i) # {}, i # j
        PROVE  \E s \in Status : Whole(i, s)'
    <3>1. PICK s \in Status : Whole(i, s)
      BY <2>1 DEF Owning, UniformJob
    <3> QED
      BY <3>1, <1>2, <1>4, <2>1 DEF Whole, AllAre
  <2>2. Whole(j, to)'
    BY <1>2 DEF Whole, MovedTo, MemberWorkflows, MemberGroupings
  <2> QED
    BY <2>1, <2>2, <1>2 DEF UniformJob, Status
<1>7. NeighbourhoodExclusive'
  <2> SUFFICES ASSUME NEW g \in Grouping, gr'[g].status \in Busy
               PROVE  wf'[g[1]].status \in Busy /\ wf'[g[1]].job = gr'[g].job
    BY DEF NeighbourhoodExclusive
  <2>1. g[1] \in Workflow
    BY DEF Grouping
  <2>2. CASE gr[g].job = j
    <3>1. g \in GroupingsOf(job[j])
      BY <2>2, NoneAssumption DEF Owning, RowsNameJobs
    <3>2. wf[g[1]].job = j
      BY <3>1, <1>1, JobRows DEF Owns
    <3> QED
      BY <2>1, <2>2, <3>2 DEF MovedTo
  <2>3. CASE gr[g].job # j
    BY <2>1, <2>3 DEF Owning, NeighbourhoodExclusive, MovedTo
  <2> QED
    BY <2>2, <2>3
<1>8. RowsNameJobs'
  <2>1. \A w \in Workflow : wf[w].job = j => wf[w].status # "absent"
    BY NoneAssumption DEF Owning, RowsNameJobs
  <2>2. \A w \in Workflow :
          /\ wf'[w].job # None => job[wf'[w].job] # None /\ w \in WorkflowsOf(job[wf'[w].job])
          /\ wf'[w].status \in Busy \cup {"failed"} => wf'[w].job # None
          /\ wf'[w].status = "absent" => wf'[w].job = None /\ Present(w)' = {}
    BY <2>1, NoneAssumption DEF Owning, RowsNameJobs, AbsentKept, MovedTo
  <2>3. \A g \in Grouping :
          /\ gr'[g].job # None => job[gr'[g].job] # None /\ g \in GroupingsOf(job[gr'[g].job])
          /\ gr'[g].status = "absent" <=> gr'[g].job = None
    BY NoneAssumption DEF Owning, RowsNameJobs, MovedTo
  <2>4. \A w \in Workflow : wf'[w].status = "absent" => wf[w].status = "absent"
    BY DEF MovedTo
  <2>5. \A i \in Job : job[i] # None => \A w \in WorkflowsOf(job[i]) : wf'[w].status # "absent"
    BY <2>4, JobRows DEF Owning, RowsNameJobs
  <2>6. \A c \in Client : ctl'[c].pc = "read" /\ ctl'[c].req.src # None =>
                             wf'[ctl'[c].req.src].status # "absent"
    <3>1. \A c \in Client : ctl'[c].pc = "read" /\ ctl'[c].req.src # None =>
                                wf[ctl'[c].req.src].status # "absent"
      BY DEF Owning, RowsNameJobs, SourcesFound
    <3>2. \A c \in Client : ctl'[c].pc = "read" /\ ctl'[c].req.src # None =>
                                ctl'[c].req.src \in Workflow
      BY DEF TypeOK, WellFormed, Request
    <3> QED
      BY <2>4, <3>1, <3>2
  <2> QED
    BY <2>2, <2>3, <2>5, <2>6 DEF RowsNameJobs, WorkflowsOf, GroupingsOf, Present, MovedTo
<1>9. OneProducer'
  BY JobRows DEF Owning, OneProducer, MovedTo
<1> QED
  BY <1>5, <1>6, <1>7, <1>8, <1>9 DEF Owning

-----------------------------------------------------------------------------
(***************************************************************************)
(* A granted request: new and completed rows go to a new job.              *)
(***************************************************************************)
Granted(c, j, r) ==
    /\ j \in Job /\ job[j] = None /\ ctl[c].pc = "read" /\ r.src = ctl[c].req.src
    /\ WellFormedJob(r)
    /\ r.out # None => wf[r.out].status = "absent"
    /\ Queueable(WorkflowsOf(r), GroupingsOf(r))
    /\ \A g \in GroupingsOf(r) : gr[g].status = "absent"
    /\ \A w \in Workflow :
          IF w \in WorkflowsOf(r)
          THEN /\ wf'[w].status = "pending" /\ wf'[w].job = j
               /\ wf'[w].schema = IF w # r.out THEN wf[w].schema
                                  ELSE IF r.kind = "filter" THEN r.schema ELSE {}
          ELSE wf'[w] = wf[w]
    /\ \A g \in Grouping :
          IF g \in GroupingsOf(r) THEN gr'[g].status = "pending" /\ gr'[g].job = j
                                  ELSE gr'[g] = gr[g]
    /\ \A i \in Job : job'[i] = IF i = j THEN r ELSE job[i]
    /\ \A d \in Client : ctl'[d].pc = "read" => ctl'[d] = ctl[d]
    /\ UNCHANGED <<row, assigned, worker>>

LEMMA ReserveGranted ==
  ASSUME TypeOK, NEW c \in Client, NEW out \in Workflow \cup {None}, Reserve(c, out)
  PROVE  Refused(c) \/ \E j, r : Granted(c, j, r)
<1> DEFINE j  == CHOOSE k \in Job : job[k] = None
           r  == [ctl[c].req EXCEPT !.out = out]
           ws == {r.src, out} \ {None}
           gs == IF r.kind = "group" THEN {<<r.src, r.fn>>} ELSE {}
           schema == IF r.kind = "filter" THEN r.schema ELSE {}
<1>1. ctl[c].pc = "read" /\ \E k \in Job : job[k] = None
  BY DEF Reserve
<1>2. j \in Job /\ job[j] = None
  BY <1>1, FreeJob
<1>3. WellFormed(ctl[c].req)
  BY <1>1 DEF TypeOK
<1>4. WellFormed(r) /\ r.out = out /\ r.kind = ctl[c].req.kind /\ r.src = ctl[c].req.src
  BY <1>3 DEF WellFormed, Request
<1>5. r.kind \in Derived \cup {"label_source"} <=> r.out # None
  BY <1>4 DEF Reserve, Derived
<1>6. WellFormedJob(r)
  BY <1>4, <1>5 DEF WellFormedJob
<1>7. ws = WorkflowsOf(r) /\ gs = GroupingsOf(r)
  BY <1>4 DEF WorkflowsOf, GroupingsOf
<1>8. r.out # None => wf[r.out].status = "absent"
  BY <1>4 DEF Reserve
<1>9. CASE Queueable(ws, gs) /\ \A g \in gs : gr[g].status = "absent"
  <2>1. /\ wf' = [w \in Workflow |->
                    IF w \in ws
                    THEN [status |-> "pending", job |-> j,
                          schema |-> IF w = out THEN schema ELSE wf[w].schema]
                    ELSE wf[w]]
        /\ gr' = [g \in Grouping |-> IF g \in gs THEN [status |-> "pending", job |-> j] ELSE gr[g]]
        /\ job' = [job EXCEPT ![j] = r]
        /\ ctl' = [ctl EXCEPT ![c] = [pc |-> "queued", job |-> j, req |-> r]]
        /\ UNCHANGED <<row, assigned, worker, queue, lost>>
    BY <1>9 DEF Reserve
  <2> HIDE DEF j, r, ws, gs, schema
  <2>2. \A w \in Workflow :
          IF w \in ws THEN /\ wf'[w].status = "pending" /\ wf'[w].job = j
                           /\ wf'[w].schema = IF w # out THEN wf[w].schema ELSE schema
                      ELSE wf'[w] = wf[w]
    BY <2>1
  <2>3. \A g \in Grouping :
          IF g \in gs THEN gr'[g].status = "pending" /\ gr'[g].job = j ELSE gr'[g] = gr[g]
    BY <2>1
  <2>4. \A i \in Job : job'[i] = IF i = j THEN r ELSE job[i]
    BY <2>1 DEF TypeOK
  <2>5. \A d \in Client : ctl'[d].pc = "read" => ctl'[d] = ctl[d]
    BY <2>1 DEF TypeOK
  <2>6. schema = IF r.kind = "filter" THEN r.schema ELSE {}
    BY DEF schema
  <2>7. Granted(c, j, r)
    BY <1>1, <1>2, <1>4, <1>6, <1>7, <1>8, <1>9, <2>1, <2>2, <2>3, <2>4, <2>5, <2>6 DEF Granted
  <2> QED
    BY <2>7
<1>10. CASE ~(Queueable(ws, gs) /\ \A g \in gs : gr[g].status = "absent")
  BY <1>10 DEF Reserve
<1> QED
  BY <1>9, <1>10

LEMMA GrantedOwning ==
  ASSUME TypeOK, TypeOK', Owning, NEW c \in Client, NEW j, NEW r, Granted(c, j, r)
  PROVE  Owning'
<1> DEFINE ws == WorkflowsOf(r)
           gs == GroupingsOf(r)
<1>1. j \in Job /\ job[j] = None /\ job'[j] = r /\ r # None
  BY RequestAssumption DEF Granted, WellFormedJob, WellFormed
<1>2. /\ ws \in SUBSET Workflow /\ gs \in SUBSET Grouping
      /\ r.out # None => r.out \in ws /\ r.out \in Workflow
      /\ r.src # None => r.src \in ws /\ r.src \in Workflow
      /\ \A w \in ws : w = r.src \/ w = r.out
      /\ \A g \in gs : g[1] = r.src /\ r.src # None
  BY <1>1 DEF Granted, WellFormedJob, WellFormed, Request, WorkflowsOf, GroupingsOf, Grouping
<1>3. \A i \in Job : i # j => job'[i] = job[i]
  BY DEF Granted
<1>4. r.src # None => wf[r.src].status # "absent"
  BY DEF Owning, RowsNameJobs, Granted
<1>5. r.src # r.out
  BY <1>2, <1>4, RequestAssumption, NoneAssumption DEF Granted, WellFormedJob, WellFormed, Derived
<1>6. /\ \A w \in Workflow : wf[w].job # j
      /\ \A g \in Grouping : gr[g].job # j
  BY <1>1, NoneAssumption DEF Owning, RowsNameJobs
<1>7. \A w \in Workflow : IF w \in ws THEN wf'[w].status = "pending" /\ wf'[w].job = j
                                      ELSE wf'[w] = wf[w]
  BY DEF Granted
<1>8. \A g \in Grouping : IF g \in gs THEN gr'[g].status = "pending" /\ gr'[g].job = j
                                      ELSE gr'[g] = gr[g]
  BY DEF Granted
<1>9. \A w \in ws : wf[w].status \in {"absent", "complete"}
  BY DEF Granted, Queueable
<1>10. \A g \in gs : gr[g].status = "absent" /\ gr[g].job = None
  BY <1>2 DEF Granted, Owning, RowsNameJobs
<1>11. \A i \in Job : i # j => /\ WorkflowsOf(job[i])' = WorkflowsOf(job[i])
                               /\ GroupingsOf(job[i])' = GroupingsOf(job[i])
  BY <1>3 DEF WorkflowsOf, GroupingsOf
<1>12. WorkflowsOf(job[j])' = ws /\ GroupingsOf(job[j])' = gs
  BY <1>1 DEF WorkflowsOf, GroupingsOf
<1>13. MemberWorkflows(j)' = ws /\ MemberGroupings(j)' = gs
  <2>1. \A w \in Workflow : wf'[w].job = j <=> w \in ws
    BY <1>6, <1>7
  <2>2. \A g \in Grouping : gr'[g].job = j <=> g \in gs
    BY <1>6, <1>8
  <2>3. ws \in SUBSET Workflow /\ gs \in SUBSET Grouping
    BY <1>2
  <2> HIDE DEF ws, gs
  <2> QED
    BY <2>1, <2>2, <2>3 DEF MemberWorkflows, MemberGroupings
<1>14. \A i \in Job : i # j => /\ MemberWorkflows(i)' = MemberWorkflows(i) \ ws
                               /\ MemberGroupings(i)' = MemberGroupings(i)
  <2> SUFFICES ASSUME NEW i \in Job, i # j
               PROVE  /\ MemberWorkflows(i)' = MemberWorkflows(i) \ ws
                      /\ MemberGroupings(i)' = MemberGroupings(i)
    OBVIOUS
  <2>1. \A g \in gs : gr[g].job # i
    BY <1>10, NoneAssumption
  <2> QED
    BY <1>2, <1>7, <1>8, <2>1 DEF MemberWorkflows, MemberGroupings
<1> HIDE DEF ws, gs
\* A job that loses a row was complete, in all its rows.
<1>15. \A i \in Job : MemberWorkflows(i) \cap ws # {} => AllAre(i, "complete")
  <2> SUFFICES ASSUME NEW i \in Job, NEW w \in ws, w \in MemberWorkflows(i)
               PROVE  AllAre(i, "complete")
    OBVIOUS
  <2>1. PICK s \in Status : Whole(i, s)
    BY DEF Owning, UniformJob
  <2>2. wf[w].job = i /\ w \in Workflow
    BY DEF MemberWorkflows
  <2>3. wf[w].status = "complete"
    BY <1>9, <2>2, NoneAssumption DEF Owning, RowsNameJobs
  <2> QED
    BY <2>1, <2>3 DEF Whole, AllAre
<1>16. \A i \in Job : i # j /\ AllAre(i, "complete") => AllAre(i, "complete")'
  BY <1>7, <1>8, <1>14, <1>10, NoneAssumption DEF AllAre, MemberWorkflows, MemberGroupings
<1>17. KeptWhole'
  <2> SUFFICES ASSUME NEW i \in Job, job'[i] # None
               PROVE  Owns(i)' \/ AllAre(i, "complete")'
    BY DEF KeptWhole
  <2>1. CASE i = j
    BY <2>1, <1>2, <1>7, <1>8, <1>12 DEF Owns
  <2>2. CASE i # j /\ AllAre(i, "complete")
    BY <2>2, <1>16
  <2>3. CASE i # j /\ ~AllAre(i, "complete")
    <3>1. job[i] # None /\ Owns(i)
      BY <2>3, <1>3 DEF Owning, KeptWhole
    <3>2. MemberWorkflows(i) \cap ws = {}
      BY <2>3, <1>15
    <3>3. \A w \in WorkflowsOf(job[i]) : w \in Workflow /\ w \notin ws
      BY <3>1, <3>2, JobRows DEF Owns, MemberWorkflows
    <3>4. \A g \in GroupingsOf(job[i]) : g \in Grouping /\ g \notin gs
      BY <3>1, <1>10, NoneAssumption, JobRows DEF Owns
    <3> QED
      BY <2>3, <3>1, <3>3, <3>4, <1>7, <1>8, <1>11 DEF Owns
  <2> QED
    BY <2>1, <2>2, <2>3
<1>18. UniformJob'
  <2> SUFFICES ASSUME NEW i \in Job, (MemberWorkflows(i) \cup MemberGroupings(i) # {})'
               PROVE  \E s \in Status : Whole(i, s)'
    BY DEF UniformJob
  <2>1. CASE i = j
    <3>1. Whole(i, "pending")'
      BY <2>1, <1>2, <1>7, <1>8, <1>13 DEF Whole
    <3> QED
      BY <3>1 DEF Status
  <2>2. CASE i # j /\ MemberWorkflows(i) \cap ws = {}
    <3>1. MemberWorkflows(i)' = MemberWorkflows(i) /\ MemberGroupings(i)' = MemberGroupings(i)
      BY <2>2, <1>14
    <3>2. PICK s \in Status : Whole(i, s)
      BY <3>1 DEF Owning, UniformJob
    <3>3. \A w \in MemberWorkflows(i) : w \in Workflow /\ wf'[w] = wf[w]
      BY <2>2, <1>7 DEF MemberWorkflows
    <3>4. \A g \in MemberGroupings(i) : g \in Grouping /\ gr'[g] = gr[g]
      BY <2>2, <1>8, <1>10, NoneAssumption DEF MemberGroupings
    <3> QED
      BY <3>1, <3>2, <3>3, <3>4 DEF Whole
  <2>3. CASE i # j /\ MemberWorkflows(i) \cap ws # {}
    <3>1. AllAre(i, "complete")'
      BY <2>3, <1>15, <1>16
    <3> QED
      BY <3>1 DEF AllAre, Whole, Status
  <2> QED
    BY <2>1, <2>2, <2>3
<1>19. NeighbourhoodExclusive'
  <2> SUFFICES ASSUME NEW g \in Grouping, gr'[g].status \in Busy
               PROVE  wf'[g[1]].status \in Busy /\ wf'[g[1]].job = gr'[g].job
    BY DEF NeighbourhoodExclusive
  <2>0. g[1] \in Workflow
    BY DEF Grouping
  <2>1. CASE g \in gs
    BY <2>0, <2>1, <1>2, <1>7, <1>8 DEF Busy
  <2>2. CASE g \notin gs
    <3>1. gr[g].status \in Busy /\ gr'[g] = gr[g]
      BY <2>2, <1>8
    <3>2. g[1] \notin ws
      BY <2>2, <3>1 DEF Granted, Queueable, Attached, Busy, AtRest, ws, gs
    <3> QED
      BY <2>0, <3>1, <3>2, <1>7 DEF Owning, NeighbourhoodExclusive
  <2> QED
    BY <2>1, <2>2
<1>20. RowsNameJobs'
  <2>1. \A w \in Workflow :
          /\ wf'[w].job # None => job'[wf'[w].job] # None /\ w \in WorkflowsOf(job'[wf'[w].job])
          /\ wf'[w].status \in Busy \cup {"failed"} => wf'[w].job # None
          /\ wf'[w].status = "absent" => wf'[w].job = None /\ Present(w)' = {}
    <3> SUFFICES ASSUME NEW w \in Workflow
                 PROVE  /\ wf'[w].job # None => /\ job'[wf'[w].job] # None
                                                /\ w \in WorkflowsOf(job'[wf'[w].job])
                        /\ wf'[w].status \in Busy \cup {"failed"} => wf'[w].job # None
                        /\ wf'[w].status = "absent" => wf'[w].job = None /\ Present(w)' = {}
      OBVIOUS
    <3>1. CASE w \in ws
      BY <3>1, <1>1, <1>7, <1>12, NoneAssumption DEF ws
    <3>2. CASE w \notin ws
      <4>1. wf'[w] = wf[w] /\ row' = row
        BY <3>2, <1>7 DEF Granted
      <4>2. Present(w)' = Present(w)
        BY <4>1 DEF Present
      <4>3. wf[w].job # None => wf[w].job \in Job /\ job'[wf[w].job] = job[wf[w].job]
        BY <1>3, <1>6 DEF TypeOK, WfRow
      <4> QED
        BY <4>1, <4>2, <4>3 DEF Owning, RowsNameJobs
    <3> QED
      BY <3>1, <3>2
  <2>2. \A g \in Grouping :
          /\ gr'[g].job # None => job'[gr'[g].job] # None /\ g \in GroupingsOf(job'[gr'[g].job])
          /\ gr'[g].status = "absent" <=> gr'[g].job = None
    <3> SUFFICES ASSUME NEW g \in Grouping
                 PROVE  /\ gr'[g].job # None => /\ job'[gr'[g].job] # None
                                                /\ g \in GroupingsOf(job'[gr'[g].job])
                        /\ gr'[g].status = "absent" <=> gr'[g].job = None
      OBVIOUS
    <3>1. CASE g \in gs
      BY <3>1, <1>1, <1>8, NoneAssumption DEF gs
    <3>2. CASE g \notin gs
      <4>1. gr'[g] = gr[g]
        BY <3>2, <1>8
      <4>2. gr[g].job # None => gr[g].job \in Job /\ job'[gr[g].job] = job[gr[g].job]
        BY <1>1, <1>3 DEF TypeOK, GrRow, Owning, RowsNameJobs
      <4> QED
        BY <4>1, <4>2 DEF Owning, RowsNameJobs
    <3> QED
      BY <3>1, <3>2
  <2>3. \A w \in Workflow : wf'[w].status = "absent" => wf[w].status = "absent"
    BY <1>7
  <2>4. \A i \in Job : job'[i] # None => \A w \in WorkflowsOf(job'[i]) : wf'[w].status # "absent"
    <3> SUFFICES ASSUME NEW i \in Job, job'[i] # None, NEW w \in WorkflowsOf(job'[i])
                 PROVE  wf'[w].status # "absent"
      OBVIOUS
    <3>1. CASE i = j
      BY <3>1, <1>1, <1>2, <1>7 DEF ws
    <3>2. CASE i # j
      BY <3>2, <1>3, <2>3, JobRows DEF Owning, RowsNameJobs
    <3> QED
      BY <3>1, <3>2
  <2>5. \A d \in Client : ctl'[d].pc = "read" /\ ctl'[d].req.src # None =>
                             wf'[ctl'[d].req.src].status # "absent"
    <3>1. \A d \in Client : ctl'[d].pc = "read" => ctl'[d] = ctl[d] /\ ctl[d].req \in Request
      BY DEF Granted, TypeOK, WellFormed
    <3> QED
      BY <3>1, <2>3 DEF Owning, RowsNameJobs, Request
  <2> QED
    BY <2>1, <2>2, <2>4, <2>5 DEF RowsNameJobs, WorkflowsOf, GroupingsOf
<1>21. OneProducer'
  <2> SUFFICES ASSUME NEW i \in Job, NEW k \in Job, job'[i] # None, job'[k] # None, job'[i].out # None
               PROVE  /\ job'[i].out = job'[k].out => i = k
                      /\ job'[i].out = job'[k].src => wf'[job'[i].out].job # i
    BY DEF OneProducer
  \* The output of the new job was absent, so no other job has it.
  <2>1. ASSUME NEW l \in Job, l # j, job[l] # None, r.out # None
        PROVE  r.out # job[l].out /\ r.out # job[l].src
    <3>1. r.out \notin WorkflowsOf(job[l])
      BY <2>1 DEF Granted, Owning, RowsNameJobs
    <3> QED
      BY <2>1, <3>1 DEF WorkflowsOf
  <2>2. CASE i = j /\ k = j
    BY <2>2, <1>1, <1>5
  <2>3. CASE i = j /\ k # j
    BY <2>3, <2>1, <1>1, <1>3
  <2>4. CASE i # j /\ k = j
    <3>1. job'[i] = job[i] /\ job'[k] = r
      BY <2>4, <1>1, <1>3
    <3>2. job[i].out # r.out
      BY <2>1, <2>4, <3>1
    <3>3. job[i].out = r.src => wf'[r.src].job = j
      BY <1>2, <1>7, <3>1
    <3> QED
      BY <2>4, <3>1, <3>2, <3>3
  <2>5. CASE i # j /\ k # j
    <3>1. job'[i] = job[i] /\ job'[k] = job[k] /\ job[i].out \in Workflow
      BY <2>5, <1>3, JobRows
    <3>2. wf'[job[i].out].job = i => wf[job[i].out].job = i
      BY <2>5, <3>1, <1>7
    <3> QED
      BY <2>5, <3>1, <3>2 DEF Owning, OneProducer
  <2> QED
    BY <2>2, <2>3, <2>4, <2>5
<1> QED
  BY <1>17, <1>18, <1>19, <1>20, <1>21 DEF Owning

-----------------------------------------------------------------------------
(***************************************************************************)
(* The kinds of steps.  Most leave the rows alone, or fail a whole job.    *)
(***************************************************************************)
Undisturbed == SourcesFound /\ RowsKept /\ SchemasKept /\ UNCHANGED assigned

PlainStep == UNCHANGED <<wf, gr, job>> /\ RunnersKept /\ Undisturbed

FailStep ==
    /\ \E j \in Job, from \in Busy : Whole(j, from) /\ MovedTo(j, "failed")
    /\ RunnersKept /\ Undisturbed

ClaimStep(k, j) ==
    /\ worker[k].pc = "idle" /\ Whole(j, "pending") /\ MovedTo(j, "processing")
    /\ \A l \in Worker :
          worker'[l] = IF l = k THEN [IdleWorker EXCEPT !.pc = "claimed", !.job = j] ELSE worker[l]
    /\ Undisturbed

InspectStep(k) ==
    /\ worker[k].pc = "claimed" /\ Fit(JobOf(k))
    /\ \E n \in Nat : \A l \in Worker :
          worker'[l] = IF l = k THEN [worker[k] EXCEPT !.pc = "running", !.goal = n] ELSE worker[l]
    /\ UNCHANGED <<wf, gr, job>> /\ Undisturbed

CompleteStep(k) ==
    LET j == worker[k].job  r == job[j]
    IN  /\ worker[k].pc = "running" /\ Done(k) /\ Whole(j, "processing") /\ MovedTo(j, "complete")
        /\ \A w \in Workflow :
              wf'[w].schema = IF wf[w].job = j THEN wf[w].schema \cup ({r.field} \ {None})
                                               ELSE wf[w].schema
        /\ \A w \in Workflow, i \in Item :
              row'[w][i] = IF r.kind = "annotation" /\ w = r.src THEN Annotated(row[w][i], r.field)
                                                                 ELSE row[w][i]
        /\ \A l \in Worker : worker'[l] = IF l = k THEN IdleWorker ELSE worker[l]
        /\ UNCHANGED <<assigned, ctl>>

LEMMA PresentKept ==
  ASSUME RowsKept
  PROVE  AbsentKept /\ \A w \in Workflow : Present(w)' = Present(w)
<1>1. \A w \in Workflow : Present(w)' = Present(w)
  BY DEF RowsKept, Present
<1> QED
  BY <1>1 DEF AbsentKept

LEMMA UndisturbedRows ==
  ASSUME UNCHANGED <<row, assigned>>, SourcesFound, SchemasKept
  PROVE  Undisturbed
  BY DEF Undisturbed, RowsKept

LEMMA PlainSteps ==
  ASSUME TypeOK, TypeOK',
         \/ Ask \/ UNCHANGED vars
         \/ \E w \in Workflow, i \in Item : EditInstance(w, i)
         \/ \E c \in Client : Refused(c) \/ Publish(c) \/ PublishFails(c) \/ ApiDies(c)
         \/ \E k \in Worker : WorkerDies(k)
         \/ \E j \in queue : LoseMessage(j)
  PROVE  PlainStep
<1>1. ASSUME UNCHANGED <<wf, gr, job, row, assigned>>, RunnersKept, SourcesFound
      PROVE  PlainStep
  BY <1>1, UndisturbedRows DEF PlainStep, SchemasKept
<1>2. ASSUME UNCHANGED <<wf, gr, job, row, assigned, worker>>, SourcesFound
      PROVE  PlainStep
  BY <1>1, <1>2 DEF RunnersKept
<1>3. ASSUME NEW c \in Client, NEW r, Asks(c, r), r.src # None => wf[r.src].status # "absent"
      PROVE  PlainStep
  <2>1. \A d \in Client : ctl'[d] = IF d = c THEN [pc |-> "read", job |-> None, req |-> r] ELSE ctl[d]
    BY <1>3 DEF Asks, TypeOK
  <2>2. SourcesFound
    BY <2>1, <1>3 DEF SourcesFound
  <2> QED
    BY <1>2, <1>3, <2>2 DEF Asks
<1>4. CASE Ask
  <2>1. PICK c \in Client : \/ AskLabelSource(c)
                            \/ \E w \in Workflow, f \in Field : AskAnnotation(c, w, f)
                            \/ \E w \in Workflow, kind \in Kind : AskDerived(c, w, kind)
                            \/ \E w \in Workflow, fn \in Function : AskGroup(c, w, fn)
    BY <1>4 DEF Ask
  <2>2. CASE AskLabelSource(c)
    BY <2>2, <1>3 DEF AskLabelSource, NewRequest
  <2>3. ASSUME NEW w \in Workflow, NEW f \in Field, AskAnnotation(c, w, f) PROVE PlainStep
    BY <2>3, <1>3 DEF AskAnnotation, NewRequest
  <2>4. ASSUME NEW w \in Workflow, NEW kind \in Kind, AskDerived(c, w, kind) PROVE PlainStep
    BY <2>4, <1>3 DEF AskDerived, NewRequest
  <2>5. ASSUME NEW w \in Workflow, NEW fn \in Function, AskGroup(c, w, fn) PROVE PlainStep
    BY <2>5, <1>3 DEF AskGroup, NewRequest
  <2> QED
    BY <2>1, <2>2, <2>3, <2>4, <2>5
<1>5. CASE UNCHANGED vars
  BY <1>5, <1>2 DEF vars, SourcesFound
<1>6. ASSUME NEW w \in Workflow, NEW i \in Item, EditInstance(w, i) PROVE PlainStep
  <2>1. row[w][i] \in Instance /\ row[w] \in [Item -> Instance]
    BY DEF TypeOK
  <2>2. row' = [row EXCEPT ![w] = [row[w] EXCEPT ![i] = [row[w][i] EXCEPT !.rev = row[w][i].rev + 1]]]
    BY <1>6 DEF EditInstance, TypeOK
  <2>3. \A v \in Workflow, h \in Item : row'[v][h] = IF v = w /\ h = i
            THEN [row[w][i] EXCEPT !.rev = row[w][i].rev + 1] ELSE row[v][h]
    BY <2>1, <2>2 DEF TypeOK
  <2>4. RowsKept
    BY <2>1, <2>3 DEF RowsKept, Instance
  <2> QED
    BY <1>6, <2>4 DEF EditInstance, PlainStep, Undisturbed, SourcesFound, SchemasKept, RunnersKept
<1>7. ASSUME NEW c \in Client, Refused(c) \/ Publish(c) \/ PublishFails(c) \/ ApiDies(c)
      PROVE  PlainStep
  <2>1. \A d \in Client : ctl'[d] = ctl[d] \/ ctl'[d].pc # "read"
    BY <1>7, IdleTypes DEF Refused, Publish, PublishFails, ApiDies, TypeOK
  <2>2. SourcesFound
    BY <2>1 DEF SourcesFound
  <2> QED
    BY <1>2, <1>7, <2>2 DEF Refused, Publish, PublishFails, ApiDies
<1>8. ASSUME NEW k \in Worker, WorkerDies(k) PROVE PlainStep
  <2>1. RunnersKept
    BY <1>8 DEF WorkerDies, RunnersKept, TypeOK, IdleWorker
  <2> QED
    BY <1>1, <1>8, <2>1 DEF WorkerDies, SourcesFound
<1>9. ASSUME NEW j \in queue, LoseMessage(j) PROVE PlainStep
  BY <1>2, <1>9 DEF LoseMessage, SourcesFound
<1> QED
  BY <1>4, <1>5, <1>6, <1>7, <1>8, <1>9

\* A handler moves its job to failed, all of it or nothing.
LEMMA FailSteps ==
  ASSUME TypeOK,
         \/ \E c \in Client : Abort(c)
         \/ \E k \in Worker : Raise(k)
         \/ \E k \in Worker, j \in queue : ClaimRaises(k, j)
  PROVE  PlainStep \/ FailStep
<1>1. ASSUME NEW j \in Job, NEW from \in Busy, Move(j, from, "failed"),
             UNCHANGED <<row, assigned, job>>, RunnersKept, SourcesFound
      PROVE  PlainStep \/ FailStep
  <2>1. /\ Whole(j, from) => MovedTo(j, "failed")
        /\ ~Whole(j, from) => UNCHANGED <<wf, gr>>
        /\ SchemasKept
    BY <1>1, MoveMoved
  <2>2. Undisturbed
    BY <1>1, <2>1, UndisturbedRows
  <2> QED
    BY <1>1, <2>1, <2>2 DEF PlainStep, FailStep
<1>2. ASSUME NEW c \in Client, Abort(c) PROVE PlainStep \/ FailStep
  <2>1. ctl[c].job \in Job
    BY <1>2 DEF Abort, TypeOK
  <2>2. SourcesFound
    BY <1>2, IdleTypes DEF Abort, SourcesFound, TypeOK
  <2> QED
    BY <1>1, <1>2, <2>1, <2>2 DEF Abort, Busy, RunnersKept
<1>3. ASSUME NEW k \in Worker, Raise(k) PROVE PlainStep \/ FailStep
  <2>1. worker[k].job \in Job
    BY <1>3 DEF Raise, TypeOK
  <2>2. RunnersKept /\ SourcesFound
    BY <1>3 DEF Raise, RunnersKept, SourcesFound, TypeOK, IdleWorker
  <2> QED
    BY <1>1, <1>3, <2>1, <2>2 DEF Raise, Busy
<1>4. ASSUME NEW k \in Worker, NEW j \in queue, ClaimRaises(k, j) PROVE PlainStep \/ FailStep
  <2>1. j \in Job
    BY DEF TypeOK
  <2>2. RunnersKept /\ SourcesFound
    BY <1>4 DEF ClaimRaises, RunnersKept, SourcesFound
  <2> QED
    BY <1>1, <1>4, <2>1, <2>2 DEF ClaimRaises, Busy
<1> QED
  BY <1>2, <1>3, <1>4

LEMMA ClaimSteps ==
  ASSUME TypeOK, NEW k \in Worker, NEW j \in queue, NEW rest \in SUBSET queue, Claim(k, j, rest)
  PROVE  j \in Job /\ (PlainStep \/ ClaimStep(k, j))
<1>1. j \in Job
  BY DEF TypeOK
<1>2. /\ Whole(j, "pending") => MovedTo(j, "processing")
      /\ ~Whole(j, "pending") => UNCHANGED <<wf, gr>>
      /\ SchemasKept
  BY <1>1, MoveMoved DEF Claim
<1>3. Undisturbed
  BY <1>2, UndisturbedRows DEF Claim, SourcesFound
<1>4. CASE Whole(j, "pending")
  <2>1. \A l \in Worker :
          worker'[l] = IF l = k THEN [IdleWorker EXCEPT !.pc = "claimed", !.job = j] ELSE worker[l]
    BY <1>4 DEF Claim, TypeOK
  <2> QED
    BY <1>1, <1>2, <1>3, <1>4, <2>1 DEF ClaimStep, Claim
<1>5. CASE ~Whole(j, "pending")
  BY <1>1, <1>2, <1>3, <1>5 DEF PlainStep, Claim, RunnersKept
<1> QED
  BY <1>4, <1>5

LEMMA InspectSteps ==
  ASSUME TypeOK, NEW k \in Worker, Inspect(k)
  PROVE  PlainStep \/ FailStep \/ InspectStep(k)
<1> DEFINE r == JobOf(k)
           n == CASE r.kind = "group" -> Cardinality(Present(r.src) \ assigned[<<r.src, r.fn>>])
                  [] r.kind \in {"map", "filter"} -> Cardinality(Present(r.src))
                  [] OTHER -> 0
<1>1. CASE ~Fit(r)
  BY <1>1, FailSteps DEF Inspect
<1>2. CASE Fit(r)
  <2>1. \A S \in SUBSET Item : Cardinality(S) \in Nat
    BY ItemsFinite
  <2>2. n \in Nat
    BY <2>1 DEF Present
  <2>3. Batches(n) \in Nat
    BY <2>2, BatchesType
  <2>4. worker' = [worker EXCEPT ![k].pc = "running", ![k].goal = Batches(n)]
        /\ UNCHANGED <<wf, gr, row, assigned, job, ctl, queue, lost>>
    BY <1>2 DEF Inspect
  <2> HIDE DEF n, r
  <2>5. \A l \in Worker :
          worker'[l] = IF l = k THEN [worker[k] EXCEPT !.pc = "running", !.goal = Batches(n)] ELSE worker[l]
    BY <2>4 DEF TypeOK
  <2>6. Undisturbed
    BY <2>4, UndisturbedRows DEF SourcesFound, SchemasKept
  <2>7. worker[k].pc = "claimed"
    BY DEF Inspect
  <2> QED
    BY <1>2, <2>3, <2>4, <2>5, <2>6, <2>7 DEF InspectStep, r
<1> QED
  BY <1>1, <1>2

LEMMA CompleteSteps ==
  ASSUME TypeOK, NEW k \in Worker, Complete(k)
  PROVE  PlainStep \/ FailStep \/ CompleteStep(k)
<1> DEFINE j == worker[k].job
           r == job[j]
<1>1. worker[k].pc = "running" /\ Done(k)
  BY DEF Complete
<1>2. CASE ~Whole(j, "processing")
  BY <1>2, FailSteps DEF Complete
<1>3. CASE Whole(j, "processing")
  <2>1. r.kind = "annotation" => r.src \in Workflow
    BY <1>1, RunnersJob DEF JobOf
  <2>2. /\ wf' = [w \in Workflow |->
                    IF wf[w].job # j THEN wf[w]
                    ELSE [wf[w] EXCEPT !.status = "complete",
                                       !.schema = @ \cup ({r.field} \ {None})]]
        /\ gr' = [g \in Grouping |->
                    IF gr[g].job = j THEN [gr[g] EXCEPT !.status = "complete"] ELSE gr[g]]
        /\ row' = IF r.kind = "annotation"
                  THEN [row EXCEPT ![r.src] = [i \in Item |-> Annotated(row[r.src][i], r.field)]]
                  ELSE row
        /\ worker' = [worker EXCEPT ![k] = IdleWorker]
        /\ UNCHANGED <<assigned, job, ctl, queue, lost>>
    BY <1>3 DEF Complete
  <2> HIDE DEF j, r
  <2>3. /\ \A w \in Workflow : wf[w] \in WfRow
        /\ \A g \in Grouping : gr[g] \in GrRow
    BY DEF TypeOK
  <2>4. \A w \in Workflow :
          /\ wf'[w].job = wf[w].job
          /\ wf'[w].status = IF wf[w].job = j THEN "complete" ELSE wf[w].status
          /\ wf'[w].schema = IF wf[w].job = j THEN wf[w].schema \cup ({r.field} \ {None})
                                              ELSE wf[w].schema
    BY <2>2, <2>3 DEF WfRow
  <2>5. \A g \in Grouping : /\ gr'[g].job = gr[g].job
                            /\ gr'[g].status = IF gr[g].job = j THEN "complete" ELSE gr[g].status
    BY <2>2, <2>3 DEF GrRow
  <2>6. \A w \in Workflow, i \in Item :
          row'[w][i] = IF r.kind = "annotation" /\ w = r.src THEN Annotated(row[w][i], r.field)
                                                             ELSE row[w][i]
    BY <2>1, <2>2 DEF TypeOK
  <2>7. \A l \in Worker : worker'[l] = IF l = k THEN IdleWorker ELSE worker[l]
    BY <2>2 DEF TypeOK
  <2>8. MovedTo(j, "complete")
    BY <2>2, <2>4, <2>5 DEF MovedTo
  <2> QED
    BY <1>1, <1>3, <2>2, <2>4, <2>6, <2>7, <2>8 DEF CompleteStep, j, r
<1> QED
  BY <1>2, <1>3

\* A batch of a derived workflow: the rows of new get one more instance.
DeriveStep(k, new) ==
    LET r == JobOf(k)  B == Batch(Remaining(k))
    IN  /\ worker[k].pc = "running" /\ r.kind \in {"label_source", "map", "filter"}
        /\ B # {} /\ new \in SUBSET B
        /\ r.kind = "map" => new = B
        /\ r.kind = "filter" => new = B \cap Passing
        /\ \A w \in Workflow, i \in Item :
              IF w = r.out /\ i \in new
              THEN /\ row'[w][i].n = row[w][i].n + 1
                   /\ row'[w][i].fields = IF r.kind = "filter" THEN row[r.src][i].fields ELSE {}
              ELSE row'[w][i] = row[w][i]
        /\ \A l \in Worker : l # k => worker'[l] = worker[l]
        /\ worker'[k].pc = "running" /\ worker'[k].job = worker[k].job
        /\ worker'[k].last = Last(B) /\ worker'[k].seen = worker[k].seen + Cardinality(B)
        /\ UNCHANGED <<wf, gr, assigned, job, ctl>>

GroupStep(k) ==
    LET r == JobOf(k)  g == <<r.src, r.fn>>
    IN  /\ worker[k].pc = "running" /\ r.kind = "group"
        /\ \E new \in SUBSET Present(r.src) :
             \A h \in Grouping : assigned'[h] = IF h = g THEN assigned[h] \cup new ELSE assigned[h]
        /\ \A l \in Worker : /\ worker'[l].pc = worker[l].pc /\ worker'[l].job = worker[l].job
                             /\ worker'[l].last = worker[l].last /\ worker'[l].seen = worker[l].seen
        /\ UNCHANGED <<wf, gr, row, job, ctl>>

LEMMA DeriveSteps ==
  ASSUME TypeOK, NEW k \in Worker, DeriveBatch(k)
  PROVE  \E new : DeriveStep(k, new)
<1> DEFINE r == JobOf(k)
           B == Batch(Remaining(k))
<1>1. /\ worker[k].pc = "running" /\ r.kind \in {"label_source", "map", "filter"} /\ B # {}
      /\ worker' = [worker EXCEPT ![k].last = Last(B), ![k].seen = @ + Cardinality(B),
                                  ![k].goal = IF @ = 0 THEN 0 ELSE @ - 1]
      /\ UNCHANGED <<wf, gr, assigned, job, ctl, queue, lost>>
  BY DEF DeriveBatch, Last
<1>2. PICK new \in SUBSET B :
        /\ r.kind = "map" => new = B
        /\ r.kind = "filter" => new = B \cap Passing
        /\ row' = [row EXCEPT ![r.out] = [i \in Item |->
                     IF i \in new
                     THEN [n |-> row[r.out][i].n + 1,
                           fields |-> IF r.kind = "filter" THEN row[r.src][i].fields ELSE {},
                           rev |-> IF r.kind = "filter" THEN row[r.src][i].rev ELSE 0]
                     ELSE row[r.out][i]]]
  BY DEF DeriveBatch
<1>3. r.out \in Workflow /\ worker[k] \in Runner
  BY <1>1, RunnersJob DEF Derived
<1> HIDE DEF r, B
<1>4. \A w \in Workflow, i \in Item :
        IF w = r.out /\ i \in new
        THEN /\ row'[w][i].n = row[w][i].n + 1
             /\ row'[w][i].fields = IF r.kind = "filter" THEN row[r.src][i].fields ELSE {}
        ELSE row'[w][i] = row[w][i]
  BY <1>2, <1>3 DEF TypeOK
<1>5. \A l \in Worker : l # k => worker'[l] = worker[l]
  BY <1>1 DEF TypeOK
<1>6. /\ worker'[k].pc = "running" /\ worker'[k].job = worker[k].job
      /\ worker'[k].last = Last(B) /\ worker'[k].seen = worker[k].seen + Cardinality(B)
  BY <1>1, <1>3 DEF TypeOK, Runner
<1>7. DeriveStep(k, new)
  BY <1>1, <1>2, <1>4, <1>5, <1>6 DEF DeriveStep, r, B
<1> QED
  BY <1>7

LEMMA GroupSteps ==
  ASSUME TypeOK, NEW k \in Worker, GroupBatch(k)
  PROVE  GroupStep(k)
<1> DEFINE r == JobOf(k)
           g == <<r.src, r.fn>>
<1>1. /\ worker[k].pc = "running" /\ r.kind = "group"
      /\ worker' = [worker EXCEPT ![k].goal = @ - 1]
      /\ UNCHANGED <<wf, gr, row, job, ctl, queue, lost>>
  BY DEF GroupBatch
<1>2. PICK new \in SUBSET Present(r.src) : assigned' = [assigned EXCEPT ![g] = assigned[g] \cup new]
  BY DEF GroupBatch
<1>3. g \in Grouping
  BY <1>1, RunnersJob DEF Grouping
<1> HIDE DEF r, g
<1>4. \A h \in Grouping : assigned'[h] = IF h = g THEN assigned[h] \cup new ELSE assigned[h]
  BY <1>2, <1>3 DEF TypeOK
<1>5. \A l \in Worker : /\ worker'[l].pc = worker[l].pc /\ worker'[l].job = worker[l].job
                        /\ worker'[l].last = worker[l].last /\ worker'[l].seen = worker[l].seen
  BY <1>1 DEF TypeOK
<1> QED
  BY <1>1, <1>4, <1>5 DEF GroupStep, r, g

\* What a step that is not plain does.
LEMMA StepKinds ==
  ASSUME TypeOK, TypeOK', [Next]_vars
  PROVE  \/ PlainStep
         \/ FailStep
         \/ \E c \in Client : \E j, r : Granted(c, j, r)
         \/ \E k \in Worker : \/ \E j \in Job : ClaimStep(k, j)
                              \/ InspectStep(k) \/ CompleteStep(k) \/ GroupStep(k)
                              \/ \E new : DeriveStep(k, new)
<1>1. CASE UNCHANGED vars
  BY <1>1, PlainSteps
<1>2. ASSUME Next, NEW c \in Client, NEW out \in Workflow \cup {None}, Reserve(c, out)
      PROVE  PlainStep \/ \E j, r : Granted(c, j, r)
  BY <1>2, ReserveGranted, PlainSteps
<1>3. CASE Next
  BY <1>2, <1>3, StepCases, PlainSteps, FailSteps, ClaimSteps, InspectSteps, DeriveSteps,
     GroupSteps, CompleteSteps
<1> QED
  BY <1>1, <1>3

-----------------------------------------------------------------------------
(***************************************************************************)
(* Ownership holds.                                                        *)
(***************************************************************************)
LEMMA NextOwning ==
  ASSUME TypeOK, TypeOK', Owning, [Next]_vars
  PROVE  Owning'
<1>1. CASE PlainStep
  BY <1>1, PresentKept, SteadyOwning DEF PlainStep, Undisturbed
<1>2. CASE FailStep
  BY <1>2, PresentKept, MovedOwning DEF FailStep, Undisturbed
<1>3. ASSUME NEW c \in Client, NEW j, NEW r, Granted(c, j, r) PROVE Owning'
  BY <1>3, GrantedOwning
<1>4. ASSUME NEW k \in Worker, NEW j \in Job, ClaimStep(k, j) PROVE Owning'
  BY <1>4, PresentKept, MovedOwning DEF ClaimStep, Undisturbed, Busy
<1>5. ASSUME NEW k \in Worker, InspectStep(k) PROVE Owning'
  BY <1>5, PresentKept, SteadyOwning DEF InspectStep, Undisturbed
<1>6. ASSUME NEW k \in Worker, CompleteStep(k) PROVE Owning'
  <2>1. worker[k].job \in Job
    BY <1>6, RunnersJob DEF CompleteStep
  <2>2. \A w \in Workflow, i \in Item : row'[w][i].n = row[w][i].n
    <3>1. \A w \in Workflow, i \in Item : row[w][i] \in Instance
      BY DEF TypeOK
    <3> QED
      BY <1>6, <3>1 DEF CompleteStep, Annotated, Instance
  <2>3. AbsentKept
    BY <2>2 DEF AbsentKept, Present
  <2> QED
    BY <1>6, <2>1, <2>3, MovedOwning DEF CompleteStep, Busy, SourcesFound
<1>7. ASSUME NEW k \in Worker, GroupStep(k) PROVE Owning'
  BY <1>7, SteadyOwning DEF GroupStep, AbsentKept, SourcesFound, Present
<1>8. ASSUME NEW k \in Worker, NEW new, DeriveStep(k, new) PROVE Owning'
  <2>1. worker[k].job \in Job /\ job[worker[k].job] # None
    BY <1>8, RunnersJob DEF DeriveStep, TypeOK
  <2>2. wf[JobOf(k).out].status # "absent"
    <3>1. JobOf(k).kind \in {"map", "filter", "label_source"}
      BY <1>8 DEF DeriveStep
    <3> QED
      BY <2>1, <3>1, JobRows DEF Owning, RowsNameJobs, JobOf
  <2>3. \A w \in Workflow : wf[w].status = "absent" => \A i \in Item : row'[w][i] = row[w][i]
    BY <1>8, <2>2 DEF DeriveStep
  <2>4. AbsentKept
    BY <2>3 DEF AbsentKept, Present
  <2> QED
    BY <1>8, <2>4, SteadyOwning DEF DeriveStep, SourcesFound
<1> QED
  BY <1>1, <1>2, <1>3, <1>4, <1>5, <1>6, <1>7, <1>8, StepKinds

-----------------------------------------------------------------------------
(***************************************************************************)
(* Runners hold their jobs.                                                *)
(***************************************************************************)
\* Two runners' jobs have no row in common.
LEMMA DisjointJobs ==
  ASSUME TypeOK, Running, NEW k \in Worker, NEW l \in Worker, k # l,
         worker[k].pc # "idle", worker[l].pc # "idle"
  PROVE  /\ worker[k].job # worker[l].job
         /\ WorkflowsOf(JobOf(k)) \cap WorkflowsOf(JobOf(l)) = {}
<1>1. worker[k].job # worker[l].job
  BY DEF Running
<1>2. Owns(worker[k].job) /\ Owns(worker[l].job)
  BY DEF Running, Holds
<1> QED
  BY <1>1, <1>2 DEF Owns, JobOf

\* Runners keep their jobs while no row moves.
LEMMA SteadyRunning ==
  ASSUME Running, UNCHANGED <<wf, gr, job>>, JobsKept
  PROVE  Running'
<1>1. \A j : Holds(j)' = Holds(j)
  BY DEF Holds, Owns, Whole, MemberWorkflows, MemberGroupings, WorkflowsOf, GroupingsOf
<1> QED
  BY <1>1 DEF Running, JobsKept

\* A move of one job keeps what the runners of the others hold.
LEMMA MovedHolds ==
  ASSUME TypeOK, Owning, NEW j \in Job, NEW from \in Busy, NEW to, Whole(j, from), MovedTo(j, to),
         NEW i \in Job, job[i] # None
  PROVE  /\ i # j /\ Holds(i) => Holds(i)'
         /\ to \in {"processing", "failed"} => Holds(j)'
<1>1. \A h \in Job : MemberWorkflows(h)' = MemberWorkflows(h) /\ MemberGroupings(h)' = MemberGroupings(h)
  BY DEF MemberWorkflows, MemberGroupings, MovedTo
<1>2. ASSUME NEW h \in Job, job[h] # None, Owns(h) PROVE Owns(h)'
  <2>1. WorkflowsOf(job[h])' = WorkflowsOf(job[h]) /\ GroupingsOf(job[h])' = GroupingsOf(job[h])
    BY DEF WorkflowsOf, GroupingsOf, MovedTo
  <2> QED
    BY <1>2, <2>1, JobRows DEF Owns, MovedTo
<1>3. \A s : i # j /\ Whole(i, s) => Whole(i, s)'
  BY <1>1 DEF Whole, MovedTo, MemberWorkflows, MemberGroupings
<1>4. Whole(j, to)'
  BY <1>1 DEF Whole, MovedTo, MemberWorkflows, MemberGroupings
<1>5. job[j] # None /\ Owns(j)
  BY WholeExists, BusyOwns DEF Busy
<1> QED
  BY <1>2, <1>3, <1>4, <1>5 DEF Holds

LEMMA NextRunning ==
  ASSUME TypeOK, TypeOK', Owning, Running, [Next]_vars
  PROVE  Running'
<1>1. CASE PlainStep
  BY <1>1, SteadyRunning DEF PlainStep, RunnersKept, JobsKept
<1>2. CASE FailStep
  <2>1. PICK j \in Job, from \in Busy : Whole(j, from) /\ MovedTo(j, "failed")
    BY <1>2 DEF FailStep
  <2>2. \A k \in Worker : worker'[k].pc # "idle" => worker'[k] = worker[k]
    BY <1>2 DEF FailStep, RunnersKept
  <2>3. \A k \in Worker : worker[k].pc # "idle" => worker[k].job \in Job /\ job[worker[k].job] # None
    BY DEF TypeOK
  <2>4. \A i \in Job : job[i] # None /\ Holds(i) => Holds(i)'
    BY <2>1, MovedHolds
  <2> QED
    BY <2>2, <2>3, <2>4 DEF Running
<1>3. ASSUME NEW c \in Client, NEW j, NEW r, Granted(c, j, r) PROVE Running'
  <2> SUFFICES ASSUME NEW i \in Job, job[i] # None, Holds(i) PROVE Holds(i)'
    <3>1. \A k \in Worker : worker[k].pc # "idle" => worker[k].job \in Job /\ job[worker[k].job] # None
      BY DEF TypeOK
    <3>2. worker' = worker
      BY <1>3 DEF Granted
    <3> QED
      BY <3>1, <3>2 DEF Running
  <2>1. i # j /\ job'[i] = job[i]
    BY <1>3 DEF Granted
  <2>2. /\ WorkflowsOf(job[i])' = WorkflowsOf(job[i])
        /\ GroupingsOf(job[i])' = GroupingsOf(job[i])
    BY <2>1 DEF WorkflowsOf, GroupingsOf
  <2>3. PICK s \in {"processing", "failed"} : Whole(i, s)
    BY DEF Holds
  \* Neither is what the new job takes.
  <2>4. \A w \in MemberWorkflows(i) : w \in Workflow /\ w \notin WorkflowsOf(r)
    BY <1>3, <2>3 DEF Granted, Queueable, Whole, MemberWorkflows
  <2>5. \A g \in MemberGroupings(i) : g \in Grouping /\ g \notin GroupingsOf(r)
    BY <1>3, <2>3 DEF Granted, Whole, MemberGroupings
  <2>6. /\ \A w \in MemberWorkflows(i) : wf'[w] = wf[w]
        /\ \A g \in MemberGroupings(i) : gr'[g] = gr[g]
    BY <1>3, <2>4, <2>5 DEF Granted
  <2>7. MemberWorkflows(i)' = MemberWorkflows(i)
    BY <1>3, <2>1, <2>6 DEF Granted, MemberWorkflows
  <2>8. MemberGroupings(i)' = MemberGroupings(i)
    BY <1>3, <2>1, <2>6 DEF Granted, MemberGroupings
  <2>9. Whole(i, s)'
    BY <2>3, <2>6, <2>7, <2>8 DEF Whole
  <2>10. Owns(i)'
    <3>1. WorkflowsOf(job[i]) \subseteq MemberWorkflows(i) /\ GroupingsOf(job[i]) \subseteq MemberGroupings(i)
      BY JobRows DEF Holds, Owns, MemberWorkflows, MemberGroupings
    <3> QED
      BY <2>2, <2>6, <3>1 DEF Holds, Owns
  <2> QED
    BY <2>9, <2>10 DEF Holds
<1>4. ASSUME NEW k \in Worker, NEW j \in Job, ClaimStep(k, j) PROVE Running'
  <2>1. Whole(j, "pending") /\ MovedTo(j, "processing") /\ "pending" \in Busy
    BY <1>4 DEF ClaimStep, Busy
  \* A pending job has no runner yet.
  <2>2. \A l \in Worker : worker[l].pc # "idle" => worker[l].job # j
    BY <2>1 DEF Running, Holds, Whole
  <2>3. \A i \in Job : i # j /\ job[i] # None /\ Holds(i) => Holds(i)'
    BY <2>1, MovedHolds
  <2>7. \A l \in Worker : worker[l].pc # "idle" => worker[l].job \in Job /\ job[worker[l].job] # None
    BY DEF TypeOK
  <2>4. Holds(j)'
    BY <2>1, WholeExists, MovedHolds
  <2>5. \A l \in Worker : l # k => worker'[l] = worker[l]
    BY <1>4 DEF ClaimStep
  <2>6. worker'[k].job = j
    BY <1>4 DEF ClaimStep, IdleWorker
  <2> QED
    BY <2>2, <2>3, <2>4, <2>5, <2>6, <2>7 DEF Running
<1>5. ASSUME NEW k \in Worker, InspectStep(k) PROVE Running'
  <2>1. JobsKept
    <3>1. PICK n \in Nat : \A l \in Worker :
            worker'[l] = IF l = k THEN [worker[k] EXCEPT !.pc = "running", !.goal = n] ELSE worker[l]
      BY <1>5 DEF InspectStep
    <3>2. worker[k] \in Runner /\ worker[k].pc # "idle"
      BY <1>5, RunnersJob DEF InspectStep
    <3> QED
      BY <3>1, <3>2 DEF JobsKept, Runner
  <2> QED
    BY <1>5, <2>1, SteadyRunning DEF InspectStep
<1>6. ASSUME NEW k \in Worker, CompleteStep(k) PROVE Running'
  <2>1. worker[k].pc = "running" /\ Whole(worker[k].job, "processing") /\ MovedTo(worker[k].job, "complete")
        /\ worker[k].job \in Job /\ "processing" \in Busy
    BY <1>6, RunnersJob DEF CompleteStep, Busy
  <2>2. \A l \in Worker : worker'[l].pc # "idle" => l # k /\ worker'[l] = worker[l]
    BY <1>6 DEF CompleteStep, IdleWorker
  <2>3. \A l \in Worker : l # k /\ worker[l].pc # "idle" => worker[l].job # worker[k].job
    BY <2>1 DEF Running
  <2>4. \A i \in Job : i # worker[k].job /\ job[i] # None /\ Holds(i) => Holds(i)'
    <3> DEFINE j == worker[k].job
    <3>1. Whole(j, "processing") /\ MovedTo(j, "complete") /\ j \in Job /\ "processing" \in Busy
      BY <2>1
    <3> HIDE DEF j
    <3>2. \A i \in Job : i # j /\ job[i] # None /\ Holds(i) => Holds(i)'
      BY <3>1, MovedHolds
    <3> QED
      BY <3>2 DEF j
  <2>5. \A l \in Worker : worker[l].pc # "idle" => worker[l].job \in Job /\ job[worker[l].job] # None
    BY DEF TypeOK
  <2> QED
    BY <2>2, <2>3, <2>4, <2>5 DEF Running
<1>7. ASSUME NEW k \in Worker, GroupStep(k) PROVE Running'
  BY <1>7, SteadyRunning DEF GroupStep, JobsKept
<1>8. ASSUME NEW k \in Worker, NEW new, DeriveStep(k, new) PROVE Running'
  BY <1>8, SteadyRunning DEF DeriveStep, JobsKept
<1> QED
  BY <1>1, <1>2, <1>3, <1>4, <1>5, <1>6, <1>7, <1>8, StepKinds

-----------------------------------------------------------------------------
(***************************************************************************)
(* Instances: what no step changes.                                        *)
(***************************************************************************)
\* The rows of a job by its kind.
LEMMA DerivedJob ==
  ASSUME TypeOK, NEW j \in Job, job[j] # None, job[j].kind \in Derived \cup {"label_source"}
  PROVE  /\ job[j].out \in Workflow /\ job[j].out \in WorkflowsOf(job[j])
         /\ job[j].kind \in Derived => job[j].src \in Workflow /\ job[j].src \in WorkflowsOf(job[j])
  BY JobRows DEF Derived

\* Expected depends on what is present in the source alone.
LEMMA ExpectedKept ==
  ASSUME NEW w \in Workflow, Present(w)' = Present(w), NEW r, r.src = w, NEW i
  PROVE  Expected(r, i)' = Expected(r, i)
  BY DEF Expected

\* Outputs stay exact while rows and jobs stay, and no output becomes complete.
LEMMA OutputsKept ==
  ASSUME TypeOK, Exact, RowsKept, SchemasKept, UNCHANGED job,
         \A w \in Workflow : /\ wf'[w].job = wf[w].job
                             /\ wf'[w].status = "complete" => wf[w].status = "complete"
  PROVE  OutputsExact' /\ NewSchemas' /\ InstancesMatchSchema'
<1>1. OutputsExact'
  <2> SUFFICES ASSUME NEW j \in Job, job[j] # None, job[j].kind \in Derived,
                      wf'[job[j].out].job # j \/ wf'[job[j].out].status = "complete"
               PROVE  OutputExact(job[j])'
    BY DEF OutputsExact
  <2>1. job[j].out \in Workflow /\ job[j].src \in Workflow
    BY DerivedJob
  <2>2. OutputExact(job[j])
    BY <2>1 DEF Exact, OutputsExact
  <2>3. Present(job[j].src)' = Present(job[j].src)
    BY <2>1, PresentKept
  <2> QED
    BY <2>1, <2>2, <2>3 DEF OutputExact, Expected, RowsKept
<1>2. NewSchemas'
  <2> SUFFICES ASSUME NEW j \in Job, job[j] # None, job[j].kind \in {"map", "label_source"},
                      wf'[job[j].out].job = j
               PROVE  wf'[job[j].out].schema = {}
    BY DEF NewSchemas
  <2>1. job[j].out \in Workflow
    BY DerivedJob DEF Derived
  <2> QED
    BY <2>1 DEF Exact, NewSchemas, SchemasKept
<1>3. InstancesMatchSchema'
  BY DEF Exact, InstancesMatchSchema, RowsKept, SchemasKept
<1> QED
  BY <1>1, <1>2, <1>3

LEMMA GroupsKept ==
  ASSUME GroupsExact, RowsKept, UNCHANGED assigned,
         \A g \in Grouping : gr'[g].status = "complete" => gr[g].status = "complete"
  PROVE  GroupsExact'
<1>1. \A g \in Grouping : Present(g[1])' = Present(g[1])
  BY PresentKept DEF Grouping
<1> QED
  BY <1>1 DEF GroupsExact

\* A runner that goes on, in a step that leaves its rows alone.
LEMMA WrittenKept ==
  ASSUME TypeOK, NEW k \in Worker, worker[k].pc # "idle", JobOf(k).kind \in Derived, Written(k),
         worker'[k].last = worker[k].last, worker'[k].seen = worker[k].seen,
         JobOf(k)' = JobOf(k),
         \A i \in Item : row'[JobOf(k).out][i].n = row[JobOf(k).out][i].n,
         Present(JobOf(k).src)' = Present(JobOf(k).src)
  PROVE  Written(k)'
<1>1. Read(k)' = Read(k)
  BY DEF Read
<1> QED
  BY <1>1 DEF Written, Expected

LEMMA RunnersExact ==
  ASSUME TypeOK, Exact, RowsKept, SchemasKept, UNCHANGED job,
         \A k \in Worker :
            /\ worker'[k].pc = "claimed" => worker'[k].last = 0 /\ worker'[k].seen = 0
            /\ worker'[k].pc = "running" =>
                  /\ worker[k].pc = "running" /\ worker'[k].job = worker[k].job
                  /\ worker'[k].last = worker[k].last /\ worker'[k].seen = worker[k].seen
  PROVE  Progress' /\ FilterSchemas'
<1>1. ASSUME NEW k \in Worker, worker'[k].pc = "running", JobOf(k)'.kind \in Derived
      PROVE  /\ worker[k].pc = "running" /\ JobOf(k)' = JobOf(k)
             /\ JobOf(k).src \in Workflow /\ JobOf(k).out \in Workflow
             /\ Written(k)'
  <2>1. worker[k].pc = "running" /\ JobOf(k)' = JobOf(k)
    BY <1>1 DEF JobOf
  <2>2. JobOf(k).src \in Workflow /\ JobOf(k).out \in Workflow
    BY <1>1, <2>1, RunnersJob
  <2>3. Written(k)'
    BY <1>1, <2>1, <2>2, PresentKept, WrittenKept DEF Exact, Progress, RowsKept
  <2> QED
    BY <2>1, <2>2, <2>3
<1>2. Progress'
  BY <1>1 DEF Progress
<1>3. FilterSchemas'
  BY <1>1 DEF Exact, FilterSchemas, SchemasKept, Derived
<1> QED
  BY <1>2, <1>3

LEMMA PlainExact ==
  ASSUME TypeOK, Owning, Exact,
         PlainStep \/ FailStep \/ \E k \in Worker, j \in Job : ClaimStep(k, j)
  PROVE  Exact'
<1>1. RowsKept /\ SchemasKept /\ UNCHANGED <<job, assigned>>
  BY DEF PlainStep, FailStep, ClaimStep, Undisturbed, MovedTo
<1>2. /\ \A w \in Workflow : /\ wf'[w].job = wf[w].job
                             /\ wf'[w].status = "complete" => wf[w].status = "complete"
      /\ \A g \in Grouping : gr'[g].status = "complete" => gr[g].status = "complete"
  BY DEF PlainStep, FailStep, ClaimStep, MovedTo
<1>3. \A k \in Worker :
        /\ worker'[k].pc = "claimed" => worker'[k].last = 0 /\ worker'[k].seen = 0
        /\ worker'[k].pc = "running" =>
              /\ worker[k].pc = "running" /\ worker'[k].job = worker[k].job
              /\ worker'[k].last = worker[k].last /\ worker'[k].seen = worker[k].seen
  <2>1. CASE RunnersKept
    BY <2>1 DEF Exact, Progress, RunnersKept
  <2>2. ASSUME NEW k \in Worker, NEW j \in Job, ClaimStep(k, j) PROVE <1>3
    BY <2>2 DEF ClaimStep, IdleWorker, Exact, Progress
  <2> QED
    BY <2>1, <2>2 DEF PlainStep, FailStep
<1> QED
  BY <1>1, <1>2, <1>3, OutputsKept, GroupsKept, RunnersExact DEF Exact

LEMMA InspectExact ==
  ASSUME TypeOK, Owning, Exact, NEW k \in Worker, InspectStep(k)
  PROVE  Exact'
<1>1. RowsKept /\ SchemasKept /\ UNCHANGED <<job, assigned, wf, gr>>
  BY DEF InspectStep, Undisturbed
<1>2. PICK n \in Nat : \A l \in Worker :
        worker'[l] = IF l = k THEN [worker[k] EXCEPT !.pc = "running", !.goal = n] ELSE worker[l]
  BY DEF InspectStep
<1>3. worker[k] \in Runner /\ worker[k].pc = "claimed" /\ worker[k].job \in Job
  BY RunnersJob DEF InspectStep
<1>4. /\ worker'[k].pc = "running" /\ worker'[k].job = worker[k].job
      /\ worker'[k].last = 0 /\ worker'[k].seen = 0
      /\ \A l \in Worker : l # k => worker'[l] = worker[l]
  BY <1>2, <1>3 DEF Runner, Exact, Progress
<1>5. JobOf(k)' = JobOf(k) /\ \A l \in Worker : l # k => JobOf(l)' = JobOf(l)
  BY <1>1, <1>4 DEF JobOf
<1>6. ASSUME JobOf(k).kind \in Derived PROVE Written(k)'
  <2>1. JobOf(k).src \in Workflow /\ JobOf(k).out \in Workflow
    BY <1>3, <1>6, RunnersJob
  <2>2. Present(JobOf(k).out) = {}
    BY <1>6 DEF InspectStep, Fit, Derived
  <2>3. \A i \in Item : row'[JobOf(k).out][i].n = 0
    <3>1. \A i \in Item : row[JobOf(k).out][i].n \in Nat
      BY <2>1 DEF TypeOK, Instance
    <3>2. \A i \in Item : row[JobOf(k).out][i].n = 0
      BY <2>2, <3>1 DEF Present
    <3> QED
      BY <1>1, <2>1, <3>2 DEF RowsKept
  <2>4. \A i \in Item : ~(i <= 0)
    BY SizeAssumption DEF Item
  <2>5. Read(k)' = {}
    BY <1>4, <2>4 DEF Read, Present
  <2> QED
    BY <1>4, <1>5, <2>3, <2>4, <2>5, FS_EmptySet DEF Written
<1>7. ASSUME NEW l \in Worker, l # k, worker[l].pc = "running", JobOf(l).kind \in Derived
      PROVE  Written(l)'
  <2>1. JobOf(l).src \in Workflow /\ JobOf(l).out \in Workflow
    BY <1>7, RunnersJob
  <2> QED
    BY <1>1, <1>4, <1>5, <1>7, <2>1, PresentKept, WrittenKept DEF Exact, Progress, RowsKept
<1>8. Progress'
  BY <1>4, <1>5, <1>6, <1>7 DEF Exact, Progress
<1>9. FilterSchemas'
  <2>1. JobOf(k).kind = "filter" => wf[JobOf(k).out].schema = wf[JobOf(k).src].schema
    BY DEF InspectStep, Fit
  <2> QED
    BY <1>1, <1>4, <1>5, <2>1 DEF Exact, FilterSchemas
<1> QED
  BY <1>1, <1>8, <1>9, OutputsKept, GroupsKept DEF Exact

LEMMA GroupExact ==
  ASSUME TypeOK, Owning, Running, Exact, NEW k \in Worker, GroupStep(k)
  PROVE  Exact'
<1> DEFINE r == JobOf(k)
           g == <<r.src, r.fn>>
<1>1. RowsKept /\ SchemasKept /\ UNCHANGED <<job, wf, gr, row>>
  BY DEF GroupStep, RowsKept, SchemasKept
<1>2. GroupsExact'
  <2>1. PICK new \in SUBSET Present(r.src) :
          \A h \in Grouping : assigned'[h] = IF h = g THEN assigned[h] \cup new ELSE assigned[h]
    BY DEF GroupStep
  <2>2. gr[g].status # "complete"
    <3>1. Holds(worker[k].job) /\ worker[k].job \in Job
      BY RunnersJob DEF GroupStep, Running
    <3>2. g \in GroupingsOf(JobOf(k)) /\ g \in Grouping
      BY RunnersJob DEF GroupStep, GroupingsOf, Grouping
    <3>3. gr[g].job = worker[k].job
      BY <3>1, <3>2 DEF Holds, Owns, JobOf
    <3> QED
      BY <3>1, <3>2, <3>3 DEF Holds, Whole, MemberGroupings
  <2>3. \A h \in Grouping : Present(h[1])' = Present(h[1])
    BY <1>1 DEF Present
  <2>4. g[1] = r.src
    OBVIOUS
  <2> HIDE DEF g, r
  <2>5. \A h \in Grouping :
          /\ assigned'[h] \subseteq Present(h[1])
          /\ gr[h].status = "complete" => assigned'[h] = Present(h[1])
    <3> SUFFICES ASSUME NEW h \in Grouping
                 PROVE  /\ assigned'[h] \subseteq Present(h[1])
                        /\ gr[h].status = "complete" => assigned'[h] = Present(h[1])
      OBVIOUS
    <3>1. CASE h = g
      BY <3>1, <2>1, <2>2, <2>4 DEF Exact, GroupsExact
    <3>2. CASE h # g
      BY <3>2, <2>1 DEF Exact, GroupsExact
    <3> QED
      BY <3>1, <3>2
  <2> QED
    BY <1>1, <2>3, <2>5 DEF GroupsExact
<1>3. \A l \in Worker :
        /\ worker'[l].pc = "claimed" => worker'[l].last = 0 /\ worker'[l].seen = 0
        /\ worker'[l].pc = "running" =>
              /\ worker[l].pc = "running" /\ worker'[l].job = worker[l].job
              /\ worker'[l].last = worker[l].last /\ worker'[l].seen = worker[l].seen
  BY DEF GroupStep, Exact, Progress
<1> QED
  BY <1>1, <1>2, <1>3, OutputsKept, RunnersExact DEF Exact

\* A new job: its output is empty, and what it takes over is complete.
LEMMA GrantedExact ==
  ASSUME TypeOK, Owning, Running, Exact, NEW c \in Client, NEW j, NEW r, Granted(c, j, r)
  PROVE  Exact'
<1> DEFINE ws == WorkflowsOf(r)
<1>1. /\ j \in Job /\ job[j] = None /\ job'[j] = r /\ UNCHANGED <<row, assigned, worker>>
      /\ \A i \in Job : i # j => job'[i] = job[i]
      /\ \A w \in Workflow : w \notin ws => wf'[w] = wf[w]
      /\ \A w \in Workflow : w \in ws => wf'[w].status = "pending" /\ wf'[w].job = j
      /\ \A w \in Workflow : w # r.out => wf'[w].schema = wf[w].schema
  BY DEF Granted
<1>2. RowsKept /\ \A w \in Workflow : Present(w)' = Present(w)
  BY <1>1 DEF RowsKept, Present
<1>3. r.out # None => r.out \in Workflow /\ r.out \in ws /\ Present(r.out) = {}
  BY DEF Granted, WellFormedJob, WellFormed, Request, WorkflowsOf, Owning, RowsNameJobs
<1>4. \A w \in ws : wf[w].status \in {"absent", "complete"}
  BY DEF Granted, Queueable
<1> HIDE DEF ws
<1>5. \A i \in Job : job[i] # None => i # j
  BY <1>1
<1>6. OutputsExact'
  <2> SUFFICES ASSUME NEW i \in Job, job'[i] # None, job'[i].kind \in Derived,
                      wf'[job'[i].out].job # i \/ wf'[job'[i].out].status = "complete"
               PROVE  OutputExact(job[i])'
    BY DEF OutputsExact
  <2>1. CASE i = j
    <3>1. r.out # None
      BY <2>1, <1>1 DEF Granted, WellFormedJob, Derived
    <3> QED
      BY <2>1, <3>1, <1>1, <1>3
  <2>2. CASE i # j
    <3>1. job'[i] = job[i] /\ job[i].out \in Workflow /\ job[i].src \in Workflow
          /\ job[i].out \in WorkflowsOf(job[i])
      BY <2>2, <1>1, DerivedJob
    <3>2. job[i].out \in ws => wf[job[i].out].status = "complete"
      BY <2>2, <3>1, <1>4 DEF Owning, RowsNameJobs
    <3>3. wf[job[i].out].job # i \/ wf[job[i].out].status = "complete"
      BY <3>1, <3>2, <1>1
    <3>4. OutputExact(job[i])
      BY <3>1, <3>3 DEF Exact, OutputsExact
    <3> QED
      BY <3>1, <3>4, <1>1, <1>2 DEF OutputExact, Expected
  <2> QED
    BY <2>1, <2>2
<1>7. NewSchemas'
  <2> SUFFICES ASSUME NEW i \in Job, job'[i] # None, job'[i].kind \in {"map", "label_source"},
                      wf'[job'[i].out].job = i
               PROVE  wf'[job'[i].out].schema = {}
    BY DEF NewSchemas
  <2>1. CASE i = j
    <3>1. r.out # None /\ r.kind # "filter"
      BY <2>1, <1>1 DEF Granted, WellFormedJob, Derived
    <3> QED
      BY <2>1, <3>1, <1>1, <1>3 DEF Granted, ws
  <2>2. CASE i # j
    <3>1. job'[i] = job[i] /\ job[i].out \in Workflow
      BY <2>2, <1>1, DerivedJob DEF Derived
    <3>2. wf'[job[i].out] = wf[job[i].out]
      BY <2>2, <3>1, <1>1
    <3> QED
      BY <3>1, <3>2 DEF Exact, NewSchemas
  <2> QED
    BY <2>1, <2>2
<1>8. InstancesMatchSchema'
  <2>1. \A w \in Workflow, i \in Item : row[w][i].n > 0 => w # r.out
    BY <1>3, NoneAssumption DEF Present
  <2> QED
    BY <1>1, <2>1 DEF Exact, InstancesMatchSchema
<1>9. GroupsExact'
  <2>1. \A g \in Grouping : gr'[g].status = "complete" => gr[g].status = "complete"
    BY DEF Granted
  <2> QED
    BY <1>1, <1>2, <2>1, GroupsKept DEF Exact
<1>10. \A k \in Worker : worker[k].pc # "idle" =>
          /\ JobOf(k)' = JobOf(k)
          /\ \A w \in WorkflowsOf(JobOf(k)) : w \in Workflow => wf'[w] = wf[w]
  <2> SUFFICES ASSUME NEW k \in Worker, worker[k].pc # "idle"
               PROVE  /\ JobOf(k)' = JobOf(k)
                      /\ \A w \in WorkflowsOf(JobOf(k)) : w \in Workflow => wf'[w] = wf[w]
    OBVIOUS
  <2>1. worker[k].job \in Job /\ job[worker[k].job] # None
    BY DEF TypeOK
  <2>2. JobOf(k)' = JobOf(k)
    BY <2>1, <1>1 DEF JobOf
  <2>3. \A w \in WorkflowsOf(JobOf(k)) : w \in Workflow => wf[w].status \in {"processing", "failed"}
    BY DEF Running, Holds, Owns, Whole, MemberWorkflows, JobOf
  <2> QED
    BY <2>2, <2>3, <1>1, <1>4
<1>11. Progress'
  <2>1. ASSUME NEW k \in Worker, worker[k].pc = "running", JobOf(k).kind \in Derived
        PROVE  Written(k)'
    <3>1. JobOf(k).src \in Workflow /\ JobOf(k).out \in Workflow
      BY <2>1, RunnersJob
    <3> QED
      BY <1>1, <1>2, <1>10, <2>1, <3>1, WrittenKept DEF Exact, Progress
  <2> QED
    BY <1>1, <1>10, <2>1 DEF Exact, Progress
<1>12. FilterSchemas'
  <2> SUFFICES ASSUME NEW k \in Worker, worker[k].pc = "running", JobOf(k).kind = "filter"
               PROVE  wf'[JobOf(k).out].schema = wf'[JobOf(k).src].schema
    BY <1>1, <1>10 DEF FilterSchemas
  <2>1. JobOf(k).src \in Workflow /\ JobOf(k).out \in Workflow
    BY RunnersJob DEF Derived
  <2>2. JobOf(k).src \in WorkflowsOf(JobOf(k)) /\ JobOf(k).out \in WorkflowsOf(JobOf(k))
    BY <2>1, NoneAssumption DEF WorkflowsOf
  <2> QED
    BY <1>10, <2>1, <2>2 DEF Exact, FilterSchemas
<1> QED
  BY <1>6, <1>7, <1>8, <1>9, <1>11, <1>12 DEF Exact

\* A runner that is done has read all of its source, so its output is exact.
LEMMA DoneExact ==
  ASSUME TypeOK, Exact, NEW k \in Worker, worker[k].pc = "running", Done(k)
  PROVE  /\ JobOf(k).kind \in Derived => OutputExact(JobOf(k))
         /\ JobOf(k).kind = "group" =>
               assigned[<<JobOf(k).src, JobOf(k).fn>>] = Present(JobOf(k).src)
<1> DEFINE r == JobOf(k)
<1>1. CASE r.kind \in Derived
  <2>1. r.src \in Workflow /\ r.out \in Workflow
    BY <1>1, RunnersJob
  <2>2. worker[k].seen = Cardinality(Present(r.src)) /\ Written(k)
    BY <1>1 DEF Done, Exact, Progress, Derived
  <2>3. Read(k) \in SUBSET Present(r.src) /\ Present(r.src) \in SUBSET Item
    BY DEF Read, Present
  <2>4. Read(k) = Present(r.src)
    BY <2>2, <2>3, ItemsFinite, FS_Subset DEF Written
  <2>5. \A i \in Present(r.src) : i <= worker[k].last
    BY <2>4 DEF Read
  <2> QED
    BY <1>1, <2>2, <2>5 DEF Written, OutputExact, Expected, Derived
<1>2. CASE r.kind = "group"
  <2> DEFINE g == <<r.src, r.fn>>
  <2>1. g \in Grouping /\ g[1] = r.src
    BY <1>2, RunnersJob DEF Grouping
  <2>2. Cardinality(assigned[g]) = Cardinality(Present(r.src))
    BY <1>2 DEF Done
  <2> HIDE DEF g
  <2>3. assigned[g] \in SUBSET Present(r.src) /\ Present(r.src) \in SUBSET Item
    BY <2>1 DEF Exact, GroupsExact, Present
  <2> QED
    BY <1>2, <2>2, <2>3, ItemsFinite, FS_Subset DEF g, Derived
<1> QED
  BY <1>1, <1>2

LEMMA CompleteExact ==
  ASSUME TypeOK, Owning, Running, Exact, NEW k \in Worker, CompleteStep(k)
  PROVE  Exact'
<1> DEFINE j == worker[k].job
           r == JobOf(k)
<1>1. /\ worker[k].pc = "running" /\ Done(k) /\ MovedTo(j, "complete")
      /\ \A w \in Workflow :
            wf'[w].schema = IF wf[w].job = j THEN wf[w].schema \cup ({r.field} \ {None})
                                             ELSE wf[w].schema
      /\ \A w \in Workflow, i \in Item :
            row'[w][i] = IF r.kind = "annotation" /\ w = r.src THEN Annotated(row[w][i], r.field)
                                                               ELSE row[w][i]
      /\ \A l \in Worker : worker'[l] = IF l = k THEN IdleWorker ELSE worker[l]
      /\ UNCHANGED <<assigned, job>>
  BY DEF CompleteStep, JobOf, MovedTo
<1>2. j \in Job /\ job[j] # None /\ r = job[j] /\ Owns(j)
  BY <1>1 DEF TypeOK, JobOf, Running, Holds
<1>3. \A w \in Workflow, i \in Item : row[w][i] \in Instance
  BY DEF TypeOK
<1>4. \A w \in Workflow, i \in Item : row'[w][i].n = row[w][i].n
  BY <1>1, <1>3 DEF Annotated, Instance
<1>5. \A w \in Workflow : Present(w)' = Present(w)
  BY <1>4 DEF Present
<1>6. \A w \in Workflow : wf[w].job = j => w \in WorkflowsOf(r)
  BY <1>2, NoneAssumption DEF Owning, RowsNameJobs
<1>7. r.kind # "annotation" => {r.field} \ {None} = {}
  BY <1>1, RunnersJob
<1>8. r.kind = "annotation" => /\ r.src \in Workflow /\ r.src \in WorkflowsOf(r)
                               /\ \A w \in WorkflowsOf(r) : w = r.src
                               /\ {r.field} \ {None} = {r.field}
  BY <1>1, <1>2, RunnersJob, JobRows, NoneAssumption DEF WorkflowsOf
<1> HIDE DEF j, r
<1>9. OutputsExact'
  <2> SUFFICES ASSUME NEW i \in Job, job[i] # None, job[i].kind \in Derived,
                      wf'[job[i].out].job # i \/ wf'[job[i].out].status = "complete"
               PROVE  OutputExact(job[i])'
    BY <1>1 DEF OutputsExact
  <2>1. job[i].out \in Workflow /\ job[i].src \in Workflow
    BY DerivedJob
  <2>2. OutputExact(job[i])
    <3>1. CASE i = j
      BY <3>1, <1>1, <1>2, DoneExact DEF r
    <3>2. CASE i # j
      <4>1. wf[job[i].out].job # i \/ wf[job[i].out].status = "complete"
        BY <3>2, <2>1, <1>1 DEF MovedTo
      <4> QED
        BY <4>1 DEF Exact, OutputsExact
    <3> QED
      BY <3>1, <3>2
  <2> QED
    BY <1>1, <1>4, <1>5, <2>1, <2>2 DEF OutputExact, Expected
<1>10. GroupsExact'
  <2>1. ASSUME NEW g \in Grouping, gr'[g].status = "complete" PROVE assigned[g] = Present(g[1])
    <3>1. CASE gr[g].job = j
      <4>1. g \in GroupingsOf(r)
        BY <3>1, <1>2, NoneAssumption DEF Owning, RowsNameJobs
      <4>2. r.kind = "group" /\ g = <<r.src, r.fn>>
        BY <4>1 DEF GroupingsOf
      <4>3. assigned[<<r.src, r.fn>>] = Present(r.src)
        BY <4>2, <1>1, DoneExact DEF r
      <4>4. g[1] = r.src
        BY <4>2
      <4> QED
        BY <4>2, <4>3, <4>4
    <3>2. CASE gr[g].job # j
      BY <2>1, <3>2, <1>1 DEF MovedTo, Exact, GroupsExact
    <3> QED
      BY <3>1, <3>2
  <2>2. \A g \in Grouping : Present(g[1])' = Present(g[1])
    BY <1>5 DEF Grouping
  <2> QED
    BY <2>1, <2>2, <1>1 DEF Exact, GroupsExact
<1>11. NewSchemas'
  <2> SUFFICES ASSUME NEW i \in Job, job[i] # None, job[i].kind \in {"map", "label_source"},
                      wf'[job[i].out].job = i
               PROVE  wf'[job[i].out].schema = {}
    BY <1>1 DEF NewSchemas
  <2>1. job[i].out \in Workflow
    BY DerivedJob DEF Derived
  <2>2. wf[job[i].out].job = i /\ wf[job[i].out].schema = {}
    BY <2>1, <1>1 DEF MovedTo, Exact, NewSchemas
  <2> QED
    BY <2>1, <2>2, <1>1, <1>2, <1>7
<1>12. InstancesMatchSchema'
  <2> SUFFICES ASSUME NEW w \in Workflow, NEW i \in Item, row'[w][i].n > 0
               PROVE  row'[w][i].fields = wf'[w].schema
    BY DEF InstancesMatchSchema
  <2>1. row[w][i].n > 0 /\ row[w][i].fields = wf[w].schema /\ row[w][i] \in Instance
    BY <1>3, <1>4 DEF Exact, InstancesMatchSchema
  <2>2. CASE r.kind = "annotation" /\ w = r.src
    <3>1. wf[w].job = j
      BY <2>2, <1>2, <1>8 DEF Owns
    <3>2. wf'[w].schema = wf[w].schema \cup {r.field}
      BY <3>1, <2>2, <1>1, <1>8
    <3>3. row'[w][i].fields = row[w][i].fields \cup {r.field}
      <4>1. row'[w][i] = Annotated(row[w][i], r.field)
        BY <2>2, <1>1
      <4>2. row[w][i].n # 0
        BY <2>1 DEF Instance
      <4> QED
        BY <2>1, <4>1, <4>2 DEF Annotated, Instance
    <3> QED
      BY <2>1, <3>2, <3>3
  <2>3. CASE ~(r.kind = "annotation" /\ w = r.src)
    <3>1. wf'[w].schema = wf[w].schema
      BY <2>3, <1>1, <1>6, <1>7, <1>8
    <3> QED
      BY <2>1, <2>3, <3>1, <1>1
  <2> QED
    BY <2>2, <2>3
<1>13. ASSUME NEW l \in Worker, worker'[l].pc # "idle"
       PROVE  /\ l # k /\ worker'[l] = worker[l] /\ JobOf(l)' = JobOf(l)
              /\ worker[l].job \in Job /\ worker[l].job # j
  BY <1>13, <1>1 DEF IdleWorker, JobOf, TypeOK, Running, j
<1>14. Progress'
  <2>1. ASSUME NEW l \in Worker, worker'[l].pc = "running", JobOf(l).kind \in Derived
        PROVE  Written(l)'
    <3>1. worker[l].pc = "running" /\ worker'[l] = worker[l] /\ JobOf(l)' = JobOf(l)
      BY <2>1, <1>13
    <3>2. JobOf(l).src \in Workflow /\ JobOf(l).out \in Workflow
      BY <2>1, <3>1, RunnersJob
    <3> QED
      BY <2>1, <3>1, <3>2, <1>4, <1>5, WrittenKept DEF Exact, Progress
  <2> QED
    BY <1>13, <2>1 DEF Exact, Progress
<1>15. FilterSchemas'
  <2> SUFFICES ASSUME NEW l \in Worker, worker'[l].pc = "running", JobOf(l).kind = "filter"
               PROVE  wf'[JobOf(l).out].schema = wf'[JobOf(l).src].schema
    BY <1>13 DEF FilterSchemas
  <2>1. worker[l].pc = "running" /\ worker[l].job \in Job /\ worker[l].job # j
    BY <1>13
  <2>2. JobOf(l).src \in Workflow /\ JobOf(l).out \in Workflow
    BY <2>1, RunnersJob DEF Derived
  <2>3. wf[JobOf(l).src].job = worker[l].job /\ wf[JobOf(l).out].job = worker[l].job
    BY <2>1, <2>2, NoneAssumption DEF Running, Holds, Owns, WorkflowsOf, JobOf
  <2> QED
    BY <2>1, <2>2, <2>3, <1>1 DEF Exact, FilterSchemas
<1> QED
  BY <1>9, <1>10, <1>11, <1>12, <1>14, <1>15 DEF Exact

\* What a batch adds to the output, and what the runner has then read.
LEMMA BatchWritten ==
  ASSUME TypeOK, Exact, NEW k \in Worker, NEW new, DeriveStep(k, new),
         JobOf(k).kind \in Derived, Present(JobOf(k).src)' = Present(JobOf(k).src)
  PROVE  Written(k)'
<1> DEFINE r == JobOf(k)
           R == Remaining(k)
           B == Batch(R)
           last == worker[k].last
<1>1. /\ worker[k].pc = "running" /\ B # {} /\ new \in SUBSET B
      /\ r.kind = "map" => new = B
      /\ r.kind = "filter" => new = B \cap Passing
      /\ \A i \in Item : i \in new => row'[r.out][i].n = row[r.out][i].n + 1
      /\ \A i \in Item : i \notin new => row'[r.out][i] = row[r.out][i]
      /\ worker'[k].job = worker[k].job
      /\ worker'[k].last = Last(B) /\ worker'[k].seen = worker[k].seen + Cardinality(B)
  BY RunnersJob DEF DeriveStep
<1>2. r.src \in Workflow /\ r.out \in Workflow /\ last \in Nat
  BY <1>1, RunnersJob DEF Runner
<1>3. R = {i \in Present(r.src) : i > last} /\ R \in SUBSET Item
  BY RemainingItems DEF Remaining, Derived
<1>4. B \in SUBSET R /\ Last(B) \in B /\ \A i \in R : i \in B <=> i <= Last(B)
  BY <1>1, <1>3, BatchSegment
<1>5. JobOf(k)' = r
  BY <1>1 DEF JobOf, DeriveStep
<1>6. /\ \A i \in Item : row[r.out][i].n = IF i <= last THEN Expected(r, i) ELSE 0
      /\ worker[k].seen = Cardinality(Read(k))
  BY <1>1 DEF Exact, Progress, Written
<1>7. \A i \in Item : i \in Nat
  BY SizeAssumption DEF Item
<1>8. Last(B) \in Nat /\ Last(B) > last
  BY <1>3, <1>4, <1>7
<1> HIDE DEF B, R, r, last
<1>9. ASSUME NEW i \in Item
      PROVE  row'[r.out][i].n = IF i <= Last(B) THEN Expected(r, i) ELSE 0
  <2>1. CASE i <= last
    <3>1. i \notin new /\ i <= Last(B)
      BY <2>1, <1>1, <1>2, <1>3, <1>4, <1>7, <1>8
    <3> QED
      BY <2>1, <3>1, <1>1, <1>6
  <2>2. CASE i > last /\ i \in Present(r.src)
    <3>1. i \in R /\ row[r.out][i].n = 0
      BY <2>2, <1>2, <1>3, <1>6, <1>7
    <3>2. i \in B <=> i <= Last(B)
      BY <3>1, <1>4
    <3>3. i \in new <=> i \in B /\ (r.kind = "filter" => i \in Passing)
      BY <1>1 DEF Derived, r
    <3> QED
      BY <2>2, <3>1, <3>2, <3>3, <1>1 DEF Expected
  <2>3. CASE i > last /\ i \notin Present(r.src)
    <3>1. i \notin new /\ row[r.out][i].n = 0
      BY <2>3, <1>1, <1>2, <1>3, <1>4, <1>6, <1>7
    <3> QED
      BY <2>3, <3>1, <1>1 DEF Expected
  <2> QED
    BY <2>1, <2>2, <2>3, <1>2, <1>7
<1>10. Read(k)' = {i \in Present(r.src) : i <= Last(B)}
  BY <1>1, <1>5 DEF Read, r
<1>11. Read(k) = {i \in Present(r.src) : i <= last}
  BY DEF Read, r, last
<1>12. \A i \in Present(r.src) : i \in Item
  BY DEF Present
<1>13. {i \in Present(r.src) : i <= Last(B)} = Read(k) \cup B
  <2>1. \A i \in Present(r.src) : i <= Last(B) <=> i <= last \/ i \in B
    BY <1>2, <1>3, <1>4, <1>7, <1>8, <1>12
  <2>2. B \subseteq Present(r.src)
    BY <1>3, <1>4
  <2> QED
    BY <2>1, <2>2, <1>11
<1>14. Read(k) \cap B = {}
  BY <1>2, <1>3, <1>4, <1>7, <1>11, <1>12
<1>15. IsFiniteSet(Read(k)) /\ IsFiniteSet(B) /\ Cardinality(Read(k)) \in Nat /\ Cardinality(B) \in Nat
  <2>1. Read(k) \in SUBSET Item /\ B \in SUBSET Item
    BY <1>3, <1>4, <1>11, <1>12
  <2> QED
    BY <2>1, ItemsFinite
<1>16. Cardinality(Read(k) \cup B) = Cardinality(Read(k)) + Cardinality(B)
  <2>1. Cardinality(Read(k) \cup B) = Cardinality(Read(k)) + Cardinality(B) - Cardinality(Read(k) \cap B)
    BY <1>15, FS_Union
  <2>2. Cardinality(Read(k) \cap B) = 0
    BY <1>14, FS_EmptySet
  <2> QED
    BY <1>15, <2>1, <2>2
<1>17. worker'[k].seen = Cardinality(Read(k)')
  BY <1>1, <1>6, <1>10, <1>13, <1>16
<1>18. \A i \in Item : Expected(r, i)' = Expected(r, i)
  BY <1>5 DEF Expected, r
<1>19. \A i \in Item : row'[r.out][i].n = IF i <= worker'[k].last THEN Expected(r, i) ELSE 0
  BY <1>1, <1>9
<1>20. \A i \in Item : row'[JobOf(k)'.out][i].n = IF i <= worker'[k].last THEN Expected(JobOf(k), i)' ELSE 0
  BY <1>5, <1>18, <1>19 DEF r
<1> QED
  BY <1>17, <1>20 DEF Written

\* Only the runner's own output changes, and nobody reads it yet.
LEMMA DeriveExact ==
  ASSUME TypeOK, Owning, Running, Exact, NEW k \in Worker, NEW new, DeriveStep(k, new)
  PROVE  Exact'
<1> DEFINE j == worker[k].job
           r == JobOf(k)
<1>1. /\ worker[k].pc = "running" /\ r.kind \in {"label_source", "map", "filter"}
      /\ new \in SUBSET Batch(Remaining(k))
      /\ \A w \in Workflow, i \in Item :
            IF w = r.out /\ i \in new
            THEN /\ row'[w][i].n = row[w][i].n + 1
                 /\ row'[w][i].fields = IF r.kind = "filter" THEN row[r.src][i].fields ELSE {}
            ELSE row'[w][i] = row[w][i]
      /\ \A l \in Worker : l # k => worker'[l] = worker[l]
      /\ worker'[k].pc = "running" /\ worker'[k].job = worker[k].job
      /\ UNCHANGED <<wf, gr, assigned, job>>
  BY DEF DeriveStep
<1>2. j \in Job /\ job[j] # None /\ r = job[j] /\ Owns(j)
  BY <1>1 DEF TypeOK, JobOf, Running, Holds
<1>3. r.out \in Workflow /\ r.out # None /\ r.out \in WorkflowsOf(r)
  BY <1>1, <1>2, RunnersJob, NoneAssumption DEF Derived, WorkflowsOf
<1>4. wf[r.out].job = j /\ wf[r.out].status # "complete"
  BY <1>1, <1>2, <1>3 DEF Owns, Running, Holds, Whole, MemberWorkflows
<1>5. \A i \in Job : job[i] # None => /\ job[i].out = r.out => i = j
                                      /\ job[i].src # r.out
  BY <1>2, <1>3, <1>4 DEF Owning, OneProducer
<1>6. \A w \in Workflow, i \in Item : w # r.out => row'[w][i] = row[w][i]
  BY <1>1
<1>7. \A w \in Workflow : w # r.out => Present(w)' = Present(w)
  BY <1>6 DEF Present
<1>8. \A i \in Item : row[r.out][i].n \in Nat
  BY <1>3 DEF TypeOK, Instance
<1>9. Present(r.out) \subseteq {i \in Item : row'[r.out][i].n > 0}
  BY <1>1, <1>3, <1>8 DEF Present
<1>10. \A l \in Worker : JobOf(l)' = JobOf(l)
  BY <1>1 DEF JobOf
<1> HIDE DEF j, r
<1>11. OutputsExact'
  <2> SUFFICES ASSUME NEW i \in Job, job[i] # None, job[i].kind \in Derived,
                      wf[job[i].out].job # i \/ wf[job[i].out].status = "complete"
               PROVE  OutputExact(job[i])'
    BY <1>1 DEF OutputsExact
  <2>1. job[i].out \in Workflow /\ job[i].src \in Workflow
    BY DerivedJob
  <2>2. job[i].out # r.out /\ job[i].src # r.out
    BY <1>4, <1>5
  <2>3. OutputExact(job[i])
    BY DEF Exact, OutputsExact
  <2> QED
    BY <1>1, <1>6, <1>7, <2>1, <2>2, <2>3 DEF OutputExact, Expected
<1>12. GroupsExact'
  <2> SUFFICES ASSUME NEW g \in Grouping
               PROVE  /\ assigned[g] \subseteq Present(g[1])'
                      /\ gr[g].status = "complete" => assigned[g] = Present(g[1])'
    BY <1>1 DEF GroupsExact
  <2>1. g[1] \in Workflow
    BY DEF Grouping
  <2>2. CASE g[1] # r.out
    BY <2>1, <2>2, <1>7 DEF Exact, GroupsExact
  <2>3. CASE g[1] = r.out
    <3>1. gr[g].job = None
      <4> SUFFICES ASSUME gr[g].job # None PROVE FALSE
        OBVIOUS
      <4>1. gr[g].job \in Job /\ job[gr[g].job] # None /\ g \in GroupingsOf(job[gr[g].job])
        BY DEF Owning, RowsNameJobs, TypeOK, GrRow
      <4>2. job[gr[g].job].src = r.out
        BY <2>3, <4>1, JobRows
      <4> QED
        BY <1>5, <4>1, <4>2
    <3>2. gr[g].status # "complete"
      BY <3>1 DEF Owning, RowsNameJobs
    <3>3. Present(r.out)' = {i \in Item : row'[r.out][i].n > 0}
      BY <1>10 DEF Present, r
    <3>4. Present(g[1])' = {i \in Item : row'[g[1]][i].n > 0}
      BY DEF Present
    <3> QED
      BY <2>3, <3>2, <3>4, <1>9 DEF Exact, GroupsExact
  <2> QED
    BY <2>2, <2>3
<1>13. NewSchemas' /\ FilterSchemas'
  <2>1. NewSchemas'
    BY <1>1 DEF Exact, NewSchemas
  <2>2. FilterSchemas'
    BY <1>1, <1>10 DEF Exact, FilterSchemas
  <2> QED
    BY <2>1, <2>2
<1>14. InstancesMatchSchema'
  <2> SUFFICES ASSUME NEW w \in Workflow, NEW i \in Item, row'[w][i].n > 0
               PROVE  row'[w][i].fields = wf[w].schema
    BY <1>1 DEF InstancesMatchSchema
  <2>1. CASE w = r.out /\ i \in new
    <3>1. CASE r.kind = "filter"
      <4>1. i \in Present(r.src) /\ r.src \in Workflow
        BY <2>1, <3>1, <1>1, RunnersJob DEF Batch, Remaining, Derived, r
      <4>2. row[r.src][i].fields = wf[r.src].schema
        BY <4>1 DEF Exact, InstancesMatchSchema, Present
      <4>3. wf[r.out].schema = wf[r.src].schema
        BY <3>1, <1>1 DEF Exact, FilterSchemas, r
      <4> QED
        BY <2>1, <3>1, <4>2, <4>3, <1>1
    <3>2. CASE r.kind # "filter"
      <4>1. wf[r.out].schema = {}
        BY <3>2, <1>1, <1>2, <1>4 DEF Exact, NewSchemas
      <4> QED
        BY <2>1, <3>2, <4>1, <1>1
    <3> QED
      BY <3>1, <3>2
  <2>2. CASE ~(w = r.out /\ i \in new)
    BY <2>2, <1>1 DEF Exact, InstancesMatchSchema
  <2> QED
    BY <2>1, <2>2
<1>15. Progress'
  <2>1. ASSUME NEW l \in Worker, l # k, worker[l].pc = "running", JobOf(l).kind \in Derived
        PROVE  Written(l)'
    <3>1. JobOf(l).src \in Workflow /\ JobOf(l).out \in Workflow
      BY <2>1, RunnersJob
    <3>2. JobOf(l).src \in WorkflowsOf(JobOf(l)) /\ JobOf(l).out \in WorkflowsOf(JobOf(l))
      BY <3>1, NoneAssumption DEF WorkflowsOf
    <3>3. JobOf(l).src # r.out /\ JobOf(l).out # r.out
      BY <2>1, <3>2, <1>1, <1>3, DisjointJobs DEF r
    <3> QED
      BY <2>1, <3>1, <3>3, <1>1, <1>6, <1>7, <1>10, WrittenKept DEF Exact, Progress
  <2>2. ASSUME JobOf(k).kind \in Derived PROVE Written(k)'
    <3>1. JobOf(k).src \in Workflow /\ JobOf(k).src # r.out
      BY <2>2, <1>1, <1>2, <1>5, RunnersJob DEF r
    <3>2. Present(JobOf(k).src)' = Present(JobOf(k).src)
      BY <3>1, <1>6, <1>10 DEF Present
    <3> QED
      BY <2>2, <3>2, BatchWritten
  <2> QED
    BY <2>1, <2>2, <1>1, <1>10 DEF Exact, Progress
<1> QED
  BY <1>11, <1>12, <1>13, <1>14, <1>15 DEF Exact

LEMMA NextExact ==
  ASSUME TypeOK, TypeOK', Owning, Running, Exact, [Next]_vars
  PROVE  Exact'
  BY StepKinds, PlainExact, GrantedExact, InspectExact, CompleteExact, GroupExact, DeriveExact

-----------------------------------------------------------------------------
LEMMA InitInv ==
  ASSUME Init
  PROVE  IInv
<1>1. TypeOK
  <2>1. \A w \in Workflow : [status |-> IF w \in Base THEN "complete" ELSE "absent",
                             job |-> None, schema |-> {}] \in WfRow
    BY DEF WfRow, Status
  <2>2. wf \in [Workflow -> WfRow] /\ gr \in [Grouping -> GrRow]
    BY <2>1 DEF Init, GrRow, Status
  <2>3. NoInstance \in Instance /\ [NoInstance EXCEPT !.n = 1] \in Instance
    BY DEF NoInstance, Instance
  <2>4. row \in [Workflow -> [Item -> Instance]]
    BY <2>3 DEF Init
  <2>5. ctl \in [Client -> Ctl] /\ \A c \in Client : ctl[c].pc = "idle"
    BY IdleTypes DEF Init
  <2>6. worker \in [Worker -> Runner] /\ \A k \in Worker : worker[k].pc = "idle"
    BY IdleTypes DEF Init, IdleWorker
  <2> QED
    BY <2>2, <2>4, <2>5, <2>6 DEF Init, TypeOK, Ctl, Runner
<1>2. \A w \in Workflow : /\ wf[w].job = None /\ wf[w].schema = {}
                          /\ wf[w].status \in {"absent", "complete"}
                          /\ wf[w].status = "absent" => w \notin Base
  BY DEF Init
<1>3. \A g \in Grouping : gr[g].status = "absent" /\ gr[g].job = None /\ assigned[g] = {}
  BY DEF Init
<1>4. \A j \in Job : job[j] = None /\ MemberWorkflows(j) = {} /\ MemberGroupings(j) = {}
  BY <1>2, <1>3, NoneAssumption DEF Init, MemberWorkflows, MemberGroupings
<1>5. (\A c \in Client : ctl[c].pc = "idle") /\ \A k \in Worker : worker[k].pc = "idle"
  BY DEF Init, IdleClient, IdleWorker
<1>6. \A w \in Workflow, i \in Item : row[w][i].fields = {} /\ (w \notin Base => row[w][i].n = 0)
  BY DEF Init, NoInstance
<1>7. \A w \in Workflow : wf[w].status = "absent" => Present(w) = {}
  BY <1>2, <1>6 DEF Present
<1>8. Owning
  <2>1. RowsNameJobs
    BY <1>2, <1>3, <1>4, <1>5, <1>7 DEF RowsNameJobs, Busy
  <2>2. OneProducer /\ KeptWhole /\ UniformJob
    BY <1>4 DEF OneProducer, KeptWhole, UniformJob
  <2>3. NeighbourhoodExclusive
    BY <1>3 DEF NeighbourhoodExclusive, Busy
  <2> QED
    BY <2>1, <2>2, <2>3 DEF Owning
<1>9. Running
  BY <1>5 DEF Running
<1>10. Exact
  <2>1. Progress /\ FilterSchemas
    BY <1>5 DEF Progress, FilterSchemas
  <2>2. OutputsExact /\ NewSchemas
    BY <1>4 DEF OutputsExact, NewSchemas
  <2>3. GroupsExact
    BY <1>3 DEF GroupsExact
  <2>4. InstancesMatchSchema
    BY <1>2, <1>6 DEF InstancesMatchSchema
  <2> QED
    BY <2>1, <2>2, <2>3, <2>4 DEF Exact
<1> QED
  BY <1>1, <1>8, <1>9, <1>10 DEF IInv

\* IInv holds in every reachable state of the filter jobs.
THEOREM Invariance == Spec => []IInv
<1>1. IInv /\ [Next]_vars => IInv'
  <2> SUFFICES ASSUME IInv, [Next]_vars PROVE IInv'
    OBVIOUS
  <2>1. TypeOK'
    BY NextType DEF IInv
  <2> QED
    BY <2>1, NextOwning, NextRunning, NextExact DEF IInv
<1> QED
  BY <1>1, InitInv, PTL DEF Spec

-----------------------------------------------------------------------------
\* Every variable has its type, every queued job and every runner names a
\* request that the service has accepted.
THEOREM TypeCorrect == Spec => []TypeOK
  BY Invariance, PTL DEF IInv

\* claim_fjob, clear_fjob and abort_fjob move a job as a whole: the rows it last
\* owned always share one status.
THEOREM JobsUniform == Spec => []UniformJob
  BY Invariance, PTL DEF IInv, Owning

\* queue_fjob never lets two jobs into the neighbourhood of one workflow.
THEOREM NeighbourhoodsExclusive == Spec => []NeighbourhoodExclusive
  BY Invariance, PTL DEF IInv, Owning

\* A claim gives a job to one runner, and the runners of different jobs have no
\* workflow in common.
THEOREM OneRunnerEach == Spec => []OneRunner
<1>1. IInv => OneRunner
  <2> SUFFICES ASSUME IInv, NEW k \in Worker, NEW l \in Worker, k # l,
                      worker[k].pc # "idle", worker[l].pc # "idle"
               PROVE  /\ worker[k].job # worker[l].job
                      /\ ({JobOf(k).src, JobOf(k).out} \cap {JobOf(l).src, JobOf(l).out}) \subseteq {None}
    BY DEF OneRunner
  <2>1. worker[k].job # worker[l].job /\ WorkflowsOf(JobOf(k)) \cap WorkflowsOf(JobOf(l)) = {}
    BY DisjointJobs DEF IInv
  <2> QED
    BY <2>1 DEF WorkflowsOf
<1> QED
  BY <1>1, Invariance, PTL

\* Annotations, maps, filters and label sources leave every instance with exactly
\* the annotated fields of its workflow's schema.
THEOREM SchemasMatch == Spec => []InstancesMatchSchema
  BY Invariance, PTL DEF IInv, Exact

\* The outputs of maps and filters that are shown as complete, and the complete
\* groupings, are exact, although their batches were committed one by one.
THEOREM OutputsComplete == Spec => []CompleteIsExact
<1>1. IInv => CompleteIsExact
  <2> SUFFICES ASSUME IInv PROVE CompleteIsExact
    OBVIOUS
  <2>1. \A j \in Job : job[j] # None /\ job[j].kind \in Derived /\ wf[job[j].out].status = "complete"
                        => OutputExact(job[j])
    BY DEF IInv, Exact, OutputsExact
  <2>2. \A g \in Grouping : gr[g].status = "complete" => assigned[g] = Present(g[1])
    BY DEF IInv, Exact, GroupsExact
  <2> QED
    BY <2>1, <2>2 DEF CompleteIsExact, OutputExact, Expected, Derived
<1> QED
  BY <1>1, Invariance, PTL
=============================================================================
