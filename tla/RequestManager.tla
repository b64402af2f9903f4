---------------------------- MODULE RequestManager ----------------------------
(***************************************************************************)
(* The editor's request manager (frontend/src/edit/controller/              *)
(* requestmanager.ts) with the id repository it reserves ids in and the     *)
(* backend's cache of request results.  Requests are numbered in the order  *)
(* in which they are enqueued.  One pass of send() takes the reservable     *)
(* prefix of the queue, resends what is to be retried, polls what is due,   *)
(* waits for all of them and settles the results.                           *)
(***************************************************************************)
EXTENDS Integers, FiniteSets, Sequences

CONSTANTS N,            \* requests of the session
          Id,           \* provisional ids
          Fresh,        \* ids a request still has to create or load
          Needs,        \* Needs[r]: the modes in which r reserves its ids
          Cached,       \* requests with cached: true
          Refused,      \* requests the server or their postSend may refuse
          Skippable,    \* requests whose skip() may answer true
          Retries,      \* a request's retries
          MaxReports    \* bound: reports of one request

Request == 1..N
MaxGen == Retries + 1

VARIABLES enqueued,     \* requests enqueued so far
          started,      \* requests taken from the queue so far
          retry,        \* retryRequests
          polls,        \* statusQueries
          left,         \* left[r]: retries of r
          gen,          \* gen[r]: times the key of r was regenerated
          flight,       \* flight[r]: r in the current pass
          repo,         \* repo[i]: the entry of id i
          ended,        \* ended[r]: the handlers of r that were called
          calls, cache, ran

INSTANCE RequestCache
INSTANCE IdRepository

backend == <<calls, cache, ran>>
queues == <<enqueued, started, retry, polls>>
vars == <<queues, left, gen, flight, repo, ended, backend>>

(* The data managers do not enqueue a request for an id after one that      *)
(* removes it.                                                              *)
Removes == {"deleting", "detaching", "killing"}

ASSUME NAssumption == N \in Nat
ASSUME RetriesAssumption == Retries \in Nat /\ MaxReports \in Nat
ASSUME SetsAssumption ==
  Fresh \subseteq Id /\ Cached \cup Refused \cup Skippable \subseteq Request
ASSUME NeedsAssumption ==
  /\ DOMAIN Needs = Request
  /\ \A r \in Request :
       DOMAIN Needs[r] \subseteq Id /\ \A i \in DOMAIN Needs[r] : Needs[r][i] \in Modes
ASSUME RemovesLast ==
  \A r, s \in Request : r < s =>
    \A i \in DOMAIN Needs[r] \cap DOMAIN Needs[s] : Needs[r][i] \notin Removes

Results == {"ok", "pending", "timeout", "connection", "conflict", "nocache", "fatal"}
Reports == {"success", "failure", "fatal", "skipped"}

TypeOK ==
  /\ enqueued \in 0..N /\ started \in 0..enqueued
  /\ retry \subseteq 1..started /\ polls \subseteq Cached \cap 1..started
  /\ left \in [Request -> -1..Retries]
  /\ gen \in [Request -> 0..MaxGen]
  /\ \A r \in Request : left[r] + gen[r] <= Retries
  /\ flight \in [Request -> {"none", "called", "polled"} \cup Results]
  /\ repo \in [Id -> Entries]
  /\ ended \in [Request -> Seq(Reports)]
  /\ BackendTypeOK

Init ==
  /\ enqueued = 0 /\ started = 0 /\ retry = {} /\ polls = {}
  /\ left = [r \in Request |-> Retries]
  /\ gen = [r \in Request |-> 0]
  /\ flight = [r \in Request |-> "none"]
  /\ repo = [i \in Id |-> IF i \in Fresh THEN NewEntry ELSE BoundEntry]
  /\ ended = [r \in Request |-> <<>>]
  /\ BackendInit

-----------------------------------------------------------------------------
KeyOf(r) == <<r, gen[r]>>
InPass == {r \in Request : flight[r] # "none"}
With(results) == {r \in Request : flight[r] \in results}
Users(i, rs) == {r \in rs : i \in DOMAIN Needs[r]}

CanReserve(rep, r) == \A i \in DOMAIN Needs[r] : IsReserveable(rep[i], Needs[r][i])

ReserveAll(rep, r) ==
  [i \in Id |-> IF i \in DOMAIN Needs[r] THEN Reserve(rep[i], Needs[r][i]) ELSE rep[i]]

ReleaseAll(rep, rs, ok) ==
  [i \in Id |-> Release(rep[i], Cardinality(Users(i, rs)), ok)]

(* postSend binds the ids that its request created or loaded. *)
Binds(r, i) == i \in DOMAIN Needs[r] /\ Needs[r][i] \in Creates
Bind(rep, rs) ==
  [i \in Id |-> [rep[i] EXCEPT !.bound = @ \/ \E r \in rs : Binds(r, i)]]

Report(rs, what) ==
  [r \in Request |-> IF r \in rs THEN Append(ended[r], what) ELSE ended[r]]

Enqueue ==
  /\ enqueued < N
  /\ enqueued' = enqueued + 1
  /\ UNCHANGED <<started, retry, polls, left, gen, flight, repo, ended, backend>>

-----------------------------------------------------------------------------
(* send(), first part: requests without retries left are removed, released   *)
(* and reported, and the pass fails.                                        *)
\* Mutant: a request is retried once more than it may be.
ExhaustedLate == {r \in retry \cup polls : left[r] < -1}

Exhausted == {r \in retry \cup polls : left[r] < 0}

\* Mutant: an exhausted request is reported but stays in its queue.
ExhaustInPlace ==
  /\ InPass = {} /\ Exhausted # {}
  /\ repo' = ReleaseAll(repo, Exhausted, FALSE)
  /\ ended' = Report(Exhausted, "failure")
  /\ UNCHANGED <<queues, left, gen, flight, backend>>

Exhaust ==
  /\ InPass = {} /\ Exhausted # {}
  /\ retry' = retry \ Exhausted /\ polls' = polls \ Exhausted
  /\ repo' = ReleaseAll(repo, Exhausted, FALSE)
  /\ ended' = Report(Exhausted, "failure")
  /\ UNCHANGED <<enqueued, started, left, gen, flight, backend>>

(* The repository after each of the queue's first requests is reserved. *)
Walk(skips) ==
  LET rep[n \in started..enqueued] ==
        IF n = started THEN repo
        ELSE IF n \in skips THEN rep[n - 1]
        ELSE ReserveAll(rep[n - 1], n)
  IN rep

(* send(), second part: requests up to n leave the queue, those in skips     *)
(* for good; status queries that are due are polled, retries are resent.    *)
StartPass(n, skips, due) ==
  LET rep == Walk(skips)
      taken == (started + 1..n) \ skips
      sent == taken \cup retry
  IN /\ InPass = {} /\ Exhausted = {}
     /\ \A m \in taken : CanReserve(rep[m - 1], m)
     /\ n < enqueued => ~CanReserve(rep[n], n + 1)
     /\ n > started \/ retry \cup due # {}
     /\ started' = n
     /\ repo' = rep[n]
     /\ polls' = polls \ due
     /\ ended' = Report(skips, "skipped")
     /\ flight' = [r \in Request |-> IF r \in sent THEN "called"
                                     ELSE IF r \in due THEN "polled" ELSE "none"]
     /\ calls' = calls \cup {NewCall(KeyOf(r)) : r \in sent \cap Cached}
     /\ UNCHANGED <<enqueued, retry, left, gen, cache, ran>>

Pass(due) ==
  \E n \in started..enqueued : \E skips \in SUBSET (Skippable \cap (started + 1..n)) :
    StartPass(n, skips, due)

-----------------------------------------------------------------------------
(* While a pass waits: answers, errors and the time limit of 10 seconds. *)
ManagerUnchanged == UNCHANGED <<queues, left, gen, repo, ended>>

Reply(c, result) ==
  /\ flight' = IF c.awaited THEN [flight EXCEPT ![c.key[1]] = result] ELSE flight
  /\ ManagerUnchanged

Serve(c) ==
  \/ Accept(c) /\ UNCHANGED flight /\ ManagerUnchanged
  \/ Execute(c) /\ UNCHANGED flight /\ ManagerUnchanged
  \/ Reject(c) /\ Reply(c, "conflict")
  \/ Answer(c) /\ Reply(c, "ok")

ServerRefuses(c) == c.key[1] \in Refused /\ Refuse(c) /\ Reply(c, "fatal")

StoreFails(c) == CacheWriteFails(c) /\ Reply(c, "fatal")
ServerDies(c) == Die(c) /\ Reply(c, "connection")

(* An endpoint without a cache answers. *)
AnswerUncached(r) ==
  /\ r \notin Cached /\ flight[r] = "called"
  /\ \/ flight' = [flight EXCEPT ![r] = "ok"]
     \/ r \in Refused /\ flight' = [flight EXCEPT ![r] = "fatal"]
  /\ ManagerUnchanged /\ UNCHANGED backend

(* requestStatusQuery reads the entry of the request's key. *)
PollResult(status) ==
  CASE status = "none"    -> "nocache"
    [] status = "pending" -> "pending"
    [] status = "success" -> "ok"
    [] status = "failure" -> "fatal"

AnswerPoll(r) ==
  /\ flight[r] = "polled"
  /\ flight' = [flight EXCEPT ![r] = PollResult(cache[KeyOf(r)])]
  /\ ManagerUnchanged /\ UNCHANGED backend

(* The client stops waiting; what it sent goes on without it. *)
GiveUp(r, result) ==
  /\ flight[r] \in {"called", "polled"}
  /\ flight' = [flight EXCEPT ![r] = result]
  /\ calls' = IF flight[r] = "called" THEN Unawaited(KeyOf(r)) ELSE calls
  /\ ManagerUnchanged /\ UNCHANGED <<cache, ran>>

Timeout(r) == GiveUp(r, "timeout")
ConnectionFails(r) == GiveUp(r, "connection")

(* An entry outlives every use of its key that follows within seconds: a     *)
(* resend, or the poll of a stored result.  The client can outlive an entry  *)
(* that stays pending because its server process died.                      *)
EntryExpires(k) ==
  /\ k = KeyOf(k[1]) =>
       \/ ended[k[1]] # <<>>
       \/ cache[k] = "pending" /\ k[1] \in polls \cup With({"polled", "pending"})
  /\ Expire(k)
  /\ UNCHANGED flight /\ ManagerUnchanged

CallLost(c) == Lose(c) /\ UNCHANGED flight /\ ManagerUnchanged

-----------------------------------------------------------------------------
(* send(), last part: every request of the pass has a result. *)
\* Mutant: a pending answer ends the polling.
ToPollOnTimeout == Cached \cap With({"timeout"})

ToPoll == Cached \cap With({"pending", "timeout"})
\* Mutant: a cached request that timed out is sent again with a new key.
NewKeysOnTimeout == With({"conflict", "nocache", "timeout"})

NewKeys == With({"conflict", "nocache"}) \cup (With({"timeout"}) \ Cached)
ToRetry == NewKeys \cup With({"connection"})
Consumes == (ToPoll \ With({"pending"})) \cup ToRetry

(* postSend cannot bind an id twice. *)
BindConflict(r) == \E i \in Id : Binds(r, i) /\ repo[i].bound

Requeue ==
  /\ retry' = ToRetry
  /\ polls' = polls \cup ToPoll
  /\ left' = [r \in Request |-> IF r \in Consumes THEN left[r] - 1 ELSE left[r]]
  /\ gen' = [r \in Request |-> IF r \in NewKeys THEN gen[r] + 1 ELSE gen[r]]

(* bad: the requests whose postSend fails.  After a fatal error the pass     *)
(* ends without a change to its queues.                                     *)
FinishPass(bad) ==
  LET good == With({"ok"}) \ bad
      fatal == With({"fatal"}) \cup bad
      bound == ReleaseAll(Bind(repo, good), good, TRUE)
  IN /\ InPass # {} /\ InPass = With(Results)
     /\ \A r \in With({"ok"}) : BindConflict(r) => r \in bad
     /\ \A r \in bad : BindConflict(r) \/ r \in Refused
     /\ flight' = [r \in Request |-> "none"]
     /\ repo' = ReleaseAll(bound, fatal, FALSE)
     /\ ended' = [r \in Request |->
                    IF r \in good THEN Append(ended[r], "success")
                    ELSE IF r \in fatal THEN Append(ended[r], "fatal")
                    ELSE ended[r]]
     /\ IF fatal = {} THEN Requeue ELSE UNCHANGED <<retry, polls, left, gen>>
     /\ UNCHANGED <<enqueued, started, backend>>

Settle == \E bad \in SUBSET With({"ok"}) : FinishPass(bad)

-----------------------------------------------------------------------------
Client ==
  \/ Enqueue
  \/ Exhaust
  \/ (\A r \in Request : Len(ended[r]) < MaxReports) /\ \E due \in SUBSET polls : Pass(due)
  \/ Settle

Server ==
  \/ \E c \in calls : Serve(c) \/ ServerRefuses(c)
  \/ \E r \in Request : AnswerUncached(r) \/ AnswerPoll(r)
  \/ \E k \in Key : EntryExpires(k)

Next ==
  \/ Client \/ Server
  \/ \E r \in Request : Timeout(r) \/ ConnectionFails(r)
  \/ \E c \in calls : StoreFails(c) \/ ServerDies(c) \/ CallLost(c)

Spec == Init /\ [][Next]_vars

-----------------------------------------------------------------------------
(* The request a call, a poll or a resend still works for. *)
Outstanding == InPass \cup retry \cup polls
Holders(i) == Users(i, Outstanding)

(* No request was refused for good, nor did its postSend fail.               *)
NoFatal == \A r \in Request : \A i \in DOMAIN ended[r] : ended[r][i] # "fatal"

(* Until an error is fatal, an id is in flight exactly while outstanding      *)
(* requests hold it, in the mode they reserved it in, and its lock count      *)
(* counts them: a release too many lets a conflicting request go early, one   *)
(* too few blocks the queue.                                                *)
ReservationsHeld ==
  NoFatal => \A i \in Id :
    /\ Holders(i) = {} => repo[i].status \in Grounds /\ repo[i].locks = 0
    /\ \A r \in Holders(i) : repo[i].status = Needs[r][i]
    /\ repo[i].status = "locked" => repo[i].locks = Cardinality(Holders(i))
    /\ repo[i].status # "locked" => Cardinality(Holders(i)) <= 1

(* types/requestTypes.ts: "exactly one of the following functions will       *)
(* complete successfully: onFailure, onFatalError, or the postSend          *)
(* function".  Without fatal errors a request is reported at most once, and   *)
(* no call, poll or resend works for it afterwards.                         *)
ReportedOnce ==
  NoFatal => \A r \in Request : Len(ended[r]) <= 1 /\ (ended[r] # <<>> => r \notin Outstanding)

Compatible(r, s) ==
  \A i \in DOMAIN Needs[r] \cap DOMAIN Needs[s] :
    Needs[r][i] = "locked" /\ Needs[s][i] = "locked"

(* Until an error is fatal, of two requests with incompatible reservations    *)
(* the one enqueued first is reported before the other one starts, whatever  *)
(* is retried or polled.                                                    *)
CompletesBefore ==
  NoFatal => \A r, s \in Request :
    r < s /\ s <= started /\ ~Compatible(r, s) /\ ended[s] # <<"skipped">>
      => ended[r] # <<>>

-----------------------------------------------------------------------------
(* The send loop runs, calls and polls are answered, and polls come due.     *)
Fairness ==
  /\ WF_vars(Enqueue) /\ WF_vars(Exhaust) /\ WF_vars(Settle)
  /\ WF_vars(\E due \in SUBSET polls : Pass(due))
  /\ \A r \in Request :
       /\ SF_vars(\E due \in SUBSET polls : r \in due /\ Pass(due))
       /\ WF_vars(AnswerUncached(r)) /\ WF_vars(AnswerPoll(r))
       /\ \A g \in 0..MaxGen :
            /\ WF_vars(\E c \in calls : c.key = <<r, g>> /\ Serve(c))
            /\ WF_vars(EntryExpires(<<r, g>>))

(* r cannot leave the queue: it, or a request before it, needs an id whose   *)
(* creation was given up.                                                   *)
Stranded(r) ==
  \E q \in started + 1..r : \E i \in DOMAIN Needs[q] :
    /\ ~repo[i].bound /\ Needs[q][i] \notin Pends
    /\ \A p \in 1..q - 1 : Binds(p, i) => ended[p] # <<>>

(* Without fatal errors the send loop reports every request, except those    *)
(* behind a creation that was given up.                                     *)
EndsUnlessStranded == \A r \in Request : <>(ended[r] # <<>> \/ Stranded(r) \/ ~NoFatal)
=============================================================================
