------------------------------ MODULE RequestCache ------------------------------
(***************************************************************************)
(* The backend's side of a cached editor request: the entry that ttl_cache  *)
(* keeps in Redis for a request key, the calls that are on their way, and   *)
(* how often the endpoint's function ran for a key.  A key is a request and *)
(* the number of times its requestKey was regenerated.                      *)
(***************************************************************************)
EXTENDS Integers, FiniteSets

CONSTANTS Request,      \* the requests of the editor session
          MaxGen        \* bound: regenerations of a request's key

VARIABLES calls,        \* HTTP calls that have not been answered
          cache,        \* cache[k]: the entry of key k
          ran           \* ran[k]: completed executions for key k

Key == Request \X (0..MaxGen)
Statuses == {"none", "pending", "success", "failure"}
Calls == [key: Key, stage: {"sent", "running", "done"}, awaited: BOOLEAN]

BackendTypeOK ==
  /\ calls \subseteq Calls
  /\ cache \in [Key -> Statuses]
  /\ ran \in [Key -> Nat]

BackendInit ==
  /\ calls = {}
  /\ cache = [k \in Key |-> "none"]
  /\ ran = [k \in Key |-> 0]

NewCall(k) == [key |-> k, stage |-> "sent", awaited |-> TRUE]
Advance(c, stage) == calls' = (calls \ {c}) \cup {[c EXCEPT !.stage = stage]}

\* Mutant: the entry is written without NX.
AcceptAlways(c) ==
  /\ c.stage = "sent"
  /\ cache' = [cache EXCEPT ![c.key] = "pending"]
  /\ Advance(c, "running")
  /\ UNCHANGED ran

(* The decorator reserves the key (SET NX) and enters the function. *)
Accept(c) ==
  /\ c.stage = "sent" /\ cache[c.key] = "none"
  /\ cache' = [cache EXCEPT ![c.key] = "pending"]
  /\ Advance(c, "running")
  /\ UNCHANGED ran

(* A key in use is answered with 409 and cacheConflict. *)
Reject(c) ==
  /\ c.stage = "sent" /\ cache[c.key] # "none"
  /\ calls' = calls \ {c}
  /\ UNCHANGED <<cache, ran>>

(* The function commits its transaction. *)
Execute(c) ==
  /\ c.stage = "running"
  /\ ran' = [ran EXCEPT ![c.key] = @ + 1]
  /\ Advance(c, "done")
  /\ UNCHANGED cache

(* The result is stored under the key and sent back. *)
Answer(c) ==
  /\ c.stage = "done"
  /\ cache' = [cache EXCEPT ![c.key] = "success"]
  /\ calls' = calls \ {c}
  /\ UNCHANGED ran

(* The function raises: the error is stored under the key and sent back. *)
Refuse(c) ==
  /\ c.stage = "running"
  /\ cache' = [cache EXCEPT ![c.key] = "failure"]
  /\ calls' = calls \ {c}
  /\ UNCHANGED ran

(* The function committed, but storing its result fails: the except clause *)
(* stores a failure, or fails as well, and the client gets an error.       *)
CacheWriteFails(c) ==
  /\ c.stage = "done"
  /\ cache' \in {cache, [cache EXCEPT ![c.key] = "failure"]}
  /\ calls' = calls \ {c}
  /\ UNCHANGED ran

(* The server process ends before it stored a result. *)
Die(c) ==
  /\ c.stage \in {"running", "done"}
  /\ calls' = calls \ {c}
  /\ UNCHANGED <<cache, ran>>

(* A call whose client gave up is lost on its way. *)
Lose(c) ==
  /\ c.stage = "sent" /\ ~c.awaited
  /\ calls' = calls \ {c}
  /\ UNCHANGED <<cache, ran>>

(* The client stops waiting for the call with key k; the call goes on. *)
Unawaited(k) ==
  {IF c.key = k THEN [c EXCEPT !.awaited = FALSE] ELSE c : c \in calls}

(* The entry's TTL passes.  No call with its key is still on its way by then. *)
Expire(k) ==
  /\ cache[k] # "none"
  /\ \A c \in calls : c.key # k
  /\ cache' = [cache EXCEPT ![k] = "none"]
  /\ UNCHANGED <<calls, ran>>
=============================================================================
