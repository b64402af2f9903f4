------------------------- MODULE RequestManagerProofs -------------------------
(***************************************************************************)
(* Proofs about RequestManager: what a reservation counts, who is reported     *)
(* when, and how often a cached request takes effect, for any session, any      *)
(* retries and any faults.                                                   *)
(***************************************************************************)
EXTENDS MCRequestManager, FiniteSetTheorems, WellFoundedInduction, TLAPS

-----------------------------------------------------------------------------
(* The inductive invariant.                                                  *)

\* Whatever has failed: a request is in the queue, in retryRequests or in statusQueries,
\* a pass sends all that is to be retried, and only requests with retries left are in it.
QueuesOK ==
    /\ retry \cup InPass \subseteq 1..started /\ polls \subseteq 1..started
    /\ retry \cap polls = {}
    /\ InPass # {} => retry \subseteq InPass /\ polls \cap InPass = {}
    /\ \A r \in InPass : left[r] >= 0
    /\ \A r \in Request : r > started => left[r] = Retries /\ gen[r] = 0 /\ ended[r] = <<>>
    /\ With({"polled", "pending"}) \subseteq Cached

\* A call carries a key that its request has or had, and a request waits for one call.
CallsOK ==
    /\ \A c \in calls :
          /\ c.key[1] \in Cached /\ c.key[1] <= started /\ c.key[2] <= gen[c.key[1]]
          /\ c.awaited => c.key = KeyOf(c.key[1]) /\ flight[c.key[1]] = "called"
    /\ \A c, d \in calls : c.awaited /\ d.awaited /\ c.key = d.key => c = d

\* The entries of rep when the requests of hs hold what they need.
Held(rep, hs) ==
    \A i \in Id :
      /\ Users(i, hs) = {} => rep[i].status \in Grounds
      /\ \A r \in Users(i, hs) : rep[i].status = Needs[r][i]
      /\ rep[i].locks = IF rep[i].status = "locked" THEN Cardinality(Users(i, hs)) ELSE 0
      /\ rep[i].status # "locked" => \A r, s \in Users(i, hs) : r = s

Reported ==
    /\ \A r \in Request : ended[r] = <<>> \/ (r \notin Outstanding /\ \E x \in Reports : ended[r] = <<x>>)
    /\ \A r \in 1..started : r \in Outstanding \/ ended[r] # <<>>

SessionOK == NoFatal => Held(repo, Outstanding) /\ Reported /\ CompletesBefore

SInv == TypeOK /\ QueuesOK /\ CallsOK /\ SessionOK

Working(k) == {c \in calls : c.key = k /\ c.stage # "sent"}

\* An entry is pending while one call works under its key, and stays until no call can
\* arrive with this key any more.
KeyOK(k) ==
    /\ \A c, d \in Working(k) : c = d
    /\ cache[k] = "pending" <=> Working(k) # {}
    /\ \A c \in Working(k) : ran[k] = IF c.stage = "running" THEN 0 ELSE 1
    /\ ran[k] \in {0, 1}
    /\ cache[k] = "none" /\ ran[k] = 1 =>
          (\A c \in calls : c.key # k) /\ (k[2] < gen[k[1]] \/ ended[k[1]] # <<>>)
    /\ k[2] > gen[k[1]] \/ k[1] > started \/ k[1] \notin Cached => cache[k] = "none" /\ ran[k] = 0

KeysOK == broken \cap {"server", "store"} = {} /\ NoFatal => \A k \in Key : KeyOK(k)

\* While nothing breaks, a cached request is sent once: its first key is never replaced.
OneCall(r) ==
    /\ r \notin retry /\ gen[r] = 0
    /\ flight[r] \notin {"conflict", "nocache", "connection"}
    /\ flight[r] = "called" => \E c \in calls : c.key = <<r, 0>> /\ c.awaited
    /\ r \in polls \/ flight[r] \in {"polled", "pending", "timeout"} => cache[<<r, 0>>] # "none"

Once ==
    /\ \A r \in Cached : OneCall(r)
    /\ \A c \in calls : c.stage = "sent" => c.awaited /\ cache[c.key] = "none"
    /\ \A c, d \in calls : c.key = d.key => c = d

EffectOK == broken = {} /\ NoFatal => Once

IInv == SInv /\ KeysOK /\ EffectOK
-----------------------------------------------------------------------------
(* Entries and their holders.                                                *)
LEMMA UsersFinite ==
  ASSUME NEW rs \in SUBSET Request, NEW i
  PROVE  IsFiniteSet(Users(i, rs)) /\ Cardinality(Users(i, rs)) \in Nat
<1>1. IsFiniteSet(Request)
  BY NAssumption, FS_Interval DEF Request
<1>2. Users(i, rs) \subseteq Request
  BY DEF Users
<1> QED
  BY <1>1, <1>2, FS_Subset, FS_CardinalityType

LEMMA NeedsMode ==
  ASSUME NEW r \in Request, NEW i \in DOMAIN Needs[r]
  PROVE  i \in Id /\ Needs[r][i] \in Modes /\ Needs[r][i] \notin Grounds
<1>1. i \in Id /\ Needs[r][i] \in Modes
  BY NeedsAssumption
<1>2. Modes \cap Grounds = {}
  BY DEF Modes, Pends, Creates, Grounds
<1> QED
  BY <1>1, <1>2

\* What n releases leave of an entry.
Freed(e, n, f) ==
    IF n = 0 \/ e.status \in Grounds THEN f = e
    ELSE IF e.status = "locked" /\ n < e.locks THEN f = [e EXCEPT !.locks = @ - n]
    ELSE f.status \in Grounds /\ f.locks = IF e.status = "locked" THEN 0 ELSE e.locks

LEMMA ReleaseAllFrees ==
  ASSUME NEW rep \in [Id -> Entries], NEW rs \in SUBSET Request, NEW f,
         f = ReleaseAll(rep, rs, TRUE) \/ f = ReleaseAll(rep, rs, FALSE)
  PROVE  f \in [Id -> Entries] /\ \A i \in Id : Freed(rep[i], Cardinality(Users(i, rs)), f[i])
<1>1. ASSUME NEW e \in Entries, NEW n \in Nat, NEW g, g = Release(e, n, TRUE) \/ g = Release(e, n, FALSE)
      PROVE  g \in Entries /\ Freed(e, n, g)
  <2>1. ExitStatus(e.status) \in Grounds /\ EntryStatus(e.status) \in Grounds
    BY DEF ExitStatus, EntryStatus, Grounds
  <2>2. CASE n = 0 \/ e.status \in Grounds
    BY <1>1, <2>2 DEF Release, Freed
  <2>3. CASE n # 0 /\ e.status \notin Grounds /\ e.status = "locked" /\ n < e.locks
    BY <1>1, <2>3 DEF Release, Freed, Entries
  <2>4. CASE n # 0 /\ e.status \notin Grounds /\ ~(e.status = "locked" /\ n < e.locks)
    <3>1. PICK x : x \in Grounds /\ g = [e EXCEPT !.status = x, !.locks = IF e.status = "locked" THEN 0 ELSE @]
      BY <1>1, <2>1, <2>4 DEF Release
    <3>2. g.status = x /\ g.locks = (IF e.status = "locked" THEN 0 ELSE e.locks) /\ g \in Entries
      BY <3>1 DEF Entries
    <3> QED
      BY <2>4, <3>1, <3>2 DEF Freed
  <2> QED
    BY <2>2, <2>3, <2>4
<1>2. DOMAIN f = Id /\ f = [i \in Id |-> f[i]]
  BY DEF ReleaseAll
<1>3. ASSUME NEW i \in Id
      PROVE  f[i] \in Entries /\ Freed(rep[i], Cardinality(Users(i, rs)), f[i])
  <2>1. rep[i] \in Entries /\ Cardinality(Users(i, rs)) \in Nat
    BY UsersFinite
  <2>2. \/ f[i] = Release(rep[i], Cardinality(Users(i, rs)), TRUE)
        \/ f[i] = Release(rep[i], Cardinality(Users(i, rs)), FALSE)
    BY DEF ReleaseAll
  <2> QED
    BY <1>1, <2>1, <2>2
<1> QED
  BY <1>2, <1>3

\* Releases leave the reservations of the other requests.
LEMMA FreedHolds ==
  ASSUME NEW rep \in [Id -> Entries], NEW f \in [Id -> Entries], NEW hs \in SUBSET Request,
         NEW rs \in SUBSET hs, Held(rep, hs), \A i \in Id : Freed(rep[i], Cardinality(Users(i, rs)), f[i])
  PROVE  Held(f, hs \ rs)
<1> SUFFICES ASSUME NEW i \in Id
             PROVE  /\ Users(i, hs \ rs) = {} => f[i].status \in Grounds
                    /\ \A r \in Users(i, hs \ rs) : f[i].status = Needs[r][i]
                    /\ f[i].locks = IF f[i].status = "locked" THEN Cardinality(Users(i, hs \ rs)) ELSE 0
                    /\ f[i].status # "locked" => \A r, s \in Users(i, hs \ rs) : r = s
  BY DEF Held
<1>1. PICK e, g, U, V, W : /\ e = rep[i] /\ g = f[i] /\ U = Users(i, hs) /\ V = Users(i, rs)
                           /\ W = Users(i, hs \ rs)
  OBVIOUS
<1>2. /\ U = {} => e.status \in Grounds
      /\ \A r \in U : e.status = Needs[r][i]
      /\ e.locks = IF e.status = "locked" THEN Cardinality(U) ELSE 0
      /\ e.status # "locked" => \A r, s \in U : r = s
      /\ Freed(e, Cardinality(V), g)
  BY <1>1 DEF Held
<1>3. W = U \ V /\ U \cap V = V
  BY <1>1 DEF Users
<1>4. PICK n, m, k : n = Cardinality(V) /\ m = Cardinality(U) /\ k = Cardinality(W)
  OBVIOUS
<1>5. /\ n \in Nat /\ m \in Nat /\ k \in Nat /\ k = m - n
      /\ (n = 0 <=> V = {}) /\ (k = 0 <=> W = {})
  <2>1. IsFiniteSet(U) /\ IsFiniteSet(V) /\ IsFiniteSet(W) /\ n \in Nat /\ m \in Nat /\ k \in Nat
    BY <1>1, <1>4, UsersFinite
  <2>2. k = m - n
    <3>1. Cardinality(U \ V) = Cardinality(U) - Cardinality(U \cap V)
      BY <2>1, FS_Difference
    <3> QED
      BY <1>3, <1>4, <3>1
  <2> QED
    BY <1>4, <2>1, <2>2, FS_EmptySet
<1>6. CASE V = {}
  <2>1. g = e /\ W = U
    BY <1>2, <1>3, <1>4, <1>5, <1>6 DEF Freed
  <2> QED
    BY <1>1, <1>2, <2>1
<1>7. CASE V # {}
  <2>1. n # 0 /\ e.status \notin Grounds
    <3>1. PICK r \in V : TRUE
      BY <1>7
    <3>2. r \in Request /\ i \in DOMAIN Needs[r] /\ r \in U
      BY <1>1 DEF Users
    <3> QED
      BY <1>2, <1>5, <1>7, <3>2, NeedsMode
  <2>2. CASE e.status = "locked" /\ n < e.locks
    <3>1. g = [e EXCEPT !.locks = @ - n] /\ e \in Entries
      BY <1>1, <1>2, <1>4, <2>1, <2>2 DEF Freed
    <3>2. g.status = "locked" /\ g.locks = e.locks - n
      BY <2>2, <3>1 DEF Entries
    <3>3. e.locks = m
      BY <1>2, <1>4, <2>2
    <3>4. k # 0 /\ g.locks = k
      BY <1>5, <2>2, <3>2, <3>3
    <3> QED
      BY <1>1, <1>2, <1>3, <1>4, <1>5, <2>2, <3>2, <3>4
  <2>3. CASE ~(e.status = "locked" /\ n < e.locks)
    <3>1. g.status \in Grounds /\ g.locks = 0
      BY <1>2, <1>4, <2>1, <2>3 DEF Freed
    <3>2. W = {}
      <4>1. CASE e.status = "locked"
        <5>1. e.locks = m
          BY <1>2, <1>4, <4>1
        <5> QED
          BY <1>5, <2>3, <4>1, <5>1
      <4>2. CASE e.status # "locked"
        BY <1>2, <1>3, <1>7, <4>2
      <4> QED
        BY <4>1, <4>2
    <3>3. g.status # "locked"
      BY <3>1 DEF Grounds
    <3> QED
      BY <1>1, <3>1, <3>2, <3>3
  <2> QED
    BY <2>2, <2>3
<1> QED
  BY <1>6, <1>7

LEMMA ReserveHolds ==
  ASSUME NEW rep \in [Id -> Entries], NEW hs \in SUBSET Request, NEW r \in Request \ hs,
         Held(rep, hs), CanReserve(rep, r)
  PROVE  ReserveAll(rep, r) \in [Id -> Entries] /\ Held(ReserveAll(rep, r), hs \cup {r})
<1>1. PICK f : f = ReserveAll(rep, r)
  OBVIOUS
<1>2. ASSUME NEW i \in Id, i \notin DOMAIN Needs[r]
      PROVE  f[i] = rep[i] /\ Users(i, hs \cup {r}) = Users(i, hs)
  BY <1>1, <1>2 DEF ReserveAll, Users
<1>3. ASSUME NEW i \in Id, i \in DOMAIN Needs[r], NEW e, e = rep[i], NEW g, g = f[i]
      PROVE  /\ g \in Entries /\ g.status = Needs[r][i]
             /\ Users(i, hs \cup {r}) = Users(i, hs) \cup {r}
             /\ Cardinality(Users(i, hs \cup {r})) = Cardinality(Users(i, hs)) + 1
             /\ \/ Users(i, hs) = {} /\ g.locks = IF Needs[r][i] = "locked" THEN 1 ELSE 0
                \/ e.status = "locked" /\ Needs[r][i] = "locked" /\ g.locks = Cardinality(Users(i, hs)) + 1
  <2>1. PICK mode : mode = Needs[r][i] /\ mode \in Modes
    BY <1>3, NeedsMode
  <2>2. g = [e EXCEPT !.status = mode, !.locks = IF mode = "locked" THEN @ + 1 ELSE @]
    BY <1>1, <1>3, <2>1 DEF ReserveAll, Reserve
  <2>3. e \in Entries
    BY <1>3
  <2>4. g \in Entries /\ g.status = mode /\ g.locks = IF mode = "locked" THEN e.locks + 1 ELSE e.locks
    <3>1. PICK l : l = IF mode = "locked" THEN e.locks + 1 ELSE e.locks
      OBVIOUS
    <3>2. e = [status |-> e.status, locks |-> e.locks, bound |-> e.bound] /\ e.locks \in Nat /\ e.bound \in BOOLEAN
      BY <2>3 DEF Entries
    <3>3. g = [status |-> mode, locks |-> l, bound |-> e.bound]
      BY <2>2, <3>1, <3>2
    <3>4. l \in Nat
      BY <3>1, <3>2
    <3> QED
      BY <2>1, <3>1, <3>2, <3>3, <3>4 DEF Entries
  <2>5. PICK U : U = Users(i, hs)
    OBVIOUS
  <2>6. Users(i, hs \cup {r}) = U \cup {r} /\ r \notin U /\ IsFiniteSet(U)
    BY <1>3, <2>5, UsersFinite DEF Users
  <2>7. Cardinality(U \cup {r}) = Cardinality(U) + 1
    BY <2>6, FS_AddElement
  <2>8. e.locks = IF e.status = "locked" THEN Cardinality(U) ELSE 0
    BY <1>3, <2>5 DEF Held
  <2>9. (e.status = "locked" /\ mode = "locked") \/ e.status \in {"pending", "clean"}
    BY <1>3, <2>1 DEF CanReserve, IsReserveable
  <2>10. ASSUME e.status \in {"pending", "clean"} PROVE U = {}
    <3>1. \A s \in U : e.status = Needs[s][i] /\ s \in Request /\ i \in DOMAIN Needs[s]
      BY <1>3, <2>5 DEF Held, Users
    <3>2. e.status \in Grounds
      BY <2>10 DEF Grounds
    <3> QED
      BY <3>1, <3>2, NeedsMode
  <2>11. CASE e.status = "locked" /\ mode = "locked"
    BY <2>1, <2>4, <2>5, <2>6, <2>7, <2>8, <2>11
  <2>12. CASE e.status \in {"pending", "clean"}
    BY <2>1, <2>4, <2>5, <2>6, <2>7, <2>8, <2>10, <2>12
  <2> QED
    BY <2>9, <2>11, <2>12
<1>4. f \in [Id -> Entries]
  <2>1. f = [i \in Id |-> f[i]]
    BY <1>1 DEF ReserveAll
  <2>2. \A i \in Id : f[i] \in Entries
    BY <1>2, <1>3
  <2> QED
    BY <2>1, <2>2
<1>5. ASSUME NEW i \in Id
      PROVE  /\ Users(i, hs \cup {r}) = {} => f[i].status \in Grounds
             /\ \A s \in Users(i, hs \cup {r}) : f[i].status = Needs[s][i]
             /\ f[i].locks = IF f[i].status = "locked" THEN Cardinality(Users(i, hs \cup {r})) ELSE 0
             /\ f[i].status # "locked" => \A s, t \in Users(i, hs \cup {r}) : s = t
  <2>1. CASE i \notin DOMAIN Needs[r]
    <3>1. /\ Users(i, hs) = {} => rep[i].status \in Grounds
          /\ \A s \in Users(i, hs) : rep[i].status = Needs[s][i]
          /\ rep[i].locks = IF rep[i].status = "locked" THEN Cardinality(Users(i, hs)) ELSE 0
          /\ rep[i].status # "locked" => \A s, t \in Users(i, hs) : s = t
      BY DEF Held
    <3> QED
      BY <1>2, <2>1, <3>1
  <2>2. CASE i \in DOMAIN Needs[r]
    <3>1. PICK g, e, U, V : g = f[i] /\ e = rep[i] /\ U = Users(i, hs) /\ V = Users(i, hs \cup {r})
      OBVIOUS
    <3>2. /\ g.status = Needs[r][i] /\ V = U \cup {r} /\ Cardinality(V) = Cardinality(U) + 1
          /\ \/ U = {} /\ g.locks = IF Needs[r][i] = "locked" THEN 1 ELSE 0
             \/ e.status = "locked" /\ Needs[r][i] = "locked" /\ g.locks = Cardinality(U) + 1
      BY <1>3, <2>2, <3>1
    <3>3. CASE U = {} /\ g.locks = IF Needs[r][i] = "locked" THEN 1 ELSE 0
      <4>1. V = {r} /\ Cardinality({r}) = 1
        BY <3>2, <3>3, FS_Singleton
      <4> QED
        BY <3>1, <3>2, <3>3, <4>1
    <3>4. CASE e.status = "locked" /\ Needs[r][i] = "locked" /\ g.locks = Cardinality(U) + 1
      <4>1. \A s \in U : e.status = Needs[s][i]
        BY <3>1 DEF Held
      <4> QED
        BY <3>1, <3>2, <3>4, <4>1
    <3> QED
      BY <3>2, <3>3, <3>4
  <2> QED
    BY <2>1, <2>2
<1> QED
  BY <1>1, <1>4, <1>5 DEF Held

\* What is reserved cannot be reserved again, except by another reader.
LEMMA ReserveExcludes ==
  ASSUME NEW rep, NEW hs \in SUBSET Request, NEW r \in hs, NEW s \in Request,
         Held(rep, hs), CanReserve(rep, s)
  PROVE  Compatible(r, s)
<1> SUFFICES ASSUME NEW i \in DOMAIN Needs[r] \cap DOMAIN Needs[s]
             PROVE  Needs[r][i] = "locked" /\ Needs[s][i] = "locked"
  BY DEF Compatible
<1>1. i \in Id /\ Needs[r][i] \notin Grounds
  BY NeedsMode
<1>2. rep[i].status = Needs[r][i]
  BY <1>1 DEF Held, Users
<1>3. IsReserveable(rep[i], Needs[s][i])
  BY DEF CanReserve
<1> QED
  BY <1>1, <1>2, <1>3 DEF IsReserveable, Grounds

\* Binding changes no reservation.
LEMMA BindIs ==
  ASSUME NEW rep \in [Id -> Entries], NEW rs, NEW f, f = Bind(rep, rs)
  PROVE  /\ f \in [Id -> Entries]
         /\ \A i \in Id : f[i].status = rep[i].status /\ f[i].locks = rep[i].locks
<1>1. ASSUME NEW i \in Id PROVE f[i] \in Entries /\ f[i].status = rep[i].status /\ f[i].locks = rep[i].locks
  <2>1. PICK b : f[i] = [rep[i] EXCEPT !.bound = b] /\ b \in BOOLEAN
    <3>1. rep[i].bound \in BOOLEAN
      BY DEF Entries
    <3> QED
      BY <3>1, Zenon DEF Bind
  <2> QED
    BY <2>1 DEF Entries
<1>2. f = [i \in Id |-> f[i]]
  BY Zenon DEF Bind
<1> QED
  BY <1>1, <1>2

LEMMA BindHolds ==
  ASSUME NEW rep \in [Id -> Entries], NEW rs, NEW hs, Held(rep, hs)
  PROVE  Held(Bind(rep, rs), hs)
<1>1. PICK f : f = Bind(rep, rs)
  OBVIOUS
<1>2. \A i \in Id : f[i].status = rep[i].status /\ f[i].locks = rep[i].locks
  BY <1>1, BindIs
<1> QED
  BY <1>1, <1>2 DEF Held
-----------------------------------------------------------------------------
(* The walk over the queue.                                                  *)

\* f holds the repository after each request up to m.
Walks(f, m, skips) ==
    f = [n \in started..m |-> IF n = started THEN repo
                              ELSE IF n \in skips THEN f[n - 1]
                              ELSE ReserveAll(f[n - 1], n)]

LEMMA WalkExists ==
  ASSUME started \in Nat, NEW m \in Nat, started <= m, NEW skips
  PROVE  \E f : Walks(f, m, skips)
<1> DEFINE Stuck == {n \in Nat : started <= n /\ ~\E f : Walks(f, n, skips)}
<1> SUFFICES ASSUME Stuck # {} PROVE FALSE
  OBVIOUS
<1>1. PICK n \in Stuck : \A k \in Stuck : ~(k < n)
  <2>1. PICK n \in Stuck : \A k \in Stuck : <<k, n>> \notin OpToRel(<, Nat)
    BY NatLessThanWellFounded, WFMin
  <2> QED
    BY <2>1 DEF OpToRel
<1>2. n \in Nat /\ started <= n
  OBVIOUS
<1>3. CASE n = started
  <2>1. PICK f : f = [k \in started..n |-> repo]
    OBVIOUS
  <2>2. Walks(f, n, skips)
    BY <1>2, <1>3, <2>1 DEF Walks
  <2> QED
    BY <2>2
<1>4. CASE n # started
  <2>1. n - 1 \in Nat /\ started <= n - 1 /\ n - 1 < n
    BY <1>2, <1>4
  <2>2. PICK f : Walks(f, n - 1, skips)
    BY <1>1, <2>1
  <2>3. PICK x : x = IF n \in skips THEN f[n - 1] ELSE ReserveAll(f[n - 1], n)
    OBVIOUS
  <2>4. PICK g : g = [k \in started..n |-> IF k = n THEN x ELSE f[k]]
    OBVIOUS
  <2>5. ASSUME NEW k \in started..n
        PROVE  g[k] = IF k = started THEN repo ELSE IF k \in skips THEN g[k - 1] ELSE ReserveAll(g[k - 1], k)
    <3>1. CASE k = n
      <4>1. g[k] = x /\ g[k - 1] = f[n - 1] /\ k # started
        BY <1>2, <1>4, <2>1, <2>4, <3>1
      <4> QED
        BY <2>3, <3>1, <4>1
    <3>2. CASE k # n
      <4>1. k \in started..(n - 1) /\ (k # started => k - 1 \in started..n /\ k - 1 # n)
        BY <1>2, <2>1, <3>2
      <4>2. g[k] = f[k] /\ (k # started => g[k - 1] = f[k - 1])
        BY <2>4, <3>2, <4>1
      <4>3. f[k] = IF k = started THEN repo ELSE IF k \in skips THEN f[k - 1] ELSE ReserveAll(f[k - 1], k)
        BY <2>2, <4>1 DEF Walks
      <4> QED
        BY <4>2, <4>3
    <3> QED
      BY <3>1, <3>2
  <2>6. g = [k \in started..n |-> g[k]]
    BY <2>4
  <2>7. Walks(g, n, skips)
    BY <2>5, <2>6 DEF Walks
  <2> QED
    BY <2>7
<1> QED
  BY <1>3, <1>4

LEMMA WalkIs ==
  ASSUME started \in Nat, enqueued \in Nat, started <= enqueued, NEW skips, NEW f, f = Walk(skips)
  PROVE  /\ f[started] = repo
         /\ \A n \in started + 1..enqueued :
               f[n] = IF n \in skips THEN f[n - 1] ELSE ReserveAll(f[n - 1], n)
<1>1. Walk(skips) = CHOOSE g : Walks(g, enqueued, skips)
  BY DEF Walk, Walks
<1>2. Walks(f, enqueued, skips)
  BY <1>1, WalkExists
<1> QED
  BY <1>2 DEF Walks

LEMMA ReserveType ==
  ASSUME NEW rep \in [Id -> Entries], NEW r \in Request
  PROVE  ReserveAll(rep, r) \in [Id -> Entries]
<1>1. ASSUME NEW i \in Id, NEW e \in Entries, NEW mode \in Modes PROVE Reserve(e, mode) \in Entries
  <2>1. PICK l : l = IF mode = "locked" THEN e.locks + 1 ELSE e.locks
    OBVIOUS
  <2>2. e = [status |-> e.status, locks |-> e.locks, bound |-> e.bound] /\ e.locks \in Nat /\ e.bound \in BOOLEAN
    BY DEF Entries
  <2>3. Reserve(e, mode) = [status |-> mode, locks |-> l, bound |-> e.bound]
    <3>1. Reserve(e, mode) = [e EXCEPT !.status = mode, !.locks = l]
      BY <2>1 DEF Reserve
    <3> QED
      BY <2>2, <3>1
  <2>4. l \in Nat
    BY <2>1, <2>2
  <2> QED
    BY <2>2, <2>3, <2>4 DEF Entries
<1>2. ASSUME NEW i \in Id
      PROVE  (IF i \in DOMAIN Needs[r] THEN Reserve(rep[i], Needs[r][i]) ELSE rep[i]) \in Entries
  BY <1>1, NeedsMode
<1> QED
  BY <1>2 DEF ReserveAll

\* By induction on the requests of the walk: the least one that fails has a predecessor.
LEMMA WalkTypes ==
  ASSUME TypeOK, NEW skips, NEW f, f = Walk(skips), NEW n \in started..enqueued
  PROVE  f[n] \in [Id -> Entries]
<1> DEFINE Bad == {k \in Nat : k \in started..enqueued /\ f[k] \notin [Id -> Entries]}
<1>0. started \in Nat /\ enqueued \in Nat
  BY NAssumption DEF TypeOK
<1> SUFFICES ASSUME Bad # {} PROVE FALSE
  BY <1>0
<1>1. PICK k \in Bad : \A j \in Bad : ~(j < k)
  <2>1. PICK k \in Bad : \A j \in Bad : <<j, k>> \notin OpToRel(<, Nat)
    BY NatLessThanWellFounded, WFMin
  <2> QED
    BY <2>1 DEF OpToRel
<1>2. started \in Nat /\ enqueued \in Nat /\ started <= enqueued /\ enqueued <= N /\ repo \in [Id -> Entries]
  BY NAssumption DEF TypeOK
<1>3. /\ f[started] = repo
      /\ \A m \in started + 1..enqueued : f[m] = IF m \in skips THEN f[m - 1] ELSE ReserveAll(f[m - 1], m)
  BY <1>2, WalkIs
<1>4. k # started
  BY <1>2, <1>3
<1>5. k \in started + 1..enqueued /\ k - 1 \in started..enqueued /\ k - 1 \in Nat /\ k - 1 < k
  BY <1>2, <1>4
<1>6. f[k - 1] \in [Id -> Entries]
  BY <1>1, <1>5
<1>7. k \in Request
  BY <1>2, <1>5, NAssumption DEF Request
<1>8. f[k] \in [Id -> Entries]
  BY <1>3, <1>5, <1>6, <1>7, ReserveType
<1> QED
  BY <1>8

LEMMA WalkHolds ==
  ASSUME TypeOK, NEW skips, NEW f, f = Walk(skips), NEW n \in started..enqueued,
         NEW hs \in SUBSET (1..started), Held(repo, hs),
         \A m \in (started + 1..n) \ skips : CanReserve(f[m - 1], m),
         NEW k \in started..n
  PROVE  Held(f[k], hs \cup ((started + 1..k) \ skips))
<1> DEFINE Bad == {m \in Nat : m \in started..n /\ ~Held(f[m], hs \cup ((started + 1..m) \ skips))}
<1>0. started \in Nat /\ enqueued \in Nat /\ k \in Nat
  BY NAssumption DEF TypeOK
<1> SUFFICES ASSUME Bad # {} PROVE FALSE
  BY <1>0, Zenon
<1>1. PICK m \in Bad : \A j \in Bad : ~(j < m)
  <2>1. PICK m \in Bad : \A j \in Bad : <<j, m>> \notin OpToRel(<, Nat)
    BY NatLessThanWellFounded, WFMin
  <2> QED
    BY <2>1 DEF OpToRel
<1>2. started \in Nat /\ enqueued \in Nat /\ started <= enqueued /\ enqueued <= N /\ repo \in [Id -> Entries] /\ N \in Nat
  BY NAssumption DEF TypeOK
<1>3. /\ f[started] = repo
      /\ \A j \in started + 1..enqueued : f[j] = IF j \in skips THEN f[j - 1] ELSE ReserveAll(f[j - 1], j)
  BY <1>2, WalkIs
<1>4. m # started
  <2>1. (started + 1..started) \ skips = {}
    BY <1>2
  <2>2. Held(f[started], hs \cup ((started + 1..started) \ skips))
    BY <1>3, <2>1
  <2> QED
    BY <2>2
<1>5. m \in started + 1..n /\ m - 1 \in started..n /\ m - 1 \in Nat /\ m - 1 < m /\ m \in started + 1..enqueued
  BY <1>2, <1>4
<1>6. PICK a, b, hb : /\ a = f[m - 1] /\ b = f[m] /\ hb = hs \cup ((started + 1..m - 1) \ skips)
  OBVIOUS
<1>7. Held(a, hb) /\ a \in [Id -> Entries]
  <2>1. Held(f[m - 1], hs \cup ((started + 1..m - 1) \ skips))
    BY <1>1, <1>5
  <2> QED
    BY <1>2, <1>5, <1>6, <2>1, WalkTypes
<1>8. hb \subseteq Request /\ m \in Request /\ m \notin hb
  <2>1. \A x \in hb : x \in 1..N /\ x < m
    <3>1. \A x \in hs : x \in 1..N /\ x < m
      BY <1>2, <1>5
    <3>2. \A x \in started + 1..m - 1 : x \in 1..N /\ x < m
      BY <1>2, <1>5
    <3> QED
      BY <1>6, <3>1, <3>2
  <2>2. m \in 1..N /\ ~(m < m)
    BY <1>2, <1>5
  <2> QED
    BY <2>1, <2>2 DEF Request
<1>9. CASE m \in skips
  <2>1. (started + 1..m) \ skips = (started + 1..m - 1) \ skips
    BY <1>2, <1>5, <1>9
  <2>2. b = a
    BY <1>3, <1>5, <1>6, <1>9
  <2> QED
    BY <1>6, <1>7, <2>1, <2>2
<1>10. CASE m \notin skips
  <2>1. (started + 1..m) \ skips = ((started + 1..m - 1) \ skips) \cup {m}
    BY <1>2, <1>5, <1>10
  <2>2. b = ReserveAll(a, m) /\ CanReserve(a, m)
    BY <1>3, <1>5, <1>6, <1>10
  <2>3. Held(b, hb \cup {m})
    BY <1>7, <1>8, <2>2, ReserveHolds
  <2>4. hb \cup {m} = hs \cup ((started + 1..m) \ skips)
    BY <1>6, <2>1
  <2> QED
    BY <1>6, <2>3, <2>4
<1> QED
  BY <1>9, <1>10
-----------------------------------------------------------------------------
(* While a pass waits: its requests stay the same until all have a result.    *)

InFlight == {"called", "polled"} \cup Results

LEMMA PassIs ==
  ASSUME TypeOK
  PROVE  /\ flight \in [Request -> {"none"} \cup InFlight]
         /\ \A r \in Request : r \in InPass <=> flight[r] # "none"
         /\ InPass \subseteq Request
BY DEF TypeOK, InFlight, InPass

\* Steps of the server and the network change one result at most.
LEMMA WaitStep ==
  ASSUME SInv, ManagerUnchanged, BackendTypeOK', CallsOK',
         \/ flight' = flight
         \/ \E r \in InPass, x \in Results : (x = "pending" => r \in Cached) /\ flight' = [flight EXCEPT ![r] = x]
  PROVE  SInv'
<1>1. TypeOK /\ QueuesOK /\ SessionOK
  BY DEF SInv
<1>2. /\ enqueued' = enqueued /\ started' = started /\ retry' = retry /\ polls' = polls
      /\ left' = left /\ gen' = gen /\ repo' = repo /\ ended' = ended
  BY DEF ManagerUnchanged, queues
<1>3. /\ flight' \in [Request -> {"none"} \cup InFlight] /\ InPass' = InPass
      /\ With({"polled", "pending"})' \subseteq Cached
  <2>1. CASE flight' = flight
    BY <1>1, <2>1, PassIs DEF InPass, With, QueuesOK
  <2>2. ASSUME NEW r \in InPass, NEW x \in Results, x = "pending" => r \in Cached, flight' = [flight EXCEPT ![r] = x]
        PROVE  /\ flight' \in [Request -> {"none"} \cup InFlight] /\ InPass' = InPass
               /\ With({"polled", "pending"})' \subseteq Cached
    <3>1. r \in Request /\ x # "none" /\ flight[r] # "none" /\ x # "polled"
      BY <1>1, PassIs DEF Results
    <3>2. flight' \in [Request -> {"none"} \cup InFlight]
      BY <1>1, <2>2, <3>1, PassIs DEF InFlight
    <3>3. \A s \in Request : s # r => flight'[s] = flight[s]
      BY <1>1, <2>2, PassIs
    <3>4. flight'[r] = x
      BY <1>1, <2>2, <3>1, PassIs
    <3>5. InPass' = InPass
      BY <3>1, <3>3, <3>4 DEF InPass
    <3>6. ASSUME NEW s \in Request, flight'[s] \in {"polled", "pending"} PROVE s \in Cached
      BY <1>1, <2>2, <3>1, <3>3, <3>4, <3>6 DEF QueuesOK, With
    <3> QED
      BY <3>2, <3>5, <3>6 DEF With
  <2> QED
    BY <2>1, <2>2
<1>4. TypeOK'
  BY <1>1, <1>2, <1>3 DEF TypeOK, InFlight
<1>5. QueuesOK'
  BY <1>1, <1>2, <1>3 DEF QueuesOK
<1>6. SessionOK'
  <2>1. Outstanding' = Outstanding /\ NoFatal' = NoFatal
    BY <1>2, <1>3 DEF Outstanding, NoFatal
  <2> QED
    BY <1>1, <1>2, <2>1 DEF SessionOK, Reported, CompletesBefore
<1> QED
  BY <1>4, <1>5, <1>6 DEF SInv

LEMMA CallIs ==
  ASSUME SInv, NEW c \in calls
  PROVE  /\ c = [key |-> c.key, stage |-> c.stage, awaited |-> c.awaited]
         /\ c.key \in Key /\ c.key[1] \in Cached \cap Request /\ c.stage \in {"sent", "running", "done"}
         /\ c.awaited \in BOOLEAN /\ c.key[1] <= started /\ c.key[2] <= gen[c.key[1]]
         /\ c.awaited => c.key = KeyOf(c.key[1]) /\ flight[c.key[1]] = "called"
<1>1. c \in Calls
  BY DEF SInv, TypeOK, BackendTypeOK
<1>2. c.key \in Key /\ c.key[1] \in Request
  BY <1>1 DEF Calls, Key
<1> QED
  BY <1>1, <1>2 DEF Calls, SInv, CallsOK

\* A call goes on with the same key, for the same request.
LEMMA AdvanceCalls ==
  ASSUME SInv, ManagerUnchanged, NEW c \in calls, NEW s \in {"running", "done"},
         calls' = (calls \ {c}) \cup {[c EXCEPT !.stage = s]}, flight' = flight
  PROVE  CallsOK' /\ calls' \subseteq Calls
<1>1. PICK d : d = [c EXCEPT !.stage = s]
  OBVIOUS
<1>2. /\ c.key \in Key /\ c.key[1] \in Cached \cap Request /\ c.awaited \in BOOLEAN /\ c.key[1] <= started
      /\ c.key[2] <= gen[c.key[1]] /\ c.awaited => c.key = KeyOf(c.key[1]) /\ flight[c.key[1]] = "called"
  BY CallIs
<1>3. d = [key |-> c.key, stage |-> s, awaited |-> c.awaited]
  BY <1>1, CallIs
<1>4. calls' = (calls \ {c}) \cup {d} /\ calls \subseteq Calls
  BY <1>1 DEF SInv, TypeOK, BackendTypeOK
<1>5. started' = started /\ gen' = gen /\ \A r : KeyOf(r)' = KeyOf(r)
  BY DEF ManagerUnchanged, queues, KeyOf
<1>6. \A e \in calls' : /\ e.key[1] \in Cached /\ e.key[1] <= started' /\ e.key[2] <= gen'[e.key[1]]
                        /\ e.awaited => e.key = KeyOf(e.key[1])' /\ flight'[e.key[1]] = "called"
  BY <1>2, <1>3, <1>4, <1>5 DEF SInv, CallsOK
<1>7. \A e, f \in calls' : e.awaited /\ f.awaited /\ e.key = f.key => e = f
  <2>1. \A e, f \in calls : e.awaited /\ f.awaited /\ e.key = f.key => e = f
    BY DEF SInv, CallsOK
  <2>2. d.awaited = c.awaited /\ d.key = c.key
    BY <1>3
  <2> QED
    BY <1>4, <2>1, <2>2
<1> QED
  BY <1>2, <1>3, <1>4, <1>6, <1>7 DEF CallsOK, Calls

\* A call is answered, or lost when nobody waits for it.
LEMMA RemoveCall ==
  ASSUME SInv, ManagerUnchanged, NEW c \in calls, NEW x \in Results, calls' = calls \ {c},
         \/ ~c.awaited /\ flight' = flight
         \/ c.awaited /\ flight' = [flight EXCEPT ![c.key[1]] = x]
  PROVE  CallsOK' /\ calls' \subseteq Calls
<1>1. started' = started /\ gen' = gen /\ \A r : KeyOf(r)' = KeyOf(r)
  BY DEF ManagerUnchanged, queues, KeyOf
<1>2. calls \subseteq Calls
  BY DEF SInv, TypeOK, BackendTypeOK
<1>3. ASSUME NEW d \in calls', d.awaited
      PROVE  d.key = KeyOf(d.key[1]) /\ flight'[d.key[1]] = "called"
  <2>1. d \in calls /\ d # c /\ d.key = KeyOf(d.key[1]) /\ flight[d.key[1]] = "called"
    BY <1>3, CallIs
  <2>2. c.awaited => d.key[1] # c.key[1]
    BY <1>3, <2>1, CallIs DEF SInv, CallsOK
  <2>3. d.key[1] \in Request /\ flight \in [Request -> {"none"} \cup InFlight]
    BY <2>1, CallIs, PassIs DEF SInv
  <2> QED
    BY <2>1, <2>2, <2>3
<1>4. \A d \in calls' : d.key[1] \in Cached /\ d.key[1] <= started /\ d.key[2] <= gen[d.key[1]]
  BY CallIs
<1>5. \A d, e \in calls' : d.awaited /\ e.awaited /\ d.key = e.key => d = e
  BY DEF SInv, CallsOK
<1> QED
  BY <1>1, <1>2, <1>3, <1>4, <1>5 DEF CallsOK

\* Nobody waits for a call of a request that is not called.
LEMMA SameCalls ==
  ASSUME SInv, ManagerUnchanged, calls' = calls, NEW r \in Request, NEW x,
         flight' = flight \/ (flight' = [flight EXCEPT ![r] = x] /\ (r \notin Cached \/ flight[r] # "called"))
  PROVE  CallsOK'
<1>1. started' = started /\ gen' = gen /\ \A s : KeyOf(s)' = KeyOf(s)
  BY DEF ManagerUnchanged, queues, KeyOf
<1>2. ASSUME NEW d \in calls, d.awaited
      PROVE  d.key = KeyOf(d.key[1]) /\ flight'[d.key[1]] = "called"
  <2>1. d.key = KeyOf(d.key[1]) /\ flight[d.key[1]] = "called" /\ d.key[1] \in Cached
    BY <1>2, CallIs
  <2>2. d.key[1] \in Request /\ flight \in [Request -> {"none"} \cup InFlight]
    BY CallIs, PassIs DEF SInv
  <2> QED
    BY <2>1, <2>2
<1> QED
  BY <1>1, <1>2, CallIs DEF CallsOK, SInv

LEMMA ReplyKeeps ==
  ASSUME SInv, NEW c \in calls, NEW x \in Results \ {"pending"}, Reply(c, x), calls' = calls \ {c},
         cache' \in [Key -> Statuses], ran' \in [Key -> Nat]
  PROVE  SInv'
<1>1. ManagerUnchanged /\ flight' = IF c.awaited THEN [flight EXCEPT ![c.key[1]] = x] ELSE flight
  BY DEF Reply
<1>2. CallsOK' /\ calls' \subseteq Calls
  BY <1>1, CallIs, RemoveCall
<1>3. c.awaited => c.key[1] \in InPass
  BY CallIs, PassIs DEF SInv
<1>4. \/ flight' = flight
      \/ \E r \in InPass, y \in Results : (y = "pending" => r \in Cached) /\ flight' = [flight EXCEPT ![r] = y]
  BY <1>1, <1>3
<1>5. BackendTypeOK'
  BY <1>2 DEF BackendTypeOK
<1> QED
  BY <1>1, <1>2, <1>4, <1>5, WaitStep

LEMMA AdvanceKeeps ==
  ASSUME SInv, ManagerUnchanged, NEW c \in calls, NEW s \in {"running", "done"}, Advance(c, s), flight' = flight,
         cache' \in [Key -> Statuses], ran' \in [Key -> Nat]
  PROVE  SInv'
<1>1. CallsOK' /\ calls' \subseteq Calls
  BY AdvanceCalls DEF Advance
<1>2. BackendTypeOK'
  BY <1>1 DEF BackendTypeOK
<1> QED
  BY <1>1, <1>2, WaitStep

LEMMA BackendIs ==
  ASSUME SInv
  PROVE  /\ cache \in [Key -> Statuses] /\ ran \in [Key -> Nat] /\ calls \subseteq Calls
         /\ \A k, x : x \in Statuses => [cache EXCEPT ![k] = x] \in [Key -> Statuses]
         /\ \A k : [ran EXCEPT ![k] = @ + 1] \in [Key -> Nat]
<1>1. cache \in [Key -> Statuses] /\ ran \in [Key -> Nat] /\ calls \subseteq Calls
  BY DEF SInv, TypeOK, BackendTypeOK
<1>2. ASSUME NEW k PROVE [ran EXCEPT ![k] = @ + 1] \in [Key -> Nat]
  <2>1. CASE k \in Key
    <3>1. ran[k] + 1 \in Nat
      BY <1>1, <2>1
    <3> QED
      BY <1>1, <3>1
  <2>2. CASE k \notin Key
    BY <1>1, <2>2
  <2> QED
    BY <2>1, <2>2
<1> QED
  BY <1>1, <1>2

LEMMA ServeKeeps ==
  ASSUME SInv, NEW c \in calls, Serve(c) \/ ServerRefuses(c) \/ StoreFails(c) \/ ServerDies(c) \/ CallLost(c)
  PROVE  SInv'
<1> USE DEF Statuses
<1>0. {"conflict", "ok", "fatal", "connection"} \subseteq Results \ {"pending"}
  BY DEF Results
<1>1. CASE Accept(c) /\ UNCHANGED flight /\ ManagerUnchanged
  BY <1>1, BackendIs, AdvanceKeeps DEF Accept
<1>2. CASE Execute(c) /\ UNCHANGED flight /\ ManagerUnchanged
  BY <1>2, BackendIs, AdvanceKeeps DEF Execute
<1>3. CASE Reject(c) /\ Reply(c, "conflict")
  BY <1>0, <1>3, BackendIs, ReplyKeeps DEF Reject
<1>4. CASE Answer(c) /\ Reply(c, "ok")
  BY <1>0, <1>4, BackendIs, ReplyKeeps DEF Answer
<1>5. CASE ServerRefuses(c)
  BY <1>0, <1>5, BackendIs, ReplyKeeps DEF ServerRefuses, Refuse
<1>6. CASE StoreFails(c)
  BY <1>0, <1>6, BackendIs, ReplyKeeps DEF StoreFails, CacheWriteFails
<1>7. CASE ServerDies(c)
  BY <1>0, <1>7, BackendIs, ReplyKeeps DEF ServerDies, Die
<1>8. CASE CallLost(c)
  <2>1. /\ ~c.awaited /\ calls' = calls \ {c} /\ flight' = flight /\ ManagerUnchanged
        /\ cache' = cache /\ ran' = ran
    BY <1>8 DEF CallLost, Lose
  <2>2. CallsOK' /\ calls' \subseteq Calls
    BY <1>0, <2>1, RemoveCall
  <2>3. BackendTypeOK'
    BY <2>1, <2>2, BackendIs DEF BackendTypeOK
  <2> QED
    BY <2>1, <2>2, <2>3, WaitStep
<1> QED
  BY <1>1, <1>2, <1>3, <1>4, <1>5, <1>6, <1>7, <1>8 DEF Serve

LEMMA UncachedKeeps ==
  ASSUME SInv, NEW r \in Request, AnswerUncached(r)
  PROVE  SInv'
<1>1. /\ r \notin Cached /\ flight[r] = "called" /\ ManagerUnchanged /\ calls' = calls /\ cache' = cache /\ ran' = ran
  BY DEF AnswerUncached, backend
<1>2. PICK x \in Results \ {"pending"} : flight' = [flight EXCEPT ![r] = x]
  BY DEF AnswerUncached, Results
<1>3. CallsOK'
  BY <1>1, <1>2, SameCalls
<1>4. BackendTypeOK'
  BY <1>1, BackendIs DEF BackendTypeOK
<1>5. r \in InPass
  BY <1>1 DEF InPass
<1> QED
  BY <1>1, <1>2, <1>3, <1>4, <1>5, WaitStep

LEMMA PollKeeps ==
  ASSUME SInv, NEW r \in Request, AnswerPoll(r)
  PROVE  SInv'
<1>1. /\ flight[r] = "polled" /\ ManagerUnchanged /\ calls' = calls /\ cache' = cache /\ ran' = ran
      /\ flight' = [flight EXCEPT ![r] = PollResult(cache[KeyOf(r)])]
  BY DEF AnswerPoll, backend
<1>2. r \in InPass /\ r \in Cached
  BY <1>1 DEF InPass, SInv, QueuesOK, With
<1>3. KeyOf(r) \in Key
  BY DEF SInv, TypeOK, KeyOf, Key
<1>4. PICK x : x = PollResult(cache[KeyOf(r)]) /\ x \in Results
  BY <1>3, BackendIs DEF PollResult, Results, Statuses
<1>5. CallsOK'
  BY <1>1, SameCalls
<1>6. BackendTypeOK'
  BY <1>1, BackendIs DEF BackendTypeOK
<1> QED
  BY <1>1, <1>2, <1>4, <1>5, <1>6, WaitStep

LEMMA ExpiryKeeps ==
  ASSUME SInv, NEW k \in Key, EntryExpires(k)
  PROVE  SInv'
<1>1. /\ ManagerUnchanged /\ calls' = calls /\ cache' = [cache EXCEPT ![k] = "none"] /\ ran' = ran
      /\ flight' = flight
  BY DEF EntryExpires, Expire
<1>2. BackendTypeOK'
  BY <1>1, BackendIs DEF BackendTypeOK, Statuses
<1>3. k[1] \in Request
  BY DEF Key
<1>4. CallsOK'
  BY <1>1, <1>3, SameCalls
<1> QED
  BY <1>1, <1>2, <1>4, WaitStep

\* The call goes on without its client.
LEMMA UnawaitedIs ==
  ASSUME SInv, NEW k, NEW d \in Unawaited(k)
  PROVE  \E c \in calls : /\ d.key = c.key /\ d.stage = c.stage /\ d \in Calls
                          /\ d.awaited = (c.awaited /\ c.key # k)
                          /\ c.key # k => d = c
                          /\ c.key = k => d = [key |-> k, stage |-> c.stage, awaited |-> FALSE]
<1>1. PICK c \in calls : d = IF c.key = k THEN [c EXCEPT !.awaited = FALSE] ELSE c
  BY DEF Unawaited
<1>2. c \in Calls /\ c = [key |-> c.key, stage |-> c.stage, awaited |-> c.awaited]
  BY BackendIs, CallIs
<1>3. CASE c.key = k
  <2>1. d = [key |-> k, stage |-> c.stage, awaited |-> FALSE]
    BY <1>1, <1>2, <1>3
  <2> QED
    BY <1>2, <1>3, <2>1 DEF Calls
<1>4. CASE c.key # k
  BY <1>1, <1>2, <1>4 DEF Calls
<1> QED
  BY <1>3, <1>4

LEMMA GiveUpKeeps ==
  ASSUME SInv, NEW r \in Request, Timeout(r) \/ ConnectionFails(r)
  PROVE  SInv'
<1>1. PICK x \in Results \ {"pending"} : GiveUp(r, x)
  BY DEF Timeout, ConnectionFails, Results
<1>2. /\ flight[r] \in {"called", "polled"} /\ flight' = [flight EXCEPT ![r] = x] /\ ManagerUnchanged
      /\ calls' = IF flight[r] = "called" THEN Unawaited(KeyOf(r)) ELSE calls
      /\ cache' = cache /\ ran' = ran
  BY <1>1 DEF GiveUp
<1>3. r \in InPass /\ flight \in [Request -> {"none"} \cup InFlight]
  BY <1>2, PassIs DEF InPass, SInv
<1>4. started' = started /\ gen' = gen /\ \A s : KeyOf(s)' = KeyOf(s)
  BY <1>2 DEF ManagerUnchanged, queues, KeyOf
<1>5. ASSUME flight[r] = "called" PROVE CallsOK'
  <2>1. calls' = Unawaited(KeyOf(r))
    BY <1>2, <1>5
  <2>2. ASSUME NEW d \in calls'
        PROVE  /\ d \in Calls /\ d.key[1] \in Cached /\ d.key[1] <= started /\ d.key[2] <= gen[d.key[1]]
               /\ d.awaited => d \in calls /\ d.key = KeyOf(d.key[1]) /\ flight'[d.key[1]] = "called"
    <3>1. PICK c \in calls : /\ d.key = c.key /\ d \in Calls /\ d.awaited = (c.awaited /\ c.key # KeyOf(r))
                             /\ c.key # KeyOf(r) => d = c
      BY <2>1, UnawaitedIs
    <3>2. ASSUME d.awaited
          PROVE  d \in calls /\ d.key = KeyOf(d.key[1]) /\ flight'[d.key[1]] = "called"
      <4>1. c.awaited /\ c.key # KeyOf(r) /\ d = c
        BY <3>1, <3>2
      <4>2. c.key = KeyOf(c.key[1]) /\ flight[c.key[1]] = "called" /\ c.key[1] \in Request
        BY <4>1, CallIs
      <4> QED
        BY <1>2, <1>3, <4>1, <4>2
    <3> QED
      BY <3>1, <3>2, CallIs
  <2>3. \A d, e \in calls' : d.awaited /\ e.awaited /\ d.key = e.key => d = e
    BY <2>2 DEF SInv, CallsOK
  <2> QED
    BY <1>4, <2>2, <2>3 DEF CallsOK
<1>6. ASSUME flight[r] # "called" PROVE CallsOK'
  BY <1>2, <1>6, SameCalls
<1>7. CallsOK'
  BY <1>5, <1>6
<1>8. BackendTypeOK'
  <2>1. calls' \subseteq Calls
    BY <1>2, BackendIs, UnawaitedIs
  <2> QED
    BY <1>2, <2>1, BackendIs DEF BackendTypeOK
<1> QED
  BY <1>2, <1>3, <1>7, <1>8, WaitStep
-----------------------------------------------------------------------------
(* The steps of the manager.                                                 *)

\* Reports only accumulate: what was not fatal before is not fatal now.
LEMMA NoFatalBefore ==
  ASSUME TypeOK, NoFatal',
         \A r \in Request : ended'[r] = ended[r] \/ \E x : ended'[r] = Append(ended[r], x)
  PROVE  NoFatal
<1> SUFFICES ASSUME NEW r \in Request, NEW i \in DOMAIN ended[r] PROVE ended[r][i] # "fatal"
  BY DEF NoFatal
<1>1. ended[r] \in Seq(Reports)
  BY DEF TypeOK
<1>2. i \in DOMAIN ended'[r] /\ ended'[r][i] = ended[r][i]
  BY <1>1
<1> QED
  BY <1>2 DEF NoFatal

LEMMA NotFatal ==
  ASSUME TypeOK, NoFatal', NEW r \in Request, NEW x, ended'[r] = Append(ended[r], x)
  PROVE  x # "fatal"
<1>1. ended[r] \in Seq(Reports)
  BY DEF TypeOK
<1>2. Len(ended[r]) + 1 \in DOMAIN ended'[r] /\ ended'[r][Len(ended[r]) + 1] = x
  BY <1>1
<1> QED
  BY <1>2 DEF NoFatal

\* Requests that are reported leave, and nothing starts.
LEMMA ReportedKeep ==
  ASSUME SInv, NoFatal, started' = started, NEW rs \in SUBSET Outstanding, Outstanding' = Outstanding \ rs,
         \A r \in Request : IF r \in rs THEN \E x \in Reports : ended'[r] = Append(ended[r], x)
                            ELSE ended'[r] = ended[r]
  PROVE  Reported' /\ CompletesBefore'
<1>1. /\ \A r \in Request : ended[r] = <<>> \/ (r \notin Outstanding /\ \E x \in Reports : ended[r] = <<x>>)
      /\ \A r \in 1..started : r \in Outstanding \/ ended[r] # <<>>
      /\ CompletesBefore
  BY DEF SInv, SessionOK, Reported
<1>2. ASSUME NEW r \in Request
      PROVE  /\ r \in rs => \E x \in Reports : ended'[r] = <<x>>
             /\ r \notin rs => ended'[r] = ended[r]
             /\ ended[r] # <<>> => ended'[r] = ended[r]
  <2>1. r \in rs => ended[r] = <<>>
    BY <1>1
  <2>2. \A x : Append(<<>>, x) = <<x>>
    OBVIOUS
  <2> QED
    BY <2>1, <2>2
<1>3. \A r \in 1..started : r \in Request
  BY NAssumption DEF SInv, TypeOK, Request
<1>4. Reported'
  <2>1. \A r \in Request : ended'[r] = <<>> \/ (r \notin Outstanding' /\ \E x \in Reports : ended'[r] = <<x>>)
    BY <1>1, <1>2
  <2>2. ASSUME NEW r \in 1..started PROVE r \in Outstanding' \/ ended'[r] # <<>>
    <3>1. \A x : <<x>> # <<>>
      OBVIOUS
    <3> QED
      BY <1>1, <1>2, <1>3, <3>1
  <2> QED
    BY <2>1, <2>2 DEF Reported
<1>5. CompletesBefore'
  <2> SUFFICES ASSUME NEW r \in Request, NEW s \in Request, r < s, s <= started, ~Compatible(r, s),
                      ended'[s] # <<"skipped">>
               PROVE  ended'[r] # <<>>
    BY DEF CompletesBefore
  <2>1. ended[s] # <<"skipped">>
    BY <1>2
  <2>2. ended[r] # <<>>
    BY <1>1, <2>1 DEF CompletesBefore
  <2> QED
    BY <1>2, <2>2
<1> QED
  BY <1>4, <1>5

LEMMA EnqueueKeeps ==
  ASSUME SInv, Enqueue
  PROVE  SInv'
<1>1. /\ enqueued < N /\ enqueued' = enqueued + 1
      /\ UNCHANGED <<started, retry, polls, left, gen, flight, repo, ended, calls, cache, ran>>
  BY DEF Enqueue, backend
<1>2. enqueued' \in 0..N /\ started' \in 0..enqueued'
  BY <1>1, NAssumption DEF SInv, TypeOK
<1>3. TypeOK'
  BY <1>1, <1>2 DEF SInv, TypeOK, BackendTypeOK
<1>4. InPass' = InPass /\ Outstanding' = Outstanding /\ NoFatal' = NoFatal /\ With({"polled", "pending"})' = With({"polled", "pending"})
  BY <1>1 DEF InPass, Outstanding, NoFatal, With
<1>5. QueuesOK' /\ CallsOK'
  BY <1>1, <1>4 DEF SInv, QueuesOK, CallsOK, KeyOf
<1>6. SessionOK'
  BY <1>1, <1>4 DEF SInv, SessionOK, Reported, CompletesBefore
<1> QED
  BY <1>3, <1>5, <1>6 DEF SInv

LEMMA ReportIs ==
  ASSUME TypeOK, NEW rs, NEW x \in Reports, ended' = Report(rs, x)
  PROVE  /\ ended' \in [Request -> Seq(Reports)]
         /\ \A r \in Request : ended'[r] = IF r \in rs THEN Append(ended[r], x) ELSE ended[r]
<1>1. \A r \in Request : ended[r] \in Seq(Reports) /\ Append(ended[r], x) \in Seq(Reports)
  BY DEF TypeOK
<1>2. ended' = [r \in Request |-> IF r \in rs THEN Append(ended[r], x) ELSE ended[r]]
  BY DEF Report
<1> QED
  BY <1>1, <1>2

LEMMA ExhaustKeeps ==
  ASSUME SInv, Exhaust
  PROVE  SInv'
<1>1. TypeOK /\ QueuesOK /\ CallsOK
  BY DEF SInv
<1>2. /\ InPass = {} /\ retry' = retry \ Exhausted /\ polls' = polls \ Exhausted
      /\ repo' = ReleaseAll(repo, Exhausted, FALSE) /\ ended' = Report(Exhausted, "failure")
      /\ UNCHANGED <<enqueued, started, left, gen, flight, calls, cache, ran>>
  BY DEF Exhaust, backend
<1>3. /\ Exhausted \subseteq retry \cup polls /\ Exhausted \subseteq Request /\ Exhausted \subseteq 1..started
      /\ retry \cup polls \subseteq 1..started
  <2>1. retry \cup polls \subseteq 1..started
    BY <1>1 DEF QueuesOK
  <2>2. 1..started \subseteq Request
    BY <1>1, NAssumption DEF TypeOK, Request
  <2>3. Exhausted \subseteq retry \cup polls
    BY DEF Exhausted
  <2> QED
    BY <2>1, <2>2, <2>3
<1>4. PICK f : f = repo' /\ f \in [Id -> Entries] /\ \A i \in Id : Freed(repo[i], Cardinality(Users(i, Exhausted)), f[i])
  <2>1. repo \in [Id -> Entries]
    BY <1>1 DEF TypeOK
  <2> QED
    BY <1>2, <1>3, <2>1, ReleaseAllFrees
<1>5. /\ ended' \in [Request -> Seq(Reports)]
      /\ \A r \in Request : ended'[r] = IF r \in Exhausted THEN Append(ended[r], "failure") ELSE ended[r]
  BY <1>1, <1>2, ReportIs DEF Reports
<1>6. TypeOK'
  BY <1>1, <1>2, <1>4, <1>5 DEF TypeOK, BackendTypeOK
<1>7. InPass' = {} /\ With({"polled", "pending"})' = With({"polled", "pending"})
  BY <1>2 DEF InPass, With
<1>8. QueuesOK'
  <2>1. \A r \in Request : r > started => r \notin Exhausted
    BY <1>1, <1>3 DEF TypeOK
  <2> QED
    BY <1>1, <1>2, <1>5, <1>7, <2>1 DEF QueuesOK
<1>9. CallsOK'
  BY <1>1, <1>2 DEF CallsOK, KeyOf
<1>10. ASSUME NoFatal' PROVE Held(repo', Outstanding') /\ Reported' /\ CompletesBefore'
  <2>1. NoFatal
    BY <1>1, <1>5, <1>10, NoFatalBefore
  <2>2. Outstanding = retry \cup polls /\ Outstanding' = Outstanding \ Exhausted
    BY <1>2, <1>7 DEF Outstanding
  <2>3. Held(repo, Outstanding)
    BY <2>1 DEF SInv, SessionOK
  <2>4. Outstanding \subseteq Request
    BY <1>1, <1>3, <2>2, NAssumption DEF TypeOK, Request
  <2>5. Held(repo', Outstanding')
    BY <1>1, <1>3, <1>4, <2>2, <2>3, <2>4, FreedHolds DEF TypeOK
  <2>6. Reported' /\ CompletesBefore'
    BY <1>2, <1>3, <1>5, <2>1, <2>2, ReportedKeep DEF Reports
  <2> QED
    BY <2>5, <2>6
<1> QED
  BY <1>6, <1>8, <1>9, <1>10 DEF SInv, SessionOK

\* A call is sent under the current key of its request.
LEMMA NewCallIs ==
  ASSUME TypeOK, NEW r \in Request
  PROVE  /\ NewCall(KeyOf(r)) = [key |-> <<r, gen[r]>>, stage |-> "sent", awaited |-> TRUE]
         /\ <<r, gen[r]>> \in Key /\ NewCall(KeyOf(r)) \in Calls
<1>1. <<r, gen[r]>> \in Key
  BY DEF TypeOK, Key
<1>2. NewCall(KeyOf(r)) = [key |-> <<r, gen[r]>>, stage |-> "sent", awaited |-> TRUE]
  BY DEF NewCall, KeyOf
<1> QED
  BY <1>1, <1>2 DEF Calls

LEMMA PassKeeps ==
  ASSUME SInv, NEW due \in SUBSET polls, NEW n \in started..enqueued,
         NEW skips \in SUBSET (Skippable \cap (started + 1..n)), StartPass(n, skips, due)
  PROVE  SInv'
<1>1. TypeOK /\ QueuesOK /\ CallsOK
  BY DEF SInv
<1>2. PICK f, taken, sent : f = Walk(skips) /\ taken = (started + 1..n) \ skips /\ sent = taken \cup retry
  OBVIOUS
<1>3. /\ InPass = {} /\ Exhausted = {} /\ \A m \in taken : CanReserve(f[m - 1], m)
      /\ started' = n /\ repo' = f[n] /\ polls' = polls \ due /\ ended' = Report(skips, "skipped")
      /\ flight' = [r \in Request |-> IF r \in sent THEN "called" ELSE IF r \in due THEN "polled" ELSE "none"]
      /\ calls' = calls \cup {NewCall(KeyOf(r)) : r \in sent \cap Cached}
      /\ UNCHANGED <<enqueued, retry, left, gen, cache, ran>>
  BY <1>2 DEF StartPass
<1>4. /\ started \in Nat /\ enqueued \in Nat /\ N \in Nat /\ n \in Nat /\ started <= n /\ n <= enqueued
      /\ enqueued <= N
  BY <1>1, NAssumption DEF TypeOK
<1>5. /\ retry \subseteq 1..started /\ polls \subseteq 1..started /\ polls \subseteq Cached /\ retry \cap polls = {}
      /\ taken \subseteq started + 1..n /\ skips \subseteq started + 1..n /\ taken \cap skips = {}
      /\ taken \cup skips = started + 1..n
  BY <1>1, <1>2 DEF QueuesOK, TypeOK
<1>6. /\ 1..n \subseteq Request /\ 1..started \subseteq 1..n /\ started + 1..n \subseteq 1..n
      /\ (1..started) \cap (started + 1..n) = {} /\ 1..n = (1..started) \cup (started + 1..n)
  BY <1>4 DEF Request
<1>7. /\ ended' \in [Request -> Seq(Reports)]
      /\ \A r \in Request : ended'[r] = IF r \in skips THEN Append(ended[r], "skipped") ELSE ended[r]
  BY <1>1, <1>3, ReportIs DEF Reports
<1>8. /\ \A r \in Request : flight'[r] = IF r \in sent THEN "called" ELSE IF r \in due THEN "polled" ELSE "none"
      /\ sent \subseteq Request /\ due \subseteq Request /\ sent \cap due = {}
  BY <1>2, <1>3, <1>5, <1>6
<1>9. InPass' = sent \cup due /\ With({"polled", "pending"})' = due
  BY <1>8 DEF InPass, With
<1>10. calls' \subseteq Calls
  BY <1>1, <1>3, <1>8, NewCallIs DEF TypeOK, BackendTypeOK
<1>11. TypeOK'
  <2>1. repo' \in [Id -> Entries]
    BY <1>1, <1>2, <1>3, WalkTypes
  <2>2. flight' \in [Request -> {"none", "called", "polled"} \cup Results]
    BY <1>3
  <2>3. started' \in 0..enqueued' /\ retry' \subseteq 1..started' /\ polls' \subseteq Cached \cap 1..started'
    BY <1>3, <1>4, <1>5, <1>6
  <2> QED
    BY <1>1, <1>3, <1>7, <1>10, <2>1, <2>2, <2>3 DEF TypeOK, BackendTypeOK
<1>12. QueuesOK'
  <2>1. retry' \cup InPass' \subseteq 1..started' /\ polls' \subseteq 1..started'
    BY <1>2, <1>3, <1>5, <1>6, <1>9
  <2>2. retry' \cap polls' = {} /\ retry' \subseteq InPass' /\ polls' \cap InPass' = {}
    BY <1>2, <1>3, <1>5, <1>6, <1>9
  <2>3. \A r \in InPass' : left'[r] >= 0
    <3>1. \A r \in taken : left[r] >= 0
      BY <1>1, <1>4, <1>5, <1>6, RetriesAssumption DEF QueuesOK
    <3>2. \A r \in retry \cup polls : left[r] >= 0
      BY <1>1, <1>3, <1>5, <1>6 DEF Exhausted, TypeOK
    <3> QED
      BY <1>2, <1>3, <1>9, <3>1, <3>2
  <2>4. \A r \in Request : r > started' => left'[r] = Retries /\ gen'[r] = 0 /\ ended'[r] = <<>>
    <3> SUFFICES ASSUME NEW r \in Request, r > n PROVE left'[r] = Retries /\ gen'[r] = 0 /\ ended'[r] = <<>>
      BY <1>3
    <3>1. r > started /\ r \notin skips
      BY <1>4, <1>5 DEF Request
    <3> QED
      BY <1>1, <1>3, <1>7, <3>1 DEF QueuesOK
  <2>5. With({"polled", "pending"})' \subseteq Cached
    BY <1>5, <1>9
  <2> QED
    BY <2>1, <2>2, <2>3, <2>4, <2>5 DEF QueuesOK
<1>13. CallsOK'
  <2>1. \A c \in calls : ~c.awaited /\ c.key[1] \in Cached /\ c.key[1] <= n /\ c.key[2] <= gen[c.key[1]]
    <3> SUFFICES ASSUME NEW c \in calls
                 PROVE  ~c.awaited /\ c.key[1] \in Cached /\ c.key[1] <= n /\ c.key[2] <= gen[c.key[1]]
      OBVIOUS
    <3>1. c.key[1] \in Request /\ c.key[1] <= started /\ (c.awaited => flight[c.key[1]] = "called")
      BY CallIs
    <3>2. ~c.awaited
      BY <1>3, <3>1 DEF InPass
    <3>3. c.key[1] <= n
      BY <1>4, <3>1 DEF Request
    <3> QED
      BY <3>2, <3>3, CallIs
  <2>2. ASSUME NEW c \in calls' \ calls
        PROVE  \E r \in sent \cap Cached :
                  c.key = <<r, gen[r]>> /\ c = [key |-> c.key, stage |-> "sent", awaited |-> TRUE]
    <3>1. PICK r \in sent \cap Cached : c = NewCall(KeyOf(r))
      BY <1>3, <2>2
    <3>2. c = [key |-> <<r, gen[r]>>, stage |-> "sent", awaited |-> TRUE]
      BY <1>1, <1>8, <3>1, NewCallIs
    <3> QED
      BY <3>2
  <2>3. \A r : KeyOf(r)' = <<r, gen[r]>>
    BY <1>3 DEF KeyOf
  <2>4. ASSUME NEW c \in calls' \ calls
        PROVE  /\ c.key[1] \in Cached /\ c.key[1] <= n /\ c.key[2] <= gen[c.key[1]]
               /\ c.key = <<c.key[1], gen[c.key[1]]>> /\ flight'[c.key[1]] = "called"
    <3>1. PICK r \in sent \cap Cached : c.key = <<r, gen[r]>>
      BY <2>2, <2>4
    <3>2. r \in Request /\ r <= n /\ gen[r] <= gen[r] /\ flight'[r] = "called"
      BY <1>1, <1>2, <1>4, <1>5, <1>6, <1>8 DEF TypeOK
    <3> QED
      BY <3>1, <3>2
  <2>5. \A c, d \in calls' : c.awaited /\ d.awaited /\ c.key = d.key => c = d
    <3> SUFFICES ASSUME NEW c \in calls', NEW d \in calls', c.awaited, d.awaited, c.key = d.key PROVE c = d
      OBVIOUS
    <3>1. c \in calls' \ calls /\ d \in calls' \ calls
      BY <2>1
    <3>2. c = [key |-> c.key, stage |-> "sent", awaited |-> TRUE] /\ d = [key |-> d.key, stage |-> "sent", awaited |-> TRUE]
      BY <2>2, <3>1
    <3> QED
      BY <3>2
  <2> QED
    BY <1>3, <2>1, <2>3, <2>4, <2>5 DEF CallsOK
<1>14. ASSUME NoFatal'
       PROVE  Held(repo', Outstanding') /\ Reported' /\ CompletesBefore'
  <2>1. NoFatal /\ Held(repo, Outstanding) /\ Reported /\ CompletesBefore
    <3>1. NoFatal
      BY <1>1, <1>7, <1>14, NoFatalBefore
    <3> QED
      BY <3>1 DEF SInv, SessionOK
  <2>2. Outstanding = retry \cup polls /\ Outstanding' = Outstanding \cup taken /\ Outstanding \subseteq 1..started
    BY <1>2, <1>3, <1>5, <1>9 DEF Outstanding
  <2>3. ASSUME NEW k \in started..n PROVE Held(f[k], Outstanding \cup ((started + 1..k) \ skips))
    BY <1>1, <1>2, <1>3, <2>1, <2>2, WalkHolds
  <2>4. Held(repo', Outstanding')
    <3>1. n \in started..n
      BY <1>4
    <3> QED
      BY <1>2, <1>3, <2>2, <2>3, <3>1
  <2>5. /\ \A r \in Request : r > started => ended[r] = <<>>
        /\ \A r \in Request : ended[r] = <<>> \/ (r \notin Outstanding /\ \E x \in Reports : ended[r] = <<x>>)
        /\ \A r \in 1..started : r \in Outstanding \/ ended[r] # <<>>
    BY <1>1, <2>1 DEF QueuesOK, Reported
  <2>6. ASSUME NEW r \in Request
        PROVE  /\ r \in skips => ended'[r] = <<"skipped">>
               /\ r \notin skips => ended'[r] = ended[r]
    <3>1. r \in skips => ended[r] = <<>>
      BY <1>4, <1>5, <2>5
    <3> QED
      BY <1>7, <3>1
  <2>7. Reported'
    <3>1. ASSUME NEW r \in Request
          PROVE  ended'[r] = <<>> \/ (r \notin Outstanding' /\ \E x \in Reports : ended'[r] = <<x>>)
      <4>1. CASE r \in skips
        <5>1. r \notin Outstanding'
          BY <1>5, <1>6, <2>2, <4>1
        <5> QED
          BY <2>6, <4>1, <5>1 DEF Reports
      <4>2. CASE r \notin skips /\ ended[r] # <<>>
        <5>1. r \notin taken
          BY <1>4, <1>5, <2>5, <4>2
        <5> QED
          BY <2>2, <2>5, <2>6, <4>2, <5>1
      <4>3. CASE r \notin skips /\ ended[r] = <<>>
        BY <2>6, <4>3
      <4> QED
        BY <4>1, <4>2, <4>3
    <3>2. ASSUME NEW r \in 1..n PROVE r \in Outstanding' \/ ended'[r] # <<>>
      <4>1. r \in Request /\ <<"skipped">> # <<>>
        BY <1>6
      <4>2. CASE r \in 1..started
        BY <2>2, <2>5, <2>6, <4>1, <4>2
      <4>3. CASE r \in started + 1..n
        BY <1>5, <2>2, <2>6, <4>1, <4>3
      <4> QED
        BY <1>6, <4>2, <4>3
    <3> QED
      BY <1>3, <3>1, <3>2 DEF Reported
  <2>8. CompletesBefore'
    <3> SUFFICES ASSUME NEW r \in Request, NEW s \in Request, r < s, s <= n, ~Compatible(r, s),
                        ended'[s] # <<"skipped">>
                 PROVE  ended'[r] # <<>>
      BY <1>3 DEF CompletesBefore
    <3>0. r \in Nat /\ s \in Nat /\ <<"skipped">> # <<>>
      BY <1>4 DEF Request
    <3>1. s \notin skips
      BY <2>6
    <3>2. CASE s <= started
      <4>1. ended[r] # <<>>
        BY <2>1, <2>6, <3>1, <3>2 DEF CompletesBefore
      <4> QED
        BY <2>6, <3>0, <4>1
    <3>3. CASE s > started
      <4>1. s \in started + 1..n /\ s \in taken /\ s - 1 \in started..n
        BY <1>4, <1>5, <3>0, <3>1, <3>3
      <4>2. PICK hs : hs = Outstanding \cup ((started + 1..s - 1) \ skips)
        OBVIOUS
      <4>3. Held(f[s - 1], hs) /\ CanReserve(f[s - 1], s)
        BY <1>3, <2>3, <4>1, <4>2
      <4>4. hs \subseteq Request
        <5>1. started + 1..s - 1 \subseteq 1..n
          BY <1>4, <3>0, <4>1
        <5> QED
          BY <1>6, <2>2, <4>2, <5>1
      <4>5. r \notin hs
        BY <4>3, <4>4, ReserveExcludes
      <4>6. CASE r <= started
        <5>1. r \in 1..started
          BY <3>0, <4>6 DEF Request
        <5> QED
          BY <2>5, <2>6, <3>0, <4>2, <4>5, <5>1
      <4>7. CASE r > started
        <5>1. r \in started + 1..s - 1
          BY <1>4, <3>0, <4>7
        <5> QED
          BY <2>6, <3>0, <4>2, <4>5, <5>1
      <4> QED
        BY <1>4, <3>0, <4>6, <4>7
    <3> QED
      BY <1>4, <3>0, <3>2, <3>3
  <2> QED
    BY <2>4, <2>7, <2>8
<1> QED
  BY <1>11, <1>12, <1>13, <1>14 DEF SInv, SessionOK

\* What a pass does with its results.
LEMMA SettledIs ==
  ASSUME SInv, InPass # {}, InPass = With(Results)
  PROVE  /\ With({"ok"}) \cap With({"fatal"}) = {} /\ With({"ok"}) \cup With({"fatal"}) \subseteq InPass
         /\ ToPoll \cup ToRetry \subseteq InPass /\ ToPoll \cap ToRetry = {} /\ Consumes \subseteq InPass
         /\ NewKeys \subseteq Consumes /\ ToPoll \subseteq Cached
         /\ (With({"ok"}) \cup With({"fatal"})) \cap (ToPoll \cup ToRetry) = {}
         /\ InPass \subseteq With({"ok"}) \cup With({"fatal"}) \cup ToPoll \cup ToRetry
<1>1. TypeOK /\ QueuesOK
  BY DEF SInv
<1>2. \A r \in InPass : r \in Request /\ flight[r] \in Results
  BY DEF With
<1>3. With({"pending"}) \subseteq Cached
  BY <1>1 DEF QueuesOK, With
<1> QED
  BY <1>2, <1>3 DEF With, ToPoll, ToRetry, NewKeys, Consumes, InPass, Results

LEMMA SettleTypes ==
  ASSUME SInv, NEW bad \in SUBSET With({"ok"}), FinishPass(bad)
  PROVE  TypeOK' /\ QueuesOK' /\ CallsOK'
<1>1. TypeOK /\ QueuesOK /\ CallsOK
  BY DEF SInv
<1>2. PICK good, fatal : good = With({"ok"}) \ bad /\ fatal = With({"fatal"}) \cup bad
  OBVIOUS
<1>3. /\ InPass # {} /\ InPass = With(Results) /\ flight' = [r \in Request |-> "none"]
      /\ repo' = ReleaseAll(ReleaseAll(Bind(repo, good), good, TRUE), fatal, FALSE)
      /\ ended' = [r \in Request |-> IF r \in good THEN Append(ended[r], "success")
                                     ELSE IF r \in fatal THEN Append(ended[r], "fatal") ELSE ended[r]]
      /\ IF fatal = {} THEN Requeue ELSE UNCHANGED <<retry, polls, left, gen>>
      /\ UNCHANGED <<enqueued, started, calls, cache, ran>>
  BY <1>2 DEF FinishPass, backend
<1>4. /\ good \subseteq InPass /\ fatal \subseteq InPass /\ InPass \subseteq 1..started /\ InPass \subseteq Request
      /\ ToPoll \cup ToRetry \subseteq InPass /\ ToPoll \cap ToRetry = {} /\ Consumes \subseteq InPass
      /\ NewKeys \subseteq Consumes /\ ToPoll \subseteq Cached
  BY <1>1, <1>2, <1>3, SettledIs DEF QueuesOK, InPass
<1>5. repo' \in [Id -> Entries]
  <2>1. Bind(repo, good) \in [Id -> Entries]
    BY <1>1, BindIs DEF TypeOK
  <2>2. ReleaseAll(Bind(repo, good), good, TRUE) \in [Id -> Entries]
    BY <1>4, <2>1, ReleaseAllFrees
  <2> QED
    BY <1>3, <1>4, <2>2, ReleaseAllFrees
<1>6. ended' \in [Request -> Seq(Reports)]
  <2>1. \A r \in Request : ended[r] \in Seq(Reports)
    BY <1>1 DEF TypeOK
  <2>2. \A r \in Request : Append(ended[r], "success") \in Seq(Reports) /\ Append(ended[r], "fatal") \in Seq(Reports)
    BY <2>1 DEF Reports
  <2> QED
    BY <1>3, <2>1, <2>2
<1>7. /\ retry' \subseteq 1..started /\ polls' \subseteq Cached \cap 1..started /\ retry' \cap polls' = {}
      /\ left' \in [Request -> -1..Retries] /\ gen' \in [Request -> 0..MaxGen]
      /\ \A r \in Request : left'[r] + gen'[r] <= Retries /\ gen'[r] >= gen[r]
      /\ \A r \in Request : r > started => left'[r] = left[r] /\ gen'[r] = gen[r]
  <2>1. CASE fatal = {}
    <3>1. /\ retry' = ToRetry /\ polls' = polls \cup ToPoll
          /\ left' = [r \in Request |-> IF r \in Consumes THEN left[r] - 1 ELSE left[r]]
          /\ gen' = [r \in Request |-> IF r \in NewKeys THEN gen[r] + 1 ELSE gen[r]]
      BY <1>3, <2>1 DEF Requeue
    <3>2. retry' \subseteq 1..started /\ polls' \subseteq Cached \cap 1..started /\ retry' \cap polls' = {}
      BY <1>1, <1>3, <1>4, <3>1 DEF TypeOK, QueuesOK
    <3>3. ASSUME NEW r \in Request
          PROVE  /\ left'[r] \in -1..Retries /\ gen'[r] \in 0..MaxGen /\ left'[r] + gen'[r] <= Retries
                 /\ gen'[r] >= gen[r]
                 /\ r > started => left'[r] = left[r] /\ gen'[r] = gen[r]
      <4>1. /\ left[r] \in Int /\ gen[r] \in Int /\ left[r] + gen[r] <= Retries /\ -1 <= left[r] /\ left[r] <= Retries
            /\ 0 <= gen[r] /\ Retries \in Nat
        BY <1>1, RetriesAssumption DEF TypeOK, MaxGen
      <4>2. CASE r \notin Consumes
        <5>1. left'[r] = left[r] /\ gen'[r] = gen[r]
          BY <1>4, <3>1, <4>2
        <5> QED
          BY <1>1, <4>1, <5>1 DEF TypeOK
      <4>3. CASE r \in Consumes
        <5>1. left[r] >= 0 /\ r <= started
          BY <1>1, <1>4, <4>3 DEF QueuesOK
        <5>2. left'[r] = left[r] - 1 /\ (gen'[r] = gen[r] \/ gen'[r] = gen[r] + 1)
          BY <3>1, <4>3
        <5>3. started \in Int /\ ~(r > started)
          BY <1>1, <5>1 DEF TypeOK, Request
        <5> QED
          BY <4>1, <5>1, <5>2, <5>3 DEF MaxGen
      <4> QED
        BY <4>2, <4>3
    <3>4. left' = [r \in Request |-> left'[r]] /\ gen' = [r \in Request |-> gen'[r]]
      BY <3>1
    <3> QED
      BY <3>2, <3>3, <3>4
  <2>2. CASE fatal # {}
    <3>1. retry' = retry /\ polls' = polls /\ left' = left /\ gen' = gen
      BY <1>3, <2>2
    <3>2. \A r \in Request : gen[r] >= gen[r]
      BY <1>1 DEF TypeOK
    <3> QED
      BY <1>1, <3>1, <3>2 DEF TypeOK, QueuesOK
  <2> QED
    BY <2>1, <2>2
<1>8. TypeOK'
  <2>1. flight' \in [Request -> {"none", "called", "polled"} \cup Results]
    BY <1>3
  <2>2. enqueued' \in 0..N /\ started' \in 0..enqueued' /\ BackendTypeOK'
    BY <1>1, <1>3 DEF TypeOK, BackendTypeOK
  <2> QED
    BY <1>3, <1>5, <1>6, <1>7, <2>1, <2>2 DEF TypeOK
<1>9. InPass' = {} /\ With({"polled", "pending"})' = {}
  BY <1>3 DEF InPass, With
<1>10. QueuesOK'
  <2>1. ASSUME NEW r \in Request, r > started PROVE left'[r] = Retries /\ gen'[r] = 0 /\ ended'[r] = <<>>
    <3>1. r \notin InPass
      BY <1>1, <1>4, <2>1 DEF TypeOK, Request
    <3>2. ended'[r] = ended[r]
      BY <1>3, <1>4, <3>1
    <3> QED
      BY <1>1, <1>7, <2>1, <3>2 DEF QueuesOK
  <2> QED
    BY <1>3, <1>7, <1>9, <2>1 DEF QueuesOK
<1>11. CallsOK'
  <2> SUFFICES ASSUME NEW c \in calls
               PROVE  ~c.awaited /\ c.key[1] \in Cached /\ c.key[1] <= started /\ c.key[2] <= gen'[c.key[1]]
    BY <1>3 DEF CallsOK
  <2>1. c.key \in Key /\ c.key[1] \in Request /\ c.key[1] \in Cached /\ c.key[1] <= started /\ c.key[2] <= gen[c.key[1]]
    BY CallIs
  <2>2. ~c.awaited
    <3>1. ASSUME c.awaited PROVE FALSE
      <4>1. flight[c.key[1]] = "called" /\ c.key[1] \in InPass
        BY <2>1, <3>1, CallIs DEF InPass
      <4> QED
        BY <1>3, <4>1 DEF With, Results
    <3> QED
      BY <3>1
  <2>3. c.key[2] <= gen'[c.key[1]]
    BY <1>1, <1>7, <1>8, <2>1 DEF TypeOK, Key
  <2> QED
    BY <2>1, <2>2, <2>3
<1> QED
  BY <1>8, <1>10, <1>11

LEMMA SettleKeeps ==
  ASSUME SInv, NEW bad \in SUBSET With({"ok"}), FinishPass(bad)
  PROVE  SInv'
<1>1. TypeOK /\ QueuesOK
  BY DEF SInv
<1>2. PICK good, fatal : good = With({"ok"}) \ bad /\ fatal = With({"fatal"}) \cup bad
  OBVIOUS
<1>3. /\ InPass # {} /\ InPass = With(Results) /\ flight' = [r \in Request |-> "none"]
      /\ repo' = ReleaseAll(ReleaseAll(Bind(repo, good), good, TRUE), fatal, FALSE)
      /\ ended' = [r \in Request |-> IF r \in good THEN Append(ended[r], "success")
                                     ELSE IF r \in fatal THEN Append(ended[r], "fatal") ELSE ended[r]]
      /\ IF fatal = {} THEN Requeue ELSE UNCHANGED <<retry, polls, left, gen>>
      /\ UNCHANGED <<enqueued, started, calls, cache, ran>>
  BY <1>2 DEF FinishPass, backend
<1>4. ASSUME NoFatal' PROVE Held(repo', Outstanding') /\ Reported' /\ CompletesBefore'
  <2>1. NoFatal /\ Held(repo, Outstanding)
    <3>1. \A r \in Request : ended'[r] = ended[r] \/ \E x : ended'[r] = Append(ended[r], x)
      BY <1>3
    <3>2. NoFatal
      BY <1>1, <1>4, <3>1, NoFatalBefore
    <3> QED
      BY <3>2 DEF SInv, SessionOK
  <2>2. /\ good \cap fatal = {} /\ good \cup fatal \subseteq InPass /\ InPass \subseteq Request
        /\ good \cap (ToPoll \cup ToRetry) = {} /\ ToPoll \cup ToRetry \subseteq InPass
        /\ InPass \subseteq good \cup fatal \cup ToPoll \cup ToRetry
    BY <1>2, <1>3, SettledIs DEF InPass
  <2>3. fatal = {}
    <3> SUFFICES ASSUME NEW r \in fatal PROVE FALSE
      OBVIOUS
    <3>1. r \in Request /\ ended'[r] = Append(ended[r], "fatal")
      BY <1>3, <2>2
    <3> QED
      BY <1>1, <1>4, <3>1, NotFatal
  <2>4. /\ InPass' = {} /\ retry' = ToRetry /\ polls' = polls \cup ToPoll
    BY <1>3, <2>3 DEF InPass, Requeue
  <2>5. Outstanding = InPass \cup polls /\ polls \cap InPass = {} /\ good \subseteq Outstanding
        /\ Outstanding \subseteq Request
    <3>1. retry \subseteq InPass /\ polls \cap InPass = {}
      BY <1>1, <1>3 DEF QueuesOK
    <3>2. polls \subseteq Request
      BY <1>1, NAssumption DEF TypeOK, Request
    <3> QED
      BY <2>2, <3>1, <3>2 DEF Outstanding
  <2>6. Outstanding' = Outstanding \ good
    BY <2>2, <2>3, <2>4, <2>5 DEF Outstanding
  <2>7. PICK b, f, g : b = Bind(repo, good) /\ f = ReleaseAll(b, good, TRUE) /\ g = ReleaseAll(f, fatal, FALSE)
    OBVIOUS
  <2>8. b \in [Id -> Entries] /\ Held(b, Outstanding)
    BY <1>1, <2>1, <2>7, BindIs, BindHolds DEF TypeOK
  <2>9. f \in [Id -> Entries] /\ Held(f, Outstanding \ good)
    <3>1. f \in [Id -> Entries] /\ \A i \in Id : Freed(b[i], Cardinality(Users(i, good)), f[i])
      BY <2>2, <2>7, <2>8, ReleaseAllFrees
    <3> QED
      BY <2>5, <2>8, <3>1, FreedHolds
  <2>10. Held(g, (Outstanding \ good) \ fatal)
    <3>1. g \in [Id -> Entries] /\ \A i \in Id : Freed(f[i], Cardinality(Users(i, fatal)), g[i])
      BY <2>2, <2>7, <2>9, ReleaseAllFrees
    <3> QED
      BY <2>3, <2>5, <2>9, <3>1, FreedHolds
  <2>11. Held(repo', Outstanding')
    BY <1>3, <2>3, <2>6, <2>7, <2>10
  <2>12. \A r \in Request : IF r \in good THEN \E x \in Reports : ended'[r] = Append(ended[r], x)
                            ELSE ended'[r] = ended[r]
    BY <1>3, <2>3 DEF Reports
  <2>13. Reported' /\ CompletesBefore'
    BY <1>3, <2>1, <2>5, <2>6, <2>12, ReportedKeep
  <2> QED
    BY <2>11, <2>13
<1> QED
  BY <1>4, SettleTypes DEF SInv, SessionOK

LEMMA InitHolds ==
  ASSUME Init
  PROVE  SInv
<1>1. TypeOK
  <2>1. repo \in [Id -> Entries]
    BY DEF Init, Entries, NewEntry, BoundEntry, Modes, Grounds
  <2>2. BackendTypeOK
    BY DEF Init, BackendInit, BackendTypeOK, Statuses
  <2>3. /\ enqueued \in 0..N /\ started \in 0..enqueued /\ retry \subseteq 1..started
        /\ polls \subseteq Cached \cap 1..started /\ flight \in [Request -> {"none", "called", "polled"} \cup Results]
    BY NAssumption DEF Init
  <2>4. /\ left \in [Request -> -1..Retries] /\ gen \in [Request -> 0..MaxGen]
        /\ \A r \in Request : left[r] + gen[r] <= Retries
    BY RetriesAssumption DEF Init, MaxGen
  <2>5. ended \in [Request -> Seq(Reports)]
    BY DEF Init
  <2> QED
    BY <2>1, <2>2, <2>3, <2>4, <2>5 DEF TypeOK
<1>2. InPass = {} /\ With({"polled", "pending"}) = {} /\ Outstanding = {}
  BY DEF Init, InPass, With, Outstanding
<1>3. QueuesOK
  BY <1>2 DEF Init, QueuesOK
<1>4. CallsOK
  BY DEF Init, BackendInit, CallsOK
<1>5. SessionOK
  <2>1. ASSUME NEW i \in Id
        PROVE  /\ Users(i, {}) = {} /\ repo[i].status \in Grounds /\ repo[i].status # "locked"
               /\ repo[i].locks = 0
    BY DEF Init, Users, NewEntry, BoundEntry, Grounds
  <2>2. Held(repo, {})
    BY <2>1 DEF Held
  <2>3. started = 0 /\ \A r \in Request : ended[r] = <<>>
    BY DEF Init
  <2>4. Reported
    BY <1>2, <2>3 DEF Reported
  <2>5. CompletesBefore
    <3>1. \A s \in Request : ~(s <= 0)
      BY NAssumption DEF Request
    <3> QED
      BY <2>3, <3>1 DEF CompletesBefore
  <2> QED
    BY <1>2, <2>2, <2>4, <2>5 DEF SessionOK
<1> QED
  BY <1>1, <1>3, <1>4, <1>5 DEF SInv

LEMMA NextHolds ==
  ASSUME SInv, [Next]_vars
  PROVE  SInv'
<1>1. CASE Next
  <2>1. CASE Client
    <3>1. CASE \E due \in SUBSET polls : Pass(due)
      BY <3>1, PassKeeps DEF Pass
    <3>2. CASE Settle
      BY <3>2, SettleKeeps DEF Settle
    <3> QED
      BY <2>1, <3>1, <3>2, EnqueueKeeps, ExhaustKeeps DEF Client
  <2>2. CASE Server
    BY <2>2, ServeKeeps, UncachedKeeps, PollKeeps, ExpiryKeeps DEF Server
  <2> QED
    BY <1>1, <2>1, <2>2, GiveUpKeeps, ServeKeeps DEF Next
<1>2. CASE UNCHANGED vars
  <2>1. UNCHANGED <<enqueued, started, retry, polls, left, gen, flight, repo, ended, calls, cache, ran>>
    BY <1>2 DEF vars, queues, backend
  <2>2. ManagerUnchanged
    BY <2>1 DEF ManagerUnchanged, queues
  <2>3. CallsOK' /\ BackendTypeOK'
    BY <2>1 DEF SInv, CallsOK, TypeOK, BackendTypeOK, KeyOf
  <2> QED
    BY <2>1, <2>2, <2>3, WaitStep
<1> QED
  BY <1>1, <1>2

\* Whatever the network and the servers do, requests are where the queues say, and until
\* an error is fatal their reservations are counted and their reports in order.
THEOREM Invariance == Spec => []SInv
<1>1. Init => SInv
  BY InitHolds
<1>2. SInv /\ [Next]_vars => SInv'
  BY NextHolds
<1> QED
  BY <1>1, <1>2, PTL DEF Spec

\* Variables keep their types, and every regenerated key costs its request a retry.
THEOREM TypeCorrect == Spec => []TypeOK
BY Invariance, PTL DEF SInv

\* Until an error is fatal, an id is in flight exactly while outstanding requests hold it
\* (reserveAction and releaseAction of requestmanager.ts), and its lock count counts them.
THEOREM HoldsReservations == Spec => []ReservationsHeld
<1>1. SInv => ReservationsHeld
  <2> SUFFICES ASSUME SInv, NoFatal, NEW i \in Id
               PROVE  /\ Holders(i) = {} => repo[i].status \in Grounds /\ repo[i].locks = 0
                      /\ \A r \in Holders(i) : repo[i].status = Needs[r][i]
                      /\ repo[i].status = "locked" => repo[i].locks = Cardinality(Holders(i))
                      /\ repo[i].status # "locked" => Cardinality(Holders(i)) <= 1
    BY DEF ReservationsHeld
  <2>1. PICK U : U = Users(i, Outstanding) /\ U = Holders(i)
    BY DEF Holders
  <2>2. /\ U = {} => repo[i].status \in Grounds
        /\ \A r \in U : repo[i].status = Needs[r][i]
        /\ repo[i].locks = IF repo[i].status = "locked" THEN Cardinality(U) ELSE 0
        /\ repo[i].status # "locked" => \A r, s \in U : r = s
    BY <2>1 DEF SInv, SessionOK, Held
  <2>3. "locked" \notin Grounds
    BY DEF Grounds
  <2>4. (\A r, s \in U : r = s) => Cardinality(U) <= 1
    <3>1. CASE U = {}
      BY <3>1, FS_EmptySet
    <3>2. ASSUME NEW r \in U, \A x, y \in U : x = y PROVE Cardinality(U) <= 1
      <4>1. U = {r} /\ Cardinality({r}) = 1
        BY <3>2, FS_Singleton
      <4> QED
        BY <4>1
    <3> QED
      BY <3>1, <3>2
  <2> QED
    BY <2>1, <2>2, <2>3, <2>4
<1> QED
  BY <1>1, Invariance, PTL

\* Until an error is fatal, a request is reported at most once, and then nothing works for
\* it any more (types/requestTypes.ts: exactly one of its handlers completes).
THEOREM ReportsOnce == Spec => []ReportedOnce
<1>1. SInv => ReportedOnce
  <2> SUFFICES ASSUME SInv, NoFatal, NEW r \in Request
               PROVE  Len(ended[r]) <= 1 /\ (ended[r] # <<>> => r \notin Outstanding)
    BY DEF ReportedOnce
  <2>1. ended[r] = <<>> \/ (r \notin Outstanding /\ \E x \in Reports : ended[r] = <<x>>)
    BY DEF SInv, SessionOK, Reported
  <2>2. CASE ended[r] = <<>>
    BY <2>2
  <2>3. ASSUME NEW x, ended[r] = <<x>>, r \notin Outstanding
        PROVE  Len(ended[r]) <= 1 /\ (ended[r] # <<>> => r \notin Outstanding)
    <3>1. Len(<<x>>) = 1
      OBVIOUS
    <3> QED
      BY <2>3, <3>1
  <2> QED
    BY <2>1, <2>2, <2>3
<1> QED
  BY <1>1, Invariance, PTL

\* Until an error is fatal, the earlier of two requests with incompatible reservations is
\* reported before the later one starts, whatever is retried, polled or given up.
THEOREM InOrder == Spec => []CompletesBefore
<1>1. SInv => CompletesBefore
  BY DEF SInv, SessionOK, CompletesBefore
<1> QED
  BY <1>1, Invariance, PTL
-----------------------------------------------------------------------------
(* Keys.                                                                     *)
Grown ==
    /\ started' >= started
    /\ \A r \in Request : /\ gen'[r] >= gen[r]
                          /\ ended'[r] = ended[r] \/ \E x : ended'[r] = Append(ended[r], x)

LEMMA Growth ==
  ASSUME SInv, [Next]_vars
  PROVE  Grown
<1>1. TypeOK
  BY DEF SInv
<1>2. started >= started /\ \A r \in Request : gen[r] >= gen[r]
  BY <1>1, NAssumption DEF TypeOK
<1>3. CASE UNCHANGED <<started, gen, ended>>
  BY <1>2, <1>3 DEF Grown
<1>4. CASE Exhaust
  <2>1. ended' = Report(Exhausted, "failure") /\ started' = started /\ gen' = gen
    BY <1>4 DEF Exhaust
  <2> QED
    BY <1>1, <1>2, <2>1, ReportIs DEF Grown, Reports
<1>5. ASSUME NEW due \in SUBSET polls, NEW n \in started..enqueued,
             NEW skips \in SUBSET (Skippable \cap (started + 1..n)), StartPass(n, skips, due)
      PROVE  Grown
  <2>1. ended' = Report(skips, "skipped") /\ started' = n /\ gen' = gen
    BY <1>5 DEF StartPass
  <2>2. n >= started
    BY <1>1, NAssumption DEF TypeOK
  <2> QED
    BY <1>1, <1>2, <2>1, <2>2, ReportIs DEF Grown, Reports
<1>6. ASSUME NEW bad \in SUBSET With({"ok"}), FinishPass(bad) PROVE Grown
  <2>1. /\ started' = started
        /\ \A r \in Request : ended'[r] = ended[r] \/ \E x : ended'[r] = Append(ended[r], x)
    BY <1>6 DEF FinishPass
  <2>2. \/ gen' = [r \in Request |-> IF r \in NewKeys THEN gen[r] + 1 ELSE gen[r]]
        \/ gen' = gen
    BY <1>6 DEF FinishPass, Requeue
  <2>3. \A r \in Request : gen'[r] >= gen[r]
    <3>1. \A r \in Request : gen[r] \in Int
      BY <1>1 DEF TypeOK
    <3> QED
      BY <2>2, <3>1
  <2> QED
    BY <1>2, <2>1, <2>3 DEF Grown
<1>7. CASE Client
  <2>1. Enqueue => UNCHANGED <<started, gen, ended>>
    BY DEF Enqueue
  <2> QED
    BY <1>3, <1>4, <1>5, <1>6, <1>7, <2>1 DEF Client, Pass, Settle
<1>8. CASE Server \/ (\E r \in Request : Timeout(r) \/ ConnectionFails(r))
             \/ \E c \in calls : StoreFails(c) \/ ServerDies(c) \/ CallLost(c)
  <2>1. ManagerUnchanged
    BY <1>8 DEF Server, Serve, Reply, ServerRefuses, StoreFails, ServerDies, CallLost, AnswerUncached, AnswerPoll,
       EntryExpires, Timeout, ConnectionFails, GiveUp
  <2> QED
    BY <1>3, <2>1 DEF ManagerUnchanged, queues
<1>9. CASE UNCHANGED vars
  BY <1>3, <1>9 DEF vars, queues
<1> QED
  BY <1>7, <1>8, <1>9 DEF Next

\* Steps that leave the entry and the work of a key alone.
LEMMA SameKey ==
  ASSUME SInv, SInv', Grown, NEW k \in Key, KeyOK(k), cache'[k] = cache[k], ran'[k] = ran[k],
         Working(k)' = Working(k),
         cache[k] = "none" /\ ran[k] = 1 => \A c \in calls' : c.key # k
  PROVE  KeyOK(k)'
<1>1. PICK r, g : k[1] = r /\ k[2] = g /\ r \in Request /\ g \in Int /\ r \in Int
  BY DEF Key, Request
<1>2. /\ gen[r] \in Int /\ gen'[r] \in Int /\ gen'[r] >= gen[r]
      /\ started \in Int /\ started' \in Int /\ started' >= started
      /\ ended[r] # <<>> => ended'[r] # <<>>
  <2>1. ended[r] \in Seq(Reports) /\ started \in Nat /\ started' \in Nat
    BY <1>1, NAssumption DEF SInv, TypeOK
  <2>2. \A x : Append(ended[r], x) # <<>>
    BY <2>1
  <2> QED
    BY <1>1, <2>1, <2>2 DEF SInv, TypeOK, Grown
<1>3. g < gen[r] => g < gen'[r]
  BY <1>1, <1>2
<1>4. g > gen'[r] \/ r > started' => g > gen[r] \/ r > started
  BY <1>1, <1>2
<1>5. /\ \A c, d \in Working(k) : c = d
      /\ cache[k] = "pending" <=> Working(k) # {}
      /\ \A c \in Working(k) : ran[k] = IF c.stage = "running" THEN 0 ELSE 1
      /\ ran[k] \in {0, 1}
      /\ cache[k] = "none" /\ ran[k] = 1 => g < gen[r] \/ ended[r] # <<>>
      /\ g > gen[r] \/ r > started \/ r \notin Cached => cache[k] = "none" /\ ran[k] = 0
  BY <1>1 DEF KeyOK
<1>6. /\ g < gen'[r] \/ ended'[r] # <<>> => k[2] < gen'[k[1]] \/ ended'[k[1]] # <<>>
      /\ k[2] > gen'[k[1]] \/ k[1] > started' \/ k[1] \notin Cached => g > gen'[r] \/ r > started' \/ r \notin Cached
  BY <1>1
<1> QED
  BY <1>2, <1>3, <1>4, <1>5, <1>6 DEF KeyOK

\* A call that works under key k, and another key.
LEMMA OtherKey ==
  ASSUME NEW c \in calls, NEW k, c.key # k,
         \/ calls' = calls \ {c}
         \/ \E d : d.key = c.key /\ calls' = (calls \ {c}) \cup {d}
  PROVE  Working(k)' = Working(k) /\ \A e \in calls' : e.key = k => e \in calls
BY DEF Working

LEMMA StageIs ==
  ASSUME SInv, NEW c \in calls, NEW s, NEW d, d = [c EXCEPT !.stage = s]
  PROVE  d.key = c.key /\ d.stage = s /\ d.awaited = c.awaited
<1>1. c = [key |-> c.key, stage |-> c.stage, awaited |-> c.awaited]
  BY CallIs
<1>2. d = [key |-> c.key, stage |-> s, awaited |-> c.awaited]
  BY <1>1
<1> QED
  BY <1>2

\* One call of key k goes on: it was the only one at work, or it starts.
LEMMA CallKey ==
  ASSUME SInv, SInv', Grown, \A k \in Key : KeyOK(k), NEW c \in calls, NEW k \in Key,
         cache' \in [Key -> Statuses], ran' \in [Key -> Nat],
         \A l \in Key \ {c.key} : cache'[l] = cache[l] /\ ran'[l] = ran[l],
         \/ /\ c.stage = "sent" /\ cache[c.key] = "none" /\ cache'[c.key] = "pending" /\ ran'[c.key] = ran[c.key]
            /\ Advance(c, "running")
         \/ /\ c.stage = "running" /\ cache'[c.key] = cache[c.key] /\ ran'[c.key] = ran[c.key] + 1
            /\ Advance(c, "done")
         \/ /\ c.stage \in {"running", "done"} /\ cache'[c.key] \in {"success", "failure"}
            /\ ran'[c.key] = ran[c.key] /\ calls' = calls \ {c}
         \/ /\ c.stage = "sent" /\ cache'[c.key] = cache[c.key] /\ ran'[c.key] = ran[c.key] /\ calls' = calls \ {c}
  PROVE  KeyOK(k)'
<1>1. PICK kc : kc = c.key /\ kc \in Key /\ kc[1] <= started /\ kc[2] <= gen[kc[1]] /\ kc[1] \in Cached
  BY CallIs
<1>2. CASE k # kc
  <2>1. Working(k)' = Working(k) /\ \A e \in calls' : e.key = k => e \in calls
    <3>1. CASE calls' = calls \ {c}
      BY <1>1, <1>2, <3>1, OtherKey
    <3>2. CASE Advance(c, "running") \/ Advance(c, "done")
      <4>1. PICK s, d : d = [c EXCEPT !.stage = s] /\ calls' = (calls \ {c}) \cup {d}
        BY <3>2 DEF Advance
      <4>2. d.key = c.key
        BY <4>1, StageIs
      <4> QED
        BY <1>1, <1>2, <4>1, <4>2, OtherKey
    <3> QED
      BY <3>1, <3>2
  <2>2. cache[k] = "none" /\ ran[k] = 1 => \A e \in calls' : e.key # k
    BY <2>1 DEF KeyOK
  <2>3. cache'[k] = cache[k] /\ ran'[k] = ran[k]
    BY <1>1, <1>2
  <2> QED
    BY <2>1, <2>2, <2>3, SameKey
<1>3. CASE k = kc
  <2>1. /\ \A d, e \in Working(k) : d = e
        /\ cache[k] = "pending" <=> Working(k) # {}
        /\ \A d \in Working(k) : ran[k] = IF d.stage = "running" THEN 0 ELSE 1
        /\ ran[k] \in {0, 1}
        /\ cache[k] = "none" /\ ran[k] = 1 => \A d \in calls : d.key # k
    BY DEF KeyOK
  <2>2. c.key = k /\ c \in calls /\ (c \in Working(k) <=> c.stage # "sent")
    BY <1>1, <1>3 DEF Working
  <2>3. ~(k[2] > gen'[k[1]] \/ k[1] > started' \/ k[1] \notin Cached)
    <3>1. k[1] \in Request /\ k[1] \in Int /\ k[2] \in Int
      BY <1>1, <1>3 DEF Key, Request
    <3>2. /\ gen[k[1]] \in Int /\ gen'[k[1]] \in Int /\ gen'[k[1]] >= gen[k[1]]
          /\ started \in Int /\ started' \in Int /\ started' >= started
      BY <3>1 DEF SInv, TypeOK, Grown
    <3> QED
      BY <1>1, <1>3, <3>1, <3>2
  <2>4. CASE /\ c.stage = "sent" /\ cache[c.key] = "none" /\ cache'[c.key] = "pending" /\ ran'[c.key] = ran[c.key]
             /\ Advance(c, "running")
    <3>1. PICK d : d = [c EXCEPT !.stage = "running"] /\ calls' = (calls \ {c}) \cup {d}
      BY <2>4 DEF Advance
    <3>2. d.key = k /\ d.stage = "running"
      BY <2>2, <3>1, StageIs
    <3>3. Working(k) = {}
      BY <2>1, <2>2, <2>4
    <3>4. Working(k)' = {d}
      BY <2>4, <3>1, <3>2, <3>3 DEF Working
    <3>5. ran[k] = 0
      BY <2>1, <2>2, <2>4
    <3> QED
      BY <2>2, <2>3, <2>4, <3>2, <3>4, <3>5 DEF KeyOK
  <2>5. CASE /\ c.stage = "running" /\ cache'[c.key] = cache[c.key] /\ ran'[c.key] = ran[c.key] + 1
             /\ Advance(c, "done")
    <3>1. PICK d : d = [c EXCEPT !.stage = "done"] /\ calls' = (calls \ {c}) \cup {d}
      BY <2>5 DEF Advance
    <3>2. d.key = k /\ d.stage = "done"
      BY <2>2, <3>1, StageIs
    <3>3. Working(k) = {c} /\ ran[k] = 0 /\ cache[k] = "pending"
      BY <2>1, <2>2, <2>5
    <3>4. Working(k)' = {d}
      BY <2>5, <3>1, <3>2, <3>3 DEF Working
    <3> QED
      BY <2>2, <2>3, <2>5, <3>2, <3>3, <3>4 DEF KeyOK
  <2>6. CASE /\ c.stage \in {"running", "done"} /\ cache'[c.key] \in {"success", "failure"}
             /\ ran'[c.key] = ran[c.key] /\ calls' = calls \ {c}
    <3>1. Working(k) = {c}
      BY <2>1, <2>2, <2>6
    <3>2. Working(k)' = {}
      BY <2>6, <3>1 DEF Working
    <3> QED
      BY <2>1, <2>2, <2>3, <2>6, <3>2 DEF KeyOK
  <2>7. CASE c.stage = "sent" /\ cache'[c.key] = cache[c.key] /\ ran'[c.key] = ran[c.key] /\ calls' = calls \ {c}
    <3>1. Working(k)' = Working(k)
      BY <2>7 DEF Working
    <3>2. ~(cache[k] = "none" /\ ran[k] = 1)
      BY <2>1, <2>2
    <3> QED
      BY <2>2, <2>7, <3>1, <3>2, SameKey
  <2> QED
    BY <2>4, <2>5, <2>6, <2>7
<1> QED
  BY <1>2, <1>3

LEMMA ServeKeys ==
  ASSUME SInv, SInv', Grown, \A k \in Key : KeyOK(k), NEW c \in calls,
         Serve(c) \/ ServerRefuses(c) \/ CallLost(c) \/ (StoreFails(c) /\ cache' # cache),
         NEW k \in Key
  PROVE  KeyOK(k)'
<1>1. cache' \in [Key -> Statuses] /\ ran' \in [Key -> Nat] /\ cache \in [Key -> Statuses] /\ ran \in [Key -> Nat]
  BY DEF SInv, TypeOK, BackendTypeOK
<1>2. c.key \in Key
  BY CallIs
<1>3. CASE Accept(c)
  <2>1. /\ c.stage = "sent" /\ cache[c.key] = "none" /\ cache'[c.key] = "pending" /\ ran' = ran
        /\ Advance(c, "running") /\ \A l \in Key \ {c.key} : cache'[l] = cache[l]
    BY <1>1, <1>2, <1>3 DEF Accept
  <2> QED
    BY <1>1, <2>1, CallKey
<1>4. CASE Execute(c)
  <2>1. /\ c.stage = "running" /\ cache' = cache /\ ran'[c.key] = ran[c.key] + 1
        /\ Advance(c, "done") /\ \A l \in Key \ {c.key} : ran'[l] = ran[l]
    BY <1>1, <1>2, <1>4 DEF Execute
  <2> QED
    BY <1>1, <2>1, CallKey
<1>5. CASE Reject(c) \/ CallLost(c)
  <2>1. c.stage = "sent" /\ cache' = cache /\ ran' = ran /\ calls' = calls \ {c}
    BY <1>5 DEF Reject, CallLost, Lose
  <2> QED
    BY <1>1, <2>1, CallKey
<1>6. CASE Answer(c) \/ ServerRefuses(c) \/ (StoreFails(c) /\ cache' # cache)
  <2>1. /\ c.stage \in {"running", "done"} /\ cache'[c.key] \in {"success", "failure"} /\ ran' = ran
        /\ calls' = calls \ {c} /\ \A l \in Key \ {c.key} : cache'[l] = cache[l]
    <3>1. PICK x \in {"success", "failure"} : cache' = [cache EXCEPT ![c.key] = x]
      BY <1>6 DEF Answer, ServerRefuses, Refuse, StoreFails, CacheWriteFails
    <3> QED
      BY <1>1, <1>2, <1>6, <3>1 DEF Answer, ServerRefuses, Refuse, StoreFails, CacheWriteFails
  <2> QED
    BY <1>1, <2>1, CallKey
<1> QED
  BY <1>3, <1>4, <1>5, <1>6 DEF Serve

LEMMA QuietKeys ==
  ASSUME SInv, SInv', Grown, \A k \in Key : KeyOK(k), calls' = calls, cache' = cache, ran' = ran, NEW k \in Key
  PROVE  KeyOK(k)'
<1>1. Working(k)' = Working(k)
  BY DEF Working
<1>2. cache[k] = "none" /\ ran[k] = 1 => \A c \in calls' : c.key # k
  BY DEF KeyOK
<1> QED
  BY <1>1, <1>2, SameKey

LEMMA ExpiryKeys ==
  ASSUME SInv, SInv', Grown, \A k \in Key : KeyOK(k), NEW l \in Key, EntryExpires(l), NEW k \in Key
  PROVE  KeyOK(k)'
<1>1. cache \in [Key -> Statuses] /\ cache' = [cache EXCEPT ![l] = "none"] /\ ran' = ran /\ calls' = calls
  BY DEF EntryExpires, Expire, SInv, TypeOK, BackendTypeOK
<1>2. Working(k)' = Working(k)
  BY <1>1 DEF Working
<1>3. CASE k # l
  <2>1. cache[k] = "none" /\ ran[k] = 1 => \A c \in calls' : c.key # k
    BY <1>1 DEF KeyOK
  <2> QED
    BY <1>1, <1>2, <1>3, <2>1, SameKey
<1>4. CASE k = l
  <2>1. cache[k] # "none" /\ (\A c \in calls : c.key # k) /\ cache'[k] = "none" /\ Working(k) = {}
    BY <1>1, <1>4 DEF EntryExpires, Expire, Working
  <2>2. cache[k] # "pending" /\ ran[k] \in {0, 1} /\ ~(k[2] > gen[k[1]] \/ k[1] > started \/ k[1] \notin Cached)
    BY <2>1 DEF KeyOK
  <2>3. k = KeyOf(k[1]) => ended[k[1]] # <<>>
    BY <1>4, <2>2 DEF EntryExpires
  <2>4. gen' = gen /\ started' = started /\ ended' = ended
    BY DEF EntryExpires, ManagerUnchanged, queues
  <2>5. k[2] < gen[k[1]] \/ ended[k[1]] # <<>>
    <3>1. k[1] \in Request /\ k[2] \in Int /\ k = <<k[1], k[2]>> /\ gen[k[1]] \in Int
      BY DEF Key, SInv, TypeOK
    <3> QED
      BY <2>2, <2>3, <3>1 DEF KeyOf
  <2> QED
    BY <1>1, <1>2, <2>1, <2>2, <2>4, <2>5 DEF KeyOK
<1> QED
  BY <1>3, <1>4

LEMMA GiveUpKeys ==
  ASSUME SInv, SInv', Grown, \A k \in Key : KeyOK(k), NEW r \in Request, Timeout(r) \/ ConnectionFails(r), NEW k \in Key
  PROVE  KeyOK(k)'
<1>1. PICK x : GiveUp(r, x)
  BY DEF Timeout, ConnectionFails
<1>2. cache' = cache /\ ran' = ran /\ calls' = IF flight[r] = "called" THEN Unawaited(KeyOf(r)) ELSE calls
  BY <1>1 DEF GiveUp
<1>3. CASE flight[r] # "called"
  BY <1>2, <1>3, QuietKeys
<1>4. CASE flight[r] = "called"
  <2>1. calls' = Unawaited(KeyOf(r))
    BY <1>2, <1>4
  <2>2. ASSUME NEW d \in Working(k)'
        PROVE  \E c \in Working(k) : d.stage = c.stage /\ (k # KeyOf(r) => d = c)
                                     /\ (k = KeyOf(r) => d = [key |-> k, stage |-> c.stage, awaited |-> FALSE])
    <3>1. d \in Unawaited(KeyOf(r)) /\ d.key = k /\ d.stage # "sent"
      BY <2>1 DEF Working
    <3>2. PICK c \in calls : /\ d.key = c.key /\ d.stage = c.stage /\ (c.key # KeyOf(r) => d = c)
                             /\ (c.key = KeyOf(r) => d = [key |-> KeyOf(r), stage |-> c.stage, awaited |-> FALSE])
      BY <3>1, UnawaitedIs
    <3> QED
      BY <3>1, <3>2 DEF Working
  <2>3. ASSUME NEW c \in Working(k)
        PROVE  Working(k)' # {} /\ (k # KeyOf(r) => c \in Working(k)')
    <3>1. c \in calls /\ c.key = k /\ c.stage # "sent"
      BY DEF Working
    <3>2. PICK d : d = (IF c.key = KeyOf(r) THEN [c EXCEPT !.awaited = FALSE] ELSE c) /\ d \in calls'
      BY <2>1, <3>1 DEF Unawaited
    <3>3. d.key = c.key /\ d.stage = c.stage
      BY <3>1, <3>2, CallIs
    <3> QED
      BY <3>1, <3>2, <3>3 DEF Working
  <2>4. CASE k # KeyOf(r)
    <3>1. Working(k)' = Working(k)
      BY <2>2, <2>3, <2>4
    <3>2. ASSUME cache[k] = "none", ran[k] = 1, NEW e \in calls' PROVE e.key # k
      <4>1. \A c \in calls : c.key # k
        BY <3>2 DEF KeyOK
      <4> QED
        BY <2>1, <4>1, UnawaitedIs
    <3> QED
      BY <1>2, <3>1, <3>2, SameKey
  <2>5. CASE k = KeyOf(r)
    <3>1. /\ \A d, e \in Working(k) : d = e
          /\ cache[k] = "pending" <=> Working(k) # {}
          /\ \A d \in Working(k) : ran[k] = IF d.stage = "running" THEN 0 ELSE 1
          /\ ran[k] \in {0, 1}
          /\ cache[k] = "none" /\ ran[k] = 1 =>
                (\A d \in calls : d.key # k) /\ (k[2] < gen[k[1]] \/ ended[k[1]] # <<>>)
          /\ k[2] > gen[k[1]] \/ k[1] > started \/ k[1] \notin Cached => cache[k] = "none" /\ ran[k] = 0
      BY DEF KeyOK
    <3>2. started' = started /\ gen' = gen /\ ended' = ended
      BY <1>1 DEF GiveUp, ManagerUnchanged, queues
    <3>3. \A d, e \in Working(k)' : d = e
      BY <2>2, <2>5, <3>1
    <3>4. Working(k)' # {} <=> Working(k) # {}
      BY <2>2, <2>3
    <3>5. \A d \in Working(k)' : ran[k] = IF d.stage = "running" THEN 0 ELSE 1
      BY <2>2, <3>1
    <3>6. cache[k] = "none" /\ ran[k] = 1 => \A e \in calls' : e.key # k
      BY <2>1, <3>1, UnawaitedIs
    <3> QED
      BY <1>2, <3>1, <3>2, <3>3, <3>4, <3>5, <3>6 DEF KeyOK
  <2> QED
    BY <2>4, <2>5
<1> QED
  BY <1>3, <1>4

LEMMA PassKeys ==
  ASSUME SInv, SInv', Grown, NoFatal, \A k \in Key : KeyOK(k), NEW due \in SUBSET polls,
         NEW n \in started..enqueued, NEW skips \in SUBSET (Skippable \cap (started + 1..n)),
         StartPass(n, skips, due), NEW k \in Key
  PROVE  KeyOK(k)'
<1>1. PICK sent : sent = ((started + 1..n) \ skips) \cup retry
  OBVIOUS
<1>2. /\ calls' = calls \cup {NewCall(KeyOf(r)) : r \in sent \cap Cached}
      /\ cache' = cache /\ ran' = ran
  BY <1>1 DEF StartPass
<1>3. ASSUME NEW r \in sent PROVE r \in Request /\ ended[r] = <<>>
  <2>1. CASE r \in retry
    <3>1. r \in Request /\ r \in Outstanding
      BY <2>1, NAssumption DEF SInv, TypeOK, Request, Outstanding
    <3> QED
      BY <3>1 DEF SInv, SessionOK, Reported
  <2>2. CASE r \in (started + 1..n) \ skips
    <3>1. r \in Request /\ r > started
      BY <2>2, NAssumption DEF SInv, TypeOK, Request
    <3> QED
      BY <3>1 DEF SInv, QueuesOK
  <2> QED
    BY <1>1, <2>1, <2>2
<1>4. ASSUME NEW c \in calls', c \notin calls
      PROVE  c.stage = "sent" /\ c.key[2] = gen[c.key[1]] /\ ended[c.key[1]] = <<>>
  <2>1. PICK r \in sent : c = NewCall(KeyOf(r))
    BY <1>2, <1>4
  <2>2. c = [key |-> <<r, gen[r]>>, stage |-> "sent", awaited |-> TRUE]
    BY <1>3, <2>1, NewCallIs DEF SInv
  <2> QED
    BY <1>3, <2>2
<1>5. Working(k)' = Working(k)
  BY <1>2, <1>4 DEF Working
<1>6. ASSUME cache[k] = "none", ran[k] = 1, NEW c \in calls' PROVE c.key # k
  <2>1. (\A d \in calls : d.key # k) /\ (k[2] < gen[k[1]] \/ ended[k[1]] # <<>>)
    BY <1>6 DEF KeyOK
  <2>2. gen[k[1]] \in Int /\ k[2] \in Int
    BY DEF Key, SInv, TypeOK
  <2> QED
    BY <1>4, <2>1, <2>2
<1> QED
  BY <1>2, <1>5, <1>6, SameKey

-----------------------------------------------------------------------------
(* Effects.                                                                  *)
LEMMA CachedIs ==
  ASSUME NEW r \in Cached
  PROVE  r \in Request
BY SetsAssumption

LEMMA CallKeyIs ==
  ASSUME SInv, Once, NEW c \in calls
  PROVE  c.key[1] \in Cached /\ c.key = <<c.key[1], 0>>
<1>1. PICK r, g : r = c.key[1] /\ g = c.key[2]
  OBVIOUS
<1>2. c.key \in Key /\ r \in Cached /\ g <= gen[r]
  BY <1>1, CallIs
<1>3. gen[r] = 0
  BY <1>2 DEF Once, OneCall
<1>4. g = 0 /\ c.key = <<r, g>>
  BY <1>1, <1>2, <1>3 DEF Key
<1> QED
  BY <1>1, <1>2, <1>4

\* Steps of the manager that send nothing again.
LEMMA QuietOnce ==
  ASSUME SInv, Once, calls' = calls, cache' = cache,
         \A r \in Cached : /\ r \notin retry' /\ gen'[r] = gen[r]
                           /\ r \in polls' => r \in polls \/ flight[r] \in {"pending", "timeout"}
                           /\ \/ flight'[r] = flight[r]
                              \/ flight'[r] \in {"none", "ok", "fatal"}
                              \/ flight[r] = "polled" /\ flight'[r] = "pending"
  PROVE  Once'
<1>1. ASSUME NEW r \in Cached PROVE OneCall(r)'
  <2>1. OneCall(r)
    BY DEF Once
  <2> QED
    BY <2>1 DEF OneCall
<1> QED
  BY <1>1 DEF Once

\* One call is served: its key stays in use.
LEMMA ServedOnce ==
  ASSUME SInv, Once, NEW c \in calls, ManagerUnchanged,
         cache'[c.key] # "none" \/ cache' = cache, \A l \in Key : l # c.key => cache'[l] = cache[l],
         \/ (\E d : d.key = c.key /\ d.awaited = c.awaited /\ d.stage # "sent" /\ calls' = (calls \ {c}) \cup {d})
            /\ flight' = flight
         \/ calls' = calls \ {c} /\ \E x \in {"ok", "fatal"} : Reply(c, x)
  PROVE  Once'
<1>1. c.key[1] \in Cached /\ c.key[1] \in Request /\ c.key = <<c.key[1], 0>> /\ c.key \in Key
  BY CallKeyIs, CallIs
<1>2. retry' = retry /\ polls' = polls /\ gen' = gen
  BY DEF ManagerUnchanged, queues
<1>3. flight \in [Request -> {"none"} \cup InFlight]
  BY PassIs DEF SInv
<1>4. \A e \in calls : e # c => e.key # c.key
  BY DEF Once
<1>5. \A l \in Key : cache[l] # "none" => cache'[l] # "none"
  OBVIOUS
<1>6. ASSUME NEW r \in Cached PROVE OneCall(r)'
  <2>1. OneCall(r) /\ r \in Request /\ <<r, 0>> \in Key
    BY CachedIs, RetriesAssumption DEF Once, Key, MaxGen
  <2>2. flight'[r] = flight[r] \/ flight'[r] \in {"ok", "fatal"}
    BY <1>1, <1>3, <2>1 DEF Reply
  <2>3. ASSUME flight'[r] = "called" PROVE \E e \in calls' : e.key = <<r, 0>> /\ e.awaited
    <3>1. PICK e \in calls : e.key = <<r, 0>> /\ e.awaited
      BY <2>1, <2>2, <2>3 DEF OneCall
    <3>2. CASE e # c
      <4>1. e \in calls'
        BY <3>2
      <4> QED
        BY <3>1, <4>1
    <3>3. CASE e = c
      <4>1. c.key[1] = r
        BY <3>1, <3>3
      <4>2. ~\E x \in {"ok", "fatal"} : Reply(c, x)
        BY <1>3, <2>1, <2>3, <3>1, <3>3, <4>1 DEF Reply
      <4> QED
        BY <3>1, <3>3, <4>2
    <3> QED
      BY <3>2, <3>3
  <2> QED
    BY <1>2, <1>5, <2>1, <2>2, <2>3 DEF OneCall
<1>7. ASSUME NEW e \in calls', e.stage = "sent" PROVE e.awaited /\ cache'[e.key] = "none"
  <2>1. e \in calls /\ e.key # c.key /\ e.key \in Key
    BY <1>4, <1>7, CallIs
  <2> QED
    BY <1>7, <2>1 DEF Once
<1>8. \A e, d \in calls' : e.key = d.key => e = d
  BY <1>4 DEF Once
<1> QED
  BY <1>6, <1>7, <1>8 DEF Once

LEMMA ServeOnce ==
  ASSUME SInv, \A k \in Key : KeyOK(k), Once, NEW c \in calls, Serve(c) \/ ServerRefuses(c) \/ StoreFails(c)
  PROVE  Once'
<1>1. c.key \in Key /\ cache \in [Key -> Statuses]
  BY CallIs, BackendIs
<1>2. CASE Accept(c) /\ UNCHANGED flight /\ ManagerUnchanged
  <2>1. /\ cache' = [cache EXCEPT ![c.key] = "pending"]
        /\ calls' = (calls \ {c}) \cup {[c EXCEPT !.stage = "running"]}
    BY <1>2 DEF Accept, Advance
  <2>2. cache'[c.key] # "none" /\ \A l \in Key : l # c.key => cache'[l] = cache[l]
    BY <1>1, <2>1
  <2>3. PICK d : d = [c EXCEPT !.stage = "running"]
    OBVIOUS
  <2>4. d.key = c.key /\ d.awaited = c.awaited /\ d.stage # "sent"
    BY <2>3, StageIs
  <2> QED
    BY <1>2, <2>1, <2>2, <2>3, <2>4, ServedOnce
<1>3. CASE Execute(c) /\ UNCHANGED flight /\ ManagerUnchanged
  <2>1. cache' = cache /\ calls' = (calls \ {c}) \cup {[c EXCEPT !.stage = "done"]}
    BY <1>3 DEF Execute, Advance
  <2>2. PICK d : d = [c EXCEPT !.stage = "done"]
    OBVIOUS
  <2>3. d.key = c.key /\ d.awaited = c.awaited /\ d.stage # "sent"
    BY <2>2, StageIs
  <2> QED
    BY <1>3, <2>1, <2>2, <2>3, ServedOnce
<1>4. ~Reject(c)
  BY DEF Reject, Once
<1>5. CASE (Answer(c) /\ Reply(c, "ok")) \/ ServerRefuses(c) \/ StoreFails(c)
  <2>1. /\ calls' = calls \ {c} /\ \E x \in {"ok", "fatal"} : Reply(c, x)
        /\ cache' = cache \/ \E x \in {"success", "failure"} : cache' = [cache EXCEPT ![c.key] = x]
    BY <1>5 DEF Answer, ServerRefuses, Refuse, StoreFails, CacheWriteFails
  <2>2. (cache'[c.key] # "none" \/ cache' = cache) /\ \A l \in Key : l # c.key => cache'[l] = cache[l]
    BY <1>1, <2>1
  <2>3. ManagerUnchanged
    BY <2>1 DEF Reply
  <2> QED
    BY <2>1, <2>2, <2>3, ServedOnce
<1> QED
  BY <1>2, <1>3, <1>4, <1>5 DEF Serve

LEMMA PollOnce ==
  ASSUME SInv, Once, NEW r \in Request, AnswerPoll(r)
  PROVE  Once'
<1>1. /\ flight[r] = "polled" /\ ManagerUnchanged /\ calls' = calls /\ cache' = cache
      /\ flight' = [flight EXCEPT ![r] = PollResult(cache[KeyOf(r)])]
  BY DEF AnswerPoll, backend
<1>2. r \in Cached /\ flight \in [Request -> {"none"} \cup InFlight]
  BY <1>1, PassIs DEF SInv, QueuesOK, With
<1>3. KeyOf(r) = <<r, 0>> /\ KeyOf(r) \in Key /\ cache[KeyOf(r)] # "none"
  <2>1. OneCall(r)
    BY <1>2 DEF Once
  <2> QED
    BY <1>1, <2>1, RetriesAssumption DEF OneCall, KeyOf, Key, MaxGen
<1>4. PollResult(cache[KeyOf(r)]) \in {"pending", "ok", "fatal"}
  BY <1>3, BackendIs DEF PollResult, Statuses
<1>5. retry' = retry /\ polls' = polls /\ gen' = gen
  BY <1>1 DEF ManagerUnchanged, queues
<1>6. ASSUME NEW s \in Cached
      PROVE  /\ s \notin retry' /\ gen'[s] = gen[s]
             /\ \/ flight'[s] = flight[s]
                \/ flight'[s] \in {"none", "ok", "fatal"}
                \/ flight[s] = "polled" /\ flight'[s] = "pending"
  <2>1. OneCall(s)
    BY DEF Once
  <2>2. s \in Request
    BY CachedIs
  <2> QED
    BY <1>1, <1>2, <1>4, <1>5, <2>1, <2>2 DEF OneCall
<1> QED
  BY <1>1, <1>5, <1>6, QuietOnce

LEMMA UncachedOnce ==
  ASSUME SInv, Once, NEW r \in Request, AnswerUncached(r)
  PROVE  Once'
<1>1. r \notin Cached /\ ManagerUnchanged /\ calls' = calls /\ cache' = cache
  BY DEF AnswerUncached, backend
<1>2. PICK x : flight' = [flight EXCEPT ![r] = x]
  BY DEF AnswerUncached
<1>3. retry' = retry /\ polls' = polls /\ gen' = gen
  BY <1>1 DEF ManagerUnchanged, queues
<1>4. ASSUME NEW s \in Cached PROVE s \notin retry' /\ gen'[s] = gen[s] /\ flight'[s] = flight[s]
  <2>1. OneCall(s) /\ s \in Request /\ s # r
    BY <1>1, CachedIs DEF Once
  <2>2. flight \in [Request -> {"none"} \cup InFlight]
    BY PassIs DEF SInv
  <2> QED
    BY <1>2, <1>3, <2>1, <2>2 DEF OneCall
<1> QED
  BY <1>1, <1>3, <1>4, QuietOnce

\* An entry that goes belongs to a request that is reported.
LEMMA ExpiryOnce ==
  ASSUME SInv, NoFatal, \A k \in Key : KeyOK(k), Once, NEW l \in Key, EntryExpires(l)
  PROVE  Once'
<1>1. /\ cache \in [Key -> Statuses] /\ cache' = [cache EXCEPT ![l] = "none"] /\ calls' = calls
      /\ flight' = flight /\ ManagerUnchanged
  BY BackendIs DEF EntryExpires, Expire
<1>2. retry' = retry /\ polls' = polls /\ gen' = gen
  BY <1>1 DEF ManagerUnchanged, queues
<1>3. (\A c \in calls : c.key # l) /\ cache[l] # "none"
  BY DEF EntryExpires, Expire
<1>4. cache[l] # "pending"
  <2>1. Working(l) = {}
    BY <1>3 DEF Working
  <2> QED
    BY <2>1 DEF KeyOK
<1>5. ASSUME NEW r \in Cached PROVE OneCall(r)'
  <2>1. OneCall(r) /\ r \in Request /\ <<r, 0>> \in Key
    BY CachedIs, RetriesAssumption DEF Once, Key, MaxGen
  <2>2. CASE l # <<r, 0>>
    BY <1>1, <1>2, <2>1, <2>2 DEF OneCall
  <2>3. CASE l = <<r, 0>>
    <3>1. l = KeyOf(l[1]) /\ l[1] = r
      BY <2>1, <2>3 DEF OneCall, KeyOf
    <3>2. ended[r] # <<>>
      BY <1>4, <3>1 DEF EntryExpires
    <3>3. r \notin Outstanding
      BY <2>1, <3>2 DEF SInv, SessionOK, Reported
    <3>4. r \notin polls /\ flight[r] = "none"
      BY <2>1, <3>3 DEF Outstanding, InPass
    <3> QED
      BY <1>1, <1>2, <2>1, <3>4 DEF OneCall
  <2> QED
    BY <2>2, <2>3
<1>6. ASSUME NEW c \in calls', c.stage = "sent" PROVE c.awaited /\ cache'[c.key] = "none"
  <2>1. c \in calls /\ c.key # l /\ c.key \in Key
    BY <1>1, <1>3, CallIs
  <2> QED
    BY <1>1, <1>6, <2>1 DEF Once
<1> QED
  BY <1>1, <1>5, <1>6 DEF Once

\* A call that is given up has reserved its key.
LEMMA TimeoutOnce ==
  ASSUME SInv, \A k \in Key : KeyOK(k), Once, NEW r \in Request, Timeout(r), Arrived(r)
  PROVE  Once'
<1>1. /\ flight[r] \in {"called", "polled"} /\ flight' = [flight EXCEPT ![r] = "timeout"] /\ ManagerUnchanged
      /\ calls' = IF flight[r] = "called" THEN Unawaited(KeyOf(r)) ELSE calls
      /\ cache' = cache /\ ran' = ran
  BY DEF Timeout, GiveUp
<1>2. retry' = retry /\ polls' = polls /\ gen' = gen /\ flight \in [Request -> {"none"} \cup InFlight]
  BY <1>1, PassIs DEF ManagerUnchanged, queues, SInv
<1>3. ASSUME NEW c \in calls, c.key = KeyOf(r) PROVE c.stage # "sent" /\ cache[c.key] # "none"
  <2>1. c.stage # "sent" /\ c.key \in Key
    BY <1>3, CallIs DEF Arrived
  <2>2. c \in Working(c.key)
    BY <2>1 DEF Working
  <2> QED
    BY <2>1, <2>2 DEF KeyOK
<1>4. ASSUME NEW d \in calls'
      PROVE  \E c \in calls : /\ d.key = c.key /\ d.stage = c.stage
                              /\ c.key # KeyOf(r) => d = c
                              /\ d = c \/ d = [key |-> c.key, stage |-> c.stage, awaited |-> FALSE]
  <2>1. CASE flight[r] = "called"
    BY <1>1, <2>1, UnawaitedIs
  <2>2. CASE flight[r] # "called"
    BY <1>1, <2>2
  <2> QED
    BY <2>1, <2>2
<1>5. ASSUME NEW c \in calls, c.key # KeyOf(r) PROVE c \in calls'
  BY <1>1, <1>5 DEF Unawaited
<1>6. ASSUME NEW s \in Cached PROVE OneCall(s)'
  <2>1. OneCall(s) /\ s \in Request /\ KeyOf(s) = <<s, 0>>
    BY CachedIs DEF Once, OneCall, KeyOf
  <2>2. CASE s = r
    <3>1. flight'[s] = "timeout"
      BY <1>1, <1>2, <2>1, <2>2
    <3>2. cache[<<s, 0>>] # "none"
      <4>1. CASE flight[r] = "polled"
        BY <2>1, <2>2, <4>1 DEF OneCall
      <4>2. CASE flight[r] = "called"
        <5>1. PICK c \in calls : c.key = <<s, 0>>
          BY <2>1, <2>2, <4>2 DEF OneCall
        <5> QED
          BY <1>3, <2>1, <2>2, <5>1
      <4> QED
        BY <1>1, <4>1, <4>2
    <3> QED
      BY <1>1, <1>2, <2>1, <3>1, <3>2 DEF OneCall
  <2>3. CASE s # r
    <3>1. flight'[s] = flight[s]
      BY <1>1, <1>2, <2>1, <2>3
    <3>2. ASSUME flight[s] = "called" PROVE \E c \in calls' : c.key = <<s, 0>> /\ c.awaited
      <4>1. PICK c \in calls : c.key = <<s, 0>> /\ c.awaited
        BY <2>1, <3>2 DEF OneCall
      <4>2. c.key # KeyOf(r)
        BY <2>3, <4>1 DEF KeyOf
      <4> QED
        BY <1>5, <4>1, <4>2
    <3> QED
      BY <1>1, <1>2, <2>1, <3>1, <3>2 DEF OneCall
  <2> QED
    BY <2>2, <2>3
<1>7. ASSUME NEW d \in calls', d.stage = "sent" PROVE d.awaited /\ cache'[d.key] = "none"
  <2>1. PICK c \in calls : d.key = c.key /\ d.stage = c.stage /\ (c.key # KeyOf(r) => d = c)
    BY <1>4
  <2>2. d = c
    BY <1>3, <1>7, <2>1
  <2> QED
    BY <1>1, <1>7, <2>2 DEF Once
<1>8. ASSUME NEW d \in calls', NEW e \in calls', d.key = e.key PROVE d = e
  <2>1. PICK c \in calls : /\ d.key = c.key /\ (c.key # KeyOf(r) => d = c) /\ d.stage = c.stage
                           /\ d = c \/ d = [key |-> c.key, stage |-> c.stage, awaited |-> FALSE]
    BY <1>4
  <2>2. PICK b \in calls : /\ e.key = b.key /\ (b.key # KeyOf(r) => e = b) /\ e.stage = b.stage
                           /\ e = b \/ e = [key |-> b.key, stage |-> b.stage, awaited |-> FALSE]
    BY <1>4
  <2>3. b = c
    BY <1>8, <2>1, <2>2 DEF Once
  <2>4. CASE flight[r] # "called"
    BY <1>1, <1>8, <2>4 DEF Once
  <2>5. CASE flight[r] = "called" /\ c.key = KeyOf(r)
    <3>1. ASSUME NEW x \in calls', x.key = KeyOf(r) PROVE \E y \in calls : x.stage = y.stage /\ y.key = KeyOf(r)
                   /\ x = [key |-> KeyOf(r), stage |-> y.stage, awaited |-> FALSE]
      BY <1>1, <2>5, <3>1, UnawaitedIs
    <3>2. d = [key |-> KeyOf(r), stage |-> d.stage, awaited |-> FALSE]
      BY <2>1, <2>5, <3>1
    <3>3. e = [key |-> KeyOf(r), stage |-> e.stage, awaited |-> FALSE]
      BY <2>2, <2>3, <2>5, <3>1
    <3> QED
      BY <2>1, <2>2, <2>3, <3>2, <3>3
  <2>6. CASE c.key # KeyOf(r)
    BY <2>1, <2>2, <2>3, <2>6
  <2> QED
    BY <1>1, <2>4, <2>5, <2>6
<1> QED
  BY <1>6, <1>7, <1>8 DEF Once

\* A pass sends what it takes from the queue for the first time, and polls stored answers.
LEMMA PassOnce ==
  ASSUME SInv, \A k \in Key : KeyOK(k), Once, NEW due \in SUBSET polls,
         NEW n \in started..enqueued, NEW skips \in SUBSET (Skippable \cap (started + 1..n)),
         StartPass(n, skips, due)
  PROVE  Once'
<1>1. PICK sent : sent = ((started + 1..n) \ skips) \cup retry
  OBVIOUS
<1>2. /\ flight' = [r \in Request |-> IF r \in sent THEN "called" ELSE IF r \in due THEN "polled" ELSE "none"]
      /\ calls' = calls \cup {NewCall(KeyOf(r)) : r \in sent \cap Cached}
      /\ retry' = retry /\ gen' = gen /\ cache' = cache /\ polls' = polls \ due
  BY <1>1 DEF StartPass
<1>3. ASSUME NEW r \in sent \cap Cached
      PROVE  /\ NewCall(KeyOf(r)) = [key |-> <<r, 0>>, stage |-> "sent", awaited |-> TRUE]
             /\ r > started /\ cache[<<r, 0>>] = "none"
  <2>1. r \in Request /\ OneCall(r)
    BY CachedIs DEF Once
  <2>2. r \notin retry /\ gen[r] = 0
    BY <2>1 DEF OneCall
  <2>3. NewCall(KeyOf(r)) = [key |-> <<r, gen[r]>>, stage |-> "sent", awaited |-> TRUE] /\ <<r, gen[r]>> \in Key
    BY <2>1, NewCallIs DEF SInv
  <2>4. r \in started + 1..n /\ started \in Nat
    BY <1>1, <2>2, NAssumption DEF SInv, TypeOK
  <2>5. r > started
    BY <2>4
  <2>6. KeyOK(<<r, 0>>)
    BY <2>2, <2>3
  <2> QED
    BY <2>2, <2>3, <2>5, <2>6 DEF KeyOK
<1>4. ASSUME NEW r \in Cached PROVE OneCall(r)'
  <2>1. OneCall(r) /\ r \in Request
    BY CachedIs DEF Once
  <2>2. flight'[r] = IF r \in sent THEN "called" ELSE IF r \in due THEN "polled" ELSE "none"
    BY <1>2, <2>1
  <2>3. ASSUME flight'[r] = "called" PROVE \E c \in calls' : c.key = <<r, 0>> /\ c.awaited
    <3>1. r \in sent \cap Cached
      BY <2>2, <2>3
    <3>2. PICK c : c = NewCall(KeyOf(r)) /\ c \in calls'
      BY <1>2, <3>1
    <3>3. c = [key |-> <<r, 0>>, stage |-> "sent", awaited |-> TRUE]
      BY <1>3, <3>1, <3>2
    <3> QED
      BY <3>2, <3>3
  <2>4. ASSUME r \in polls' \/ flight'[r] \in {"polled", "pending", "timeout"} PROVE cache'[<<r, 0>>] # "none"
    <3>1. r \in polls
      BY <1>2, <2>2, <2>4
    <3> QED
      BY <1>2, <2>1, <3>1 DEF OneCall
  <2> QED
    BY <1>2, <2>1, <2>2, <2>3, <2>4 DEF OneCall
<1>5. ASSUME NEW c \in calls', c \notin calls
      PROVE  \E r \in sent \cap Cached : c = [key |-> <<r, 0>>, stage |-> "sent", awaited |-> TRUE]
  BY <1>2, <1>3, <1>5
<1>6. ASSUME NEW c \in calls', c.stage = "sent" PROVE c.awaited /\ cache'[c.key] = "none"
  <2>1. CASE c \in calls
    BY <1>2, <1>6, <2>1 DEF Once
  <2>2. CASE c \notin calls
    <3>1. PICK r \in sent \cap Cached : c = [key |-> <<r, 0>>, stage |-> "sent", awaited |-> TRUE]
      BY <1>5, <2>2
    <3> QED
      BY <1>2, <1>3, <3>1
  <2> QED
    BY <2>1, <2>2
<1>7. ASSUME NEW c \in calls', NEW d \in calls', c.key = d.key, c \notin calls PROVE c = d
  <2>1. PICK r \in sent \cap Cached : c = [key |-> <<r, 0>>, stage |-> "sent", awaited |-> TRUE]
    BY <1>5, <1>7
  <2>2. d \notin calls
    <3> SUFFICES ASSUME d \in calls PROVE FALSE
      OBVIOUS
    <3>1. d.key[1] <= started /\ d.key[1] = r
      BY <1>7, <2>1, CallIs
    <3>2. r > started
      BY <1>3
    <3>3. r \in Int /\ started \in Int
      BY NAssumption, CachedIs DEF Request, SInv, TypeOK
    <3> QED
      BY <3>1, <3>2, <3>3
  <2>3. PICK s \in sent \cap Cached : d = [key |-> <<s, 0>>, stage |-> "sent", awaited |-> TRUE]
    BY <1>5, <2>2
  <2> QED
    BY <1>7, <2>1, <2>3
<1>8. \A c, d \in calls' : c.key = d.key => c = d
  <2>1. \A c, d \in calls : c.key = d.key => c = d
    BY DEF Once
  <2> QED
    BY <1>7, <2>1
<1> QED
  BY <1>4, <1>6, <1>8 DEF Once

\* A pass without fatal errors has no answer that asks for another key or another call.
LEMMA SettleOnce ==
  ASSUME SInv, NoFatal', Once, NEW bad \in SUBSET With({"ok"}), FinishPass(bad)
  PROVE  Once'
<1>1. PICK fatal : fatal = With({"fatal"}) \cup bad
  OBVIOUS
<1>2. /\ flight' = [r \in Request |-> "none"] /\ calls' = calls /\ cache' = cache
      /\ \A r \in fatal : r \in Request => ended'[r] = Append(ended[r], "fatal")
      /\ IF fatal = {} THEN Requeue ELSE UNCHANGED <<retry, polls, left, gen>>
  BY <1>1 DEF FinishPass, backend, With
<1>3. fatal = {}
  <2>1. fatal \subseteq Request
    BY <1>1 DEF With
  <2>2. ASSUME NEW r \in fatal PROVE FALSE
    BY <1>2, <2>1, NotFatal DEF SInv
  <2> QED
    BY <2>2
<1>4. /\ retry' = ToRetry /\ polls' = polls \cup ToPoll
      /\ gen' = [r \in Request |-> IF r \in NewKeys THEN gen[r] + 1 ELSE gen[r]]
  BY <1>2, <1>3 DEF Requeue
<1>5. ASSUME NEW r \in Cached
      PROVE  /\ r \notin retry' /\ gen'[r] = gen[r]
             /\ r \in polls' => r \in polls \/ flight[r] \in {"pending", "timeout"}
             /\ flight'[r] = "none"
  <2>1. OneCall(r) /\ r \in Request
    BY CachedIs DEF Once
  <2>2. r \notin ToRetry /\ r \notin NewKeys
    BY <2>1 DEF OneCall, ToRetry, NewKeys, With
  <2> QED
    BY <1>2, <1>4, <2>1, <2>2 DEF ToPoll, With
<1> QED
  BY <1>2, <1>5, QuietOnce

-----------------------------------------------------------------------------
(* The steps of the session.                                                 *)

\* What may happen while no server dies or loses a result.
KeyStep ==
    \/ Client \/ Server \/ UNCHANGED vars
    \/ \E r \in Request : Timeout(r) \/ ConnectionFails(r)
    \/ \E c \in calls : CallLost(c) \/ (StoreFails(c) /\ cache' # cache)

\* What may happen while nothing breaks.
EffectStep ==
    \/ Client \/ Server \/ UNCHANGED vars
    \/ \E r \in Request : Timeout(r) /\ Arrived(r)
    \/ \E c \in calls : StoreFails(c) /\ cache' # cache

LEMMA SessionStep ==
  ASSUME [SessionNext]_mcvars
  PROVE  /\ [Next]_vars /\ broken \subseteq broken'
         /\ broken' \cap {"server", "store"} = {} => KeyStep
         /\ broken' = {} => EffectStep
<1>1. CASE UNCHANGED mcvars
  BY <1>1 DEF mcvars, KeyStep, EffectStep
<1>2. CASE Quiet(Client) \/ Quiet(Server)
  BY <1>2 DEF Quiet, Next, KeyStep, EffectStep
<1>3. ASSUME NEW r \in Request, Fault(Timeout(r), IF Arrived(r) THEN {} ELSE {"network"})
      PROVE  /\ Timeout(r) /\ broken \subseteq broken' /\ (broken' = {} => Arrived(r))
  BY <1>3 DEF Fault
<1>4. ASSUME NEW r \in Request, Fault(ConnectionFails(r), {"network"})
      PROVE  ConnectionFails(r) /\ broken \subseteq broken' /\ broken' # {}
  BY <1>4 DEF Fault
<1>5. CASE (\E c \in calls : CallLost(c)) /\ broken' = broken \cup {"network"} /\ UNCHANGED faults
  <2>1. PICK c \in calls : CallLost(c)
    BY <1>5
  <2>2. broken \subseteq broken' /\ broken' # {}
    BY <1>5
  <2>3. Next /\ KeyStep
    BY <2>1 DEF Next, KeyStep
  <2> QED
    BY <2>2, <2>3
<1>6. CASE Fault(\E c \in calls : StoreFails(c), IF cache' = cache THEN {"store"} ELSE {})
  <2>1. PICK c \in calls : StoreFails(c)
    BY <1>6 DEF Fault
  <2>2. broken \subseteq broken' /\ (broken' \cap {"server", "store"} = {} => cache' # cache)
    BY <1>6 DEF Fault
  <2>3. Next /\ (cache' # cache => KeyStep /\ EffectStep)
    BY <2>1 DEF Next, KeyStep, EffectStep
  <2> QED
    BY <2>2, <2>3
<1>7. CASE Fault(\E c \in calls : ServerDies(c), {"server"})
  <2>1. PICK c \in calls : ServerDies(c)
    BY <1>7 DEF Fault
  <2>2. broken \subseteq broken' /\ broken' \cap {"server", "store"} # {}
    BY <1>7 DEF Fault
  <2>3. Next
    BY <2>1 DEF Next
  <2> QED
    BY <2>2, <2>3
<1>8. CASE SessionNext
  BY <1>2, <1>3, <1>4, <1>5, <1>6, <1>7, <1>8 DEF SessionNext, LossyNext, Next, KeyStep, EffectStep
<1> QED
  BY <1>1, <1>8

\* Nothing was fatal before a step after which nothing is.
LEMMA StillNoFatal ==
  ASSUME SInv, Grown, NoFatal'
  PROVE  NoFatal
BY NoFatalBefore DEF SInv, Grown

LEMMA KeysHold ==
  ASSUME SInv, SInv', Grown, KeyStep, NoFatal', \A k \in Key : KeyOK(k), NEW k \in Key
  PROVE  KeyOK(k)'
<1>1. CASE UNCHANGED <<calls, cache, ran>>
  BY <1>1, QuietKeys
<1>2. CASE \E due \in SUBSET polls : Pass(due)
  <2>1. NoFatal
    BY StillNoFatal
  <2> QED
    BY <1>2, <2>1, PassKeys DEF Pass
<1>3. CASE Client
  <2>1. Enqueue \/ Exhaust \/ Settle => UNCHANGED <<calls, cache, ran>>
    BY DEF Enqueue, Exhaust, Settle, FinishPass, backend
  <2> QED
    BY <1>1, <1>2, <1>3, <2>1 DEF Client
<1>4. CASE Server
  <2>1. \A r \in Request : AnswerUncached(r) \/ AnswerPoll(r) => UNCHANGED <<calls, cache, ran>>
    BY DEF AnswerUncached, AnswerPoll, backend
  <2> QED
    BY <1>1, <1>4, <2>1, ServeKeys, ExpiryKeys DEF Server
<1>5. CASE UNCHANGED vars
  BY <1>1, <1>5 DEF vars, backend
<1>6. CASE \E r \in Request : Timeout(r) \/ ConnectionFails(r)
  BY <1>6, GiveUpKeys DEF Timeout, ConnectionFails
<1> QED
  BY <1>3, <1>4, <1>5, <1>6, ServeKeys DEF KeyStep

LEMMA EffectHolds ==
  ASSUME SInv, SInv', Grown, EffectStep, NoFatal', \A k \in Key : KeyOK(k), Once
  PROVE  Once'
<1>1. NoFatal
  BY StillNoFatal
<1>2. CASE UNCHANGED <<retry, polls, gen, flight, calls, cache>>
  <2>1. ASSUME NEW r \in Cached PROVE r \notin retry' /\ gen'[r] = gen[r]
    BY <1>2 DEF Once, OneCall
  <2> QED
    BY <1>2, <2>1, QuietOnce
<1>3. CASE Exhaust
  <2>1. /\ retry' = retry \ Exhausted /\ polls' = polls \ Exhausted
        /\ UNCHANGED <<gen, flight, calls, cache>>
    BY <1>3 DEF Exhaust, backend
  <2>2. ASSUME NEW r \in Cached PROVE r \notin retry' /\ gen'[r] = gen[r]
    BY <2>1 DEF Once, OneCall
  <2> QED
    BY <2>1, <2>2, QuietOnce
<1>4. CASE Client
  <2>1. Enqueue => UNCHANGED <<retry, polls, gen, flight, calls, cache>>
    BY DEF Enqueue, backend
  <2>2. CASE \E due \in SUBSET polls : Pass(due)
    BY <2>2, PassOnce DEF Pass
  <2>3. CASE Settle
    BY <2>3, SettleOnce DEF Settle
  <2> QED
    BY <1>2, <1>3, <1>4, <2>1, <2>2, <2>3 DEF Client
<1>5. CASE Server
  BY <1>1, <1>5, ServeOnce, PollOnce, UncachedOnce, ExpiryOnce DEF Server
<1>6. CASE UNCHANGED vars
  BY <1>2, <1>6 DEF vars, queues, backend
<1>7. CASE \E r \in Request : Timeout(r) /\ Arrived(r)
  BY <1>7, TimeoutOnce
<1>8. CASE \E c \in calls : StoreFails(c) /\ cache' # cache
  BY <1>8, ServeOnce
<1> QED
  BY <1>4, <1>5, <1>6, <1>7, <1>8 DEF EffectStep

LEMMA SessionInit ==
  ASSUME MCInit
  PROVE  IInv
<1>1. Init /\ calls = {} /\ retry = {} /\ polls = {} /\ SInv
  BY InitHolds DEF MCInit, Init, BackendInit
<1>2. ASSUME NEW k \in Key PROVE cache[k] = "none" /\ ran[k] = 0
  BY <1>1 DEF Init, BackendInit
<1>3. ASSUME NEW k \in Key PROVE KeyOK(k)
  <2>1. Working(k) = {}
    BY <1>1 DEF Working
  <2> QED
    BY <1>2, <2>1 DEF KeyOK
<1>4. ASSUME NEW r \in Cached PROVE OneCall(r)
  <2>1. r \in Request
    BY CachedIs
  <2> QED
    BY <1>1, <2>1 DEF OneCall, Init
<1> QED
  BY <1>1, <1>3, <1>4 DEF IInv, KeysOK, EffectOK, Once

\* Whatever fails, a key is used as its entry says, as long as what failed did not lose an
\* entry, and a request is sent once as long as nothing failed.
THEOREM SessionInvariance == SessionSpec => []IInv
<1>1. IInv /\ [SessionNext]_mcvars => IInv'
  <2> SUFFICES ASSUME IInv, [SessionNext]_mcvars PROVE IInv'
    OBVIOUS
  <2>1. /\ [Next]_vars /\ broken \subseteq broken'
        /\ broken' \cap {"server", "store"} = {} => KeyStep
        /\ broken' = {} => EffectStep
    BY SessionStep
  <2>2. SInv /\ SInv' /\ Grown
    BY <2>1, NextHolds, Growth DEF IInv
  <2>3. ASSUME broken' \cap {"server", "store"} = {}, NoFatal' PROVE \A k \in Key : KeyOK(k) /\ KeyOK(k)'
    <3>1. broken \cap {"server", "store"} = {} /\ NoFatal
      BY <2>1, <2>2, <2>3, StillNoFatal
    <3>2. \A k \in Key : KeyOK(k)
      BY <3>1 DEF IInv, KeysOK
    <3> QED
      BY <2>1, <2>2, <2>3, <3>2, KeysHold
  <2>4. KeysOK'
    BY <2>3 DEF KeysOK
  <2>5. ASSUME broken' = {}, NoFatal' PROVE Once'
    <3>1. broken = {} /\ NoFatal
      BY <2>1, <2>2, <2>5, StillNoFatal
    <3>2. Once /\ \A k \in Key : KeyOK(k)
      BY <3>1 DEF IInv, KeysOK, EffectOK
    <3> QED
      BY <2>1, <2>2, <2>5, <3>2, EffectHolds
  <2> QED
    BY <2>2, <2>4, <2>5 DEF IInv, EffectOK
<1> QED
  BY <1>1, SessionInit, PTL DEF SessionSpec

\* While no server dies or loses a result and no error is fatal, the function of a cached
\* endpoint (ttl_cache) runs at most once for a request key, however often, by a retry
\* or a lost answer, the key is sent.
THEOREM KeysRunOnce == SessionSpec => []KeyRunsOnce
<1>1. IInv => KeyRunsOnce
  <2> SUFFICES ASSUME IInv, broken \cap {"server", "store"} = {}, NoFatal, NEW k \in Key PROVE ran[k] <= 1
    BY DEF KeyRunsOnce
  <2>1. ran[k] \in {0, 1}
    BY DEF IInv, KeysOK, KeyOK
  <2> QED
    BY <2>1
<1> QED
  BY <1>1, SessionInvariance, PTL

\* While nothing breaks and no error is fatal, a request of a cached endpoint takes effect
\* at most once, under all of its keys: a slow server is polled, not asked again.
THEOREM EffectsOnce == SessionSpec => []TakesEffectOnce
<1>1. IInv => TakesEffectOnce
  <2> SUFFICES ASSUME IInv, broken = {}, NoFatal, NEW k \in Key, NEW l \in Key, k[1] = l[1], ran[k] > 0, ran[l] > 0
               PROVE  k = l /\ ran[k] = 1
    BY DEF TakesEffectOnce
  <2>1. Once /\ \A m \in Key : KeyOK(m)
    BY DEF IInv, KeysOK, EffectOK
  <2>2. ASSUME NEW m \in Key, ran[m] > 0 PROVE m = <<m[1], 0>> /\ ran[m] = 1
    <3>1. /\ ran[m] \in {0, 1}
          /\ m[2] > gen[m[1]] \/ m[1] > started \/ m[1] \notin Cached => cache[m] = "none" /\ ran[m] = 0
      BY <2>1 DEF KeyOK
    <3>2. ran[m] = 1 /\ ~(m[2] > gen[m[1]]) /\ m[1] \in Cached
      BY <2>2, <3>1
    <3>3. gen[m[1]] = 0
      BY <2>1, <3>2 DEF Once, OneCall
    <3>4. m[2] \in Nat /\ m = <<m[1], m[2]>>
      BY DEF Key
    <3> QED
      BY <3>2, <3>3, <3>4
  <2> QED
    BY <2>2
<1> QED
  BY <1>1, SessionInvariance, PTL
=============================================================================
