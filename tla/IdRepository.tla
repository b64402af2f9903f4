------------------------------ MODULE IdRepository ------------------------------
(***************************************************************************)
(* The life of a provisional id in the editor's id repository              *)
(* (frontend/src/edit/controller/idRepository.ts).  An entry has a status,  *)
(* a count of the readers that hold it locked, and tells whether a server   *)
(* id is bound to it.  A request reserves the entries it needs before it is *)
(* sent and releases them when it is reported.                              *)
(***************************************************************************)
EXTENDS Integers

Creates == {"creating", "loading"}      \* their postSend binds a server id
Pends == Creates \cup {"killing"}       \* reserved while pending
Modes == Pends \cup {"updating", "idUpdating", "locked", "deleting", "detaching"}
Grounds == {"pending", "clean", "deleted", "detached", "killed"}

Entries == [status: Modes \cup Grounds, locks: Nat, bound: BOOLEAN]

NewEntry == [status |-> "pending", locks |-> 0, bound |-> FALSE]
BoundEntry == [status |-> "clean", locks |-> 0, bound |-> TRUE]

EntryStatus(mode) == IF mode \in Pends THEN "pending" ELSE "clean"

ExitStatus(mode) ==
  CASE mode = "deleting"  -> "deleted"
    [] mode = "detaching" -> "detached"
    [] mode = "killing"   -> "killed"
    [] OTHER              -> "clean"

\* Mutant: an entry that is only locked can be updated.
IsReserveableLocked(e, mode) ==
  \/ mode = "creating" /\ e.status = "pending" /\ ~e.bound
  \/ mode \in {"loading", "killing"} /\ e.status = "pending"
  \/ mode \notin Pends /\ e.status \in {"clean", "locked"} /\ e.bound

IsReserveable(e, mode) ==
  \/ mode = "creating" /\ e.status = "pending" /\ ~e.bound
  \/ mode \in {"loading", "killing"} /\ e.status = "pending"
  \/ mode = "locked" /\ e.status \in {"clean", "locked"} /\ e.bound
  \/ mode \notin Pends \cup {"locked"} /\ e.status = "clean" /\ e.bound

Reserve(e, mode) ==
  [e EXCEPT !.status = mode, !.locks = IF mode = "locked" THEN @ + 1 ELSE @]

\* Mutant: one release unlocks an entry that others still hold.
ReleaseAtOnce(e, n, ok) ==
  IF n = 0 \/ e.status \in Grounds THEN e
  ELSE [e EXCEPT !.status = IF ok THEN ExitStatus(@) ELSE EntryStatus(@), !.locks = 0]

(* n releases of one entry, after successes (ok) or after failures. *)
Release(e, n, ok) ==
  IF n = 0 \/ e.status \in Grounds THEN e
  ELSE IF e.status = "locked" /\ n < e.locks THEN [e EXCEPT !.locks = @ - n]
  ELSE [e EXCEPT !.status = IF ok THEN ExitStatus(@) ELSE EntryStatus(@),
                 !.locks = IF e.status = "locked" THEN 0 ELSE @]
=============================================================================
