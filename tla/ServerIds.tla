------------------------------- MODULE ServerIds -------------------------------
(***************************************************************************)
(* The id repository with the server ids that its entries are bound to       *)
(* (frontend/src/edit/controller/idRepository.ts).  The repository is a      *)
(* sequence, a provisional id its index; entries and what may be reserved    *)
(* are IdRepository's.                                                       *)
(***************************************************************************)
EXTENDS IdRepository, FiniteSets, SequencesExt

Unbound == [status |-> "pending", locks |-> 0, bound |-> FALSE, serv |-> <<>>]
BoundTo(sv) == [status |-> "clean", locks |-> 0, bound |-> TRUE, serv |-> sv]
Known(rep, sv) == {p \in DOMAIN rep : rep[p].serv = sv}

\* newIdAndBindId: the id that is bound already, if nothing is being done to it.
NewIdOk(rep, sv) == \A p \in Known(rep, sv) : rep[p].status \in {"clean", "locked"}
NewId(rep, sv) == IF Known(rep, sv) = {} THEN Append(rep, BoundTo(sv)) ELSE rep
IdOf(rep, sv) == CHOOSE p \in Known(rep, sv) : TRUE

BindOk(rep, p, sv) == Known(rep, sv) = {} /\ ~rep[p].bound
ReplaceOk(rep, p, sv) == rep[p].status = "idUpdating" /\ Known(rep, sv) \subseteq {p}
Rebound(rep, p, sv) == [rep EXCEPT ![p].bound = TRUE, ![p].serv = sv]

NewIds(rep, svs) == FoldLeft(NewId, rep, svs)
ReserveAll(rep, res) ==
    [p \in DOMAIN rep |->
        IF \E x \in res : x.id = p THEN Reserve(rep[p], (CHOOSE x \in res : x.id = p).mode)
        ELSE rep[p]]
\* An id that is deleted or detached is forgotten.
ReleaseAll(rep, res, ok) ==
    [p \in DOMAIN rep |->
        LET e == Release(rep[p], Cardinality({x \in res : x.id = p}), ok) IN
        IF e.status \in {"deleted", "detached"} THEN [e EXCEPT !.bound = FALSE, !.serv = <<>>] ELSE e]

Res(ps, mode) == {[id |-> p, mode |-> mode] : p \in ps}
=============================================================================
