------------------------------- MODULE Document -------------------------------
(***************************************************************************)
(* What the versions of a chapter promise to those who edit it: one text,   *)
(* changed by one accepted operation after the other, each of them written   *)
(* by someone who had seen the result of all those before it.               *)
(***************************************************************************)
EXTENDS TextOps

CONSTANTS Writer, Op, StartText

VARIABLES
    text,    \* the text everyone reads
    log      \* the accepted operations, with the version their writer had seen

Init == text = StartText /\ log = <<>>

Accept(w, op) ==
    /\ Valid(text, op)
    /\ text' = Edited(text, op)
    /\ log' = Append(log, [by |-> w, base |-> Len(log) + 1, op |-> op])

Next == \E w \in Writer, op \in Op : Accept(w, op)
Spec == Init /\ [][Next]_<<text, log>>
=============================================================================
