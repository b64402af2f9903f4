---------------------------- MODULE MCEditorLabels ----------------------------
(* A chapter of three characters that is opened with one label. *)
EXTENDS EditorLabels

Pieces == [1..1 -> Char]
Chapters ==
  {[text |-> t, labels |-> <<[id |-> i, lo |-> a, hi |-> b]>>] :
     t \in [1..3 -> Char], i \in Label, a \in 0..2, b \in {3}}
=============================================================================
