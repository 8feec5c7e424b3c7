---------------------------- MODULE MCCollector ----------------------------
(* The collector on a small instance for TLC. *)
EXTENDS Collector, TLC

Symmetry == Permutations(Macs) \cup Permutations(Names)

(* Four lines undisturbed, three with a kill or a failed statement, or two  *)
(* with an edit and a kill or a failed statement.                           *)
MCBudgets ==
    LET Budget(l, c, f, e) == [lines |-> l, crashes |-> c, faults |-> f, edits |-> e]
    IN  {Budget(4, 0, 0, 0), Budget(3, 1, 0, 0), Budget(3, 0, 1, 0),
         Budget(2, 1, 0, 1), Budget(2, 0, 1, 1)}
=============================================================================
