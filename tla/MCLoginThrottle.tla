-------------------------- MODULE MCLoginThrottle --------------------------
(* The throttles on a small instance for TLC. *)
EXTENDS LoginThrottle

MCTiers == {<<2, 1>>, <<3, 2>>}

MCBudgets == {[threads |-> 2, failures |-> 4, time |-> 4],
              [threads |-> 3, failures |-> 3, time |-> 1]}
=============================================================================
