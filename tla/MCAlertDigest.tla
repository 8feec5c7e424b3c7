--------------------------- MODULE MCAlertDigest ---------------------------
(* The digest on a small instance for TLC. *)
EXTENDS AlertDigest, TLC

(* Threads, timers and alerts are interchangeable identities. *)
Symmetry == Permutations(Callers) \cup Permutations(Timers) \cup Permutations(Alerts)
=============================================================================
