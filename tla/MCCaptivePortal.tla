-------------------------- MODULE MCCaptivePortal --------------------------
(* The captive portal on small instances for TLC. *)
EXTENDS CaptivePortal, TLC

(* Clients, codes and threads are interchangeable identities. *)
Symmetry ==
    Permutations(Macs) \cup Permutations(Codes)
        \cup Permutations(Requests) \cup Permutations(Sweepers)
=============================================================================
