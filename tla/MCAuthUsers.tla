---------------------------- MODULE MCAuthUsers ----------------------------
(* The dashboard's accounts on small instances for TLC. *)
EXTENDS AuthUsers, TLC

\* Scaled tiers: two failures lock for one tick, three for two.
TwoTiers == {<<2, 1>>, <<3, 2>>}
Symmetric == Permutations(Threads)
=============================================================================
