--------------------------- MODULE MCLiveStream ---------------------------
(* The live feed on small instances for TLC. *)
EXTENDS LiveStream, TLC
=============================================================================
