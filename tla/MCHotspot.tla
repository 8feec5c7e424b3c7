----------------------------- MODULE MCHotspot -----------------------------
(* The life cycle on a small instance for TLC. *)
EXTENDS Hotspot

(* Changes of the deny list do not overlap. *)
MCApart == {{"kick", "unblock"}, {"unblock"}}

(* Two requests that overlap; two that come one after the other, with a command
   that fails; and one, with crashes or with both, and an old watchdog at the end of
   its pass beside the new one. *)
Budget(t, w, o, c, f) ==
    [threads |-> t, watchdogs |-> w, ops |-> o, crashes |-> c, faults |-> f]

MCBudgets == {Budget(2, 1, 2, 0, 0), Budget(1, 1, 2, 0, 1),
              Budget(1, 2, 1, 2, 0), Budget(1, 2, 1, 1, 1)}
=============================================================================
