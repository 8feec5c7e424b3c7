--------------------------- MODULE AlertDelivery ---------------------------
(***************************************************************************)
(* What events/alert.py promises its callers about an alert that alert()   *)
(* accepted (returned True for): it is pending until one digest takes it,  *)
(* it then either leaves in exactly one e-mail or is discarded for good,   *)
(* and it does not stay pending for ever.                                  *)
(***************************************************************************)
CONSTANT Alerts

VARIABLE status

Fates == {"delivered", "discarded"}

Init == status = [a \in Alerts |-> "new"]

Pending == {a \in Alerts : status[a] = "pending"}

(* alert() accepts one more alert. *)
Accept(a) ==
    /\ status[a] = "new"
    /\ status' = [status EXCEPT ![a] = "pending"]

(* A non-empty batch of pending alerts reaches its final fate. *)
Resolve(batch) ==
    /\ batch # {}
    /\ status' \in {s \in [Alerts -> {"new", "pending"} \cup Fates] :
                        \A a \in Alerts : IF a \in batch THEN s[a] \in Fates
                                                         ELSE s[a] = status[a]}

Next ==
    \/ \E a \in Alerts : Accept(a)
    \/ \E batch \in SUBSET Pending : Resolve(batch)

SafeSpec == Init /\ [][Next]_status

(* No accepted alert is forgotten. *)
Resolution == \A a \in Alerts : status[a] = "pending" ~> status[a] \in Fates

Spec == SafeSpec /\ Resolution
=============================================================================
