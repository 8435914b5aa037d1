--------------------------- MODULE PermitLifecycle ---------------------------
(***************************************************************************)
(* What a deletion permit promises: its state moves forward only, Active   *)
(* at most once, then Expired or Consumed for good, until it is removed.   *)
(***************************************************************************)
CONSTANT Permits

VARIABLE state   \* status.state of every permit; "absent" before, "removed" after

Init == state = [p \in Permits |-> "absent"]

Move(p, from, to) == state[p] \in from /\ state' = [state EXCEPT ![p] = to]

Next == \E p \in Permits :
    \/ Move(p, {"absent"}, "")
    \/ Move(p, {""}, "Active")
    \/ Move(p, {"", "Active"}, "Expired")
    \/ Move(p, {"Active"}, "Consumed")
    \/ Move(p, {"", "Active", "Expired", "Consumed"}, "removed")

Spec == Init /\ [][Next]_state
=============================================================================
