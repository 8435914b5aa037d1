------------------------- MODULE MCAccountLifecycle -------------------------
(* AccountLifecycle with model values for TLC. *)
EXTENDS AccountLifecycle, TLC

CONSTANTS l1, l2, l3, k1, k2, p1, p2

MCLocators == {l1, l2}
MCThreeLocators == {l1, l2, l3}
MCKeys == {k1, k2}
MCPermits == {p1, p2}
MCForeign == {l3}

LifecycleSymmetry == Permutations(MCLocators) \cup Permutations(MCKeys) \cup Permutations(MCPermits)
=============================================================================
