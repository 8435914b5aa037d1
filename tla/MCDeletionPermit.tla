-------------------------- MODULE MCDeletionPermit --------------------------
(* DeletionPermit with model values for TLC. *)
EXTENDS DeletionPermit

CONSTANTS p1, t1, t2

MCPermits == {p1}
MCTargets == {t1, t2}
MCOneTarget == {t1}
=============================================================================
