------------------------ MODULE MCCredentialRotation ------------------------
(* CredentialRotation with model values for TLC: the key in use and three new *)
(* ones, so that either slot is overwritten at least once.                    *)
EXTENDS CredentialRotation

CONSTANTS k1, k2, k3, k4

MCKeys == {k1, k2, k3, k4}
=============================================================================
