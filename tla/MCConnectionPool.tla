--------------------------- MODULE MCConnectionPool ---------------------------
(* ConnectionPool with model values for TLC: three workers, so that two can    *)
(* queue for the lock the third holds, and two locators, so that a cached      *)
(* connection gets replaced.                                                   *)
EXTENDS ConnectionPool

CONSTANTS c1, c2, c3, t1, l1, l2

MCCallers == {c1, c2, c3}
MCTenants == {t1}
MCLocators == {l1, l2}
MCHandles == 1 .. 5
MCHung == {t1}
=============================================================================
