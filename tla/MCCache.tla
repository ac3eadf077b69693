------------------------------ MODULE MCCache ------------------------------
(* Small instances of Cache for TLC.  Callers and entries are told apart by no *)
(* action, but liveness is checked, so no symmetry is declared.                *)
EXTENDS Cache, TLC

CONSTANTS k1, c1, c2, w1, e1, e2
=============================================================================
