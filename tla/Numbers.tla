------------------------------ MODULE Numbers ------------------------------
(***************************************************************************)
(* min, max, the clamp of internal/layout/layout.go and the one of the     *)
(* panes that scroll.                                                      *)
(***************************************************************************)
EXTENDS Integers, FiniteSets

Larger(a, b) == IF a > b THEN a ELSE b
Smaller(a, b) == IF a < b THEN a ELSE b
Clamp(v, lo, hi) == IF v < lo THEN lo ELSE Smaller(v, hi)

\* clampOffset: a line of a text of n lines, or 0 where there is none.
ClampOffset(offset, n) == Smaller(Larger(offset, 0), Larger(n - 1, 0))

\* The place of a number of a set among them in order.
Rank(n, S) == Cardinality({m \in S : m <= n})
=============================================================================
