------------------------------ MODULE MCLists ------------------------------
(* Instances of Lists for TLC. *)
EXTENDS Lists, TLC

CONSTANTS me, org, all

\* Two tabs of the three: Issues does what Pull Requests does, on the screen and
\* with what arrives.
MCTabOrder == <<"prs", "runs">>

\* The viewer's lists fill two pages, and the organization has nothing.
MCTotal == [q \in Queries |-> IF q.owner = me THEN 2 ELSE 0]
=============================================================================
