------------------------------- MODULE Consent -------------------------------
(***************************************************************************)
(* What asking before a write promises (internal/ui/merge.go:11-15: "a     *)
(* merge that lands after the user moved on still applies to the pull      *)
(* request it was confirmed for"), with no dialog, no stack and no message *)
(* in sight: a write uses up a question that a key asked, about the same   *)
(* pull request and to the same purpose, and a question is only ever asked *)
(* about a pull request that may be asked about.                           *)
(***************************************************************************)
EXTENDS Naturals

CONSTANTS
  PR,        \* pull requests
  Askable    \* those a write may be offered on

VARIABLES
  open,      \* how many questions of each kind may still lead to a write
  asks,      \* questions asked so far
  written    \* writes so far

vars == <<open, asks, written>>

Purpose == {"merge", "close"}
Question == PR \X Purpose

Init == open = [q \in Question |-> 0] /\ asks = 0 /\ written = 0

\* A key asks.
Ask(q) ==
  /\ asks' = asks + 1 /\ UNCHANGED written
  /\ q[1] \in Askable
  /\ open' = [open EXCEPT ![q] = @ + 1]

\* The question is answered with no, or lost for another one.
Withdraw(q) ==
  /\ UNCHANGED <<asks, written>>
  /\ open[q] > 0
  /\ open' = [open EXCEPT ![q] = @ - 1]

\* It was answered with yes, and the write reaches GitHub.
Act(q) ==
  /\ written' = written + 1 /\ UNCHANGED asks
  /\ open[q] > 0
  /\ open' = [open EXCEPT ![q] = @ - 1]

Next == \E q \in Question : Ask(q) \/ Withdraw(q) \/ Act(q)

Spec == Init /\ [][Next]_vars
=============================================================================
