------------------------------- MODULE MCTurns --------------------------------
(***************************************************************************)
(* The turns of three lanes for TLC: two of one property, one of another.  *)
(***************************************************************************)
EXTENDS CoverageTurns

MCPropertyOf == [l \in Lanes |-> IF l = 3 THEN "second" ELSE "first"]

\* What may befall one behaviour: what stops lanes one by one, what stops them
\* all, and a little of each.
Spare(f, l, b, r) == [failures |-> f, limits |-> l, budgets |-> b, refreshes |-> r]

MCTrials == {Spare(3, 0, 1, 0), Spare(0, 3, 0, 2), Spare(1, 2, 0, 1)}
===============================================================================
