-------------------------------- MODULE MCSync --------------------------------
(***************************************************************************)
(* Small instances of SyncCycle for TLC: two units, of one property or of  *)
(* two, with waits and intervals of a few hours in the proportions of the  *)
(* code's.                                                                 *)
(***************************************************************************)
EXTENDS SyncCycle, TLC

CONSTANTS import, export

\* The two directions of one property, or a direction each of two properties.
MCOneProperty == [u \in Units |-> "property"]
MCTwoProperties == [u \in Units |-> u]

\* The units differ in nothing the model looks at, either way.
Exchanged == Permutations({import, export})
===============================================================================
