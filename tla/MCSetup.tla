-------------------------------- MODULE MCSetup --------------------------------
(***************************************************************************)
(* Setup flows for TLC: two dialogs for one email, two attempts each.      *)
(***************************************************************************)
EXTENDS SetupFlow

\* No flow is told from another but by what it does.
Symmetric == Permutations(Flows)

\* What may befall one setup: one of each fault, or two waits that time out.
Spare(faults) == [f \in Faults |-> IF f \in faults THEN 1 ELSE 0]

MCTrials ==
  [stored : {{}, {"energy"}, Statistics},
   spare : {[Spare({"requeues"}) EXCEPT !.timeouts = 2], Spare({"drops", "timeouts"}),
            Spare({"closes", "repeats"}), Spare({"closes", "requeues"}),
            Spare({"stops", "requeues"}), Spare({"stops", "repeats"}),
            Spare({"closes", "timeouts"})}]
===============================================================================
