--------------------------- MODULE MCPredictedPlayer ---------------------------
(* A corridor with a wall at 3; no movement can be simulated beyond it.      *)
EXTENDS PredictedPlayer

MCPositions == 0 .. 4
MCMoves == {0, 1}
MCKernel ==
  [c \in MCPositions \X MCMoves |->
     CASE c[2] = 0 -> c[1] [] c[2] = 1 /\ c[1] < 3 -> c[1] + 1
       [] c[2] = 1 /\ c[1] = 3 -> 3 [] c[2] = 1 /\ c[1] = 4 -> -1]
MCScenarios ==
  {"teleport", "stale_and_duplicate_updates", "mixed"}
MCLooks == {0}
MCIntents ==
  {[focused |-> TRUE, pressed |-> TRUE, move |-> 1, look |-> 0],
   [focused |-> FALSE, pressed |-> FALSE, move |-> 0, look |-> 0]}
==============================================================================
