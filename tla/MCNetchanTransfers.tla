-------------------------- MODULE MCNetchanTransfers --------------------------
(***************************************************************************)
(* Two transfers and an unfragmented unit between them: the second one is a *)
(* single fragment, which another copy of itself could start again.        *)
(***************************************************************************)
EXTENDS NetchanTransfers

MCPieces == << [count |-> 2, index |-> 1], [count |-> 2, index |-> 2],
               [count |-> 0, index |-> 0], [count |-> 1, index |-> 1] >>
=============================================================================
