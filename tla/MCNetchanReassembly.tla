-------------------------- MODULE MCNetchanReassembly --------------------------
(***************************************************************************)
(* Payloads for checking NetchanReassembly: two different full chunks, so   *)
(* that a misplaced, repeated or unwritten position shows, and one short    *)
(* ones for the last fragment.                                             *)
(***************************************************************************)
EXTENDS NetchanReassembly

MCPayload == {<<1, 2>>, <<2, 1>>, <<1>>}
=============================================================================
