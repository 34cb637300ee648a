------------------------ MODULE MCUsercmdTransmission ------------------------
(***************************************************************************)
(* The stages the client builds: the live one, whose driver is updated by   *)
(* its owner, the loopback one, and the one that samples by itself, before  *)
(* and after its session is ready. Their rings of events are the smallest   *)
(* they are accepted with, but for the loopback one's.                     *)
(***************************************************************************)
EXTENDS UsercmdTransmission

Live == [reference |-> TRUE, external |-> TRUE, ready |-> TRUE, phases |-> 2, ring |-> 6]
Loopback == [Live EXCEPT !.external = FALSE, !.ring = 8]
Synthetic ==
  [reference |-> FALSE, external |-> FALSE, ready |-> TRUE, phases |-> 1, ring |-> 12]
NotReady == [Synthetic EXCEPT !.ready = FALSE]

MCConfigurations == {Live, Loopback, Synthetic, NotReady}
=============================================================================
