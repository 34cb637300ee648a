--------------------------- MODULE ReliableDelivery ---------------------------
(***************************************************************************)
(* What a reliable direction of the channel promises: the units submitted   *)
(* at one end are delivered at the other once each and in order, and the   *)
(* sender lets go of a unit only after its delivery.                       *)
(***************************************************************************)
EXTENDS Integers, Sequences

VARIABLES
  submitted,   \* number of units submitted
  delivered,   \* the units delivered, in the order of delivery
  released     \* number of units the sender no longer holds

serviceVars == <<submitted, delivered, released>>

Init == submitted = 0 /\ delivered = <<>> /\ released = 0

Submit ==
  /\ submitted' \in Nat /\ submitted' > submitted
  /\ UNCHANGED <<delivered, released>>

\* The next units, and no others.
Deliver ==
  /\ Len(delivered') > Len(delivered)
  /\ Len(delivered') <= submitted
  /\ delivered' = [i \in 1 .. Len(delivered') |-> i]
  /\ UNCHANGED <<submitted, released>>

Release ==
  /\ released' \in Nat /\ released' > released
  /\ released' <= Len(delivered)
  /\ UNCHANGED <<submitted, delivered>>

Next == Submit \/ Deliver \/ Release

Spec == Init /\ [][Next]_serviceVars
=============================================================================
