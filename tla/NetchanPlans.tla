----------------------------- MODULE NetchanPlans -----------------------------
(***************************************************************************)
(* NetchanSession as its callers use it: an operation is prepared (the      *)
(* session is left alone and the caller receives a move-only plan), the     *)
(* datagram goes out or the payload is examined, and the plan is committed  *)
(* or abandoned later, with other operations in between.  A revision number *)
(* held by the session and stamped on every plan tells a plan that is still *)
(* good from one that has been overtaken.                                   *)
(***************************************************************************)
EXTENDS NetchanSession

CONSTANT MaxRevision        \* numeric_limits<uint64_t>::max()

ASSUME RevisionAssumption == MaxRevision \in Nat

VARIABLES
  revision,                 \* revision_
  valid,                    \* valid_configuration_
  firstAckPrepared,         \* first_acknowledgement_prepared_
  heldPlan,                 \* a NetchanTransmitPlan the caller holds, or None
  heldInspection,           \* a NetchanIncomingInspection, or None
  heldFirstAck              \* a NetchanFirstAcknowledgementTransaction, or None

heldVars == <<heldPlan, heldInspection, heldFirstAck>>
planVars == <<sessionVars, revision, valid, firstAckPrepared, heldVars>>

PlansInit ==
  /\ Init
  /\ revision = 0 /\ valid = TRUE /\ firstAckPrepared = FALSE
  /\ heldPlan = None /\ heldInspection = None /\ heldFirstAck = None

Operational == valid /\ revision < MaxRevision
BumpRevision == revision' = revision + 1

-----------------------------------------------------------------------------
\* queue_reliable.
QueueWithoutRevision(n) ==   \* mutant: outstanding plans stay current
  /\ Operational
  /\ QueueReliable(n)
  /\ UNCHANGED <<revision, valid, firstAckPrepared, heldVars>>

Queue(n) ==
  /\ Operational
  /\ QueueReliable(n)
  /\ BumpRevision
  /\ UNCHANGED <<valid, firstAckPrepared, heldVars>>

\* prepare_outgoing_packet: const, so the session keeps its revision.
PrepareOutgoing(u) ==
  /\ heldPlan = None
  /\ Operational
  /\ ~(firstAckPrepared /\ ~firstAckSent)
  /\ CanPrepare(u)
  /\ heldPlan' = [plan |-> Plan(u), offered |-> u, revision |-> revision]
  /\ UNCHANGED <<sessionVars, revision, valid, firstAckPrepared, heldInspection, heldFirstAck>>

\* validate_outgoing_plan compares the revision and then the decision, the
\* header, the bytes, the generation and the sizes with the present state.
OutgoingPlanValid ==
  /\ valid
  /\ heldPlan.revision = revision
  /\ heldPlan.plan = Plan(heldPlan.offered)
  /\ CanPrepare(heldPlan.offered)
  /\ revision < MaxRevision

\* commit_outgoing_send consumes the plan whether or not it is accepted.
CommitHeldPlan ==
  /\ heldPlan # None
  /\ OutgoingPlanValid
  /\ CommitOutgoing(heldPlan.plan)
  /\ BumpRevision
  /\ heldPlan' = None
  /\ UNCHANGED <<valid, firstAckPrepared, heldInspection, heldFirstAck>>

\* The two ways a plan is used up without effect: the commit rejects it, or
\* abandon_outgoing_packet gives it back.
DropHeldPlan ==
  /\ heldPlan # None
  /\ heldPlan' = None
  /\ UNCHANGED <<sessionVars, revision, valid, firstAckPrepared, heldInspection, heldFirstAck>>

-----------------------------------------------------------------------------
\* inspect_incoming, of a datagram that should_commit.
Inspect(h, class) ==
  /\ heldInspection = None
  /\ valid
  /\ Acceptable(h, class)
  /\ heldInspection' = [inspection |-> Inspection(h, class), header |-> h,
                        class |-> class, revision |-> revision]
  /\ UNCHANGED <<sessionVars, revision, valid, firstAckPrepared, heldPlan, heldFirstAck>>

\* commit_incoming trusts the inspection: the revision is all it compares.
InspectionUnchecked == valid /\ revision < MaxRevision   \* mutant: revision not compared
InspectionCurrent ==
  /\ heldInspection.revision = revision
  /\ Operational

CommitHeldInspection ==
  /\ heldInspection # None
  /\ InspectionCurrent
  /\ CommitIncoming(heldInspection.inspection)
  /\ BumpRevision
  /\ heldInspection' = None
  /\ UNCHANGED <<valid, firstAckPrepared, heldPlan, heldFirstAck>>

DropHeldInspection ==
  /\ heldInspection # None
  /\ heldInspection' = None
  /\ UNCHANGED <<sessionVars, revision, valid, firstAckPrepared, heldPlan, heldFirstAck>>

-----------------------------------------------------------------------------
\* prepare_first_acknowledgement takes a revision of its own, and leaves room
\* for the commit's.
PrepareFirstAck ==
  /\ valid /\ firstIncoming
  /\ ~firstAckPrepared /\ ~firstAckSent
  /\ revision + 1 < MaxRevision
  /\ firstAckPrepared' = TRUE
  /\ BumpRevision
  /\ heldFirstAck' = [plan |-> FirstAckPlan, revision |-> revision + 1]
  /\ UNCHANGED <<sessionVars, valid, heldPlan, heldInspection>>

CommitHeldFirstAck ==
  /\ heldFirstAck # None
  /\ heldFirstAck.revision = revision
  /\ Operational
  /\ firstAckPrepared
  /\ heldFirstAck.plan = FirstAckPlan
  /\ SendFirstAck
  /\ BumpRevision
  /\ heldFirstAck' = None
  /\ UNCHANGED <<valid, firstAckPrepared, heldPlan, heldInspection>>

DropHeldFirstAck ==
  /\ heldFirstAck # None
  /\ heldFirstAck' = None
  /\ UNCHANGED <<sessionVars, revision, valid, firstAckPrepared, heldPlan, heldInspection>>

\* clear_reliable_state has no error to return: out of revisions, it closes the
\* session instead.
Clear ==
  /\ ClearReliableState
  /\ IF revision < MaxRevision
     THEN BumpRevision /\ UNCHANGED valid
     ELSE valid' = FALSE /\ UNCHANGED revision
  /\ UNCHANGED <<firstAckPrepared, heldVars>>

PlansNext ==
  \/ \E n \in 1 .. MaxAccepted : Queue(n)
  \/ \E u \in 0 .. MaxUnreliable : PrepareOutgoing(u)
  \/ CommitHeldPlan \/ DropHeldPlan
  \/ \E h \in NewerHeader, class \in Classifications : Inspect(h, class)
  \/ CommitHeldInspection \/ DropHeldInspection
  \/ PrepareFirstAck \/ CommitHeldFirstAck \/ DropHeldFirstAck
  \/ Clear

PlansSpec == PlansInit /\ [][PlansNext]_planVars

-----------------------------------------------------------------------------
(* A plan that still carries the session's revision is the plan the session *)
(* would make now: the datagram already sent under it and the state its     *)
(* commit leaves agree.  Every operation that changes the session takes a   *)
(* new revision, and none passes the last.                                  *)
PlansAgreeWithRevision ==
  /\ revision <= MaxRevision
  /\ valid =>
      /\ heldPlan # None /\ heldPlan.revision = revision =>
           heldPlan.plan = Plan(heldPlan.offered) /\ CanPrepare(heldPlan.offered)
      /\ heldInspection # None /\ heldInspection.revision = revision =>
           /\ Acceptable(heldInspection.header, heldInspection.class)
           /\ heldInspection.inspection = Inspection(heldInspection.header, heldInspection.class)
      /\ heldFirstAck # None /\ heldFirstAck.revision = revision =>
           heldFirstAck.plan = FirstAckPlan /\ firstIncoming

(* Splitting an operation into prepare and commit is invisible: whatever   *)
(* the interleaving, the session only takes the steps of NetchanSession.   *)
PreparedOperationsAreAtomic == Spec
=============================================================================
