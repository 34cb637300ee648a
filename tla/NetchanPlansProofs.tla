-------------------------- MODULE NetchanPlansProofs --------------------------
(***************************************************************************)
(* Proofs about NetchanPlans, for every value of its constants: a plan that *)
(* still carries the session's revision is the plan the session would make, *)
(* so that an operation prepared early and committed late is one step of    *)
(* NetchanSession; and what was proved of that session holds of this one.   *)
(***************************************************************************)
EXTENDS NetchanPlans, NetchanSessionProofs

(* What the caller holds is no newer than the session, and as long as it is *)
(* not older, it is what the session would answer now.                      *)
HeldPlanGood ==
  heldPlan # None =>
    /\ heldPlan.revision \in Nat /\ heldPlan.revision <= revision
    /\ heldPlan.offered \in 0 .. MaxUnreliable
    /\ valid /\ heldPlan.revision = revision =>
         heldPlan.plan = Plan(heldPlan.offered) /\ CanPrepare(heldPlan.offered)

HeldInspectionGood ==
  heldInspection # None =>
    /\ heldInspection.revision \in Nat /\ heldInspection.revision <= revision
    /\ heldInspection.class \in Classifications
    /\ valid /\ heldInspection.revision = revision =>
         /\ heldInspection.header \in NewerHeader
         /\ Acceptable(heldInspection.header, heldInspection.class)
         /\ heldInspection.inspection
              = Inspection(heldInspection.header, heldInspection.class)

HeldFirstAckGood ==
  heldFirstAck # None =>
    /\ heldFirstAck.revision \in Nat /\ heldFirstAck.revision <= revision
    /\ valid /\ heldFirstAck.revision = revision =>
         heldFirstAck.plan = FirstAckPlan /\ firstIncoming

RevisionOK == revision \in Nat /\ revision <= MaxRevision /\ valid \in BOOLEAN

PlansInv == RevisionOK /\ HeldPlanGood /\ HeldInspectionGood /\ HeldFirstAckGood

-----------------------------------------------------------------------------
(* The session stays as it is, or its revision moves on, or it is closed.   *)
Onwards ==
  \/ UNCHANGED <<sessionVars, revision, valid>>
  \/ revision' \in Nat /\ revision < revision' /\ revision' <= MaxRevision /\ UNCHANGED valid
  \/ UNCHANGED revision /\ valid' = FALSE

(* What the caller keeps stays good: it is as current as before or it has   *)
(* been overtaken.                                                         *)
LEMMA HeldStays ==
  ASSUME PlansInv, Onwards
  PROVE  /\ RevisionOK'
         /\ UNCHANGED heldPlan => HeldPlanGood'
         /\ UNCHANGED heldInspection => HeldInspectionGood'
         /\ UNCHANGED heldFirstAck => HeldFirstAckGood'
<1>1. CASE UNCHANGED <<sessionVars, revision, valid>>
  BY <1>1, PreparedIsAFunctionOfTheSession
  DEF PlansInv, RevisionOK, HeldPlanGood, HeldInspectionGood, HeldFirstAckGood
<1>2. CASE /\ revision' \in Nat /\ revision < revision' /\ revision' <= MaxRevision
           /\ UNCHANGED valid
  BY <1>2 DEF PlansInv, RevisionOK, HeldPlanGood, HeldInspectionGood, HeldFirstAckGood
<1>3. CASE UNCHANGED revision /\ valid' = FALSE
  BY <1>3 DEF PlansInv, RevisionOK, HeldPlanGood, HeldInspectionGood, HeldFirstAckGood
<1> QED
  BY <1>1, <1>2, <1>3 DEF Onwards

(* A new revision is never past the last.                                   *)
LEMMA NewRevision ==
  ASSUME PlansInv, revision < MaxRevision, BumpRevision, UNCHANGED valid
  PROVE  Onwards
  BY RevisionAssumption DEF PlansInv, RevisionOK, BumpRevision, Onwards

LEMMA PlansInvInit == PlansInit => PlansInv
  BY RevisionAssumption
  DEF PlansInit, PlansInv, RevisionOK, HeldPlanGood, HeldInspectionGood, HeldFirstAckGood

LEMMA PlansInvStep == PlansInv /\ [PlansNext]_planVars => PlansInv'
<1> SUFFICES ASSUME PlansInv, [PlansNext]_planVars PROVE PlansInv'
  OBVIOUS
<1>1. ASSUME NEW n \in 1 .. MaxAccepted, Queue(n) PROVE PlansInv'
  <2>1. Onwards
    BY <1>1, NewRevision DEF Queue, Operational
  <2> QED
    BY <1>1, <2>1, HeldStays DEF Queue, heldVars, PlansInv
<1>2. ASSUME NEW u \in 0 .. MaxUnreliable, PrepareOutgoing(u) PROVE PlansInv'
  <2>1. Onwards /\ UNCHANGED <<sessionVars, revision, valid>>
    BY <1>2 DEF PrepareOutgoing, Onwards
  <2>2. heldPlan' = [plan |-> Plan(u), offered |-> u, revision |-> revision] /\ CanPrepare(u)
    BY <1>2 DEF PrepareOutgoing
  <2>3. Plan(u)' = Plan(u) /\ (CanPrepare(u)' <=> CanPrepare(u))
    BY <2>1, PreparedIsAFunctionOfTheSession
  <2>4. HeldPlanGood'
    BY <2>1, <2>2, <2>3 DEF HeldPlanGood, PlansInv, RevisionOK
  <2> QED
    BY <1>2, <2>1, <2>4, HeldStays DEF PrepareOutgoing, PlansInv
<1>3. ASSUME CommitHeldPlan PROVE PlansInv'
  <2>1. Onwards
    BY <1>3, NewRevision DEF CommitHeldPlan, OutgoingPlanValid
  <2>2. HeldPlanGood'
    BY <1>3 DEF CommitHeldPlan, HeldPlanGood
  <2> QED
    BY <1>3, <2>1, <2>2, HeldStays DEF CommitHeldPlan, PlansInv
<1>4. ASSUME DropHeldPlan PROVE PlansInv'
  <2>1. Onwards /\ HeldPlanGood'
    BY <1>4 DEF DropHeldPlan, Onwards, HeldPlanGood
  <2> QED
    BY <1>4, <2>1, HeldStays DEF DropHeldPlan, PlansInv
<1>5. ASSUME NEW h \in NewerHeader, NEW class \in Classifications, Inspect(h, class)
      PROVE  PlansInv'
  <2>1. Onwards /\ UNCHANGED <<sessionVars, revision, valid>>
    BY <1>5 DEF Inspect, Onwards
  <2>2. /\ heldInspection' = [inspection |-> Inspection(h, class), header |-> h,
                              class |-> class, revision |-> revision]
        /\ Acceptable(h, class)
    BY <1>5 DEF Inspect
  <2>3. /\ NewerHeader' = NewerHeader
        /\ Acceptable(h, class)' <=> Acceptable(h, class)
        /\ Inspection(h, class)' = Inspection(h, class)
    BY <2>1, PreparedIsAFunctionOfTheSession
  <2>4. HeldInspectionGood'
    BY <2>1, <2>2, <2>3 DEF HeldInspectionGood, PlansInv, RevisionOK
  <2> QED
    BY <1>5, <2>1, <2>4, HeldStays DEF Inspect, PlansInv
<1>6. ASSUME CommitHeldInspection PROVE PlansInv'
  <2>1. Onwards
    BY <1>6, NewRevision DEF CommitHeldInspection, InspectionCurrent, Operational
  <2>2. HeldInspectionGood'
    BY <1>6 DEF CommitHeldInspection, HeldInspectionGood
  <2> QED
    BY <1>6, <2>1, <2>2, HeldStays DEF CommitHeldInspection, PlansInv
<1>7. ASSUME DropHeldInspection PROVE PlansInv'
  <2>1. Onwards /\ HeldInspectionGood'
    BY <1>7 DEF DropHeldInspection, Onwards, HeldInspectionGood
  <2> QED
    BY <1>7, <2>1, HeldStays DEF DropHeldInspection, PlansInv
<1>8. ASSUME PrepareFirstAck PROVE PlansInv'
  <2>1. Onwards /\ revision' = revision + 1 /\ revision' \in Nat
    BY <1>8, NewRevision, RevisionAssumption
    DEF PrepareFirstAck, BumpRevision, PlansInv, RevisionOK
  <2>2. heldFirstAck' = [plan |-> FirstAckPlan, revision |-> revision + 1] /\ firstIncoming
    BY <1>8 DEF PrepareFirstAck
  <2>3. FirstAckPlan' = FirstAckPlan /\ firstIncoming' = firstIncoming
    BY <1>8, PreparedIsAFunctionOfTheSession DEF PrepareFirstAck
  <2>4. HeldFirstAckGood'
    BY <2>1, <2>2, <2>3 DEF HeldFirstAckGood
  <2> QED
    BY <1>8, <2>1, <2>4, HeldStays DEF PrepareFirstAck, PlansInv
<1>9. ASSUME CommitHeldFirstAck PROVE PlansInv'
  <2>1. Onwards
    BY <1>9, NewRevision DEF CommitHeldFirstAck, Operational
  <2>2. HeldFirstAckGood'
    BY <1>9 DEF CommitHeldFirstAck, HeldFirstAckGood
  <2> QED
    BY <1>9, <2>1, <2>2, HeldStays DEF CommitHeldFirstAck, PlansInv
<1>10. ASSUME DropHeldFirstAck PROVE PlansInv'
  <2>1. Onwards /\ HeldFirstAckGood'
    BY <1>10 DEF DropHeldFirstAck, Onwards, HeldFirstAckGood
  <2> QED
    BY <1>10, <2>1, HeldStays DEF DropHeldFirstAck, PlansInv
<1>11. ASSUME Clear PROVE PlansInv'
  <2>1. Onwards
    BY <1>11, NewRevision DEF Clear, Onwards
  <2> QED
    BY <1>11, <2>1, HeldStays DEF Clear, heldVars, PlansInv
<1>12. ASSUME UNCHANGED planVars PROVE PlansInv'
  <2>1. Onwards /\ UNCHANGED heldVars
    BY <1>12 DEF planVars, Onwards
  <2> QED
    BY <2>1, HeldStays DEF heldVars, PlansInv
<1> QED
  BY <1>1, <1>2, <1>3, <1>4, <1>5, <1>6, <1>7, <1>8, <1>9, <1>10, <1>11, <1>12
  DEF PlansNext

(* For every limit: whatever was prepared and whatever happened since, a    *)
(* plan whose revision is the session's is the plan the session would make  *)
(* now, and no revision passes the last.                                   *)
THEOREM PlansStayCurrent == PlansSpec => []PlansAgreeWithRevision
<1>1. PlansInv => PlansAgreeWithRevision
  BY DEF PlansInv, RevisionOK, HeldPlanGood, HeldInspectionGood, HeldFirstAckGood,
         PlansAgreeWithRevision
<1> QED
  BY <1>1, PlansInvInit, PlansInvStep, PTL DEF PlansSpec

-----------------------------------------------------------------------------
(* A late commit is a step of NetchanSession; whatever else the caller does *)
(* leaves the session as it is.                                            *)
LEMMA CommitsAreSteps == PlansInv /\ [PlansNext]_planVars => [Next]_sessionVars
<1> SUFFICES ASSUME PlansInv, [PlansNext]_planVars PROVE [Next]_sessionVars
  OBVIOUS
<1>1. ASSUME NEW n \in 1 .. MaxAccepted, Queue(n) PROVE Next
  BY <1>1 DEF Queue, Next
<1>2. ASSUME CommitHeldPlan PROVE Next
  <2>1. heldPlan.offered \in 0 .. MaxUnreliable
    BY <1>2 DEF CommitHeldPlan, PlansInv, HeldPlanGood
  <2>2. Transmit(heldPlan.offered)
    BY <1>2 DEF CommitHeldPlan, OutgoingPlanValid, Transmit
  <2> QED
    BY <2>1, <2>2 DEF Next
<1>3. ASSUME CommitHeldInspection PROVE Next
  <2> DEFINE h == heldInspection.header
             class == heldInspection.class
  <2>1. /\ h \in NewerHeader /\ class \in Classifications /\ Acceptable(h, class)
        /\ heldInspection.inspection = Inspection(h, class)
    BY <1>3 DEF CommitHeldInspection, InspectionCurrent, Operational, PlansInv,
                HeldInspectionGood
  <2>2. Receive(h, class)
    BY <1>3, <2>1 DEF CommitHeldInspection, Receive
  <2> QED
    BY <2>1, <2>2 DEF Next
<1>4. ASSUME CommitHeldFirstAck PROVE Next
  BY <1>4 DEF CommitHeldFirstAck, Next
<1>5. ASSUME Clear PROVE Next
  BY <1>5 DEF Clear, Next
<1>6. ASSUME NEW u \in 0 .. MaxUnreliable, PrepareOutgoing(u) PROVE UNCHANGED sessionVars
  BY <1>6 DEF PrepareOutgoing
<1>7. ASSUME NEW h \in NewerHeader, NEW class \in Classifications, Inspect(h, class)
      PROVE  UNCHANGED sessionVars
  BY <1>7 DEF Inspect
<1>8. ASSUME DropHeldPlan \/ DropHeldInspection \/ PrepareFirstAck \/ DropHeldFirstAck
      PROVE  UNCHANGED sessionVars
  BY <1>8 DEF DropHeldPlan, DropHeldInspection, PrepareFirstAck, DropHeldFirstAck
<1>9. ASSUME UNCHANGED planVars PROVE UNCHANGED sessionVars
  BY <1>9 DEF planVars
<1> QED
  BY <1>1, <1>2, <1>3, <1>4, <1>5, <1>6, <1>7, <1>8, <1>9 DEF PlansNext

(* For every limit: to prepare an operation and commit it later, with any   *)
(* others in between, is one step of the session or none.                  *)
THEOREM PreparedIsAtomic == PlansSpec => PreparedOperationsAreAtomic
<1>1. PlansInit => Init
  BY DEF PlansInit
<1> QED
  BY <1>1, PlansInvInit, PlansInvStep, CommitsAreSteps, PTL
  DEF PlansSpec, Spec, PreparedOperationsAreAtomic

(* So the session loses, repeats and reorders nothing under late commits    *)
(* either, and what is in flight is the current unit.                      *)
THEOREM PlansLoseNothing == PlansSpec => [](HoldsAcceptedInOrder /\ InFlightIsCurrentUnit)
  BY PreparedIsAtomic, SessionHoldsAcceptedInOrder, SessionInFlightIsCurrentUnit, PTL
  DEF PreparedOperationsAreAtomic
=============================================================================
