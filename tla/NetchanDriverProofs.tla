--------------------------- MODULE NetchanDriverProofs ---------------------------
(***************************************************************************)
(* Proofs about NetchanDriver, for every value of its constants: what it    *)
(* does to its session is what NetchanSession allows, and its safety        *)
(* properties, all from one inductive invariant.                           *)
(***************************************************************************)
EXTENDS NetchanDriver, NetchanSessionProofs

-----------------------------------------------------------------------------
(* The inductive invariant, part by part.                                  *)

Phases == {"outside", "contextual", "receive", "answer", "finish", "send", "closing",
           "closed?", "backpressure"}

DriverTypes ==
  /\ status \in {"idle", "active"} \cup TerminalStates
  /\ phase \in Phases
  /\ unreliable \in 0 .. MaxUnreliable
  /\ events \in 0 .. MaxEvents
  /\ ackPending \in BOOLEAN /\ requested \in BOOLEAN /\ disconnectSeen \in BOOLEAN
  /\ attempts \in Nat /\ supports \in Nat /\ reported \in Nat
  /\ phase = "answer" =>
       admitted.answer \in BOOLEAN /\ admitted.reported \in Nat

\* An update runs only while the driver is active; which of its steps a graceful
\* close takes part in.
Course ==
  /\ phase # "outside" => status = "active"
  /\ phase = "contextual" => contextual # None
  /\ phase \in {"closing", "closed?"} => requested
  /\ phase \in {"contextual", "finish", "send", "backpressure"} => ~requested

\* A committed context outlives only steps that leave the session alone.
Context ==
  contextual # None =>
    /\ contextual.plan = Plan(contextual.offered)
    /\ CanPrepare(contextual.offered)
    /\ contextual.offered \in 1 .. MaxUnreliable
    /\ unreliable = 0
    /\ status = "active" /\ ~requested
    /\ phase \in {"outside", "contextual", "backpressure"}

\* The ring has room for all that is still to be pushed.
Room == phase = "answer" => events + Len(Pushed(admitted)) <= MaxEvents

NotOver == status \in {"idle", "active"}

Owed ==
  NotOver => \/ sentAck = incomingReliableAck
             \/ ackPending
             \/ phase = "answer" /\ admitted.answer

\* What of the active transfer the peer has acknowledged.
Delivered == IF transfer = None THEN 0 ELSE (transfer.index - 1) * FragmentSize
Unreported == IF phase = "answer" THEN admitted.reported ELSE 0
Accounted == NotOver => reported + Unreported = retired - Delivered

\* An outcome is settled from what was sent and covered; while a close runs and
\* nothing is being received, no acknowledgement covers it yet.
Outcomes ==
  /\ firstClose # None => attempts > 0
  /\ ~requested => firstClose = None
  /\ outcome = "transport_acknowledged" => CloseCovered
  /\ outcome = "sent_but_unconfirmed" => firstClose # None /\ ~CloseCovered
  /\ outcome = "send_failed" /\ status = "closed" => firstClose = None
  /\ NotOver /\ phase \in {"outside", "closing"} => ~CloseCovered
  /\ outcome = "pending" => requested /\ status \in {"active", "closed"}
  /\ NotOver => outcome = IF requested THEN "pending" ELSE "not_requested"
  /\ status = "idle" => ~requested
  /\ ~requested /\ outcome # "not_requested" =>
       /\ outcome = "server_disconnect_confirmed"
       /\ status \notin Errors /\ disconnectSeen

Over ==
  Terminal =>
    /\ transfer = None /\ inFlight = None /\ pending = <<>>
    /\ unreliable = 0 /\ contextual = None /\ assembling = None /\ ~ackPending

Timely == phase = "send" => ~Expired

DriverInv ==
  /\ CurrentUnitInv /\ DriverTypes /\ Course /\ Context /\ Room /\ Owed /\ Accounted
  /\ Outcomes /\ Over /\ Timely

-----------------------------------------------------------------------------
(* The steps, by what they do to the invariant.                            *)

\* A step that ends the driver.
Ending ==
  /\ NotOver /\ status' \in TerminalStates
  /\ Cleanup
  /\ phase' = "outside"
  /\ events' \in 0 .. MaxEvents
  /\ attempts' \in Nat /\ supports' \in Nat /\ reported' \in Nat
  /\ requested' \in BOOLEAN /\ disconnectSeen' \in BOOLEAN
  /\ Outcomes'

\* A step of an update that only takes it further.
Moving ==
  /\ \/ phase = "receive" /\ phase' \in {"receive", IF requested THEN "closed?" ELSE "finish"}
     \/ phase = "finish" /\ phase' = "send" /\ ~Expired
     \/ phase = "contextual" /\ phase' = "outside" /\ ~Expired
     \/ phase = "send" /\ phase' = "outside"
     \/ phase = "closed?" /\ phase' = "outside" /\ ~CloseCovered
     \/ phase = "closing" /\ phase' = "receive"
  /\ UNCHANGED <<sessionVars, status, pendingVars, events, clockVars, closeVars,
                 attemptVars, reportVars>>

(* However it is entered, a terminal state is an end, and one that keeps   *)
(* the account of the graceful close.                                      *)
LEMMA TerminalEnds ==
  ASSUME DriverTypes, Outcomes, NotOver, NEW state \in Errors, NEW event, NEW error,
         EnterTerminal(state, event, error),
         attempts' \in Nat, supports' \in Nat, attempts' >= attempts, UNCHANGED firstClose
  PROVE  Ending
<1> USE DEF EnterTerminal, End
<1>1. status' \in Errors /\ status' \in TerminalStates /\ Cleanup /\ phase' = "outside"
  BY DEF TerminalStates
<1>2. events' \in 0 .. MaxEvents
  BY ConfigurationAssumption DEF DriverTypes
<1>3. reported' \in Nat /\ requested' = requested /\ disconnectSeen' = disconnectSeen
  BY DEF DriverTypes, reportVars
<1>4. /\ outcome = IF requested THEN "pending" ELSE "not_requested"
      /\ firstClose # None => attempts > 0
      /\ ~requested => firstClose = None
      /\ requested \in BOOLEAN /\ attempts \in Nat
  BY DEF Outcomes, DriverTypes
<1>5. \/ requested /\ outcome' \in {"send_failed", "fatal_failure"}
      \/ ~requested /\ outcome' = "not_requested"
  <2>1. outcome' = IF outcome # "pending" THEN outcome
                   ELSE IF error = "send_failed" THEN "send_failed" ELSE "fatal_failure"
    OBVIOUS
  <2> QED
    BY <1>4, <2>1
<1>6. Outcomes'
  BY <1>1, <1>3, <1>4, <1>5 DEF Outcomes, NotOver, TerminalStates, Errors
<1> QED
  BY <1>1, <1>2, <1>3, <1>6 DEF Ending, DriverTypes

LEMMA FailEnds ==
  ASSUME DriverTypes, Outcomes, NotOver, NEW state \in Errors,
         Fail(state)
  PROVE  Ending
<1>1. UNCHANGED attemptVars /\ EnterTerminal(state, TRUE, "other")
  BY DEF Fail
<1>2. /\ attempts' \in Nat /\ supports' \in Nat /\ attempts' >= attempts
      /\ UNCHANGED firstClose
  BY <1>1 DEF attemptVars, DriverTypes
<1> QED
  BY <1>1, <1>2, TerminalEnds

LEMMA BackpressureEnds ==
  ASSUME DriverTypes, Outcomes, NotOver, Backpressure
  PROVE  Ending
<1>1. UNCHANGED attemptVars /\ EnterTerminal("backpressure", FALSE, "event_backpressure")
  BY DEF Backpressure
<1>2. /\ attempts' \in Nat /\ supports' \in Nat /\ attempts' >= attempts
      /\ UNCHANGED firstClose
  BY <1>1 DEF attemptVars, DriverTypes
<1>3. "backpressure" \in Errors
  BY DEF Errors
<1> QED
  BY <1>1, <1>2, <1>3, TerminalEnds

LEMMA FailSendEnds ==
  ASSUME DriverTypes, Outcomes, NotOver, FailSend,
         attempts' \in Nat, supports' \in Nat, attempts' >= attempts, UNCHANGED firstClose
  PROVE  Ending
<1>1. EnterTerminal("network_error", TRUE, "send_failed")
  BY DEF FailSend
<1>2. "network_error" \in Errors
  BY DEF Errors
<1> QED
  BY <1>1, <1>2, TerminalEnds

LEMMA TimeOutEnds ==
  ASSUME DriverTypes, Outcomes, NotOver, TimeOut
  PROVE  Ending
<1>1. "timed_out" \in Errors
  BY DEF Errors
<1>2. Backpressure \/ Fail("timed_out")
  BY DEF TimeOut
<1> QED
  BY <1>1, <1>2, BackpressureEnds, FailEnds

\* Closed with an outcome that keeps the account.
LEMMA CloseWithEnds ==
  ASSUME DriverTypes, Outcomes, NotOver, NEW result, CloseWith(result),
         disconnectSeen' \in BOOLEAN,
         result = "transport_acknowledged" => CloseCovered,
         result = "sent_but_unconfirmed" => firstClose # None /\ ~CloseCovered,
         result = "send_failed" => firstClose = None,
         \/ result = outcome /\ disconnectSeen' = disconnectSeen
         \/ requested /\ result # "pending"
         \/ result = "server_disconnect_confirmed" /\ disconnectSeen'
  PROVE  Ending
<1> USE DEF CloseWith, End
<1>1. /\ status' = "closed" /\ Cleanup /\ phase' = "outside" /\ outcome' = result
      /\ UNCHANGED <<events, requested, reportVars, attemptVars>>
  OBVIOUS
<1>2. /\ reported' \in Nat /\ requested' = requested /\ events' \in 0 .. MaxEvents
      /\ attempts' = attempts /\ attempts \in Nat /\ supports' \in Nat
      /\ firstClose' = firstClose /\ requested \in BOOLEAN
  BY <1>1 DEF DriverTypes, reportVars, attemptVars
<1>3. /\ outcome = IF requested THEN "pending" ELSE "not_requested"
      /\ firstClose # None => attempts > 0
  BY DEF Outcomes
<1>4. Outcomes'
  <2>1. CloseCovered' = CloseCovered
    BY <1>1, <1>2 DEF CloseCovered, Cleanup, ClearReliableState, incomingVars
  <2> QED
    BY <1>1, <1>2, <1>3, <2>1 DEF Outcomes, NotOver, Errors
<1>5. status' \in TerminalStates
  BY <1>1 DEF TerminalStates
<1> QED
  BY <1>1, <1>2, <1>4, <1>5 DEF Ending

\* Every step that may end the driver does so as an Ending.
LEMMA OwnerEndings ==
  ASSUME DriverInv
  PROVE  /\ FailAtEntry => Ending
         /\ Cancel => Ending
         /\ Close => Ending
         /\ RequestGracefulCloseTooLate /\ ~Terminal => Ending
         /\ ConfirmServerDisconnect /\ ~Terminal => Ending
<1> USE DEF DriverInv
<1>1. NotOver <=> ~Terminal
  BY DEF DriverTypes, NotOver, Terminal, TerminalStates, Errors
<1>2. ASSUME FailAtEntry PROVE Ending
  <2>1. PICK state \in {"protocol_error", "network_error"} : Fail(state)
    BY <1>2 DEF FailAtEntry
  <2>2. NotOver /\ state \in Errors
    BY <1>2 DEF FailAtEntry, NotOver, Errors
  <2> QED
    BY <2>1, <2>2, FailEnds
<1>3. ASSUME Cancel PROVE Ending
  <2>1. /\ status' = "cancelled" /\ Cleanup /\ phase' = "outside"
        /\ outcome' = IF outcome = "pending" THEN "cancelled" ELSE outcome
        /\ UNCHANGED <<requested, reportVars, attemptVars, disconnectSeen>>
    BY <1>3 DEF Cancel, End
  <2>2. events' \in 0 .. MaxEvents
    BY <1>3, ConfigurationAssumption DEF Cancel, DriverTypes
  <2>3. /\ reported' \in Nat /\ requested' = requested /\ requested \in BOOLEAN
        /\ attempts' = attempts /\ attempts \in Nat /\ supports' \in Nat
        /\ firstClose' = firstClose /\ disconnectSeen' \in BOOLEAN
    BY <2>1 DEF DriverTypes, reportVars, attemptVars
  <2>4. NotOver /\ status' \in TerminalStates
    BY <1>3, <2>1 DEF Cancel, NotOver, TerminalStates
  <2>5. /\ outcome = IF requested THEN "pending" ELSE "not_requested"
        /\ firstClose # None => attempts > 0
    BY <2>4 DEF Outcomes
  <2>6. Outcomes'
    BY <2>1, <2>3, <2>5 DEF Outcomes, NotOver, Errors
  <2> QED
    BY <2>1, <2>2, <2>3, <2>4, <2>6 DEF Ending
<1>4. ASSUME Close PROVE Ending
  <2>1. CloseWith(outcome) /\ UNCHANGED disconnectSeen /\ NotOver
    BY <1>1, <1>4 DEF Close
  <2>2. outcome = IF requested THEN "pending" ELSE "not_requested"
    BY <2>1 DEF Outcomes
  <2>3. disconnectSeen' \in BOOLEAN
    BY <2>1 DEF DriverTypes
  <2> QED
    BY <2>1, <2>2, <2>3, CloseWithEnds
<1>5. ASSUME RequestGracefulCloseTooLate, ~Terminal PROVE Ending
  <2>1. /\ status' = "closed" /\ Cleanup /\ phase' = phase /\ phase = "outside"
        /\ requested' = TRUE /\ outcome' = LateOutcome /\ ~requested
        /\ UNCHANGED <<events, reportVars, attemptVars, disconnectSeen>>
    BY <1>5 DEF RequestGracefulCloseTooLate, Outside
  <2>2. NotOver /\ status \notin Errors
    BY <1>1, <1>5 DEF NotOver, Terminal, TerminalStates
  <2>3. /\ reported' \in Nat /\ events' \in 0 .. MaxEvents
        /\ attempts' = attempts /\ attempts \in Nat /\ supports' \in Nat
        /\ firstClose' = firstClose /\ disconnectSeen' \in BOOLEAN
    BY <2>1 DEF DriverTypes, reportVars, attemptVars
  <2>4. firstClose # None => attempts > 0
    BY DEF Outcomes
  <2>5. outcome' \in {"server_disconnect_confirmed", "cancel_without_protocol_disconnect"}
    BY <2>1, <2>2 DEF LateOutcome
  <2>6. Outcomes'
    BY <2>1, <2>3, <2>4, <2>5 DEF Outcomes, NotOver
  <2>7. status' \in TerminalStates
    BY <2>1 DEF TerminalStates
  <2> QED
    BY <2>1, <2>2, <2>3, <2>6, <2>7 DEF Ending
<1>6. ASSUME ConfirmServerDisconnect, ~Terminal PROVE Ending
  <2>1. CloseWith("server_disconnect_confirmed") /\ disconnectSeen' = TRUE /\ NotOver
    BY <1>1, <1>6 DEF ConfirmServerDisconnect
  <2> QED
    BY <2>1, CloseWithEnds
<1> QED
  BY <1>2, <1>3, <1>4, <1>5, <1>6

LEMMA UpdateEndings ==
  ASSUME DriverInv
  PROVE  /\ RefuseUpdate => Ending
         /\ ContextualFails => Ending
         /\ RefuseDatagram => Ending
         /\ \A h, d : Receiving /\ ReceiveDatagram(h, d) /\ ~Admit(h, d) => Ending
         /\ AnswerFails => Ending
         /\ FinishLate => Ending
         /\ SendingFails => Ending
<1> USE DEF DriverInv
<1>1. /\ phase # "outside" => NotOver
      /\ {"network_error", "protocol_error"} \subseteq Errors
  BY DEF Course, NotOver, Errors
<1>2. UNCHANGED attemptVars =>
        /\ attempts' \in Nat /\ supports' \in Nat /\ attempts' >= attempts
        /\ UNCHANGED firstClose
  BY DEF DriverTypes, attemptVars
<1>3. ASSUME RefuseUpdate PROVE Ending
  BY <1>1, <1>3, BackpressureEnds DEF RefuseUpdate
<1>4. ASSUME ContextualFails PROVE Ending
  BY <1>1, <1>2, <1>4, TimeOutEnds, FailSendEnds DEF ContextualFails
<1>5. ASSUME RefuseDatagram PROVE Ending
  BY <1>1, <1>5, FailEnds DEF RefuseDatagram, Receiving
<1>6. ASSUME NEW h, NEW d, Receiving, ReceiveDatagram(h, d), ~Admit(h, d) PROVE Ending
  BY <1>1, <1>6, TimeOutEnds, BackpressureEnds DEF ReceiveDatagram, Receiving
<1>7. ASSUME AnswerFails PROVE Ending
  BY <1>1, <1>2, <1>7, FailSendEnds DEF AnswerFails
<1>8. ASSUME FinishLate PROVE Ending
  BY <1>1, <1>8, TimeOutEnds DEF FinishLate
<1>9. ASSUME SendingFails PROVE Ending
  BY <1>1, <1>2, <1>9, FailSendEnds, FailEnds DEF SendingFails, Sending
<1> QED
  BY <1>3, <1>4, <1>5, <1>6, <1>7, <1>8, <1>9

LEMMA CloseEndings ==
  ASSUME DriverInv
  PROVE  /\ CloseDeadline => Ending
         /\ CloseBackpressure => Ending
         /\ CloseFails => Ending
         /\ CloseAcknowledged => Ending
<1> USE DEF DriverInv
<1>1. /\ phase # "outside" => NotOver
      /\ phase \in {"closing", "closed?"} => requested
      /\ UNCHANGED disconnectSeen => disconnectSeen' \in BOOLEAN
  BY DEF Course, NotOver, DriverTypes
<1>2. ASSUME CloseDeadline PROVE Ending
  <2> DEFINE result == IF firstClose # None THEN "sent_but_unconfirmed" ELSE "send_failed"
  <2>1. CloseWith(result) /\ UNCHANGED disconnectSeen /\ NotOver /\ requested /\ phase = "closing"
    BY <1>1, <1>2 DEF CloseDeadline
  <2>2. /\ result \notin {"transport_acknowledged", "pending"}
        /\ result = "sent_but_unconfirmed" => firstClose # None /\ ~CloseCovered
        /\ result = "send_failed" => firstClose = None
    BY <2>1 DEF Outcomes
  <2> HIDE DEF result
  <2> QED
    BY <1>1, <2>1, <2>2, CloseWithEnds
<1>3. ASSUME CloseBackpressure PROVE Ending
  BY <1>1, <1>3, BackpressureEnds DEF CloseBackpressure, Closing
<1>4. ASSUME CloseFails PROVE Ending
  <2>1. /\ attempts' = attempts + One(IsTerminal) /\ supports' = supports + One(~IsTerminal)
        /\ FailSend /\ UNCHANGED firstClose /\ NotOver
    BY <1>1, <1>4 DEF CloseFails, CountAttempt, AttemptDue, Closing
  <2>2. attempts' \in Nat /\ supports' \in Nat /\ attempts' >= attempts
    BY <2>1 DEF One, DriverTypes
  <2> QED
    BY <2>1, <2>2, FailSendEnds
<1>5. ASSUME CloseAcknowledged PROVE Ending
  <2>1. /\ CloseWith("transport_acknowledged") /\ UNCHANGED disconnectSeen
        /\ NotOver /\ requested /\ CloseCovered
    BY <1>1, <1>5 DEF CloseAcknowledged
  <2> QED
    BY <1>1, <2>1, CloseWithEnds
<1> QED
  BY <1>2, <1>3, <1>4, <1>5

\* The steps that only take an update further.
LEMMA MovingSteps ==
  /\ EndReceiving => Moving
  /\ IgnoreDatagram => Moving
  /\ FinishReceiving => Moving
  /\ ContextualBlocks => Moving
  /\ EndSending => Moving
  /\ CloseWaits => Moving
  /\ CloseContinues => Moving
<1>1. EndReceiving => Moving
  BY DEF EndReceiving, Moving
<1>2. IgnoreDatagram => Moving
  BY DEF IgnoreDatagram, Receiving, Moving
<1>3. FinishReceiving => Moving
  BY DEF FinishReceiving, Moving
<1>4. ContextualBlocks => Moving
  BY DEF ContextualBlocks, LeaveUpdate, Moving
<1>5. EndSending => Moving
  BY DEF EndSending, LeaveUpdate, Moving
<1>6. CloseWaits => Moving
  BY DEF CloseWaits, NotAttempting, Closing, Moving
<1>7. CloseContinues => Moving
  BY DEF CloseContinues, LeaveUpdate, Moving
<1> QED
  BY <1>1, <1>2, <1>3, <1>4, <1>5, <1>6, <1>7

\* The requests and notices that come when the driver is over.
AfterTheEnd ==
  /\ Terminal
  /\ RequestGracefulCloseTooLate \/ ConfirmServerDisconnect

\* All steps, the endings and the moves of an update taken together.
LEMMA StepCases ==
  ASSUME DriverInv, DriverNext
  PROVE  \/ Ending \/ Moving \/ AfterTheEnd
         \/ Start \/ PollEvent \/ PrependRetainedPayload \/ RequestGracefulClose
         \/ \E n \in 1 .. MaxAccepted : DriverQueueReliable(n)
         \/ \E u \in 1 .. MaxUnreliable : SubmitUnreliable(u) \/ CommitUnreliable(u)
         \/ \E ticks \in Ticks : BeginUpdate(ticks)
         \/ SendContextual
         \/ Receiving /\ \E h \in NewerHeader : \E d \in DatagramsWith(h) :
                           ReceiveDatagram(h, d) /\ Admit(h, d)
         \/ AnswerFirst \/ AnswerNow \/ AnswerLater \/ AnswerNothing
         \/ SendPending \/ SendClose \/ CloseBlocks
<1>1. CASE OwnerStep
  BY <1>1, OwnerEndings DEF OwnerStep, AfterTheEnd
<1>2. CASE \E ticks \in Ticks : BeginUpdate(ticks)
  BY <1>2
<1>3. CASE UpdateStep
  BY <1>3, UpdateEndings, CloseEndings, MovingSteps, Zenon DEF UpdateStep
<1> QED
  BY <1>1, <1>2, <1>3 DEF DriverNext

-----------------------------------------------------------------------------
(* The driver's session is a NetchanSession.                               *)

LEMMA SizesTransmitted ==
  ASSUME DriverTypes
  PROVE  /\ 0 \in 0 .. MaxUnreliable /\ CloseSize \in 0 .. MaxUnreliable
         /\ unreliable \in 0 .. MaxUnreliable /\ Suffix \in 0 .. MaxUnreliable
  BY LimitsAssumption, ConfigurationAssumption DEF DriverTypes, Suffix

\* What the reassembler may make of a datagram.
LEMMA DatagramTypes ==
  ASSUME NEW h, NEW d \in DatagramsWith(h)
  PROVE  d.class \in Classifications /\ d.completes \in BOOLEAN /\ d.suffix \in BOOLEAN
<1>1. CASE d = Unfragmented
  BY <1>1 DEF Unfragmented, Classifications
<1>2. CASE d \in [class : {"new_fragment_unit"}, completes : BOOLEAN, suffix : BOOLEAN]
  BY <1>2 DEF Classifications
<1>3. CASE d \in [class : {"exact_fragment_retransmission"}, completes : {FALSE},
                  suffix : BOOLEAN]
  BY <1>3 DEF Classifications
<1> QED
  BY <1>1, <1>2, <1>3 DEF DatagramsWith, Fragments

LEMMA ClosePlanIsAPlan ==
  ASSUME ClosePlan # None
  PROVE  \E u \in {0, CloseSize} : CanPrepare(u) /\ ClosePlan = Plan(u)
  BY DEF ClosePlan

LEMMA SessionStep ==
  ASSUME DriverInv, [DriverNext]_driverVars
  PROVE  [Next]_sessionVars
<1> USE DEF DriverInv
<1>1. ASSUME \E u \in 0 .. MaxUnreliable : Transmit(u) PROVE Next
  BY <1>1 DEF Next
<1>2. CASE Ending
  BY <1>2 DEF Ending, Cleanup, Next
<1>3. CASE Moving
  BY <1>3 DEF Moving
<1>4. CASE AfterTheEnd
  BY <1>4 DEF AfterTheEnd, RequestGracefulCloseTooLate, ConfirmServerDisconnect, Idle
<1>5. CASE Start \/ PollEvent \/ PrependRetainedPayload \/ RequestGracefulClose
  BY <1>5 DEF Start, PollEvent, PrependRetainedPayload, RequestGracefulClose, Idle
<1>6. ASSUME NEW n \in 1 .. MaxAccepted, DriverQueueReliable(n) PROVE Next
  BY <1>6 DEF DriverQueueReliable, Next
<1>7. ASSUME NEW u \in 1 .. MaxUnreliable, SubmitUnreliable(u) \/ CommitUnreliable(u)
      PROVE  UNCHANGED sessionVars
  BY <1>7 DEF SubmitUnreliable, CommitUnreliable, Idle
<1>8. ASSUME NEW ticks \in Ticks, BeginUpdate(ticks) PROVE UNCHANGED sessionVars
  BY <1>8 DEF BeginUpdate
<1>9. ASSUME SendContextual PROVE Next
  <2>1. /\ CommitOutgoing(contextual.plan) /\ contextual # None
    BY <1>9 DEF SendContextual, SendPlan, Course
  <2>2. Transmit(contextual.offered) /\ contextual.offered \in 0 .. MaxUnreliable
    BY <2>1 DEF Context, Transmit
  <2> QED
    BY <1>1, <2>2
<1>10. ASSUME NEW h \in NewerHeader, NEW d \in DatagramsWith(h),
              ReceiveDatagram(h, d), Admit(h, d)
       PROVE  Next
  <2>1. Receive(h, d.class)
    BY <1>10 DEF ReceiveDatagram, Admit, Receive
  <2>2. d.class \in Classifications
    BY DatagramTypes
  <2> QED
    BY <2>1, <2>2 DEF Next
<1>11. ASSUME AnswerFirst PROVE Next
  BY <1>11 DEF AnswerFirst, Next
<1>12. ASSUME AnswerNow PROVE Next
  BY <1>1, <1>12, SizesTransmitted DEF AnswerNow, SendPlan, Transmit
<1>13. CASE AnswerLater \/ AnswerNothing
  BY <1>13 DEF AnswerLater, AnswerNothing
<1>14. ASSUME SendPending PROVE Next
  BY <1>1, <1>14, SizesTransmitted DEF SendPending, SendPlan, Transmit
<1>15. ASSUME SendClose PROVE Next
  <2>1. ClosePlan # None /\ CommitOutgoing(ClosePlan)
    BY <1>15 DEF SendClose, SendPlan, AttemptDue
  <2>2. PICK u \in {0, CloseSize} : CanPrepare(u) /\ ClosePlan = Plan(u)
    BY <2>1, ClosePlanIsAPlan
  <2>3. Transmit(u) /\ u \in 0 .. MaxUnreliable
    BY <2>1, <2>2, SizesTransmitted DEF Transmit
  <2> QED
    BY <1>1, <2>3
<1>16. CASE CloseBlocks
  BY <1>16 DEF CloseBlocks
<1>17. CASE UNCHANGED driverVars
  BY <1>17 DEF driverVars
<1>18. CASE DriverNext
  BY <1>2, <1>3, <1>4, <1>5, <1>6, <1>7, <1>8, <1>9, <1>10, <1>11, <1>12, <1>13, <1>14,
     <1>15, <1>16, <1>18, StepCases
<1> QED
  BY <1>17, <1>18

-----------------------------------------------------------------------------
(* Every step keeps the invariant.                                         *)

LEMMA SessionKeepsTypes ==
  ASSUME DriverInv, [DriverNext]_driverVars
  PROVE  CurrentUnitInv'
  BY SessionStep, CurrentUnitStep DEF DriverInv

\* A step that leaves the session, and what the driver has prepared for it, alone.
LEMMA ContextStays ==
  ASSUME Context, UNCHANGED <<sessionVars, contextual, unreliable, status, requested>>,
         contextual # None => phase' \in {"outside", "contextual", "backpressure"}
  PROVE  Context'
  BY PreparedIsAFunctionOfTheSession DEF Context

LEMMA EndingKeeps == DriverInv /\ CurrentUnitInv' /\ Ending => DriverInv'
<1> SUFFICES ASSUME DriverInv, CurrentUnitInv', Ending PROVE DriverInv'
  OBVIOUS
<1> USE DEF DriverInv
<1>1. /\ status' \in TerminalStates /\ phase' = "outside" /\ Outcomes'
      /\ transfer' = None /\ inFlight' = None /\ pending' = <<>>
      /\ unreliable' = 0 /\ contextual' = None /\ assembling' = None /\ ackPending' = FALSE
  BY DEF Ending, Cleanup, ClearReliableState
<1>2. DriverTypes'
  BY <1>1, SizesTransmitted DEF DriverTypes, Ending, Phases
<1>3. ~NotOver'
  BY <1>1 DEF NotOver, TerminalStates, Errors
<1>4. Course' /\ Context' /\ Room' /\ Timely'
  BY <1>1 DEF Course, Context, Room, Timely
<1>5. Owed' /\ Accounted'
  BY <1>3 DEF Owed, Accounted
<1>6. Over'
  BY <1>1 DEF Over
<1> QED
  BY <1>1, <1>2, <1>4, <1>5, <1>6

LEMMA MovingKeeps == DriverInv /\ CurrentUnitInv' /\ Moving => DriverInv'
<1> SUFFICES ASSUME DriverInv, CurrentUnitInv', Moving PROVE DriverInv'
  OBVIOUS
<1> USE DEF DriverInv
<1>1. /\ UNCHANGED <<sessionVars, status, ackPending, unreliable, contextual, events,
                     sinceValid, assembling, requested, outcome, disconnectSeen,
                     attempts, supports, firstClose, sentAck, reported>>
      /\ UNCHANGED <<incomingReliableAck, peerAck, transfer, inFlight, pending, retired>>
  BY DEF Moving, pendingVars, clockVars, closeVars, attemptVars, reportVars, sessionVars,
         incomingVars, reliableVars, historyVars
<1>2. /\ phase' \in Phases /\ phase \notin {"outside", "answer"} /\ phase' # "answer"
      /\ phase' # "contextual"
      /\ phase' = "closed?" => requested
      /\ phase' \in {"finish", "send"} => ~requested
      /\ phase' = "send" => ~Expired
      /\ phase' \notin {"closing", "backpressure"}
      /\ contextual # None => phase' = "outside"
      /\ phase' = "outside" => ~requested \/ ~CloseCovered
  BY DEF Moving, Phases, Course, Context
<1>3. DriverTypes'
  BY <1>1, <1>2 DEF DriverTypes
<1>4. Course'
  BY <1>1, <1>2 DEF Course
<1>5. Context'
  BY <1>1, <1>2, ContextStays
<1>6. Room' /\ Owed' /\ Accounted'
  BY <1>1, <1>2 DEF Room, Owed, NotOver, Accounted, Unreported, Delivered
<1>7. Outcomes' /\ Over'
  BY <1>1, <1>2 DEF Outcomes, CloseCovered, NotOver, Over, Terminal
<1>8. Timely'
  BY <1>1, <1>2 DEF Timely, Expired, FragmentExpired
<1> QED
  BY <1>3, <1>4, <1>5, <1>6, <1>7, <1>8

LEMMA AfterTheEndKeeps == DriverInv /\ CurrentUnitInv' /\ AfterTheEnd => DriverInv'
<1> SUFFICES ASSUME DriverInv, CurrentUnitInv', AfterTheEnd PROVE DriverInv'
  OBVIOUS
<1> USE DEF DriverInv
<1>1. /\ Terminal /\ phase = "outside"
      /\ UNCHANGED <<sessionVars, status, phase, ackPending, unreliable, contextual, events,
                     assembling, attempts, supports, firstClose, reported>>
      /\ UNCHANGED <<peerAck, transfer, inFlight, pending>>
  BY DEF AfterTheEnd, RequestGracefulCloseTooLate, ConfirmServerDisconnect, Outside, Idle,
         pendingVars, clockVars, attemptVars, reportVars, sessionVars, incomingVars,
         reliableVars
<1>2. \/ ~requested /\ requested' = TRUE /\ outcome' = LateOutcome
         /\ disconnectSeen' = disconnectSeen
      \/ /\ requested' = requested /\ disconnectSeen' = TRUE
         /\ outcome' = IF status \in Errors THEN outcome ELSE "server_disconnect_confirmed"
  BY DEF AfterTheEnd, RequestGracefulCloseTooLate, ConfirmServerDisconnect
<1>3. DriverTypes'
  BY <1>1, <1>2 DEF DriverTypes
<1>4. Course' /\ Room' /\ Timely'
  BY <1>1 DEF Course, Room, Timely
<1>5. contextual = None /\ ~NotOver
  BY <1>1 DEF Over, NotOver, Terminal, TerminalStates, Errors
<1>6. Context' /\ Owed' /\ Accounted' /\ Over'
  BY <1>1, <1>5 DEF Context, Owed, Accounted, NotOver, Over, Terminal
<1>7. Outcomes'
  <2>1. outcome' = outcome \/ outcome' \in {"fatal_failure", "server_disconnect_confirmed",
                                            "cancel_without_protocol_disconnect"}
    BY <1>2 DEF LateOutcome
  <2> QED
    BY <1>1, <1>2, <1>5, <2>1 DEF Outcomes, CloseCovered, NotOver, DriverTypes
<1> QED
  BY <1>3, <1>4, <1>6, <1>7

\* What the owner does while the driver is at rest.
LEMMA OwnerKeeps ==
  ASSUME DriverInv, CurrentUnitInv',
         \/ Start \/ PollEvent \/ PrependRetainedPayload \/ RequestGracefulClose
         \/ \E n \in 1 .. MaxAccepted : DriverQueueReliable(n)
         \/ \E u \in 1 .. MaxUnreliable : SubmitUnreliable(u) \/ CommitUnreliable(u)
  PROVE  DriverInv'
<1> USE DEF DriverInv
<1>1. ASSUME Start PROVE DriverInv'
  <2>1. /\ status = "idle" /\ status' = "active" /\ phase = "outside"
        /\ UNCHANGED <<sessionVars, phase, ackPending, unreliable, contextual, events,
                       requested, outcome, disconnectSeen, attempts, supports, firstClose,
                       sentAck, reported>>
        /\ UNCHANGED <<incomingReliableAck, peerAck, transfer, retired>>
    BY <1>1 DEF Start, Outside, pendingVars, closeVars, attemptVars, reportVars, sessionVars,
                incomingVars, reliableVars, historyVars
  <2>2. DriverTypes' /\ Course' /\ Room' /\ Timely'
    BY <2>1 DEF DriverTypes, Course, Room, Timely
  <2>3. Context'
    BY <2>1 DEF Context
  <2>4. Owed' /\ Accounted'
    BY <2>1 DEF Owed, Accounted, NotOver, Unreported, Delivered
  <2>5. Outcomes' /\ Over'
    BY <2>1 DEF Outcomes, CloseCovered, NotOver, Over, Terminal, TerminalStates, Errors
  <2> QED
    BY <2>2, <2>3, <2>4, <2>5
<1>2. ASSUME PollEvent \/ PrependRetainedPayload PROVE DriverInv'
  <2>1. /\ events' \in 0 .. MaxEvents /\ phase = "outside"
        /\ UNCHANGED <<sessionVars, status, phase, ackPending, unreliable, contextual,
                       sinceValid, assembling, requested, outcome, disconnectSeen, attempts,
                       supports, firstClose, sentAck, reported>>
        /\ UNCHANGED <<incomingReliableAck, peerAck, transfer, inFlight, pending, retired>>
    BY <1>2, ConfigurationAssumption
    DEF PollEvent, PrependRetainedPayload, Outside, Idle, DriverTypes, pendingVars, clockVars,
        closeVars, attemptVars, reportVars, sessionVars, incomingVars, reliableVars,
        historyVars
  <2>2. DriverTypes' /\ Course' /\ Room' /\ Timely'
    BY <2>1 DEF DriverTypes, Course, Room, Timely
  <2>3. Context'
    BY <2>1, ContextStays
  <2>4. Owed' /\ Accounted'
    BY <2>1 DEF Owed, Accounted, NotOver, Unreported, Delivered
  <2>5. Outcomes' /\ Over'
    BY <2>1 DEF Outcomes, CloseCovered, NotOver, Over, Terminal
  <2> QED
    BY <2>2, <2>3, <2>4, <2>5
<1>3. ASSUME RequestGracefulClose PROVE DriverInv'
  <2>1. /\ status = "active" /\ phase = "outside" /\ ~requested
        /\ requested' = TRUE /\ outcome' = "pending"
        /\ contextual' = None /\ unreliable' = 0
        /\ UNCHANGED <<status, phase, ackPending, events, disconnectSeen, attempts, supports,
                       firstClose, sentAck, reported>>
        /\ UNCHANGED <<incomingReliableAck, peerAck, transfer, retired>>
    BY <1>3 DEF RequestGracefulClose, Outside, Idle, attemptVars, reportVars, sessionVars,
                incomingVars, reliableVars, historyVars
  <2>2. DriverTypes' /\ Course' /\ Room' /\ Timely' /\ Context'
    BY <2>1, SizesTransmitted DEF DriverTypes, Course, Room, Timely, Context
  <2>3. Owed' /\ Accounted'
    BY <2>1 DEF Owed, Accounted, NotOver, Unreported, Delivered
  <2>4. Outcomes' /\ Over'
    BY <2>1 DEF Outcomes, CloseCovered, NotOver, Over, Terminal, TerminalStates, Errors
  <2> QED
    BY <2>2, <2>3, <2>4
<1>4. ASSUME NEW n \in 1 .. MaxAccepted, DriverQueueReliable(n) PROVE DriverInv'
  <2>1. /\ status = "active" /\ phase = "outside" /\ contextual = None
        /\ UNCHANGED <<status, phase, ackPending, unreliable, contextual, events, requested,
                       outcome, disconnectSeen, attempts, supports, firstClose, sentAck,
                       reported>>
        /\ UNCHANGED <<incomingReliableAck, peerAck, transfer, retired>>
    BY <1>4 DEF DriverQueueReliable, QueueReliable, Accepts, Outside, pendingVars, closeVars,
                attemptVars, reportVars, incomingVars
  <2>2. DriverTypes' /\ Course' /\ Room' /\ Timely' /\ Context'
    BY <2>1 DEF DriverTypes, Course, Room, Timely, Context
  <2>3. Owed' /\ Accounted'
    BY <2>1 DEF Owed, Accounted, NotOver, Unreported, Delivered
  <2>4. Outcomes' /\ Over'
    BY <2>1 DEF Outcomes, CloseCovered, NotOver, Over, Terminal, TerminalStates, Errors
  <2> QED
    BY <2>2, <2>3, <2>4
<1>5. ASSUME NEW u \in 1 .. MaxUnreliable, SubmitUnreliable(u) \/ CommitUnreliable(u)
      PROVE  DriverInv'
  <2>1. /\ status = "active" /\ phase = "outside" /\ ~requested
        /\ UNCHANGED <<sessionVars, status, phase, ackPending, events, requested,
                       outcome, disconnectSeen, attempts, supports, firstClose, sentAck,
                       reported>>
        /\ UNCHANGED <<incomingReliableAck, peerAck, transfer, retired>>
    BY <1>5 DEF SubmitUnreliable, CommitUnreliable, Accepts, Outside, Idle, closeVars,
                attemptVars, reportVars, sessionVars, incomingVars, reliableVars, historyVars
  <2>2. /\ unreliable' \in 0 .. MaxUnreliable
        /\ contextual' # None =>
             /\ contextual'.plan = Plan(contextual'.offered)
             /\ CanPrepare(contextual'.offered)
             /\ contextual'.offered \in 1 .. MaxUnreliable
             /\ unreliable' = 0
    BY <1>5 DEF SubmitUnreliable, CommitUnreliable, DriverTypes
  <2>3. DriverTypes' /\ Course' /\ Room' /\ Timely'
    BY <2>1, <2>2 DEF DriverTypes, Course, Room, Timely
  <2>4. Context'
    BY <2>1, <2>2, PreparedIsAFunctionOfTheSession DEF Context
  <2>5. Owed' /\ Accounted'
    BY <2>1 DEF Owed, Accounted, NotOver, Unreported, Delivered
  <2>6. Outcomes' /\ Over'
    BY <2>1 DEF Outcomes, CloseCovered, NotOver, Over, Terminal, TerminalStates, Errors
  <2> QED
    BY <2>3, <2>4, <2>5, <2>6
<1> QED
  BY <1>1, <1>2, <1>3, <1>4, <1>5

LEMMA BeginUpdateKeeps ==
  ASSUME DriverInv, CurrentUnitInv', NEW ticks \in Ticks, BeginUpdate(ticks)
  PROVE  DriverInv'
<1> USE DEF DriverInv
<1>1. /\ status = "active" /\ phase = "outside"
      /\ UNCHANGED <<sessionVars, status, ackPending, unreliable, contextual, events,
                     requested, outcome, disconnectSeen, attempts, supports, firstClose,
                     sentAck, reported>>
      /\ UNCHANGED <<incomingReliableAck, peerAck, transfer, retired>>
  BY DEF BeginUpdate, Outside, pendingVars, reportVars, sessionVars, incomingVars,
         reliableVars, historyVars
<1>2. \/ phase' = "closing" /\ requested
      \/ phase' = "backpressure" /\ ~requested
      \/ phase' = "contextual" /\ ~requested /\ contextual # None
      \/ phase' = "receive" /\ contextual = None
  <2>1. events < MaxEvents \/ events = MaxEvents
    BY ConfigurationAssumption DEF DriverTypes
  <2>2. requested => contextual = None
    BY DEF Context
  <2> QED
    BY <2>1, <2>2 DEF BeginUpdate, DriverTypes
<1>3. phase' \in {"closing", "backpressure", "contextual", "receive"}
  BY <1>2
<1>4. DriverTypes'
  BY <1>1, <1>3 DEF DriverTypes, Phases
<1>5. Course' /\ Room' /\ Timely'
  BY <1>1, <1>2, <1>3 DEF Course, Room, Timely
<1>6. Context'
  <2>1. contextual # None => phase' \in {"outside", "contextual", "backpressure"}
    BY <1>2 DEF Context
  <2> QED
    BY <1>1, <2>1, ContextStays
<1>7. Owed' /\ Accounted'
  BY <1>1, <1>3 DEF Owed, Accounted, NotOver, Unreported, Delivered
<1>8. Outcomes' /\ Over'
  BY <1>1 DEF Outcomes, CloseCovered, NotOver, Over, Terminal, TerminalStates, Errors
<1> QED
  BY <1>4, <1>5, <1>6, <1>7, <1>8

(* A datagram sent leaves what is reported as it was: it takes a payload    *)
(* into flight or into a transfer, of which nothing is acknowledged yet.    *)
LEMMA SendPlanDelivers ==
  ASSUME CurrentUnitInv, NEW u, SendPlan(Plan(u))
  PROVE  /\ Delivered' = Delivered /\ retired' = retired
         /\ incomingReliableAck' = incomingReliableAck
         /\ sentAck' = incomingReliableAck
<1> DEFINE p == Plan(u)
<1>1. CommitOutgoing(p) /\ sentAck' = p.ackReliable /\ p.ackReliable = incomingReliableAck
  BY DEF SendPlan, Plan
<1>2. p.decision = "send_new_fragment" /\ transfer = None =>
        /\ p.index = 1
        /\ [bytes |-> pending, count |-> p.count, index |-> p.index] # None
  BY PlanType, NewRecords, NoneAssumption DEF CurrentUnitInv
<1> HIDE DEF p
<1>3. \/ transfer' = transfer
      \/ /\ p.decision = "send_new_fragment" /\ transfer = None
         /\ transfer' = [bytes |-> pending, count |-> p.count, index |-> p.index]
  BY <1>1 DEF CommitOutgoing, CommitNew, CommitNewFragment, CommitRetransmission,
              CommitWithoutReliable, reliableVars
<1>4. Delivered' = Delivered
  <2>1. CASE transfer' = transfer
    BY <2>1 DEF Delivered
  <2>2. CASE transfer' # transfer
    <3>1. transfer = None /\ transfer' # None /\ transfer'.index = 1
      BY <1>2, <1>3, <2>2
    <3>2. Delivered = 0 /\ Delivered' = (1 - 1) * FragmentSize
      BY <3>1 DEF Delivered
    <3> QED
      BY <3>2, LimitsAssumption
  <2> QED
    BY <2>1, <2>2
<1> QED
  BY <1>1, <1>4 DEF CommitOutgoing, incomingVars, historyVars

LEMMA SendContextualKeeps == DriverInv /\ CurrentUnitInv' /\ SendContextual => DriverInv'
<1> SUFFICES ASSUME DriverInv, CurrentUnitInv', SendContextual PROVE DriverInv'
  OBVIOUS
<1> USE DEF DriverInv
<1>1. /\ phase = "contextual" /\ phase' = "receive" /\ status = "active" /\ ~requested
      /\ contextual # None /\ contextual' = None /\ ackPending' = FALSE
      /\ UNCHANGED <<status, unreliable, events, requested, outcome, disconnectSeen,
                     attempts, supports, firstClose, reported>>
  BY DEF SendContextual, Course, closeVars, attemptVars
<1>2. SendPlan(Plan(contextual.offered))
  BY <1>1 DEF SendContextual, Context
<1>3. /\ Delivered' = Delivered /\ retired' = retired
      /\ incomingReliableAck' = incomingReliableAck /\ sentAck' = incomingReliableAck
  BY <1>2, SendPlanDelivers
<1>4. DriverTypes' /\ Course' /\ Context' /\ Room' /\ Timely'
  BY <1>1 DEF DriverTypes, Phases, Course, Context, Room, Timely
<1>5. Owed' /\ Accounted'
  BY <1>1, <1>3 DEF Owed, Accounted, NotOver, Unreported
<1>6. Outcomes' /\ Over'
  BY <1>1 DEF Outcomes, NotOver, Over, Terminal, TerminalStates, Errors
<1> QED
  BY <1>4, <1>5, <1>6

LEMMA SendPendingKeeps == DriverInv /\ CurrentUnitInv' /\ SendPending => DriverInv'
<1> SUFFICES ASSUME DriverInv, CurrentUnitInv', SendPending PROVE DriverInv'
  OBVIOUS
<1> USE DEF DriverInv
<1>1. /\ phase = "send" /\ phase' = "send" /\ status = "active" /\ ~requested
      /\ unreliable' = KeepUnlessSent /\ ackPending' = FALSE
      /\ UNCHANGED <<status, contextual, events, sinceValid, assembling, requested, outcome,
                     disconnectSeen, attempts, supports, firstClose, reported>>
      /\ SendPlan(Plan(Suffix))
  BY DEF SendPending, Sending, Course, closeVars, attemptVars
<1>2. /\ Delivered' = Delivered /\ retired' = retired
      /\ incomingReliableAck' = incomingReliableAck /\ sentAck' = incomingReliableAck
  BY <1>1, SendPlanDelivers
<1>3. contextual = None /\ unreliable' \in 0 .. MaxUnreliable
  BY <1>1, SizesTransmitted DEF Context, KeepUnlessSent
<1>4. DriverTypes' /\ Course' /\ Context' /\ Room'
  BY <1>1, <1>3 DEF DriverTypes, Course, Context, Room
<1>5. Timely'
  BY <1>1 DEF Timely, Expired, FragmentExpired
<1>6. Owed' /\ Accounted'
  BY <1>1, <1>2 DEF Owed, Accounted, NotOver, Unreported
<1>7. Outcomes' /\ Over'
  BY <1>1 DEF Outcomes, NotOver, Over, Terminal, TerminalStates, Errors
<1> QED
  BY <1>4, <1>5, <1>6, <1>7

\* A first close that was sent has been counted.
LEMMA AttemptCounted ==
  ASSUME DriverInv, CountAttempt
  PROVE  /\ attempts' \in Nat /\ supports' \in Nat /\ attempts' >= attempts
         /\ firstClose' = firstClose => (firstClose' # None => attempts' > 0)
         /\ firstClose' = FirstCloseSent => (firstClose' # None => attempts' > 0)
         /\ firstClose' = FirstCloseSent => (firstClose # None => firstClose' # None)
<1>1. /\ attempts' = attempts + One(IsTerminal) /\ supports' = supports + One(~IsTerminal)
      /\ attempts \in Nat /\ supports \in Nat
      /\ firstClose # None => attempts > 0
  BY DEF CountAttempt, DriverInv, DriverTypes, Outcomes
<1>2. /\ One(IsTerminal) = IF IsTerminal THEN 1 ELSE 0
      /\ One(~IsTerminal) = IF IsTerminal THEN 0 ELSE 1
  BY DEF One
<1> QED
  BY <1>1, <1>2 DEF FirstCloseSent

LEMMA SendCloseKeeps == DriverInv /\ CurrentUnitInv' /\ SendClose => DriverInv'
<1> SUFFICES ASSUME DriverInv, CurrentUnitInv', SendClose PROVE DriverInv'
  OBVIOUS
<1> USE DEF DriverInv
<1>1. /\ phase = "closing" /\ phase' = "receive" /\ status = "active" /\ requested
      /\ ClosePlan # None /\ SendPlan(ClosePlan) /\ CountAttempt
      /\ firstClose' = FirstCloseSent
      /\ UNCHANGED <<status, ackPending, unreliable, contextual, events, requested, outcome,
                     disconnectSeen, reported>>
  BY DEF SendClose, AttemptDue, Closing, Course, pendingVars, closeVars
<1>2. PICK u \in {0, CloseSize} : ClosePlan = Plan(u)
  BY <1>1, ClosePlanIsAPlan
<1>3. /\ Delivered' = Delivered /\ retired' = retired
      /\ incomingReliableAck' = incomingReliableAck /\ sentAck' = incomingReliableAck
  BY <1>1, <1>2, SendPlanDelivers
<1>4. DriverTypes'
  BY <1>1, AttemptCounted DEF DriverTypes, Phases
<1>5. Course' /\ Context' /\ Room' /\ Timely'
  BY <1>1 DEF Course, Context, Room, Timely
<1>6. Owed' /\ Accounted'
  BY <1>1, <1>3 DEF Owed, Accounted, NotOver, Unreported
<1>7. Outcomes' /\ Over'
  BY <1>1, AttemptCounted DEF Outcomes, NotOver, Over, Terminal, TerminalStates, Errors
<1> QED
  BY <1>4, <1>5, <1>6, <1>7

LEMMA CloseBlocksKeeps == DriverInv /\ CurrentUnitInv' /\ CloseBlocks => DriverInv'
<1> SUFFICES ASSUME DriverInv, CurrentUnitInv', CloseBlocks PROVE DriverInv'
  OBVIOUS
<1> USE DEF DriverInv
<1>1. /\ phase = "closing" /\ phase' = "receive" /\ status = "active" /\ requested
      /\ CountAttempt /\ firstClose' = firstClose
      /\ UNCHANGED <<sessionVars, status, ackPending, unreliable, contextual, events,
                     requested, outcome, disconnectSeen, sentAck, reported>>
      /\ UNCHANGED <<incomingReliableAck, transfer, retired>>
  BY DEF CloseBlocks, AttemptDue, Closing, Course, pendingVars, closeVars, reportVars,
         sessionVars, incomingVars, reliableVars, historyVars
<1>2. DriverTypes'
  BY <1>1, AttemptCounted DEF DriverTypes, Phases
<1>3. Course' /\ Context' /\ Room' /\ Timely'
  BY <1>1 DEF Course, Context, Room, Timely
<1>4. Owed' /\ Accounted'
  BY <1>1 DEF Owed, Accounted, NotOver, Unreported, Delivered
<1>5. Outcomes' /\ Over'
  BY <1>1, AttemptCounted DEF Outcomes, NotOver, Over, Terminal, TerminalStates, Errors
<1> QED
  BY <1>2, <1>3, <1>4, <1>5

-----------------------------------------------------------------------------
(* Receiving.  What an acknowledgement releases is reported when, and only  *)
(* when, it is the last of its payload.                                    *)

LEMMA ReleasedUnits ==
  ASSUME CurrentUnitInv, NEW i, CommitIncoming(i)
  PROVE  LET told == IF CompletesReliable(i) THEN ReliableInFlight ELSE 0
         IN  told \in Nat /\ retired' - Delivered' = retired - Delivered + told
<1> DEFINE told == IF CompletesReliable(i) THEN ReliableInFlight ELSE 0
<1>1. retired \in Nat
  BY DEF CurrentUnitInv, TypeOK
<1>2. CASE ~Releases(i)
  <2>1. told = 0 /\ UNCHANGED <<transfer, retired>>
    BY <1>2 DEF CommitIncoming, CompletesReliable
  <2>2. Delivered \in Int
    <3>1. CASE transfer = None
      BY <3>1 DEF Delivered
    <3>2. CASE transfer # None
      <4>1. transfer.index \in Int /\ FragmentSize \in Int
        BY <3>2, LimitsAssumption DEF CurrentUnitInv, TypeOK, FragmentTransfer
      <4> QED
        BY <3>2, <4>1 DEF Delivered
    <3> QED
      BY <3>1, <3>2
  <2>3. Delivered' = Delivered
    BY <2>1 DEF Delivered
  <2> QED
    BY <1>1, <2>1, <2>2, <2>3
<1>3. CASE Releases(i) /\ ReleaseInFlight
  <2>1. /\ inFlight # None /\ inFlight.bytes \in Seq(Nat)
        /\ retired' = retired + Len(inFlight.bytes)
    BY <1>3 DEF Releases, ReleaseInFlight, CurrentUnitInv, TypeOK, InFlightPayload
  <2>2. CASE transfer = None
    <3>1. told = Len(inFlight.bytes) /\ Delivered = 0 /\ Delivered' = 0
      BY <1>3, <2>2 DEF CompletesReliable, ReliableInFlight, ReleaseInFlight, Delivered
    <3> QED
      BY <1>1, <2>1, <3>1
  <2>3. CASE transfer # None
    <3> DEFINE bytes == transfer.bytes
               index == transfer.index
               count == FragmentCount(Len(bytes))
    <3>1. /\ transfer \in FragmentTransfer /\ bytes \in Seq(Nat) /\ Len(bytes) > 0
          /\ transfer.count = count /\ index \in 1 .. count
          /\ inFlight.bytes = FragmentOf(bytes, index)
      BY <2>1, <2>3 DEF CurrentUnitInv, TypeOK, FragmentTransfer, InFlightIsCurrentUnit
    <3>2. /\ Len(inFlight.bytes) = IF index < count THEN FragmentSize
                                   ELSE Len(bytes) - (index - 1) * FragmentSize
          /\ (index - 1) * FragmentSize \in Nat
          /\ index * FragmentSize = (index - 1) * FragmentSize + FragmentSize
          /\ count \in Nat /\ FragmentSize \in Nat
      <4>1. Len(bytes) \in Nat \ {0}
        BY <3>1
      <4>2. count \in Nat /\ FragmentSize \in Nat
        BY <4>1, FragmentCountProperties, LimitsAssumption
      <4>3. /\ (index - 1) * FragmentSize \in Nat
            /\ index * FragmentSize = (index - 1) * FragmentSize + FragmentSize
        BY <3>1, <4>1, FragmentOffsets
      <4>4. Len(FragmentOf(bytes, index)) = IF index < count THEN FragmentSize
                                            ELSE Len(bytes) - (index - 1) * FragmentSize
        BY <3>1, FragmentOfProperties
      <4> QED
        BY <3>1, <4>2, <4>3, <4>4
    <3>3. Delivered = (index - 1) * FragmentSize
      BY <2>3 DEF Delivered
    <3>4. CASE index < count
      <4>1. told = 0
        BY <2>3, <3>1, <3>2, <3>4 DEF CompletesReliable
      <4>2. transfer' = [transfer EXCEPT !.index = @ + 1]
        BY <1>3, <2>3, <3>1, <3>4 DEF ReleaseInFlight
      <4>3. transfer' \in FragmentTransfer /\ transfer'.index = index + 1
        BY <3>1, <4>2 DEF FragmentTransfer
      <4>4. Delivered' = ((index + 1) - 1) * FragmentSize
        BY <4>3, NoneAssumption DEF Delivered
      <4>5. (index + 1) - 1 = index
        BY <3>1, <3>2
      <4> QED
        BY <1>1, <2>1, <3>2, <3>3, <3>4, <4>1, <4>4, <4>5
    <3>5. CASE ~(index < count)
      <4>1. index = count
        BY <3>1, <3>2, <3>5
      <4>2. told = Len(bytes)
        BY <1>3, <2>3, <3>1, <4>1 DEF CompletesReliable, ReliableInFlight
      <4>3. transfer' = None /\ Delivered' = 0
        BY <1>3, <2>3, <3>1, <3>5 DEF ReleaseInFlight, Delivered
      <4>4. Len(bytes) \in Nat
        BY <3>1
      <4> QED
        BY <1>1, <2>1, <3>2, <3>3, <3>5, <4>2, <4>3, <4>4
    <3> QED
      BY <3>4, <3>5
  <2> QED
    BY <2>2, <2>3
<1> QED
  BY <1>2, <1>3 DEF CommitIncoming

\* What is pushed, counted.
LEMMA PushedCount ==
  ASSUME NEW a
  PROVE  /\ Len(Pushed(a)) \in Nat
         /\ Len(Pushed(a)) =
              One(a.acknowledges) + One(a.started) + 2 * One(a.datagram.completes)
              + One(a.datagram.suffix) + One(a.datagram = Unfragmented)
<1> DEFINE Names == {"reliable_payload_acknowledged", "normal_transfer_started",
                     "normal_transfer_completed", "payload_ready"}
<1>2. \A c : \A e \in Names :
        Push(c, e) \in Seq(Names) /\ Len(Push(c, e)) = One(c) /\ One(c) \in Nat
  <2> SUFFICES ASSUME NEW c, NEW e \in Names
               PROVE  Push(c, e) \in Seq(Names) /\ Len(Push(c, e)) = One(c) /\ One(c) \in Nat
    OBVIOUS
  <2> HIDE DEF Names
  <2>1. <<>> \in Seq(Names) /\ Len(<<>>) = 0 /\ <<e>> \in Seq(Names) /\ Len(<<e>>) = 1
    OBVIOUS
  <2>2. CASE c
    <3>1. Push(c, e) = <<e>> /\ One(c) = 1
      BY <2>2 DEF Push, One
    <3> QED
      BY <2>1, <3>1
  <2>3. CASE ~c
    <3>1. Push(c, e) = <<>> /\ One(c) = 0
      BY <2>3 DEF Push, One
    <3> QED
      BY <2>1, <3>1
  <2> QED
    BY <2>2, <2>3
<1> HIDE DEF Names
<1>3. \A q, r \in Seq(Names) : q \o r \in Seq(Names) /\ Len(q \o r) = Len(q) + Len(r)
  OBVIOUS
<1> DEFINE p1 == Push(a.acknowledges, "reliable_payload_acknowledged")
           p2 == Push(a.started, "normal_transfer_started")
           p3 == Push(a.datagram.completes, "normal_transfer_completed")
           p4 == Push(a.datagram.completes, "payload_ready")
           p5 == Push(a.datagram.suffix, "payload_ready")
           p6 == Push(a.datagram = Unfragmented, "payload_ready")
<1>4. /\ p1 \in Seq(Names) /\ p2 \in Seq(Names) /\ p3 \in Seq(Names)
      /\ p4 \in Seq(Names) /\ p5 \in Seq(Names) /\ p6 \in Seq(Names)
      /\ Len(p1) = One(a.acknowledges) /\ Len(p2) = One(a.started)
      /\ Len(p3) = One(a.datagram.completes) /\ Len(p4) = One(a.datagram.completes)
      /\ Len(p5) = One(a.datagram.suffix) /\ Len(p6) = One(a.datagram = Unfragmented)
  BY <1>2 DEF Names
<1>5. Pushed(a) = p1 \o p2 \o p3 \o p4 \o p5 \o p6
  BY DEF Pushed
<1> HIDE DEF p1, p2, p3, p4, p5, p6
<1>6. Len(p1 \o p2 \o p3 \o p4 \o p5 \o p6) =
        Len(p1) + Len(p2) + Len(p3) + Len(p4) + Len(p5) + Len(p6)
  BY <1>3, <1>4
<1>7. /\ One(a.acknowledges) \in Nat /\ One(a.started) \in Nat
      /\ One(a.datagram.completes) \in Nat /\ One(a.datagram.suffix) \in Nat
      /\ One(a.datagram = Unfragmented) \in Nat
  BY <1>2 DEF Names
<1> QED
  BY <1>4, <1>5, <1>6, <1>7

\* The room asked for before the commit is what the receipt then makes the
\* driver push.
LEMMA RoomAskedFor ==
  ASSUME NEW h \in NewerHeader, NEW d \in DatagramsWith(h), Admit(h, d)
  PROVE  Len(Pushed(admitted')) = RequiredEvents(d, Inspection(h, d.class))
<1> DEFINE i == Inspection(h, d.class)
<1>1. /\ admitted'.datagram = d /\ admitted'.started = Starts(d)
      /\ admitted'.acknowledges = CompletesReliable(i)
  BY DEF Admit
<1>2. Len(Pushed(admitted')) =
        One(CompletesReliable(i)) + One(Starts(d)) + 2 * One(d.completes)
        + One(d.suffix) + One(d = Unfragmented)
  BY <1>1, PushedCount
<1>3. \A c : One(c) \in {0, 1}
  BY DEF One
<1>4. CASE d = Unfragmented
  <2>1. One(Starts(d)) = 0 /\ One(d.completes) = 0 /\ One(d.suffix) = 0
        /\ One(d = Unfragmented) = 1
    BY <1>4 DEF Starts, Unfragmented, One
  <2>2. One(CompletesReliable(i)) = IF CompletesReliable(i) THEN 1 ELSE 0
    BY DEF One
  <2> QED
    BY <1>2, <1>4, <2>1, <2>2 DEF RequiredEvents
<1>5. CASE d # Unfragmented
  <2>1. One(d = Unfragmented) = 0
    BY <1>5 DEF One
  <2> QED
    BY <1>2, <1>3, <1>5, <2>1 DEF RequiredEvents, PlannedEvents
<1> QED
  BY <1>4, <1>5

LEMMA AdmitKeeps ==
  ASSUME DriverInv, CurrentUnitInv', Receiving,
         NEW h \in NewerHeader, NEW d \in DatagramsWith(h), ReceiveDatagram(h, d), Admit(h, d)
  PROVE  DriverInv'
<1> USE DEF DriverInv
<1> DEFINE i == Inspection(h, d.class)
           told == IF CompletesReliable(i) THEN ReliableInFlight ELSE 0
<1>1. /\ phase = "receive" /\ phase' = "answer" /\ status = "active" /\ contextual = None
      /\ CommitIncoming(i)
      /\ admitted'.answer = (h.reliable \/ d # Unfragmented)
      /\ admitted'.reported = told
      /\ UNCHANGED <<status, ackPending, unreliable, contextual, events, requested, outcome,
                     disconnectSeen, attempts, supports, firstClose, sentAck, reported>>
  BY DEF Receiving, Course, Context, Admit, pendingVars, closeVars, attemptVars, reportVars
<1>2. Len(Pushed(admitted')) \in Nat /\ events + Len(Pushed(admitted')) <= MaxEvents
  <2>1. Len(Pushed(admitted')) \in Nat /\ Len(Pushed(admitted')) = RequiredEvents(d, i)
    BY PushedCount, RoomAskedFor
  <2>2. ~(events + RequiredEvents(d, i) > MaxEvents)
    <3>1. CASE d # Unfragmented /\ FragmentExpired
      <4>1. TimeOut
        BY <3>1 DEF ReceiveDatagram
      <4>2. phase' = "outside"
        BY <4>1 DEF TimeOut, Backpressure, Fail, EnterTerminal, End
      <4> QED
        BY <1>1, <4>2
    <3>2. CASE events + RequiredEvents(d, i) > MaxEvents /\ ~(d # Unfragmented /\ FragmentExpired)
      <4>1. Backpressure
        BY <3>2 DEF ReceiveDatagram
      <4>2. phase' = "outside"
        BY <4>1 DEF Backpressure, EnterTerminal, End
      <4> QED
        BY <1>1, <4>2
    <3> QED
      BY <3>1, <3>2
  <2> QED
    BY <2>1, <2>2, ConfigurationAssumption DEF DriverTypes
<1>3. told \in Nat /\ retired' - Delivered' = retired - Delivered + told
  BY <1>1, ReleasedUnits
<1>4. h.reliable \in BOOLEAN
  BY DEF NewerHeader
<1>5. incomingReliableAck' = incomingReliableAck \/ h.reliable
  BY <1>1 DEF CommitIncoming, Inspection, NewReliable
<1> HIDE DEF i, told
<1>6. DriverTypes'
  BY <1>1, <1>2, <1>3, <1>4 DEF DriverTypes, Phases
<1>7. Course' /\ Context' /\ Room' /\ Timely'
  BY <1>1, <1>2 DEF Course, Context, Room, Timely
<1>8. Owed'
  BY <1>1, <1>4, <1>5 DEF Owed, NotOver
<1>9. Accounted'
  <2>1. reported = retired - Delivered /\ reported \in Nat
    BY <1>1 DEF Accounted, NotOver, Unreported, DriverTypes
  <2>2. reported' = reported /\ Unreported' = told
    BY <1>1 DEF Unreported
  <2>3. reported + told = retired - Delivered + told
    BY <2>1
  <2> QED
    BY <1>3, <2>2, <2>3 DEF Accounted
<1>10. Outcomes' /\ Over'
  BY <1>1 DEF Outcomes, NotOver, Over, Terminal, TerminalStates, Errors
<1> QED
  BY <1>6, <1>7, <1>8, <1>9, <1>10

\* An answer publishes the datagram's events, and the acknowledgement is sent or owed.
LEMMA PublishKeeps ==
  ASSUME DriverInv, CurrentUnitInv', phase = "answer", Publish,
         ackPending' \in BOOLEAN, sentAck' = incomingReliableAck' \/ ackPending',
         Delivered' = Delivered, retired' = retired
  PROVE  DriverInv'
<1> USE DEF DriverInv
<1>1. /\ status = "active" /\ contextual = None
      /\ events' = events + Len(Pushed(admitted)) /\ reported' = reported + admitted.reported
      /\ UNCHANGED <<status, unreliable, contextual, requested, outcome,
                     disconnectSeen, attempts, supports, firstClose>>
      /\ phase' \in {"closed?", "finish", "receive"}
      /\ phase' = "closed?" => requested
      /\ phase' = "finish" => ~requested
  BY DEF Course, Context, Publish, closeVars, attemptVars
<1>2. Len(Pushed(admitted)) \in Nat /\ admitted.reported \in Nat
  BY PushedCount DEF DriverTypes
<1>3. events' \in 0 .. MaxEvents /\ reported' \in Nat
  BY <1>1, <1>2, ConfigurationAssumption DEF Room, DriverTypes
<1>4. DriverTypes'
  BY <1>1, <1>3 DEF DriverTypes, Phases
<1>5. Course' /\ Context' /\ Room' /\ Timely'
  BY <1>1 DEF Course, Context, Room, Timely
<1>6. Owed'
  BY DEF Owed
<1>7. Accounted'
  <2>1. reported + admitted.reported = retired - Delivered
    BY <1>1 DEF Accounted, NotOver, Unreported
  <2>2. Unreported' = 0 /\ reported' + 0 = reported'
    BY <1>1, <1>3 DEF Unreported
  <2> QED
    BY <1>1, <2>1, <2>2 DEF Accounted
<1>8. Outcomes' /\ Over'
  BY <1>1 DEF Outcomes, NotOver, Over, Terminal, TerminalStates, Errors
<1> QED
  BY <1>4, <1>5, <1>6, <1>7, <1>8

LEMMA AnswerKeeps ==
  ASSUME DriverInv, CurrentUnitInv', AnswerFirst \/ AnswerNow \/ AnswerLater \/ AnswerNothing
  PROVE  DriverInv'
<1> USE DEF DriverInv
<1>1. phase = "answer" /\ Publish /\ ackPending \in BOOLEAN /\ status = "active"
  BY DEF AnswerFirst, AnswerNow, AnswerLater, AnswerNothing, DriverTypes, Course
<1>2. CASE AnswerFirst
  <2>1. /\ ackPending' = ackPending /\ sentAck' = incomingReliableAck
        /\ UNCHANGED <<incomingReliableAck, transfer, retired>>
    BY <1>2 DEF AnswerFirst, SendFirstAck, incomingVars, reliableVars, historyVars
  <2> QED
    BY <1>1, <2>1, PublishKeeps DEF Delivered
<1>3. CASE AnswerNow
  <2>1. SendPlan(Plan(0)) /\ ackPending' = FALSE
    BY <1>3 DEF AnswerNow
  <2>2. /\ Delivered' = Delivered /\ retired' = retired
        /\ incomingReliableAck' = incomingReliableAck /\ sentAck' = incomingReliableAck
    BY <2>1, SendPlanDelivers
  <2> QED
    BY <1>1, <2>1, <2>2, PublishKeeps
<1>4. CASE AnswerLater
  <2>1. ackPending' = TRUE /\ UNCHANGED <<transfer, retired>>
    BY <1>4 DEF AnswerLater, sessionVars, reliableVars, historyVars
  <2> QED
    BY <1>1, <2>1, PublishKeeps DEF Delivered
<1>5. CASE AnswerNothing
  <2>1. /\ UNCHANGED <<incomingReliableAck, transfer, retired, ackPending, sentAck>>
        /\ ~admitted.answer
    BY <1>5 DEF AnswerNothing, sessionVars, incomingVars, reliableVars, historyVars
  <2>2. sentAck = incomingReliableAck \/ ackPending
    BY <1>1, <2>1 DEF Owed, NotOver
  <2> QED
    BY <1>1, <2>1, <2>2, PublishKeeps DEF Delivered
<1> QED
  BY <1>2, <1>3, <1>4, <1>5

-----------------------------------------------------------------------------
(* The invariant is inductive.                                             *)

LEMMA DriverInvInit == DriverInit => DriverInv
<1> SUFFICES ASSUME DriverInit PROVE DriverInv
  OBVIOUS
<1>1. CurrentUnitInv
  BY CurrentUnitInit DEF DriverInit
<1>2. /\ status = "idle" /\ phase = "outside" /\ unreliable = 0 /\ contextual = None
      /\ events = 0 /\ ackPending = FALSE /\ requested = FALSE /\ outcome = "not_requested"
      /\ disconnectSeen = FALSE /\ attempts = 0 /\ supports = 0 /\ firstClose = None
      /\ sentAck = FALSE /\ reported = 0
      /\ incomingReliableAck = FALSE /\ transfer = None /\ retired = 0
  BY DEF DriverInit, Init
<1>3. DriverTypes
  <2>1. unreliable \in 0 .. MaxUnreliable /\ events \in 0 .. MaxEvents
    BY <1>2, LimitsAssumption, ConfigurationAssumption
  <2>2. phase \in Phases /\ phase # "answer" /\ status \in {"idle", "active"}
    BY <1>2 DEF Phases
  <2> QED
    BY <1>2, <2>1, <2>2 DEF DriverTypes
<1>4. Course /\ Context /\ Room /\ Timely
  BY <1>2 DEF Course, Context, Room, Timely
<1>5. Owed
  BY <1>2 DEF Owed
<1>6. Accounted
  BY <1>2 DEF Accounted, Unreported, Delivered
<1>7. Outcomes /\ Over
  BY <1>2 DEF Outcomes, CloseCovered, Over, Terminal, TerminalStates, Errors
<1> QED
  BY <1>1, <1>3, <1>4, <1>5, <1>6, <1>7 DEF DriverInv

LEMMA DriverStutter ==
  ASSUME DriverInv, CurrentUnitInv', UNCHANGED driverVars
  PROVE  DriverInv'
<1> USE DEF DriverInv
<1>1. /\ UNCHANGED <<sessionVars, status, phase, admitted, ackPending, unreliable, contextual,
                     events, sinceValid, assembling, requested, outcome, disconnectSeen,
                     attempts, supports, firstClose, sentAck, reported>>
      /\ UNCHANGED <<incomingReliableAck, peerAck, transfer, inFlight, pending, retired>>
  BY DEF driverVars, updateVars, pendingVars, clockVars, closeVars, attemptVars, reportVars,
         sessionVars, incomingVars, reliableVars, historyVars
<1>2. DriverTypes' /\ Course' /\ Room'
  BY <1>1 DEF DriverTypes, Course, Room
<1>3. Context'
  <2>1. contextual # None => phase' \in {"outside", "contextual", "backpressure"}
    BY <1>1 DEF Context
  <2> QED
    BY <1>1, <2>1, ContextStays
<1>4. Owed' /\ Accounted'
  BY <1>1 DEF Owed, Accounted, NotOver, Unreported, Delivered
<1>5. Outcomes' /\ Over' /\ Timely'
  BY <1>1 DEF Outcomes, CloseCovered, NotOver, Over, Terminal, Timely, Expired, FragmentExpired
<1> QED
  BY <1>2, <1>3, <1>4, <1>5

LEMMA DriverInvStep == DriverInv /\ [DriverNext]_driverVars => DriverInv'
<1> SUFFICES ASSUME DriverInv, [DriverNext]_driverVars PROVE DriverInv'
  OBVIOUS
<1>1. CurrentUnitInv'
  BY SessionKeepsTypes
<1>2. CASE UNCHANGED driverVars
  BY <1>1, <1>2, DriverStutter
<1>3. CASE DriverNext
  <2>1. CASE Ending
    BY <1>1, <2>1, EndingKeeps
  <2>2. CASE Moving
    BY <1>1, <2>2, MovingKeeps
  <2>3. CASE AfterTheEnd
    BY <1>1, <2>3, AfterTheEndKeeps
  <2>4. CASE \/ Start \/ PollEvent \/ PrependRetainedPayload \/ RequestGracefulClose
             \/ \E n \in 1 .. MaxAccepted : DriverQueueReliable(n)
             \/ \E u \in 1 .. MaxUnreliable : SubmitUnreliable(u) \/ CommitUnreliable(u)
    BY <1>1, <2>4, OwnerKeeps
  <2>5. CASE \E ticks \in Ticks : BeginUpdate(ticks)
    BY <1>1, <2>5, BeginUpdateKeeps
  <2>6. CASE SendContextual
    BY <1>1, <2>6, SendContextualKeeps
  <2>7. CASE Receiving /\ \E h \in NewerHeader : \E d \in DatagramsWith(h) :
                            ReceiveDatagram(h, d) /\ Admit(h, d)
    BY <1>1, <2>7, AdmitKeeps
  <2>8. CASE AnswerFirst \/ AnswerNow \/ AnswerLater \/ AnswerNothing
    BY <1>1, <2>8, AnswerKeeps
  <2>9. CASE SendPending
    BY <1>1, <2>9, SendPendingKeeps
  <2>10. CASE SendClose
    BY <1>1, <2>10, SendCloseKeeps
  <2>11. CASE CloseBlocks
    BY <1>1, <2>11, CloseBlocksKeeps
  <2> QED
    BY <1>3, <2>1, <2>2, <2>3, <2>4, <2>5, <2>6, <2>7, <2>8, <2>9, <2>10, <2>11, StepCases,
       Zenon
<1> QED
  BY <1>2, <1>3

LEMMA DriverAlways == DriverSpec => []DriverInv
  BY DriverInvInit, DriverInvStep, PTL DEF DriverSpec

-----------------------------------------------------------------------------
(* What follows from it.                                                   *)

(* The driver does to its session only what the session's specification    *)
(* allows: every update, every call of the owner and every end is one step  *)
(* of NetchanSession or leaves it alone.                                   *)
THEOREM DriverImplementsSession == DriverSpec => Spec
<1>1. DriverInit => Init
  BY DEF DriverInit
<1>2. DriverInv /\ [DriverNext]_driverVars => [Next]_sessionVars
  BY SessionStep
<1> QED
  BY <1>1, <1>2, DriverAlways, PTL DEF DriverSpec, Spec

(* So under the driver too, whatever it is doing and however it ends, the   *)
(* accepted units are held in order, and the one in flight is current.     *)
THEOREM DriverLosesNothing == DriverSpec => [](HoldsAcceptedInOrder /\ InFlightIsCurrentUnit)
  BY DriverImplementsSession, SessionHoldsAcceptedInOrder, SessionInFlightIsCurrentUnit, PTL

(* The ring of events never takes more than it has room for.               *)
THEOREM EventsAlwaysFit == DriverSpec => []EventsFit
<1>1. DriverInv => EventsFit
  BY ConfigurationAssumption DEF DriverInv, DriverTypes, EventsFit
<1> QED
  BY <1>1, DriverAlways, PTL

(* The committed context is the datagram the session would still make.     *)
THEOREM ContextsStayCurrent == DriverSpec => []ContextualPlanIsCurrent
<1>1. DriverInv => ContextualPlanIsCurrent
  BY DEF DriverInv, Context, ContextualPlanIsCurrent
<1> QED
  BY <1>1, DriverAlways, PTL

(* At rest, an active driver has acknowledged what it admitted last, or     *)
(* knows that it owes that acknowledgement.                                *)
THEOREM NoAcknowledgementForgotten == DriverSpec => []AcknowledgementIsOwed
<1>1. DriverInv => AcknowledgementIsOwed
  BY DEF DriverInv, Owed, NotOver, AcknowledgementIsOwed, AtRest, Outside
<1> QED
  BY <1>1, DriverAlways, PTL

(* At rest, the owner has been told of exactly the payloads the session has *)
(* let go of.                                                              *)
THEOREM EveryReleaseIsReported == DriverSpec => []ReleasedIsReported
<1>1. DriverInv => ReleasedIsReported
  <2> SUFFICES ASSUME DriverInv, AtRest
               PROVE  reported = retired - Delivered
    BY DEF ReleasedIsReported, Delivered
  <2>1. reported + Unreported = retired - Delivered /\ Unreported = 0 /\ reported \in Nat
    BY DEF DriverInv, Accounted, NotOver, AtRest, Outside, Unreported, DriverTypes
  <2> QED
    BY <2>1
<1> QED
  BY <1>1, DriverAlways, PTL

(* A driver that is over holds nothing of its session or its owner.        *)
THEOREM TheEndHoldsNothing ==
  DriverSpec => [](Terminal => /\ Unacknowledged = <<>> /\ pending = <<>>
                               /\ unreliable = 0 /\ contextual = None
                               /\ assembling = None /\ ~ackPending)
<1>1. DriverInv => (Terminal => /\ Unacknowledged = <<>> /\ pending = <<>>
                                /\ unreliable = 0 /\ contextual = None
                                /\ assembling = None /\ ~ackPending)
  BY DEF DriverInv, Over, Unacknowledged
<1> QED
  BY <1>1, DriverAlways, PTL

(* The outcome of a graceful close does not promise more than was done.     *)
THEOREM OutcomesAreHonest == DriverSpec => []OutcomeIsHonest
<1>1. DriverInv => OutcomeIsHonest
  <2> SUFFICES ASSUME DriverInv PROVE OutcomeIsHonest
    OBVIOUS
  <2>1. Outcomes /\ attempts \in Nat
    BY DEF DriverInv, DriverTypes
  <2> QED
    BY <2>1 DEF Outcomes, OutcomeIsHonest, CloseCovered
<1> QED
  BY <1>1, DriverAlways, PTL

-----------------------------------------------------------------------------
(* What a step may never do.                                               *)

\* Which steps leave an update, and how they find its deadlines.
LEMMA LeavesInTime ==
  ASSUME DriverInv, [DriverNext]_driverVars,
         phase # "outside", phase' = "outside", status' = "active", ~requested
  PROVE  ~Expired'
<1> USE DEF DriverInv
<1>1. ~Ending
  BY DEF Ending, TerminalStates, Errors
<1>2. CASE Moving
  <2>1. UNCHANGED <<sinceValid, assembling>>
    BY <1>2 DEF Moving, clockVars
  <2>2. ~Expired
    BY <1>2 DEF Moving, Timely, Course
  <2> QED
    BY <2>1, <2>2 DEF Expired, FragmentExpired
<1>3. ~AfterTheEnd
  BY DEF AfterTheEnd, Course, Terminal, TerminalStates, Errors
<1>4. /\ ~(Start \/ PollEvent \/ PrependRetainedPayload \/ RequestGracefulClose)
      /\ ~\E n \in 1 .. MaxAccepted : DriverQueueReliable(n)
      /\ ~\E u \in 1 .. MaxUnreliable : SubmitUnreliable(u) \/ CommitUnreliable(u)
      /\ ~\E ticks \in Ticks : BeginUpdate(ticks)
  BY DEF Start, PollEvent, PrependRetainedPayload, RequestGracefulClose, DriverQueueReliable,
         SubmitUnreliable, CommitUnreliable, BeginUpdate, Accepts, Outside
<1>5. ~(SendContextual \/ SendPending \/ SendClose \/ CloseBlocks)
  BY DEF SendContextual, SendPending, Sending, SendClose, CloseBlocks
<1>6. ~\E h \in NewerHeader : \E d \in DatagramsWith(h) : Admit(h, d)
  BY DEF Admit
<1>7. ~(AnswerFirst \/ AnswerNow \/ AnswerLater \/ AnswerNothing)
  BY DEF AnswerFirst, AnswerNow, AnswerLater, AnswerNothing, Publish
<1>8. DriverNext
  BY DEF driverVars
<1> QED
  BY <1>1, <1>2, <1>3, <1>4, <1>5, <1>6, <1>7, <1>8, StepCases

(* An update leaves the driver active only if no deadline has passed.       *)
THEOREM UpdatesAreTimely == DriverSpec => ActiveIsTimely
<1>1. DriverInv /\ [DriverNext]_driverVars =>
        [phase # "outside" /\ phase' = "outside" /\ status' = "active" /\ ~requested
           => ~Expired']_driverVars
  BY LeavesInTime
<1> QED
  BY <1>1, DriverAlways, PTL DEF DriverSpec, ActiveIsTimely

\* A datagram takes the next number, and carries what it was asked to unless it
\* only skips a number.
LEMMA SendPlanCarries ==
  ASSUME CurrentUnitInv, NEW u \in Nat, SendPlan(Plan(u))
  PROVE  /\ nextOutgoing' # nextOutgoing
         /\ Plan(u).unreliable \in {0, u}
<1>1. nextOutgoing' = NextSeq(nextOutgoing) /\ nextOutgoing \in SeqNum
  BY DEF SendPlan, CommitOutgoing, AdvanceOutgoing, CurrentUnitInv, TypeOK
<1>2. nextOutgoing' # nextOutgoing
  BY <1>1, HalfRangeAssumption DEF NextSeq, SeqNum, SeqModulus
<1>3. Plan(u).unreliable \in {0, u}
  BY DEF Plan
<1> QED
  BY <1>2, <1>3

LEMMA DropsOnlyWhatItSends ==
  ASSUME DriverInv, [DriverNext]_driverVars, unreliable > 0, unreliable' = 0
  PROVE  \/ status' # "active" \/ requested'
         \/ nextOutgoing' # nextOutgoing /\ Plan(unreliable).unreliable = unreliable
<1> USE DEF DriverInv
<1>0. unreliable' # unreliable
  BY DEF DriverTypes
<1>1. CASE Ending
  BY <1>1 DEF Ending, TerminalStates, Errors
<1>2. ~Moving
  BY <1>0 DEF Moving, pendingVars
<1>3. ~AfterTheEnd
  BY <1>0 DEF AfterTheEnd, RequestGracefulCloseTooLate, ConfirmServerDisconnect, pendingVars
<1>4. /\ ~(Start \/ PollEvent \/ PrependRetainedPayload)
      /\ ~\E n \in 1 .. MaxAccepted : DriverQueueReliable(n)
      /\ ~\E ticks \in Ticks : BeginUpdate(ticks)
      /\ ~SendContextual /\ ~CloseBlocks /\ ~SendClose
      /\ ~(AnswerFirst \/ AnswerNow \/ AnswerLater \/ AnswerNothing)
  BY <1>0 DEF Start, PollEvent, PrependRetainedPayload, DriverQueueReliable, BeginUpdate,
              SendContextual, CloseBlocks, SendClose, AnswerFirst, AnswerNow, AnswerLater,
              AnswerNothing, Publish, pendingVars
<1>5. ~\E h \in NewerHeader : \E d \in DatagramsWith(h) : Admit(h, d)
  BY <1>0 DEF Admit, pendingVars
<1>6. ~\E u \in 1 .. MaxUnreliable : SubmitUnreliable(u) \/ CommitUnreliable(u)
  BY <1>0 DEF SubmitUnreliable, CommitUnreliable
<1>7. CASE RequestGracefulClose
  BY <1>7 DEF RequestGracefulClose
<1>8. CASE SendPending
  <2>1. SendPlan(Plan(Suffix)) /\ unreliable' = KeepUnlessSent
    BY <1>8 DEF SendPending
  <2>2. Plan(Suffix).unreliable > 0
    BY <1>0, <2>1 DEF KeepUnlessSent
  <2>3. Suffix \in Nat /\ unreliable \in Nat
    BY SizesTransmitted DEF DriverTypes
  <2>4. nextOutgoing' # nextOutgoing /\ Plan(Suffix).unreliable \in {0, Suffix}
    BY <2>1, <2>3, SendPlanCarries
  <2>5. Suffix = unreliable
    BY <2>2, <2>4 DEF Suffix
  <2> QED
    BY <2>2, <2>4, <2>5
<1>9. DriverNext
  BY <1>0 DEF driverVars, pendingVars
<1> QED
  BY <1>1, <1>2, <1>3, <1>4, <1>5, <1>6, <1>7, <1>8, <1>9, StepCases

(* An unreliable payload once accepted is dropped only by a datagram that   *)
(* carries it, or with the connection.                                     *)
THEOREM SubmittedIsNotDropped == DriverSpec => SubmittedIsSentOrKept
<1>1. DriverInv /\ [DriverNext]_driverVars =>
        [unreliable > 0 /\ unreliable' = 0 =>
           \/ status' # "active" \/ requested'
           \/ nextOutgoing' # nextOutgoing /\ Plan(unreliable).unreliable = unreliable]_driverVars
  BY DropsOnlyWhatItSends
<1> QED
  BY <1>1, DriverAlways, PTL DEF DriverSpec, SubmittedIsSentOrKept

LEMMA SettledOutcomeStays ==
  ASSUME DriverInv, [DriverNext]_driverVars,
         outcome \notin {"not_requested", "pending"}, outcome' # outcome
  PROVE  outcome' = "server_disconnect_confirmed"
<1> USE DEF DriverInv
<1>1. ~NotOver /\ status # "active" /\ status # "idle" /\ phase = "outside"
  BY DEF Outcomes, NotOver, Course
<1>2. ~Ending /\ ~Moving
  BY <1>1 DEF Ending, Moving
<1>3. CASE AfterTheEnd
  <2>1. CASE ConfirmServerDisconnect
    BY <1>3, <2>1 DEF AfterTheEnd, ConfirmServerDisconnect
  <2>2. CASE RequestGracefulCloseTooLate
    <3>1. ~requested /\ outcome' = LateOutcome
      BY <2>2 DEF RequestGracefulCloseTooLate
    <3>2. status \notin Errors /\ disconnectSeen
      BY <3>1 DEF Outcomes
    <3> QED
      BY <3>1, <3>2 DEF LateOutcome
  <2> QED
    BY <1>3, <2>1, <2>2 DEF AfterTheEnd
<1>4. /\ ~(Start \/ PollEvent \/ PrependRetainedPayload \/ RequestGracefulClose)
      /\ ~\E n \in 1 .. MaxAccepted : DriverQueueReliable(n)
      /\ ~\E u \in 1 .. MaxUnreliable : SubmitUnreliable(u) \/ CommitUnreliable(u)
      /\ ~\E ticks \in Ticks : BeginUpdate(ticks)
  BY <1>1 DEF Start, PollEvent, PrependRetainedPayload, RequestGracefulClose,
              DriverQueueReliable, SubmitUnreliable, CommitUnreliable, BeginUpdate, Accepts,
              closeVars
<1>5. /\ ~(SendContextual \/ Receiving \/ SendPending \/ SendClose \/ CloseBlocks)
      /\ ~(AnswerFirst \/ AnswerNow \/ AnswerLater \/ AnswerNothing)
  BY <1>1 DEF SendContextual, Receiving, SendPending, Sending, SendClose, CloseBlocks,
              AttemptDue, Closing, AnswerFirst, AnswerNow, AnswerLater, AnswerNothing
<1>6. DriverNext
  BY DEF driverVars, closeVars
<1> QED
  BY <1>2, <1>3, <1>4, <1>5, <1>6, StepCases

(* The outcome of a graceful close, once settled, is replaced only by the   *)
(* server's own disconnect.                                                *)
THEOREM OutcomesStaySettled == DriverSpec => OutcomeIsSettled
<1>1. DriverInv /\ [DriverNext]_driverVars =>
        [outcome \notin {"not_requested", "pending"} /\ outcome' # outcome
           => outcome' = "server_disconnect_confirmed"]_driverVars
  BY SettledOutcomeStays
<1> QED
  BY <1>1, DriverAlways, PTL DEF DriverSpec, OutcomeIsSettled

\* With nothing reliable to put in it, a datagram has room for the disconnect.
LEMMA NothingReliableFits ==
  ReliableDecision \in {"none", "blocked_waiting_for_ack"} => CanPrepare(CloseSize)
<1> SUFFICES ASSUME ReliableDecision \in {"none", "blocked_waiting_for_ack"}
             PROVE  CanPrepare(CloseSize)
  OBVIOUS
<1>1. ReliableUnits(ReliableDecision) = <<>> /\ ReliableDecision \notin FragmentDecisions
  BY DEF ReliableUnits, FragmentDecisions
<1>2. 0 + CloseSize <= MaxBody /\ Len(<<>>) = 0
  BY ConfigurationAssumption, LimitsAssumption
<1> QED
  BY <1>1, <1>2 DEF CanPrepare, Fits

\* The decision of a plan is the session's, but for a skipped number.
LEMMA PlanDecides ==
  ASSUME NEW u
  PROVE  /\ Plan(u).decision \in {ReliableDecision, "advance_fragment_sequence"}
         /\ Plan(u).decision = Plan(0).decision
         /\ Plan(u).unreliable = u \/ Plan(u).decision = "advance_fragment_sequence"
  BY DEF Plan

\* A reliable unit just sent waits for its acknowledgement.
LEMMA SentUnitWaits ==
  ASSUME CurrentUnitInv, CommitOutgoing(Plan(0)),
         Plan(0).decision \notin {"none", "blocked_waiting_for_ack", "advance_fragment_sequence"}
  PROVE  ReliableDecision' = "blocked_waiting_for_ack"
<1> DEFINE p == Plan(0)
<1>1. TypeOK
  BY DEF CurrentUnitInv
<1>2. /\ NewInFlight(p, pending) # None /\ NewInFlight(p, p.bytes) # None
      /\ p.decision \in {"retransmit", "retransmit_fragment"} => inFlight # None
  BY <1>1, NewRecords, PlanType, NoneAssumption
<1>3. CommitNew(p) \/ CommitNewFragment(p) \/ CommitRetransmission(p)
  BY DEF CommitOutgoing, CommitWithoutReliable
<1> HIDE DEF p
<1>4. inFlight' # None /\ ~inFlight'.retransmit
  <2>1. CASE CommitNew(p)
    BY <1>2, <2>1 DEF CommitNew, NewInFlight
  <2>2. CASE CommitNewFragment(p)
    BY <1>2, <2>2 DEF CommitNewFragment, NewInFlight
  <2>3. CASE CommitRetransmission(p)
    <3>1. inFlight \in InFlightPayload
      BY <1>1, <1>2, <2>3 DEF CommitRetransmission, TypeOK
    <3>2. inFlight' = [inFlight EXCEPT !.mostRecent = nextOutgoing, !.retransmit = FALSE]
      BY <2>3 DEF CommitRetransmission
    <3>3. inFlight' \in InFlightPayload /\ ~inFlight'.retransmit
      BY <1>1, <3>1, <3>2 DEF InFlightPayload, TypeOK
    <3> QED
      BY <3>3, NoneAssumption
  <2> QED
    BY <1>3, <2>1, <2>2, <2>3
<1> QED
  BY <1>4 DEF ReliableDecision

LEMMA SupportFreesTheNext ==
  ASSUME DriverInv, SendClose, supports' > supports,
         Plan(0).decision # "advance_fragment_sequence"
  PROVE  CanPrepare(CloseSize)'
<1>1. /\ ClosePlan # None /\ CommitOutgoing(ClosePlan)
      /\ supports' = supports + One(~IsTerminal) /\ supports \in Nat
  BY DEF SendClose, AttemptDue, SendPlan, CountAttempt, DriverInv, DriverTypes
<1>2. ~(ClosePlan.unreliable > 0)
  BY <1>1 DEF One, IsTerminal
<1>3. ~CanPrepare(CloseSize)
  <2>1. SUFFICES ASSUME CanPrepare(CloseSize) PROVE FALSE
    OBVIOUS
  <2>2. ClosePlan = Plan(CloseSize)
    BY <2>1 DEF ClosePlan
  <2>3. Plan(CloseSize).unreliable = CloseSize /\ CloseSize > 0
    BY PlanDecides, ConfigurationAssumption, LimitsAssumption
  <2> QED
    BY <1>2, <2>2, <2>3
<1>4. ClosePlan = Plan(0)
  BY <1>1, <1>3 DEF ClosePlan
<1>5. Plan(0).decision \notin {"none", "blocked_waiting_for_ack"}
  BY <1>3, NothingReliableFits, PlanDecides
<1>6. ReliableDecision' = "blocked_waiting_for_ack"
  BY <1>1, <1>4, <1>5, SentUnitWaits DEF DriverInv
<1>7. (ReliableDecision \in {"none", "blocked_waiting_for_ack"})'
  BY <1>6
<1> QED
  BY <1>7, NothingReliableFits, PTL

\* Only an attempt of a graceful close counts as a support.
LEMMA SupportIsAnAttempt ==
  ASSUME DriverInv, [DriverNext]_driverVars, supports' > supports, nextOutgoing' # nextOutgoing
  PROVE  SendClose
<1> USE DEF DriverInv
<1>1. supports' # supports /\ ~UNCHANGED sessionVars
  BY DEF sessionVars, outgoingVars, DriverTypes
<1>2. ~Ending
  BY DEF Ending, Cleanup, ClearReliableState, outgoingVars
<1>3. ~Moving /\ ~CloseBlocks
  BY <1>1 DEF Moving, CloseBlocks
<1>4. ~AfterTheEnd
  BY <1>1 DEF AfterTheEnd, RequestGracefulCloseTooLate, ConfirmServerDisconnect, Idle
<1>5. /\ ~(Start \/ PollEvent \/ PrependRetainedPayload \/ RequestGracefulClose)
      /\ ~\E n \in 1 .. MaxAccepted : DriverQueueReliable(n)
      /\ ~\E u \in 1 .. MaxUnreliable : SubmitUnreliable(u) \/ CommitUnreliable(u)
      /\ ~\E ticks \in Ticks : BeginUpdate(ticks)
  BY <1>1 DEF Start, PollEvent, PrependRetainedPayload, RequestGracefulClose,
              DriverQueueReliable, SubmitUnreliable, CommitUnreliable, BeginUpdate, Idle,
              attemptVars
<1>6. ~SendContextual /\ ~SendPending /\ ~(AnswerFirst \/ AnswerNow \/ AnswerLater \/ AnswerNothing)
  BY <1>1 DEF SendContextual, SendPending, AnswerFirst, AnswerNow, AnswerLater,
              AnswerNothing, Publish, attemptVars
<1>7. ~\E h \in NewerHeader : \E d \in DatagramsWith(h) : Admit(h, d)
  BY <1>1 DEF Admit, attemptVars
<1>8. DriverNext
  BY <1>1 DEF driverVars
<1> QED
  BY <1>2, <1>3, <1>4, <1>5, <1>6, <1>7, <1>8, StepCases

(* A support datagram of a graceful close skips a number for the            *)
(* classifier, or the disconnect fits the next datagram.                   *)
THEOREM SupportsMakeRoom == DriverSpec => SupportMakesRoom
<1>1. DriverInv /\ [DriverNext]_driverVars =>
        [supports' > supports /\ nextOutgoing' # nextOutgoing =>
           \/ Plan(0).decision = "advance_fragment_sequence"
           \/ CanPrepare(CloseSize)']_driverVars
  BY SupportFreesTheNext, SupportIsAnAttempt
<1> QED
  BY <1>1, DriverAlways, PTL DEF DriverSpec, SupportMakesRoom
=============================================================================
