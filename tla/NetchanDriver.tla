----------------------------- MODULE NetchanDriver -----------------------------
(***************************************************************************)
(* The owner of the channel (class NetchanDriver): the host calls update    *)
(* again and again, and between two updates queues payloads, takes events,  *)
(* or asks for the end.  Nothing runs in parallel; an update is a sequence  *)
(* of steps here because it loops over the datagrams it receives and sends, *)
(* and because any of its sends may succeed, block or fail.                 *)
(*                                                                         *)
(* The clock is seen through ages, in ticks, each capped at the limit it is *)
(* compared with.  The reassembler is seen through whether it assembles a   *)
(* transfer, and for how long (NetchanReassembly has the rest).  The event  *)
(* queue is seen through its length.                                        *)
(***************************************************************************)
EXTENDS NetchanSession

CONSTANTS
  MaxReceives,        \* config_.maximum_datagrams_per_update
  MaxSends,           \* config_.maximum_outgoing_packets_per_update
  MaxEvents,          \* config_.maximum_events
  Yields,             \* config_.yield_after_owning_payload
  Inactivity,         \* config_.channel_inactivity_timeout
  FragmentTimeout,    \* config_.fragment_transfer_timeout
  IdlePoll,           \* config_.idle_poll_interval; 0 disables it
  CloseBudget,        \* kGracefulCloseBudget
  CloseInterval,      \* kGracefulCloseRetryInterval
  CloseSends,         \* kGracefulCloseMaximumSendAttempts
  CloseSupports,      \* kGracefulCloseMaximumSupportSendAttempts
  CloseSize,          \* units of DisconnectRequestBuilder::build()
  Calls,              \* bound: the operations the owner may call
  Ticks,              \* bound: the ticks that may pass between two updates
  Backlog,            \* bound: the events the owner may leave before an update
  PeerFragments       \* bound: whether the peer sends fragments

\* valid_configuration.
ASSUME ConfigurationAssumption ==
  /\ MaxReceives \in Nat \ {0} /\ MaxSends \in Nat \ {0}
  /\ MaxEvents \in Nat /\ MaxEvents >= 5
  /\ Yields \in BOOLEAN
  /\ Inactivity \in Nat \ {0} /\ FragmentTimeout \in Nat \ {0}
  /\ IdlePoll \in Nat /\ IdlePoll < Inactivity
  /\ CloseBudget \in Nat \ {0} /\ CloseInterval \in Nat \ {0}
  /\ CloseSends \in Nat /\ CloseSupports \in Nat
  /\ MaxUnreliable <= MaxBody /\ CloseSize \in 1 .. MaxUnreliable
  /\ Ticks \subseteq 0 .. 1 /\ Backlog \in 0 .. MaxEvents
  /\ PeerFragments \in BOOLEAN

VARIABLES
  status,             \* state_
  phase,              \* how far the running update has come, or "outside"
  received, sent,     \* received_count, outgoing_packets_this_update
  contextSent,        \* contextual_packet_sent
  admitted,           \* the datagram committed and not yet answered, or None
  ackPending,         \* acknowledgement_pending_
  unreliable,         \* size of pending_unreliable_payload_
  contextual,         \* pending_contextual_plan_ and the size offered, or None
  events,             \* events_.size()
  sinceValid,         \* now - last_valid_packet_time_
  sinceSend,          \* now - last_transport_send_time_, or None
  assembling,         \* age of the reassembler's active transfer, or None
  requested,          \* graceful_close_.requested
  outcome,            \* graceful_close_.outcome
  closeAge,           \* now - graceful_close_.requested_at
  sinceAttempt,       \* now - last_close_attempt_at_, or None
  attempts, supports, \* graceful_close_.send_attempt_count, support_...
  firstClose,         \* first_close_sent_sequence_, or None
  disconnectSeen,     \* graceful_close_.server_disconnect_observed
  sentAck,            \* history: the generation last acknowledged to the peer
  reported            \* history: units reported as acknowledged

updateVars == <<received, sent, contextSent, admitted>>
pendingVars == <<ackPending, unreliable, contextual>>
clockVars == <<sinceValid, sinceSend, assembling>>
closeVars == <<requested, outcome, closeAge, disconnectSeen>>
attemptVars == <<sinceAttempt, attempts, supports, firstClose>>
reportVars == <<sentAck, reported>>
driverVars == <<sessionVars, status, phase, updateVars, pendingVars, events,
                clockVars, closeVars, attemptVars, reportVars>>

DriverInit ==
  /\ Init
  /\ status = "idle" /\ phase = "outside"
  /\ received = 0 /\ sent = 0 /\ contextSent = FALSE /\ admitted = None
  /\ ackPending = FALSE /\ unreliable = 0 /\ contextual = None
  /\ events = 0
  /\ sinceValid = 0 /\ sinceSend = None /\ assembling = None
  /\ requested = FALSE /\ outcome = "not_requested" /\ closeAge = 0
  /\ disconnectSeen = FALSE
  /\ sinceAttempt = None /\ attempts = 0 /\ supports = 0 /\ firstClose = None
  /\ sentAck = FALSE /\ reported = 0

Errors == {"timed_out", "network_error", "protocol_error", "backpressure"}
TerminalStates == Errors \cup {"cancelled", "closed"}
Terminal == status \in TerminalStates
Outside == phase = "outside"
Idle == UNCHANGED <<sessionVars, updateVars, clockVars, attemptVars, reportVars>>

-----------------------------------------------------------------------------
(* Ending.                                                                 *)

Cleanup ==
  /\ ClearReliableState
  /\ assembling' = None
  /\ unreliable' = 0 /\ contextual' = None /\ ackPending' = FALSE

End ==
  /\ Cleanup
  /\ phase' = "outside"
  /\ received' = 0 /\ sent' = 0 /\ contextSent' = FALSE /\ admitted' = None
  /\ UNCHANGED <<sinceValid, sinceSend, requested, closeAge, reportVars>>

\* enter_terminal: the first terminal state stays, and a graceful close that is
\* still open fails with it.
EnterTerminal(state, event, error) ==
  /\ status' = state
  /\ outcome' = IF outcome # "pending" THEN outcome
                ELSE IF error = "send_failed" THEN "send_failed" ELSE "fatal_failure"
  /\ events' = IF event /\ events < MaxEvents THEN events + 1 ELSE events
  /\ End
  /\ UNCHANGED disconnectSeen

Fail(state) == EnterTerminal(state, TRUE, "other") /\ UNCHANGED attemptVars
FailSend == EnterTerminal("network_error", TRUE, "send_failed")
Backpressure ==
  EnterTerminal("backpressure", FALSE, "event_backpressure") /\ UNCHANGED attemptVars

\* close, with the outcome the graceful close then has.
CloseWith(result) ==
  /\ status' = "closed"
  /\ outcome' = result
  /\ End
  /\ UNCHANGED <<events, attemptVars>>

-----------------------------------------------------------------------------
(* What the owner calls between updates.                                   *)

Start ==
  /\ Outside /\ status = "idle"
  /\ status' = "active"
  /\ sinceValid' = 0
  /\ UNCHANGED <<sessionVars, phase, updateVars, pendingVars, events, sinceSend,
                 assembling, closeVars, attemptVars, reportVars>>

\* start without a usable configuration or endpoint; update when the clock has
\* gone back or the local endpoint has changed.
FailAtEntry ==
  /\ Outside /\ status \in {"idle", "active"}
  /\ \E state \in {"protocol_error", "network_error"} : Fail(state)

Accepts == Outside /\ status = "active" /\ ~requested

DriverQueueReliableAnytime(n) ==   \* mutant: queueing under a committed context
  /\ Accepts
  /\ QueueReliable(n)
  /\ UNCHANGED <<status, phase, updateVars, pendingVars, events, clockVars, closeVars,
                 attemptVars, reportVars>>

DriverQueueReliable(n) ==
  /\ Accepts
  /\ contextual = None
  /\ QueueReliable(n)
  /\ UNCHANGED <<status, phase, updateVars, pendingVars, events, clockVars, closeVars,
                 attemptVars, reportVars>>

SubmitUnreliable(u) ==
  /\ "submit" \in Calls /\ Accepts
  /\ unreliable = 0 /\ contextual = None
  /\ unreliable' = u
  /\ Idle
  /\ UNCHANGED <<status, phase, ackPending, contextual, events, closeVars>>

\* prepare_unreliable_context and commit_unreliable: a context that anything has
\* overtaken commits nothing (NetchanPlans), so the two are one step.
CommitUnreliable(u) ==
  /\ "context" \in Calls /\ Accepts
  /\ firstAckSent
  /\ unreliable = 0 /\ contextual = None
  /\ CanPrepare(u) /\ Plan(u).decision # "advance_fragment_sequence"
  /\ contextual' = [plan |-> Plan(u), offered |-> u]
  /\ Idle
  /\ UNCHANGED <<status, phase, ackPending, unreliable, events, closeVars>>

PollEvent ==
  /\ Outside /\ events > 0
  /\ events' = events - 1
  /\ Idle
  /\ UNCHANGED <<status, phase, pendingVars, closeVars>>

\* prepend_retained_payloads, of one payload.
PrependRetainedPayload ==
  /\ "prepend" \in Calls
  /\ Outside /\ status = "active"
  /\ events < MaxEvents
  /\ events' = events + 1
  /\ Idle
  /\ UNCHANGED <<status, phase, pendingVars, closeVars>>

Cancel ==
  /\ "cancel" \in Calls
  /\ Outside /\ status = "active"
  /\ status' = "cancelled"
  /\ outcome' = IF outcome = "pending" THEN "cancelled" ELSE outcome
  /\ events' = IF events < MaxEvents THEN events + 1 ELSE events
  /\ End
  /\ UNCHANGED <<disconnectSeen, attemptVars>>

Close ==
  /\ "close" \in Calls
  /\ Outside /\ ~Terminal
  /\ CloseWith(outcome)
  /\ UNCHANGED disconnectSeen

\* request_graceful_close, when it is the first request.
RequestGracefulClose ==
  /\ "graceful" \in Calls
  /\ Outside /\ status = "active" /\ ~requested
  /\ requested' = TRUE /\ outcome' = "pending" /\ closeAge' = 0
  /\ contextual' = None /\ unreliable' = 0
  /\ Idle
  /\ UNCHANGED <<status, phase, ackPending, events, disconnectSeen>>

\* The request of a driver that is not active.  Once the server's disconnect has
\* been confirmed the driver is over, and the request only repeats that outcome.
LateOutcomeWithoutNotice ==   \* mutant: the server's disconnect is forgotten
  IF status \in Errors THEN "fatal_failure" ELSE "cancel_without_protocol_disconnect"
LateOutcome ==
  CASE status \in Errors -> "fatal_failure"
    [] status \notin Errors /\ disconnectSeen -> "server_disconnect_confirmed"
    [] OTHER -> "cancel_without_protocol_disconnect"

RequestGracefulCloseTooLate ==
  /\ "graceful" \in Calls
  /\ Outside /\ status # "active" /\ ~requested
  /\ requested' = TRUE /\ outcome' = LateOutcome
  /\ IF Terminal THEN Idle /\ UNCHANGED <<status, pendingVars>>
                 ELSE /\ status' = "closed" /\ Cleanup
                      /\ UNCHANGED <<updateVars, sinceValid, sinceSend, attemptVars, reportVars>>
  /\ UNCHANGED <<phase, events, closeAge, disconnectSeen>>

ConfirmServerDisconnect ==
  /\ "disconnect" \in Calls
  /\ Outside
  /\ disconnectSeen' = TRUE
  /\ \/ /\ ~Terminal
        /\ CloseWith("server_disconnect_confirmed")
     \/ /\ Terminal
        /\ outcome' = IF status \in Errors THEN outcome ELSE "server_disconnect_confirmed"
        /\ Idle
        /\ UNCHANGED <<status, phase, pendingVars, events, requested, closeAge>>

-----------------------------------------------------------------------------
(* update.  Its checks at entry choose the course it takes.                *)

Older(age, ticks, limit) ==
  IF age = None THEN None ELSE IF age + ticks <= limit THEN age + ticks ELSE limit

TickFromTraffic(ticks) ==   \* mutant: the peer's traffic moves the deadline of the close
  /\ sinceValid' = Older(sinceValid, ticks, Inactivity)
  /\ sinceSend' = IF IdlePoll = 0 THEN None ELSE Older(sinceSend, ticks, IdlePoll)
  /\ assembling' = Older(assembling, ticks, FragmentTimeout)
  /\ closeAge' = IF requested THEN Older(IF sinceValid = 0 THEN 0 ELSE closeAge, ticks, CloseBudget) ELSE 0
  /\ sinceAttempt' = Older(sinceAttempt, ticks, CloseInterval)

Tick(ticks) ==
  /\ sinceValid' = Older(sinceValid, ticks, Inactivity)
  /\ sinceSend' = IF IdlePoll = 0 THEN None ELSE Older(sinceSend, ticks, IdlePoll)
  /\ assembling' = Older(assembling, ticks, FragmentTimeout)
  /\ closeAge' = IF requested THEN Older(closeAge, ticks, CloseBudget) ELSE 0
  /\ sinceAttempt' = Older(sinceAttempt, ticks, CloseInterval)

BeginUpdate(ticks) ==
  /\ Outside /\ status = "active" /\ events <= Backlog
  /\ Tick(ticks)
  /\ phase' = CASE requested -> "closing"
                [] ~requested /\ events = MaxEvents -> "backpressure"
                [] ~requested /\ events < MaxEvents /\ contextual # None -> "contextual"
                [] OTHER -> "receive"
  /\ UNCHANGED <<sessionVars, status, updateVars, pendingVars, events, requested, outcome,
                 disconnectSeen, attempts, supports, firstClose, reportVars>>

RefuseUpdate == phase = "backpressure" /\ Backpressure

LeaveUpdate ==
  /\ phase' = "outside"
  /\ received' = 0 /\ sent' = 0 /\ contextSent' = FALSE /\ admitted' = None

\* check_fragment_timeout and the inactivity check.
FragmentExpired == assembling # None /\ assembling = FragmentTimeout
Expired == FragmentExpired \/ sinceValid = Inactivity
TimeOut == IF FragmentExpired /\ events = MaxEvents THEN Backpressure ELSE Fail("timed_out")

\* send_datagram and commit_outgoing_send, of plan p.
SendPlan(p) ==
  /\ CommitOutgoing(p)
  /\ sent' = sent + 1
  /\ sinceSend' = IF IdlePoll = 0 THEN None ELSE 0
  /\ sentAck' = p.ackReliable

-----------------------------------------------------------------------------
(* The committed context is sent before anything is received.              *)

SendContextual ==
  /\ phase = "contextual" /\ ~Expired
  /\ SendPlan(contextual.plan)
  /\ contextual' = None /\ ackPending' = FALSE
  /\ contextSent' = TRUE /\ phase' = "receive"
  /\ UNCHANGED <<status, received, admitted, unreliable, events, sinceValid, assembling,
                 closeVars, attemptVars, reported>>

ContextualBlocksUntimed ==   \* mutant: the deadlines are not looked at first
  /\ phase = "contextual"
  /\ LeaveUpdate
  /\ UNCHANGED <<sessionVars, status, pendingVars, events, clockVars, closeVars,
                 attemptVars, reportVars>>
ContextualBlocks ==
  /\ phase = "contextual" /\ ~Expired
  /\ LeaveUpdate
  /\ UNCHANGED <<sessionVars, status, pendingVars, events, clockVars, closeVars,
                 attemptVars, reportVars>>

ContextualFails ==
  /\ phase = "contextual"
  /\ \/ Expired /\ TimeOut
     \/ ~Expired /\ FailSend /\ UNCHANGED attemptVars

-----------------------------------------------------------------------------
(* Receiving.                                                              *)

Receiving ==
  /\ phase = "receive"
  /\ received < MaxReceives
  /\ requested \/ sent < MaxSends \/ (contextSent /\ firstAckSent)

\* The socket would block, or the loop's condition ends it.
EndReceiving ==
  /\ phase = "receive"
  /\ phase' = IF requested THEN "closed?" ELSE "finish"
  /\ UNCHANGED <<sessionVars, status, updateVars, pendingVars, events, clockVars,
                 closeVars, attemptVars, reportVars>>

\* Another endpoint, a part of a split datagram, a number not newer.
IgnoreDatagram ==
  /\ Receiving
  /\ received' = received + 1
  /\ UNCHANGED <<sessionVars, status, phase, sent, contextSent, admitted, pendingVars,
                 events, clockVars, closeVars, attemptVars, reportVars>>

\* The socket fails, or the peer's datagram is malformed, truncated, of another
\* kind, or refused by the session or the reassembler.
RefuseDatagram ==
  /\ Receiving
  /\ \E state \in {"network_error", "protocol_error"} : Fail(state)

\* What the reassembler makes of a fragment, and whether it brings a suffix.
Unfragmented == [class |-> "unfragmented", completes |-> FALSE, suffix |-> FALSE]
Fragments ==
  [class : {"new_fragment_unit"}, completes : BOOLEAN, suffix : BOOLEAN] \cup
  [class : {"exact_fragment_retransmission"}, completes : {FALSE}, suffix : BOOLEAN]
DatagramsWith(h) ==
  IF ~h.fragmented THEN {Unfragmented} ELSE IF PeerFragments THEN Fragments ELSE {}

Repeats(d) == d.class = "exact_fragment_retransmission"
Insertable(d) == Repeats(d) => assembling # None

\* incoming_acknowledgement_completes_reliable_payload.
CompletesOnFragment(i) == Releases(i)   \* mutant: any fragment completes the payload
CompletesReliable(i) ==
  Releases(i) /\ (transfer # None => transfer.index = transfer.count)
ReliableInFlight == Len(IF transfer # None THEN transfer.bytes ELSE inFlight.bytes)

One(condition) == IF condition THEN 1 ELSE 0

\* The reassembler's plan starts a transfer; the events it announces.
Starts(d) == d # Unfragmented /\ ~Repeats(d) /\ assembling = None
PlannedEvents(d) == One(Starts(d)) + One(d.completes)

\* The room asked for before anything is committed.
RequiredWithoutAck(d, i) ==   \* mutant: the acknowledgement's own event is left out
  IF d = Unfragmented THEN 1 ELSE PlannedEvents(d) + One(d.completes) + One(d.suffix)
RequiredEvents(d, i) ==
  IF d = Unfragmented
  THEN IF CompletesReliable(i) THEN 2 ELSE 1
  ELSE PlannedEvents(d) + One(d.completes) + One(d.suffix) + One(CompletesReliable(i))

\* What the rest of the handler knows of the committed datagram.
Admit(h, d) ==
  LET i == Inspection(h, d.class)
  IN  /\ CommitIncoming(i)
      /\ assembling' = IF d = Unfragmented \/ Repeats(d) THEN assembling
                       ELSE IF d.completes THEN None
                       ELSE IF assembling = None THEN 0 ELSE assembling
      /\ admitted' = [datagram     |-> d,
                      started      |-> Starts(d),
                      acknowledges |-> CompletesReliable(i),
                      answer       |-> h.reliable \/ d # Unfragmented,
                      reported     |-> IF CompletesReliable(i) THEN ReliableInFlight ELSE 0]
      /\ phase' = "answer"
      /\ UNCHANGED <<status, received, sent, contextSent, pendingVars, events, sinceValid,
                     sinceSend, closeVars, attemptVars, reportVars>>

ReceiveDatagram(h, d) ==
  /\ Acceptable(h, d.class) /\ Insertable(d)
  /\ IF d # Unfragmented /\ FragmentExpired THEN TimeOut
     ELSE IF events + RequiredEvents(d, Inspection(h, d.class)) > MaxEvents
          THEN Backpressure
          ELSE Admit(h, d)

-----------------------------------------------------------------------------
(* The answer to an admitted datagram, and its events.                     *)

\* The events pushed, in their order: the acknowledgement's, then those of the
\* receipt and the suffix, or the payload of an unfragmented datagram.
Push(condition, event) == IF condition THEN <<event>> ELSE <<>>
Pushed(a) ==
  Push(a.acknowledges, "reliable_payload_acknowledged") \o
  Push(a.started, "normal_transfer_started") \o
  Push(a.datagram.completes, "normal_transfer_completed") \o
  Push(a.datagram.completes, "payload_ready") \o
  Push(a.datagram.suffix, "payload_ready") \o
  Push(a.datagram = Unfragmented, "payload_ready")

EmitsPayload(d) == d = Unfragmented \/ d.completes \/ d.suffix

Publish ==
  /\ events' = events + Len(Pushed(admitted))
  /\ reported' = reported + admitted.reported
  /\ sinceValid' = 0
  /\ received' = received + 1
  /\ admitted' = None
  /\ phase' = IF Yields /\ EmitsPayload(admitted.datagram)
              THEN IF requested THEN "closed?" ELSE "finish"
              ELSE "receive"
  /\ UNCHANGED <<status, contextSent, unreliable, contextual, assembling, closeVars,
                 attemptVars>>

OwesFirstAck == ~requested /\ ~firstAckSent
OwesAck == ~requested /\ firstAckSent /\ admitted.answer

AnswerFirst ==
  /\ phase = "answer" /\ OwesFirstAck /\ sent < MaxSends
  /\ SendFirstAck
  /\ sent' = sent + 1
  /\ sinceSend' = IF IdlePoll = 0 THEN None ELSE 0
  /\ sentAck' = incomingReliableAck
  /\ UNCHANGED ackPending
  /\ Publish

AnswerNow ==
  /\ phase = "answer" /\ OwesAck /\ sent < MaxSends
  /\ CanPrepare(0)
  /\ SendPlan(Plan(0))
  /\ ackPending' = FALSE
  /\ Publish

\* With nothing left to send in this update the acknowledgement waits.
AnswerForgotten ==   \* mutant: the acknowledgement is dropped instead
  /\ phase = "answer"
  /\ requested \/ (OwesAck /\ sent >= MaxSends)
  /\ UNCHANGED <<sessionVars, ackPending, sent, sinceSend, sentAck>>
  /\ Publish
AnswerLater ==
  /\ phase = "answer"
  /\ requested \/ (OwesAck /\ sent >= MaxSends)
  /\ ackPending' = TRUE
  /\ UNCHANGED <<sessionVars, sent, sinceSend, sentAck>>
  /\ Publish

AnswerNothing ==
  /\ phase = "answer" /\ ~requested /\ firstAckSent /\ ~admitted.answer
  /\ UNCHANGED <<sessionVars, ackPending, sent, sinceSend, sentAck>>
  /\ Publish

\* A blocked send is an error here: the datagram is already committed.
AnswerFails ==
  /\ phase = "answer"
  /\ OwesFirstAck \/ (OwesAck /\ sent < MaxSends)
  /\ FailSend
  /\ UNCHANGED attemptVars

-----------------------------------------------------------------------------
(* After receiving: the deadlines, then what is left to send.              *)

FinishReceiving ==
  /\ phase = "finish" /\ ~Expired
  /\ phase' = "send"
  /\ UNCHANGED <<sessionVars, status, updateVars, pendingVars, events, clockVars,
                 closeVars, attemptVars, reportVars>>
FinishLate ==
  /\ phase = "finish" /\ Expired
  /\ TimeOut

ReliableWork ==
  \/ pending # <<>>
  \/ inFlight # None /\ inFlight.retransmit
  \/ transfer # None /\ inFlight = None
IdlePollDue == IdlePoll > 0 /\ sinceSend # None /\ sinceSend = IdlePoll

\* The loop condition and the returns of send_pending.
SendingWithoutPoll ==   \* mutant: an idle channel is left silent
  /\ phase = "send"
  /\ sent < MaxSends
  /\ IF firstAckSent THEN ackPending \/ unreliable > 0 \/ ReliableWork ELSE ReliableWork
Sending ==
  /\ phase = "send"
  /\ sent < MaxSends
  /\ IF firstAckSent THEN ackPending \/ unreliable > 0 \/ ReliableWork \/ IdlePollDue
                     ELSE ReliableWork
Suffix == IF firstAckSent THEN unreliable ELSE 0

KeepUnlessOffered == IF Suffix > 0 THEN 0 ELSE unreliable   \* mutant: cleared though skipped
KeepUnlessSent == IF Plan(Suffix).unreliable > 0 THEN 0 ELSE unreliable

SendPendingKeepingAck ==   \* mutant: sending does not settle the acknowledgement
  /\ Sending /\ CanPrepare(Suffix)
  /\ SendPlan(Plan(Suffix))
  /\ unreliable' = KeepUnlessSent
  /\ UNCHANGED <<status, phase, received, contextSent, admitted, ackPending, contextual,
                 events, sinceValid, assembling, closeVars, attemptVars, reported>>
SendPending ==
  /\ Sending /\ CanPrepare(Suffix)
  /\ SendPlan(Plan(Suffix))
  /\ ackPending' = FALSE
  /\ unreliable' = KeepUnlessSent
  /\ UNCHANGED <<status, phase, received, contextSent, admitted, contextual, events,
                 sinceValid, assembling, closeVars, attemptVars, reported>>

\* Nothing is left to send, or the socket would block.
EndSending ==
  /\ phase = "send"
  /\ Sending => CanPrepare(Suffix)
  /\ LeaveUpdate
  /\ UNCHANGED <<sessionVars, status, pendingVars, events, clockVars, closeVars,
                 attemptVars, reportVars>>

SendingFails ==
  /\ Sending
  /\ IF CanPrepare(Suffix) THEN FailSend /\ UNCHANGED attemptVars ELSE Fail("protocol_error")

-----------------------------------------------------------------------------
(* update_graceful_close: at most one terminal or supporting datagram, then *)
(* receiving without automatic answers, until an acknowledgement covers the *)
(* first terminal datagram or the budget of time is spent.                  *)

CloseDeadline ==
  /\ phase = "closing" /\ closeAge = CloseBudget
  /\ CloseWith(IF firstClose # None THEN "sent_but_unconfirmed" ELSE "send_failed")
  /\ UNCHANGED disconnectSeen

Closing == phase = "closing" /\ closeAge < CloseBudget

CloseBackpressure == Closing /\ events = MaxEvents /\ Backpressure

\* The disconnect request if it fits; else, to make room, a reliable unit alone.
ClosePlan ==
  IF CanPrepare(CloseSize) THEN Plan(CloseSize)
  ELSE IF supports < CloseSupports /\ CanPrepare(0) THEN Plan(0)
  ELSE None
IsTerminal == ClosePlan.unreliable > 0

AttemptDue ==
  /\ Closing /\ events < MaxEvents
  /\ sinceAttempt = None \/ sinceAttempt = CloseInterval
  /\ attempts < CloseSends
  /\ ClosePlan # None
  /\ IsTerminal \/ supports < CloseSupports

CountAttempt ==
  /\ sinceAttempt' = 0
  /\ attempts' = attempts + One(IsTerminal)
  /\ supports' = supports + One(~IsTerminal)

FirstCloseOfAny == IF firstClose = None THEN nextOutgoing ELSE firstClose   \* mutant
FirstCloseSent == IF IsTerminal /\ firstClose = None THEN nextOutgoing ELSE firstClose

NotAttempting == Closing /\ events < MaxEvents /\ ~AttemptDue

SendClose ==
  /\ AttemptDue
  /\ CountAttempt
  /\ SendPlan(ClosePlan)
  /\ firstClose' = FirstCloseSent
  /\ phase' = "receive"
  /\ UNCHANGED <<status, received, contextSent, admitted, pendingVars, events,
                 sinceValid, assembling, closeVars, reported>>

CloseBlocks ==
  /\ AttemptDue
  /\ CountAttempt
  /\ phase' = "receive"
  /\ UNCHANGED <<sessionVars, status, updateVars, pendingVars, events, clockVars,
                 closeVars, firstClose, reportVars>>

CloseFails ==
  /\ AttemptDue
  /\ CountAttempt
  /\ FailSend
  /\ UNCHANGED firstClose

CloseWaits ==
  /\ NotAttempting
  /\ phase' = "receive"
  /\ UNCHANGED <<sessionVars, status, updateVars, pendingVars, events, clockVars,
                 closeVars, attemptVars, reportVars>>

CloseCovered == firstClose # None /\ Covers(peerAck, firstClose)

CloseAcknowledged ==
  /\ phase = "closed?" /\ CloseCovered
  /\ CloseWith("transport_acknowledged")
  /\ UNCHANGED disconnectSeen

CloseContinues ==
  /\ phase = "closed?" /\ ~CloseCovered
  /\ LeaveUpdate
  /\ UNCHANGED <<sessionVars, status, pendingVars, events, clockVars, closeVars,
                 attemptVars, reportVars>>

-----------------------------------------------------------------------------

OwnerStep ==
  \/ Start \/ FailAtEntry
  \/ \E n \in 1 .. MaxAccepted : DriverQueueReliable(n)
  \/ \E u \in 1 .. MaxUnreliable : SubmitUnreliable(u) \/ CommitUnreliable(u)
  \/ PollEvent \/ PrependRetainedPayload
  \/ Cancel \/ Close
  \/ RequestGracefulClose \/ RequestGracefulCloseTooLate \/ ConfirmServerDisconnect

UpdateStep ==
  \/ RefuseUpdate
  \/ SendContextual \/ ContextualBlocks \/ ContextualFails
  \/ EndReceiving \/ IgnoreDatagram \/ RefuseDatagram
  \/ Receiving /\ \E h \in NewerHeader : \E d \in DatagramsWith(h) : ReceiveDatagram(h, d)
  \/ AnswerFirst \/ AnswerNow \/ AnswerLater \/ AnswerNothing \/ AnswerFails
  \/ FinishReceiving \/ FinishLate
  \/ SendPending \/ EndSending \/ SendingFails
  \/ CloseDeadline \/ CloseBackpressure
  \/ SendClose \/ CloseBlocks \/ CloseFails \/ CloseWaits
  \/ CloseAcknowledged \/ CloseContinues

DriverNext ==
  \/ OwnerStep
  \/ \E ticks \in Ticks : BeginUpdate(ticks)
  \/ UpdateStep

DriverSpec == DriverInit /\ [][DriverNext]_driverVars

(* The host keeps calling update while the driver is active, its clock     *)
(* moves on, and an update that has begun runs to its end.                 *)
Latest == CHOOSE ticks \in Ticks : \A t \in Ticks : t <= ticks
HostFairness == WF_driverVars(BeginUpdate(Latest) \/ UpdateStep)

(* The socket does not block for ever: a datagram tried again and again     *)
(* leaves in the end.  It says nothing of the datagrams of a graceful       *)
(* close, which the socket may block for as long as it likes.               *)
SocketFairness == SF_driverVars(SendContextual \/ SendPending)

FairDriverSpec == DriverSpec /\ HostFairness /\ SocketFairness

-----------------------------------------------------------------------------
AtRest == Outside /\ status = "active"

(* The committed context is still the datagram the session would make: the *)
(* checksum the caller computed for its number and composition is right    *)
(* when it is sent, however many updates a blocked socket delays it.       *)
ContextualPlanIsCurrent ==
  contextual # None =>
    /\ contextual.plan = Plan(contextual.offered)
    /\ CanPrepare(contextual.offered)
    /\ unreliable = 0

(* Between updates an active driver has acknowledged the generation it     *)
(* admitted last, or knows that it still has to: no path through the       *)
(* receive loop, the budget of sends or a graceful close forgets it.       *)
AcknowledgementIsOwed == AtRest => (sentAck = incomingReliableAck \/ ackPending)

(* Between updates the owner has been told of exactly the payloads the     *)
(* session has let go of: none is released in silence, none reported while *)
(* a fragment of it is outstanding.                                        *)
ReleasedIsReported ==
  AtRest => reported = retired - (IF transfer = None THEN 0
                                  ELSE (transfer.index - 1) * FragmentSize)

(* The ring of events never takes more than it has room for.  Nothing      *)
(* checks when events are pushed: the room asked for before a datagram is   *)
(* committed, by the reassembler's plan and the driver's own prediction,    *)
(* must cover what the receipt and the released payload then publish.       *)
EventsFit == events <= MaxEvents

(* An update leaves the driver active only if no deadline has passed: the  *)
(* peer's silence and an incomplete transfer end it on every path, also    *)
(* when the socket blocks before anything is received.                     *)
ActiveIsTimely ==
  [][phase # "outside" /\ phase' = "outside" /\ status' = "active" /\ ~requested
       => ~Expired']_driverVars

(* A support datagram of a graceful close is not sent in vain: it skips a   *)
(* number for the classifier, or it puts a reliable unit in flight and the  *)
(* disconnect fits the next datagram beside it.                             *)
SupportMakesRoom ==
  [][supports' > supports /\ nextOutgoing' # nextOutgoing =>
       \/ Plan(0).decision = "advance_fragment_sequence"
       \/ CanPrepare(CloseSize)']_driverVars

(* An unreliable payload once accepted is dropped only by a datagram that  *)
(* carries it, or with the connection: a datagram that skips a number for  *)
(* the classifier leaves it pending.                                       *)
SubmittedIsSentOrKept ==
  [][unreliable > 0 /\ unreliable' = 0 =>
       \/ status' # "active" \/ requested'
       \/ nextOutgoing' # nextOutgoing /\ Plan(unreliable).unreliable = unreliable]_driverVars

(* The outcome of a graceful close, once settled, is replaced only by the  *)
(* server's own disconnect.                                                *)
OutcomeIsSettled ==
  [][outcome \notin {"not_requested", "pending"} /\ outcome' # outcome
       => outcome' = "server_disconnect_confirmed"]_driverVars

(* The outcome does not promise more than was done: an acknowledgement      *)
(* covers the first terminal datagram that left; one that ran out of time   *)
(* says truly whether any left, and that none of it was acknowledged.       *)
OutcomeIsHonest ==
  /\ outcome = "transport_acknowledged" => attempts > 0 /\ CloseCovered
  /\ outcome = "sent_but_unconfirmed" => attempts > 0 /\ firstClose # None /\ ~CloseCovered
  /\ outcome = "send_failed" /\ status = "closed" => firstClose = None
  /\ outcome = "pending" => requested /\ status \in {"active", "closed"}

(* A graceful close ends, whatever the peer and the socket do, while the   *)
(* host keeps updating.                                                    *)
GracefulCloseEnds == requested ~> Terminal

(* An acknowledgement put off is sent in the end, or the driver is over.   *)
AcknowledgementIsSent == ackPending ~> ~ackPending

(* An active channel does not fall silent: once the idle interval has      *)
(* passed since the last datagram, another is sent.                        *)
IdleChannelIsPolled ==
  sinceSend = IdlePoll /\ status = "active" ~> sinceSend # IdlePoll \/ status # "active"
=============================================================================
