---------------------------- MODULE NetchanSession ----------------------------
(***************************************************************************)
(* The client's end of the reliable channel (class NetchanSession): what    *)
(* each committed operation does to the session.  Here preparing and       *)
(* committing an operation is one step; NetchanPlans separates them.       *)
(*                                                                         *)
(* A payload is a sequence of units (a unit stands for a run of bytes).    *)
(* Units are numbered in the order queue_reliable accepts them, so that a  *)
(* lost, repeated or reordered unit can be seen.                           *)
(***************************************************************************)
EXTENDS NetchanSequence, Sequences

CONSTANTS
  MaxBody,          \* units that fit in a datagram behind the header
  MaxUnfragmented,  \* limits_.maximum_unfragmented_reliable_payload
  MaxPending,       \* limits_.maximum_pending_reliable_payload
  MaxTransfer,      \* kMaximumOutgoingNormalFragmentTransferSize
  FragmentSize,     \* kStockProtocol48NormalFragmentChunkSize
  DescriptorArea,   \* units of body a fragment descriptor takes
  MaxUnreliable,    \* bound: units of unreliable payload a caller offers
  MaxAccepted,      \* bound: units accepted in one behaviour
  None              \* no value (std::nullopt)

\* valid_limits, and the relation of the code's own constants.
ASSUME LimitsAssumption ==
  /\ MaxBody \in Nat /\ MaxUnfragmented \in Nat /\ MaxPending \in Nat
  /\ MaxTransfer \in Nat /\ FragmentSize \in Nat \ {0} /\ DescriptorArea \in Nat
  /\ MaxUnreliable \in Nat /\ MaxAccepted \in Nat
  /\ 0 < MaxUnfragmented /\ MaxUnfragmented <= MaxBody
  /\ MaxUnfragmented <= MaxPending /\ MaxPending <= MaxTransfer

InFlightPayload == [bytes : Seq(Nat), toggle : BOOLEAN, mostRecent : SeqNum,
                    retransmit : BOOLEAN]
FragmentTransfer == [bytes : Seq(Nat), count : Nat, index : Nat \ {0}]

ASSUME NoneAssumption == None \notin InFlightPayload /\ None \notin FragmentTransfer

VARIABLES
  nextOutgoing, lastOutgoing,   \* state_.next_outgoing_sequence, last_...
  incoming,                     \* state_.incoming_sequence
  incomingReliableAck,          \* state_.incoming_reliable_acknowledgement
  peerAck, peerReliableAck,     \* state_.peer_acknowledgement, peer_reliable_...
  pending,                      \* pending_reliable_payload_
  inFlight,                     \* in_flight_reliable_payload_
  transfer,                     \* outgoing_fragment_transfer_
  toggle,                       \* outgoing_reliable_toggle_
  firstIncoming,                \* first_incoming_committed_
  firstAckSent,                 \* first_acknowledgement_sent_
  accepted,                     \* history: units queue_reliable has accepted
  retired                       \* history: units the session has let go of

outgoingVars == <<nextOutgoing, lastOutgoing>>
incomingVars == <<incoming, incomingReliableAck, peerAck, peerReliableAck, firstIncoming>>
reliableVars == <<pending, inFlight, transfer, toggle>>
historyVars  == <<accepted, retired>>
sessionVars  == <<outgoingVars, incomingVars, reliableVars, firstAckSent, historyVars>>

\* NetchanSequenceState::stock_protocol48 and the constructor.
Init ==
  /\ nextOutgoing = 1 /\ lastOutgoing = 0
  /\ incoming = 0 /\ incomingReliableAck = FALSE
  /\ peerAck = 0 /\ peerReliableAck = FALSE
  /\ pending = <<>> /\ inFlight = None /\ transfer = None
  /\ toggle = FALSE
  /\ firstIncoming = FALSE /\ firstAckSent = FALSE
  /\ accepted = 0 /\ retired = 0

-----------------------------------------------------------------------------
(* Queueing.                                                               *)

Units(first, n) == [i \in 1 .. n |-> first + i - 1]

QueueReliable(n) ==
  /\ accepted + n <= MaxAccepted
  /\ Len(pending) + n <= MaxPending
  /\ pending' = pending \o Units(accepted + 1, n)
  /\ accepted' = accepted + n
  /\ UNCHANGED <<outgoingVars, incomingVars, inFlight, transfer, toggle,
                 firstAckSent, retired>>

-----------------------------------------------------------------------------
(* Sending.                                                                *)

\* The fragments of a payload: ceiling division, each FragmentSize but the last.
FragmentCount(size) == 1 + (size - 1) \div FragmentSize
FragmentOf(bytes, index) ==
  LET offset == (index - 1) * FragmentSize
      end    == offset + FragmentSize
  IN  SubSeq(bytes, offset + 1, IF end <= Len(bytes) THEN end ELSE Len(bytes))

\* decide_reliable_transmit, and the same choice for a fragment transfer.
ReliableDecision ==
  CASE inFlight # None /\ ~inFlight.retransmit -> "blocked_waiting_for_ack"
    [] inFlight # None /\ inFlight.retransmit  ->
         IF transfer # None THEN "retransmit_fragment" ELSE "retransmit"
    [] inFlight = None /\ transfer # None      -> "send_new_fragment"
    [] inFlight = None /\ transfer = None      ->
         IF pending = <<>> THEN "none"
         ELSE IF Len(pending) > MaxUnfragmented THEN "send_new_fragment"
         ELSE "send_new"

FragmentDecisions == {"send_new_fragment", "retransmit_fragment"}

\* The transfer a fragment belongs to: the active one, or the one that
\* sending the first fragment of the pending payload creates.
CurrentTransfer ==
  IF transfer # None THEN transfer
  ELSE [bytes |-> pending, count |-> FragmentCount(Len(pending)), index |-> 1]

\* The reliable units a decision puts in the datagram.
ReliableUnits(decision) ==
  CASE decision = "send_new"            -> pending
    [] decision = "retransmit"          -> inFlight.bytes
    [] decision \in FragmentDecisions   ->
         FragmentOf(CurrentTransfer.bytes, CurrentTransfer.index)
    [] OTHER                            -> <<>>

\* The fit checks of prepare_outgoing_packet, for u units of unreliable payload.
Fits(decision, u) ==
  IF decision \in FragmentDecisions
  THEN /\ Len(CurrentTransfer.bytes) <= MaxTransfer
       /\ DescriptorArea + Len(ReliableUnits(decision)) + u <= MaxBody
  ELSE Len(ReliableUnits(decision)) + u <= MaxBody

\* What prepare_outgoing_packet plans: the datagram, and the generation and
\* decision the commit will apply.
Plan(u) ==
  LET decision == ReliableDecision
      skip     == /\ decision \in FragmentDecisions
                  /\ CollidesWithClassifier(nextOutgoing)
      sends    == ~skip /\ decision \in FragmentDecisions \cup {"send_new", "retransmit"}
      isNew    == ~skip /\ decision \in {"send_new", "send_new_fragment"}
      isFragment == ~skip /\ decision \in FragmentDecisions
  IN  [decision   |-> IF skip THEN "advance_fragment_sequence" ELSE decision,
       toggle     |-> CASE isNew -> ~toggle
                        [] sends /\ ~isNew -> inFlight.toggle
                        [] OTHER -> toggle,
       sequence   |-> nextOutgoing,
       reliable   |-> sends,
       fragmented |-> isFragment,
       index      |-> IF isFragment THEN CurrentTransfer.index ELSE 0,
       count      |-> IF isFragment THEN CurrentTransfer.count ELSE 0,
       ack        |-> incoming,
       ackReliable |-> incomingReliableAck,
       bytes      |-> IF sends THEN ReliableUnits(decision) ELSE <<>>,
       unreliable |-> IF skip THEN 0 ELSE u]

CanPrepare(u) == Fits(ReliableDecision, u)

AdvanceOutgoing == lastOutgoing' = nextOutgoing /\ nextOutgoing' = NextSeq(nextOutgoing)

NewInFlight(p, bytes) ==
  [bytes |-> bytes, toggle |-> p.toggle, mostRecent |-> nextOutgoing, retransmit |-> FALSE]

\* commit_outgoing_send of plan p, one disjunct per reliable decision.
CommitNew(p) ==
  /\ p.decision = "send_new"
  /\ toggle' = p.toggle
  /\ inFlight' = NewInFlight(p, pending)
  /\ pending' = <<>>
  /\ UNCHANGED transfer

CommitNewFragmentSameGeneration(p) ==   \* mutant: the generation does not flip
  /\ p.decision = "send_new_fragment"
  /\ UNCHANGED toggle
  /\ inFlight' = NewInFlight(p, p.bytes)
  /\ IF transfer # None
     THEN UNCHANGED <<transfer, pending>>
     ELSE /\ transfer' = [bytes |-> pending, count |-> p.count, index |-> p.index]
          /\ pending' = <<>>

CommitNewFragment(p) ==
  /\ p.decision = "send_new_fragment"
  /\ toggle' = p.toggle
  /\ inFlight' = NewInFlight(p, p.bytes)
  /\ IF transfer # None
     THEN UNCHANGED <<transfer, pending>>
     ELSE /\ transfer' = [bytes |-> pending, count |-> p.count, index |-> p.index]
          /\ pending' = <<>>

CommitRetransmissionAgain(p) ==   \* mutant: the copy sent leaves the mark in place
  /\ p.decision \in {"retransmit", "retransmit_fragment"}
  /\ inFlight' = [inFlight EXCEPT !.mostRecent = nextOutgoing]
  /\ UNCHANGED <<pending, transfer, toggle>>

CommitRetransmission(p) ==
  /\ p.decision \in {"retransmit", "retransmit_fragment"}
  /\ inFlight' = [inFlight EXCEPT !.mostRecent = nextOutgoing, !.retransmit = FALSE]
  /\ UNCHANGED <<pending, transfer, toggle>>

CommitWithoutReliable(p) ==
  /\ p.decision \in {"none", "blocked_waiting_for_ack", "advance_fragment_sequence"}
  /\ UNCHANGED reliableVars

CommitOutgoing(p) ==
  /\ \/ CommitNew(p)
     \/ CommitNewFragment(p)
     \/ CommitRetransmission(p)
     \/ CommitWithoutReliable(p)
  /\ AdvanceOutgoing
  /\ UNCHANGED <<incomingVars, firstAckSent, historyVars>>

Transmit(u) == CanPrepare(u) /\ CommitOutgoing(Plan(u))

\* prepare_first_acknowledgement and commit_first_acknowledgement: a padded
\* datagram that carries the acknowledgement alone.
FirstAckPlan ==
  [decision |-> "first_acknowledgement", toggle |-> toggle, sequence |-> nextOutgoing,
   reliable |-> FALSE, fragmented |-> FALSE, index |-> 0, count |-> 0,
   ack |-> incoming, ackReliable |-> incomingReliableAck, bytes |-> <<>>, unreliable |-> 0]

SendFirstAck ==
  /\ firstIncoming /\ ~firstAckSent
  /\ firstAckSent' = TRUE
  /\ AdvanceOutgoing
  /\ UNCHANGED <<incomingVars, reliableVars, historyVars>>

-----------------------------------------------------------------------------
(* Receiving.  A header carries its own number and flags and acknowledges  *)
(* the client's; the reassembler classifies a fragment before the session  *)
(* sees it.                                                                *)

Classifications == {"unfragmented", "new_fragment_unit", "exact_fragment_retransmission"}

\* Only the header of a newer datagram is admitted.
NewerHeader == [sequence : {s \in SeqNum : Newer(s, incoming)}, reliable : BOOLEAN,
                fragmented : BOOLEAN, ack : SeqNum, ackReliable : BOOLEAN]

\* inspect_incoming accepts the header.
AcceptableBelowLast(h, class) ==   \* mutant: the last number sent is not a valid ack
  /\ IF h.fragmented THEN class # "unfragmented" /\ h.reliable
                     ELSE class = "unfragmented"
  /\ Newer(h.sequence, incoming)
  /\ CompareSequences(h.ack, lastOutgoing) = "older"
  /\ ~Ambiguous(h.ack, peerAck)
  /\ inFlight # None => ~Ambiguous(h.ack, inFlight.mostRecent)

Acceptable(h, class) ==
  /\ IF h.fragmented THEN class # "unfragmented" /\ h.reliable
                     ELSE class = "unfragmented"
  /\ Newer(h.sequence, incoming)
  /\ ~Newer(h.ack, lastOutgoing) /\ ~Ambiguous(h.ack, lastOutgoing)
  /\ ~Ambiguous(h.ack, peerAck)
  /\ inFlight # None => ~Ambiguous(h.ack, inFlight.mostRecent)

AnyNewDatagram(h, class) ==   \* mutant: the reliable flag is not looked at
  class # "exact_fragment_retransmission"
NewReliable(h, class) == h.reliable /\ class # "exact_fragment_retransmission"

\* The inspection inspect_incoming returns for an acceptable header.
Inspection(h, class) ==
  [sequence    |-> h.sequence,
   reliableAck |-> IF NewReliable(h, class) THEN ~incomingReliableAck
                                            ELSE incomingReliableAck,
   ack         |-> h.ack,
   ackReliable |-> h.ackReliable,
   disposition |-> CASE CompareSequences(h.ack, peerAck) = "newer" -> "advanced"
                     [] CompareSequences(h.ack, peerAck) = "older" -> "stale"
                     [] OTHER -> "duplicate"]

\* The acknowledgement releases what is in flight: it covers the most recent
\* copy sent and carries that copy's generation.
ReleasesOnNumber(i) ==   \* mutant: the generation is not compared
  /\ inFlight # None
  /\ i.disposition = "advanced"
  /\ Covers(i.ack, inFlight.mostRecent)

Releases(i) ==
  /\ inFlight # None
  /\ i.disposition = "advanced"
  /\ Covers(i.ack, inFlight.mostRecent)
  /\ i.ackReliable = inFlight.toggle

\* The acknowledgement has passed the most recent copy without admitting it.
ShowsLoss(i) ==
  /\ inFlight # None
  /\ i.disposition = "advanced"
  /\ Newer(i.ack, inFlight.mostRecent)
  /\ i.ackReliable # inFlight.toggle

ReleaseWholeTransfer ==   \* mutant: one acknowledged fragment ends the transfer
  /\ inFlight' = None
  /\ transfer' = None
  /\ retired' = retired + Len(inFlight.bytes)

ReleaseInFlight ==
  /\ inFlight' = None
  /\ transfer' = IF transfer # None /\ transfer.index < transfer.count
                 THEN [transfer EXCEPT !.index = @ + 1]
                 ELSE None
  /\ retired' = retired + Len(inFlight.bytes)

CommitIncoming(i) ==
  /\ incoming' = i.sequence
  /\ incomingReliableAck' = i.reliableAck
  /\ IF i.disposition = "stale"
     THEN UNCHANGED <<peerAck, peerReliableAck>>
     ELSE peerAck' = i.ack /\ peerReliableAck' = i.ackReliable
  /\ \/ Releases(i) /\ ReleaseInFlight
     \/ /\ ~Releases(i)
        /\ inFlight' = IF ShowsLoss(i) THEN [inFlight EXCEPT !.retransmit = TRUE]
                                       ELSE inFlight
        /\ UNCHANGED <<transfer, retired>>
  /\ firstIncoming' = TRUE
  /\ UNCHANGED <<outgoingVars, pending, toggle, firstAckSent, accepted>>

Receive(h, class) == Acceptable(h, class) /\ CommitIncoming(Inspection(h, class))

-----------------------------------------------------------------------------
\* clear_reliable_state: everything not yet acknowledged is dropped.
ClearReliableState ==
  /\ pending' = <<>> /\ inFlight' = None /\ transfer' = None
  /\ retired' = accepted
  /\ UNCHANGED <<outgoingVars, incomingVars, toggle, firstAckSent, accepted>>

Next ==
  \/ \E n \in 1 .. MaxAccepted : QueueReliable(n)
  \/ \E u \in 0 .. MaxUnreliable : Transmit(u)
  \/ SendFirstAck
  \/ \E h \in NewerHeader, class \in Classifications : Receive(h, class)
  \/ ClearReliableState

Spec == Init /\ [][Next]_sessionVars

-----------------------------------------------------------------------------
(* Every part of the state keeps its type; the sequence numbers stay within *)
(* the range of the wire word's low bits.                                  *)
TypeOK ==
  /\ nextOutgoing \in SeqNum /\ lastOutgoing \in SeqNum
  /\ incoming \in SeqNum /\ incomingReliableAck \in BOOLEAN
  /\ peerAck \in SeqNum /\ peerReliableAck \in BOOLEAN
  /\ pending \in Seq(Nat)
  /\ inFlight \in InFlightPayload \cup {None}
  /\ transfer \in FragmentTransfer \cup {None}
  /\ toggle \in BOOLEAN
  /\ firstIncoming \in BOOLEAN /\ firstAckSent \in BOOLEAN
  /\ accepted \in Nat /\ retired \in Nat

\* What the session still owes the peer, in order: the rest of the transfer
\* (or the payload in flight), then the pending payload.
Unacknowledged ==
  IF transfer # None
  THEN SubSeq(transfer.bytes, (transfer.index - 1) * FragmentSize + 1, Len(transfer.bytes))
  ELSE IF inFlight # None THEN inFlight.bytes ELSE <<>>

(* The session neither loses, repeats nor reorders a unit that             *)
(* queue_reliable accepted: what it holds is exactly the accepted units it *)
(* has not let go of, oldest first, across queueing, the move into flight, *)
(* fragmentation, retransmission and acknowledgement.                      *)
HoldsAcceptedInOrder ==
  Unacknowledged \o pending = Units(retired + 1, accepted - retired)

(* A copy in flight is of the generation last used, and while a transfer   *)
(* is active it is the transfer's current fragment: a retransmission can   *)
(* only repeat the same bytes under the same generation.                   *)
InFlightIsCurrentUnit ==
  /\ inFlight # None => inFlight.toggle = toggle
  /\ transfer # None =>
       /\ transfer.count = FragmentCount(Len(transfer.bytes))
       /\ transfer.index \in 1 .. transfer.count
  /\ transfer # None /\ inFlight # None =>
       inFlight.bytes = FragmentOf(transfer.bytes, transfer.index)
=============================================================================
