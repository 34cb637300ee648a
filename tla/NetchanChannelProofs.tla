-------------------------- MODULE NetchanChannelProofs --------------------------
(***************************************************************************)
(* Proofs about the client's session, a stock peer and the network between *)
(* them, for every modulus, window, lifetime, payload and order of the      *)
(* peer's units: both reliable ways implement ReliableDelivery, the way     *)
(* down also when it brings fragments, no datagram of the peer is ever      *)
(* refused and none of the client's is taken for another kind.             *)
(*                                                                         *)
(* Sequence numbers wrap, so the invariant does not compare numbers but     *)
(* their ages: how far each lies behind the last one its side has sent.    *)
(* The windows and the network's lifetime keep every age that matters       *)
(* below half the range, and there the code's comparison is that of ages.  *)
(*                                                                         *)
(* First the way up and the whole of NetchanChannel, then the way down with *)
(* the reassembler, which is NetchanTransfers.                             *)
(***************************************************************************)
EXTENDS NetchanTransfers, NetchanSessionProofs, FiniteSetTheorems

\* Ages of the client's numbers and of the peer's.
Age(s)  == SequenceDistance(lastOutgoing, s)
Late(s) == SequenceDistance(peerOutgoing, s)

\* The datagrams that their receiver, if they came now, would not ignore.
UpFresh   == {d \in toPeer : Age(d.sequence) < Age(peerIncoming)}
DownFresh == {d \in toClient : Late(d.sequence) < Late(incoming)}

Bit(b) == IF b THEN 1 ELSE 0

ChannelTypes ==
  /\ \A d \in toPeer : /\ d.sequence \in SeqNum /\ d.ack \in SeqNum
                       /\ d.reliable \in BOOLEAN /\ d.fragmented \in BOOLEAN
                       /\ d.reliable /\ d.fragmented => ~CollidesWithClassifier(d.sequence)
                       /\ ~d.reliable => d.bytes = <<>>
  /\ \A d \in toClient : /\ d.sequence \in SeqNum /\ d.ack \in SeqNum
                         /\ d.reliable \in BOOLEAN /\ d.ackReliable \in BOOLEAN
  /\ peerIncoming \in SeqNum /\ peerOutgoing \in SeqNum /\ peerSeenAck \in SeqNum
  /\ peerGeneration \in BOOLEAN
  /\ nextOutgoing = NextSeq(lastOutgoing)

\* One number more than the window may go out, and the first acknowledgement.
Windows ==
  /\ Age(peerAck) <= SendWindow + 1 + Bit(firstAckSent)
  /\ Late(peerSeenAck) <= PeerWindow
  /\ \A d \in toPeer : Age(d.sequence) <= NetLifetime
  /\ \A d \in toClient : Late(d.sequence) <= NetLifetime

\* Acknowledgements advance with the numbers of the datagrams that carry them.
UpOrder ==
  /\ Late(incoming) <= Late(peerSeenAck)
  /\ \A d \in UpFresh :
       /\ Late(incoming) <= Late(d.ack) /\ Late(d.ack) <= Late(peerSeenAck)
       /\ \A e \in UpFresh : Age(d.sequence) <= Age(e.sequence) => Late(d.ack) <= Late(e.ack)
DownOrder ==
  /\ Age(peerIncoming) <= Age(peerAck)
  /\ \A d \in DownFresh :
       /\ Age(peerIncoming) <= Age(d.ack) /\ Age(d.ack) <= Age(peerAck)
       /\ \A e \in DownFresh : Late(d.sequence) <= Late(e.sequence) => Age(d.ack) <= Age(e.ack)

\* The peer has admitted every reliable unit that was put in flight.
Admitted == peerGeneration = toggle

\* The only copy of the unit in flight that the peer could still admit is the
\* most recent one, and it can only while it has admitted none; an
\* acknowledgement that covers that copy tells whether it was.
Copies ==
  inFlight # None =>
    LET m == inFlight.mostRecent
    IN  /\ ~inFlight.retransmit => Age(m) < Age(peerAck)
        /\ inFlight.retransmit =>
             /\ ~Admitted /\ Age(peerIncoming) < Age(m)
             /\ Age(m) <= SendWindow + Bit(firstAckSent)
                            + Bit(Age(SeqModulus - 1) < Age(m))
                            + Bit(Age(SeqModulus - 2) < Age(m))
        /\ Admitted => Age(peerIncoming) <= Age(m)
        /\ peerIncoming = m => Admitted
        /\ \A d \in UpFresh : /\ d.reliable <=> ~Admitted /\ d.sequence = m
                              /\ d.reliable => d.bytes = inFlight.bytes
        /\ \A d \in DownFresh : Age(d.ack) <= Age(m) =>
             d.ackReliable = peerGeneration /\ (d.ack = m => Admitted)

NoCopies == inFlight = None => Admitted /\ \A d \in UpFresh : ~d.reliable

\* The peer has what the session has let go of, and the unit in flight or not.
Delivery ==
  /\ inFlight # None => Len(inFlight.bytes) > 0
  /\ delivered = Units(1, retired + IF inFlight # None /\ Admitted
                                    THEN Len(inFlight.bytes) ELSE 0)

ChannelInv ==
  /\ Holding
  /\ ChannelTypes /\ Windows /\ UpOrder /\ DownOrder
  /\ Copies /\ NoCopies /\ Delivery

-----------------------------------------------------------------------------
(* Distances.                                                              *)

LEMMA DistanceType ==
  \A r, x \in SeqNum : /\ SequenceDistance(r, x) \in 0 .. SeqModulus - 1
                       /\ SequenceDistance(r, x) = 0 <=> r = x
  BY HalfRangeAssumption DEF SequenceDistance, SeqNum, SeqModulus

(* Below half the range the code's comparison is that of the ages.         *)
LEMMA ComparisonIsOfAges ==
  ASSUME NEW r \in SeqNum, NEW x \in SeqNum, NEW y \in SeqNum,
         SequenceDistance(r, x) < HalfRange, SequenceDistance(r, y) < HalfRange
  PROVE  /\ Newer(x, y) <=> SequenceDistance(r, x) < SequenceDistance(r, y)
         /\ Covers(x, y) <=> SequenceDistance(r, x) <= SequenceDistance(r, y)
         /\ CompareSequences(x, y) = "older" <=> SequenceDistance(r, y) < SequenceDistance(r, x)
         /\ ~Ambiguous(x, y)
         /\ x = y <=> SequenceDistance(r, x) = SequenceDistance(r, y)
<1> DEFINE a == SequenceDistance(r, x)
           b == SequenceDistance(r, y)
           d == SequenceDistance(x, y)
<1>1. a \in Nat /\ b \in Nat /\ a < HalfRange /\ b < HalfRange /\ HalfRange \in Nat
  BY DistanceType, HalfRangeAssumption
<1>2. d = IF a <= b THEN b - a ELSE b - a + 2 * HalfRange
  BY <1>1, SMTT(30) DEF SequenceDistance, SeqNum, SeqModulus
<1>3. x = y <=> a = b
  BY <1>1, SMTT(30) DEF SequenceDistance, SeqNum, SeqModulus
<1> HIDE DEF a, b, d
<1>4. /\ d \in Nat
      /\ d = 0 <=> a = b
      /\ d # HalfRange
      /\ d \in 1 .. HalfRange - 1 <=> a < b
  BY <1>1, <1>2
<1>5. CompareSequences(x, y) = IF a = b THEN "equal" ELSE IF a < b THEN "newer" ELSE "older"
  BY <1>4 DEF CompareSequences, d
<1>6. /\ Newer(x, y) <=> a < b
      /\ ~Ambiguous(x, y)
      /\ Covers(x, y) <=> a = b \/ a < b
      /\ CompareSequences(x, y) = "older" <=> a # b /\ ~(a < b)
  <2>1. CASE a = b
    <3>1. CompareSequences(x, y) = "equal" /\ ~(a < b)
      BY <1>1, <1>5, <2>1
    <3> QED
      BY <2>1, <3>1 DEF Newer, Ambiguous, Covers
  <2>2. CASE a # b /\ a < b
    <3>1. CompareSequences(x, y) = "newer"
      BY <1>5, <2>2
    <3> QED
      BY <2>2, <3>1 DEF Newer, Ambiguous, Covers
  <2>3. CASE a # b /\ ~(a < b)
    <3>1. CompareSequences(x, y) = "older"
      BY <1>5, <2>3
    <3> QED
      BY <2>3, <3>1 DEF Newer, Ambiguous, Covers
  <2> QED
    BY <2>1, <2>2, <2>3
<1>7. /\ a = b \/ a < b <=> a <= b
      /\ a # b /\ ~(a < b) <=> b < a
  BY <1>1
<1> QED
  BY <1>3, <1>6, <1>7 DEF a, b

(* A number sent ages the others by one.                                   *)
LEMMA SendingAges ==
  ASSUME NEW r \in SeqNum, NEW x \in SeqNum
  PROVE  /\ NextSeq(r) \in SeqNum
         /\ SequenceDistance(NextSeq(r), x) =
              IF x = NextSeq(r) THEN 0 ELSE SequenceDistance(r, x) + 1
         /\ x = NextSeq(r) <=> SequenceDistance(r, x) = SeqModulus - 1
  BY HalfRangeAssumption, SMTT(30) DEF SequenceDistance, NextSeq, SeqNum, SeqModulus

-----------------------------------------------------------------------------
(* What the invariant says of the present state.                           *)

(* Every age that is compared is below half the range.                     *)
LEMMA AgesAreSmall ==
  ASSUME ChannelInv
  PROVE  /\ lastOutgoing \in SeqNum /\ nextOutgoing \in SeqNum /\ peerAck \in SeqNum
         /\ incoming \in SeqNum /\ peerIncoming \in SeqNum
         /\ peerOutgoing \in SeqNum /\ peerSeenAck \in SeqNum
         /\ Age(lastOutgoing) = 0
         /\ Age(peerAck) \in Nat /\ Age(peerAck) < HalfRange
         /\ Age(peerIncoming) \in Nat /\ Age(peerIncoming) < HalfRange
         /\ Late(incoming) \in Nat /\ Late(incoming) < HalfRange
         /\ Late(peerSeenAck) \in Nat /\ Late(peerSeenAck) < HalfRange
         /\ \A d \in toPeer : Age(d.sequence) \in Nat /\ Age(d.sequence) < HalfRange
         /\ \A d \in toClient : Late(d.sequence) \in Nat /\ Late(d.sequence) < HalfRange
         /\ \A d \in UpFresh : Late(d.ack) \in Nat /\ Late(d.ack) < HalfRange
         /\ \A d \in DownFresh : Age(d.ack) \in Nat /\ Age(d.ack) < HalfRange
         /\ inFlight # None =>
              /\ inFlight.mostRecent \in SeqNum
              /\ Age(inFlight.mostRecent) \in Nat /\ Age(inFlight.mostRecent) < HalfRange
<1>1. /\ lastOutgoing \in SeqNum /\ nextOutgoing \in SeqNum /\ peerAck \in SeqNum
      /\ incoming \in SeqNum /\ peerIncoming \in SeqNum
      /\ peerOutgoing \in SeqNum /\ peerSeenAck \in SeqNum
      /\ inFlight # None => inFlight.mostRecent \in SeqNum
  BY DEF ChannelInv, ChannelTypes, Holding, CurrentUnitInv, TypeOK, InFlightPayload
<1>2. /\ \A s \in SeqNum : Age(s) \in Nat /\ Late(s) \in Nat
      /\ Age(lastOutgoing) = 0
  BY <1>1, DistanceType DEF Age, Late
<1>3. /\ \A d \in toPeer : d.sequence \in SeqNum /\ d.ack \in SeqNum
      /\ \A d \in toClient : d.sequence \in SeqNum /\ d.ack \in SeqNum
      /\ UpFresh \subseteq toPeer /\ DownFresh \subseteq toClient
  BY DEF ChannelInv, ChannelTypes, UpFresh, DownFresh
<1>4. /\ SendWindow + 3 < HalfRange /\ PeerWindow + 2 < HalfRange /\ NetLifetime < HalfRange
      /\ SendWindow \in Nat /\ PeerWindow \in Nat /\ NetLifetime \in Nat /\ HalfRange \in Nat
      /\ \A b : Bit(b) \in {0, 1}
  BY NetworkAssumption, HalfRangeAssumption DEF Bit
<1>5. /\ Age(peerAck) < HalfRange /\ Late(peerSeenAck) < HalfRange
      /\ \A d \in toPeer : Age(d.sequence) < HalfRange
      /\ \A d \in toClient : Late(d.sequence) < HalfRange
  BY <1>1, <1>2, <1>3, <1>4 DEF ChannelInv, Windows
<1>6. Late(incoming) < HalfRange /\ \A d \in UpFresh : Late(d.ack) < HalfRange
  BY <1>1, <1>2, <1>3, <1>4, <1>5 DEF ChannelInv, UpOrder
<1>7. Age(peerIncoming) < HalfRange /\ \A d \in DownFresh : Age(d.ack) < HalfRange
  BY <1>1, <1>2, <1>3, <1>4, <1>5 DEF ChannelInv, DownOrder
<1>8. ASSUME inFlight # None PROVE Age(inFlight.mostRecent) < HalfRange
  <2>1. PICK a, b, c, e, f \in Nat :
          /\ a = Age(inFlight.mostRecent) /\ b = Age(peerAck)
          /\ c = Bit(firstAckSent) /\ c <= 1
          /\ e = Bit(Age(SeqModulus - 1) < a) /\ e <= 1
          /\ f = Bit(Age(SeqModulus - 2) < a) /\ f <= 1
    <3>1. Age(inFlight.mostRecent) \in Nat /\ Age(peerAck) \in Nat
      BY <1>1, <1>2, <1>8
    <3>2. \A b : Bit(b) \in Nat /\ Bit(b) <= 1
      BY <1>4
    <3> QED
      BY <3>1, <3>2
  <2>2. \/ a < b
        \/ a <= SendWindow + c + e + f
    BY <1>8, <2>1 DEF ChannelInv, Copies
  <2> QED
    BY <1>4, <1>5, <2>1, <2>2
<1> QED
  BY <1>1, <1>2, <1>3, <1>5, <1>6, <1>7, <1>8

(* The receivers' comparisons, in terms of the datagrams still to be taken. *)
LEMMA FreshIsNewer ==
  ASSUME ChannelInv
  PROVE  /\ \A d \in toPeer : Newer(d.sequence, peerIncoming) <=> d \in UpFresh
         /\ \A d \in toClient : Newer(d.sequence, incoming) <=> d \in DownFresh
         /\ \A d \in toClient : Ignored(d) <=> d \notin DownFresh
<1>1. ASSUME NEW d \in toPeer PROVE Newer(d.sequence, peerIncoming) <=> d \in UpFresh
  <2>1. d.sequence \in SeqNum
    BY DEF ChannelInv, ChannelTypes
  <2>2. Newer(d.sequence, peerIncoming) <=> Age(d.sequence) < Age(peerIncoming)
    BY <2>1, AgesAreSmall, ComparisonIsOfAges DEF Age
  <2> QED
    BY <2>2 DEF UpFresh
<1>2. ASSUME NEW d \in toClient
      PROVE  /\ Newer(d.sequence, incoming) <=> d \in DownFresh
             /\ ~Ambiguous(d.sequence, incoming)
  <2>1. d.sequence \in SeqNum
    BY DEF ChannelInv, ChannelTypes
  <2>2. /\ Newer(d.sequence, incoming) <=> Late(d.sequence) < Late(incoming)
        /\ ~Ambiguous(d.sequence, incoming)
    BY <2>1, AgesAreSmall, ComparisonIsOfAges DEF Late
  <2> QED
    BY <2>2 DEF DownFresh
<1> QED
  BY <1>1, <1>2 DEF Ignored

(* What the session compares with an acknowledgement that it takes.        *)
LEMMA FreshAcknowledgement ==
  ASSUME ChannelInv, NEW d \in DownFresh
  PROVE  /\ ~Newer(d.ack, lastOutgoing) /\ ~Ambiguous(d.ack, lastOutgoing)
         /\ ~Ambiguous(d.ack, peerAck)
         /\ CompareSequences(d.ack, peerAck) # "older"
         /\ CompareSequences(d.ack, peerAck) = "newer" <=> Age(d.ack) < Age(peerAck)
         /\ inFlight # None =>
              /\ ~Ambiguous(d.ack, inFlight.mostRecent)
              /\ Newer(d.ack, inFlight.mostRecent)
                   <=> Age(d.ack) < Age(inFlight.mostRecent)
              /\ Covers(d.ack, inFlight.mostRecent)
                   <=> Age(d.ack) <= Age(inFlight.mostRecent)
              /\ d.ack = inFlight.mostRecent
                   <=> Age(d.ack) = Age(inFlight.mostRecent)
<1>1. d.ack \in SeqNum /\ Age(d.ack) \in Nat /\ Age(d.ack) < HalfRange
  BY AgesAreSmall DEF ChannelInv, ChannelTypes, DownFresh
<1>2. ASSUME NEW y \in SeqNum, Age(y) < HalfRange
      PROVE  /\ Newer(d.ack, y) <=> Age(d.ack) < Age(y)
             /\ Covers(d.ack, y) <=> Age(d.ack) <= Age(y)
             /\ CompareSequences(d.ack, y) = "older" <=> Age(y) < Age(d.ack)
             /\ ~Ambiguous(d.ack, y)
             /\ d.ack = y <=> Age(d.ack) = Age(y)
  BY <1>1, <1>2, AgesAreSmall, ComparisonIsOfAges DEF Age
<1>3. ~Newer(d.ack, lastOutgoing) /\ ~Ambiguous(d.ack, lastOutgoing)
  <2>1. lastOutgoing \in SeqNum /\ Age(lastOutgoing) = 0 /\ 0 < HalfRange
    BY AgesAreSmall, HalfRangeAssumption
  <2> QED
    BY <1>1, <1>2, <2>1
<1>4. /\ ~Ambiguous(d.ack, peerAck)
      /\ CompareSequences(d.ack, peerAck) # "older"
      /\ CompareSequences(d.ack, peerAck) = "newer" <=> Age(d.ack) < Age(peerAck)
  <2>1. peerAck \in SeqNum /\ Age(peerAck) \in Nat /\ Age(peerAck) < HalfRange
        /\ Age(d.ack) <= Age(peerAck)
    BY AgesAreSmall DEF ChannelInv, DownOrder
  <2>2. Newer(d.ack, peerAck) <=> CompareSequences(d.ack, peerAck) = "newer"
    BY DEF Newer
  <2> QED
    BY <1>1, <1>2, <2>1, <2>2
<1>5. CASE inFlight # None
  BY <1>2, <1>3, <1>4, <1>5, AgesAreSmall
<1> QED
  BY <1>3, <1>4, <1>5

(* The session takes what it does not ignore.                              *)
LEMMA FreshIsAcceptable ==
  ASSUME ChannelInv, NEW d \in DownFresh
  PROVE  Acceptable(HeaderOf(d), "unfragmented")
<1>1. Newer(d.sequence, incoming)
  BY FreshIsNewer DEF DownFresh
<1>2. /\ HeaderOf(d).fragmented = FALSE /\ HeaderOf(d).sequence = d.sequence
      /\ HeaderOf(d).ack = d.ack
  BY DEF HeaderOf
<1> QED
  BY <1>1, <1>2, FreshAcknowledgement DEF Acceptable

-----------------------------------------------------------------------------
(* The start, and the steps that at most lose datagrams.                   *)

LEMMA ChannelInvInit == ChannelInit => ChannelInv
<1> SUFFICES ASSUME ChannelInit PROVE ChannelInv
  OBVIOUS
<1>1. Holding
  BY HoldingInit DEF ChannelInit
<1>2. /\ 0 \in SeqNum /\ NextSeq(0) = 1 /\ SequenceDistance(0, 0) = 0
      /\ NetLifetime \in Nat /\ SendWindow \in Nat /\ PeerWindow \in Nat
      /\ \A b : Bit(b) \in {0, 1}
  BY NetworkAssumption, HalfRangeAssumption
  DEF SeqNum, NextSeq, SequenceDistance, SeqModulus, Bit
<1>3. /\ lastOutgoing = 0 /\ nextOutgoing = 1 /\ incoming = 0 /\ peerAck = 0
      /\ inFlight = None /\ toggle = FALSE /\ retired = 0 /\ toPeer = {} /\ toClient = {}
      /\ peerIncoming = 0 /\ peerGeneration = FALSE /\ delivered = <<>>
      /\ peerOutgoing = 0 /\ peerSeenAck = 0
  BY DEF ChannelInit, Init
<1>4. UpFresh = {} /\ DownFresh = {}
  BY <1>3 DEF UpFresh, DownFresh
<1>5. ChannelTypes
  BY <1>2, <1>3 DEF ChannelTypes
<1>6. Windows
  BY <1>2, <1>3 DEF Windows, Age, Late
<1>7. UpOrder /\ DownOrder
  BY <1>2, <1>3, <1>4 DEF UpOrder, DownOrder, Age, Late
<1>8. Copies /\ NoCopies
  BY <1>3, <1>4 DEF Copies, NoCopies, Admitted
<1>9. Delivery
  <2>1. Units(1, 0) = <<>>
    BY UnitsProperties
  <2> QED
    BY <1>3, <2>1 DEF Delivery
<1> QED
  BY <1>1, <1>5, <1>6, <1>7, <1>8, <1>9 DEF ChannelInv

(* Losing a datagram, or handing over one that the receiver ignores.       *)
LEMMA FewerDatagrams ==
  ASSUME ChannelInv, Holding',
         toPeer' \subseteq toPeer, toClient' \subseteq toClient,
         UNCHANGED <<nextOutgoing, lastOutgoing, incoming, peerAck, firstAckSent,
                     inFlight, toggle, retired>>,
         UNCHANGED <<peerRxVars, peerOutgoing, peerSeenAck>>
  PROVE  ChannelInv'
<1>1. /\ lastOutgoing' = lastOutgoing /\ nextOutgoing' = nextOutgoing
      /\ incoming' = incoming /\ peerAck' = peerAck /\ firstAckSent' = firstAckSent
      /\ inFlight' = inFlight /\ toggle' = toggle /\ retired' = retired
      /\ peerIncoming' = peerIncoming /\ peerGeneration' = peerGeneration
      /\ delivered' = delivered
      /\ peerOutgoing' = peerOutgoing /\ peerSeenAck' = peerSeenAck
  BY DEF peerRxVars
<1>2. UpFresh' \subseteq UpFresh /\ DownFresh' \subseteq DownFresh
  BY <1>1 DEF UpFresh, DownFresh, Age, Late
<1>3. ChannelTypes'
  BY <1>1 DEF ChannelInv, ChannelTypes
<1>4. Windows'
  BY <1>1 DEF ChannelInv, Windows, Age, Late
<1>5. UpOrder'
  BY <1>1, <1>2 DEF ChannelInv, UpOrder, Age, Late
<1>6. DownOrder'
  BY <1>1, <1>2 DEF ChannelInv, DownOrder, Age, Late
<1>7. Copies'
  BY <1>1, <1>2 DEF ChannelInv, Copies, Admitted, Age
<1>8. NoCopies'
  BY <1>1, <1>2 DEF ChannelInv, NoCopies, Admitted
<1>9. Delivery'
  BY <1>1 DEF ChannelInv, Delivery, Admitted
<1> QED
  BY <1>3, <1>4, <1>5, <1>6, <1>7, <1>8, <1>9 DEF ChannelInv

(* The session's own invariant holds across every step of the channel.     *)
LEMMA HoldingAcross == ChannelInv /\ [ChannelNext]_channelVars => Holding'
<1> SUFFICES ASSUME ChannelInv, [ChannelNext]_channelVars PROVE [Next]_sessionVars
  BY HoldingStep DEF ChannelInv
<1>1. CASE \E n \in 1 .. MaxAccepted : ClientQueue(n)
  BY <1>1 DEF ClientQueue, Next
<1>2. CASE ClientSend
  <2>1. CASE SendFirstAck
    BY <2>1 DEF Next
  <2>2. CASE Transmit(0)
    <3>1. 0 \in 0 .. MaxUnreliable
      BY LimitsAssumption
    <3> QED
      BY <2>2, <3>1 DEF Next
  <2> QED
    BY <1>2, <2>1, <2>2
    DEF ClientSend, ClientSendReliable, ClientPoll, ClientFirstAck, ClientTransmit
<1>3. CASE \E d \in toClient : ClientReceive(d)
  <2>1. PICK d \in toClient : ClientReceive(d)
    BY <1>3
  <2>2. CASE Receive(HeaderOf(d), "unfragmented")
    <3>1. Newer(d.sequence, incoming)
      BY <2>2 DEF Receive, Acceptable, HeaderOf
    <3>2. /\ d.sequence \in SeqNum /\ d.ack \in SeqNum
          /\ d.reliable \in BOOLEAN /\ d.ackReliable \in BOOLEAN
      BY <2>1 DEF ChannelInv, ChannelTypes
    <3>3. HeaderOf(d) \in NewerHeader
      BY <3>1, <3>2 DEF HeaderOf, NewerHeader
    <3>4. "unfragmented" \in Classifications
      BY DEF Classifications
    <3> QED
      BY <2>2, <3>3, <3>4 DEF Next
  <2> QED
    BY <2>1, <2>2 DEF ClientReceive
<1>4. CASE \E d \in toPeer : PeerReceive(d)
  BY <1>4 DEF PeerReceive
<1>5. CASE PeerSend \/ Lose
  BY <1>5 DEF PeerSend, Lose
<1>6. CASE UNCHANGED channelVars
  BY <1>6 DEF channelVars
<1> QED
  BY <1>1, <1>2, <1>3, <1>4, <1>5, <1>6 DEF ChannelNext

-----------------------------------------------------------------------------
(* What the client puts in a datagram.                                     *)

\* The three ways in which datagram d changes what is in flight.
PutsInFlight(d) ==
  /\ inFlight = None /\ inFlight' # None
  /\ inFlight'.mostRecent = nextOutgoing /\ ~inFlight'.retransmit
  /\ inFlight'.bytes = d.bytes /\ Len(d.bytes) > 0
  /\ toggle' = ~toggle
  /\ d.reliable
Repeats(d) ==
  /\ inFlight # None /\ inFlight.retransmit /\ inFlight' # None
  /\ inFlight'.mostRecent = nextOutgoing /\ ~inFlight'.retransmit
  /\ inFlight'.bytes = inFlight.bytes /\ d.bytes = inFlight.bytes
  /\ toggle' = toggle
  /\ d.reliable
LeavesInFlight(d) ==
  /\ inFlight' = inFlight /\ toggle' = toggle
  /\ ~d.reliable
  /\ inFlight # None /\ inFlight.retransmit =>
       CollidesWithClassifier(nextOutgoing) \/ (~firstAckSent /\ firstAckSent')

\* What every datagram of the client has.
IsNext(d) ==
  /\ d.sequence = nextOutgoing /\ d.ack = incoming
  /\ d.reliable \in BOOLEAN /\ d.fragmented \in BOOLEAN
  /\ d.reliable /\ d.fragmented => ~CollidesWithClassifier(nextOutgoing)
  /\ ~d.reliable => d.bytes = <<>>

(* The fragment that is sent next holds at least a unit.                   *)
LEMMA FragmentHoldsUnits ==
  ASSUME CurrentUnitInv, ReliableDecision \in FragmentDecisions
  PROVE  Len(FragmentOf(CurrentTransfer.bytes, CurrentTransfer.index)) > 0
<1> DEFINE payload == CurrentTransfer.bytes
           index == CurrentTransfer.index
<1>1. payload \in Seq(Nat) /\ Len(payload) > 0 /\ index \in 1 .. FragmentCount(Len(payload))
  <2>1. CASE transfer # None
    <3>1. transfer \in FragmentTransfer /\ CurrentTransfer = transfer
      BY <2>1 DEF CurrentUnitInv, TypeOK, CurrentTransfer
    <3> QED
      BY <2>1, <3>1 DEF CurrentUnitInv, InFlightIsCurrentUnit, FragmentTransfer
  <2>2. CASE transfer = None
    <3>1. pending \in Seq(Nat) /\ Len(pending) > MaxUnfragmented /\ pending # <<>>
      BY <2>2 DEF CurrentUnitInv, TypeOK, ReliableDecision, FragmentDecisions
    <3>2. Len(pending) \in Nat \ {0}
      BY <3>1
    <3>3. payload = pending /\ index = 1
      BY <2>2 DEF CurrentTransfer
    <3> QED
      BY <3>1, <3>2, <3>3, FragmentCountProperties
  <2> QED
    BY <2>1, <2>2
<1> HIDE DEF payload, index
<1>2. Len(payload) \in Nat \ {0}
  BY <1>1
<1>3. FragmentSize \in Nat \ {0} /\ FragmentCount(Len(payload)) \in Nat
  BY <1>2, LimitsAssumption, FragmentCountProperties
<1>4. (index - 1) * FragmentSize \in Nat /\ (index - 1) * FragmentSize < Len(payload)
  BY <1>1, <1>2, FragmentOffsets
<1>5. Len(FragmentOf(payload, index)) =
        IF index < FragmentCount(Len(payload)) THEN FragmentSize
        ELSE Len(payload) - (index - 1) * FragmentSize
  BY <1>1, FragmentOfProperties
<1>6. Len(FragmentOf(payload, index)) > 0
  BY <1>2, <1>3, <1>4, <1>5
<1> QED
  BY <1>6 DEF payload, index

(* A repeated unit is the one in flight, fragment or not.                  *)
LEMMA RepeatedUnits ==
  ASSUME CurrentUnitInv, inFlight # None
  PROVE  /\ ReliableDecision = "retransmit" => ReliableUnits(ReliableDecision) = inFlight.bytes
         /\ ReliableDecision = "retransmit_fragment" =>
              ReliableUnits(ReliableDecision) = inFlight.bytes
<1>1. ReliableDecision = "retransmit" => ReliableUnits(ReliableDecision) = inFlight.bytes
  BY DEF ReliableUnits, FragmentDecisions
<1>2. ASSUME ReliableDecision = "retransmit_fragment"
      PROVE  ReliableUnits(ReliableDecision) = inFlight.bytes
  <2>1. transfer # None
    BY <1>2 DEF ReliableDecision
  <2>2. ReliableUnits(ReliableDecision) = FragmentOf(transfer.bytes, transfer.index)
    BY <1>2, <2>1 DEF ReliableUnits, FragmentDecisions, CurrentTransfer
  <2> QED
    BY <2>1, <2>2 DEF CurrentUnitInv, InFlightIsCurrentUnit
<1> QED
  BY <1>1, <1>2

LEMMA PlanIsNext == IsNext(Datagram(Plan(0)))
<1> DEFINE p == Plan(0)
<1>1. /\ p.sequence = nextOutgoing /\ p.ack = incoming
      /\ p.reliable \in BOOLEAN /\ p.fragmented \in BOOLEAN
  BY DEF Plan
<1>2. p.fragmented => ~CollidesWithClassifier(nextOutgoing)
  BY DEF Plan
<1>3. ~p.reliable => p.bytes = <<>>
  BY DEF Plan
<1> QED
  BY <1>1, <1>2, <1>3 DEF IsNext, Datagram

LEMMA FirstAckIsNext ==
  /\ IsNext(Datagram(FirstAckPlan))
  /\ SendFirstAck => LeavesInFlight(Datagram(FirstAckPlan))
  BY DEF IsNext, Datagram, FirstAckPlan, SendFirstAck, LeavesInFlight, reliableVars

LEMMA TransmitEffect ==
  ASSUME CurrentUnitInv, CommitOutgoing(Plan(0))
  PROVE  \/ PutsInFlight(Datagram(Plan(0)))
         \/ Repeats(Datagram(Plan(0)))
         \/ LeavesInFlight(Datagram(Plan(0)))
<1> DEFINE p == Plan(0)
           decision == ReliableDecision
           skip == decision \in FragmentDecisions /\ CollidesWithClassifier(nextOutgoing)
<1>1. /\ Datagram(p).reliable = p.reliable /\ Datagram(p).bytes = p.bytes
  BY DEF Datagram
<1>2. /\ p.decision = IF skip THEN "advance_fragment_sequence" ELSE decision
      /\ p.reliable = (~skip /\ decision \in FragmentDecisions \cup {"send_new", "retransmit"})
      /\ p.bytes = IF p.reliable THEN ReliableUnits(decision) ELSE <<>>
      /\ ~skip /\ decision \in {"send_new", "send_new_fragment"} => p.toggle = ~toggle
  BY DEF Plan
<1>3. /\ decision \in {"none", "send_new", "send_new_fragment", "retransmit",
                       "retransmit_fragment", "blocked_waiting_for_ack"}
      /\ decision \in {"send_new", "send_new_fragment"} => inFlight = None
      /\ decision \in {"retransmit", "retransmit_fragment"} =>
           inFlight # None /\ inFlight.retransmit
      /\ inFlight # None /\ inFlight.retransmit =>
           decision \in {"retransmit", "retransmit_fragment"}
  <2>1. inFlight # None => inFlight.retransmit \in BOOLEAN
    BY DEF CurrentUnitInv, TypeOK, InFlightPayload
  <2> QED
    BY <2>1 DEF ReliableDecision
<1> HIDE DEF p, decision
<1>4. /\ NewInFlight(p, pending) # None /\ NewInFlight(p, p.bytes) # None
  <2>1. NewInFlight(p, pending) \in InFlightPayload /\ NewInFlight(p, p.bytes) \in InFlightPayload
    BY NewRecords DEF p, CurrentUnitInv
  <2> QED
    BY <2>1, NoneAssumption
<1>5. CASE CommitNew(p)
  <2>1. p.decision = "send_new" /\ ~skip /\ decision = "send_new"
    BY <1>2, <1>3, <1>5 DEF CommitNew
  <2>2. p.reliable /\ p.bytes = pending /\ p.toggle = ~toggle /\ inFlight = None
    BY <1>2, <1>3, <2>1 DEF ReliableUnits, FragmentDecisions, decision
  <2>3. Len(pending) > 0
    <3>1. pending \in Seq(Nat) /\ pending # <<>>
      BY <2>1 DEF CurrentUnitInv, TypeOK, ReliableDecision, decision
    <3> QED
      BY <3>1
  <2>4. inFlight' = NewInFlight(p, pending) /\ toggle' = p.toggle
    BY <1>5 DEF CommitNew
  <2>5. PutsInFlight(Datagram(p))
    BY <1>1, <1>4, <2>2, <2>3, <2>4 DEF PutsInFlight, NewInFlight
  <2> QED
    BY <2>5 DEF p
<1>6. CASE CommitNewFragment(p)
  <2>1. p.decision = "send_new_fragment" /\ ~skip /\ decision = "send_new_fragment"
    BY <1>2, <1>3, <1>6 DEF CommitNewFragment
  <2>2. /\ p.reliable /\ p.toggle = ~toggle /\ inFlight = None
        /\ p.bytes = ReliableUnits(decision)
    BY <1>2, <1>3, <2>1 DEF FragmentDecisions
  <2>3. Len(p.bytes) > 0
    BY <2>1, <2>2, FragmentHoldsUnits DEF ReliableUnits, FragmentDecisions, decision
  <2>4. inFlight' = NewInFlight(p, p.bytes) /\ toggle' = p.toggle
    BY <1>6 DEF CommitNewFragment
  <2>5. PutsInFlight(Datagram(p))
    BY <1>1, <1>4, <2>2, <2>3, <2>4 DEF PutsInFlight, NewInFlight
  <2> QED
    BY <2>5 DEF p
<1>7. CASE CommitRetransmission(p)
  <2>1. /\ ~skip /\ decision \in {"retransmit", "retransmit_fragment"}
        /\ inFlight # None /\ inFlight.retransmit
    BY <1>2, <1>3, <1>7 DEF CommitRetransmission
  <2>2. p.reliable /\ p.bytes = inFlight.bytes
    BY <1>2, <2>1, RepeatedUnits DEF FragmentDecisions, decision
  <2>3. inFlight \in InFlightPayload
    BY <2>1 DEF CurrentUnitInv, TypeOK
  <2>4. inFlight' = [inFlight EXCEPT !.mostRecent = nextOutgoing, !.retransmit = FALSE]
        /\ toggle' = toggle
    BY <1>7 DEF CommitRetransmission
  <2>5. /\ inFlight'.mostRecent = nextOutgoing /\ inFlight'.retransmit = FALSE
        /\ inFlight'.bytes = inFlight.bytes
        /\ inFlight' \in InFlightPayload
    BY <2>3, <2>4 DEF InFlightPayload, CurrentUnitInv, TypeOK
  <2>6. inFlight' # None
    BY <2>5, NoneAssumption
  <2>7. Repeats(Datagram(p))
    BY <1>1, <2>1, <2>2, <2>4, <2>5, <2>6 DEF Repeats
  <2> QED
    BY <2>7 DEF p
<1>8. CASE CommitWithoutReliable(p)
  <2>1. inFlight' = inFlight /\ toggle' = toggle
    BY <1>8 DEF CommitWithoutReliable, reliableVars
  <2>2. ~p.reliable
    BY <1>2, <1>3, <1>8 DEF CommitWithoutReliable, FragmentDecisions
  <2>3. inFlight # None /\ inFlight.retransmit => CollidesWithClassifier(nextOutgoing)
    BY <1>2, <1>3, <1>8 DEF CommitWithoutReliable
  <2>4. LeavesInFlight(Datagram(p))
    BY <1>1, <2>1, <2>2, <2>3 DEF LeavesInFlight
  <2> QED
    BY <2>4 DEF p
<1> QED
  BY <1>5, <1>6, <1>7, <1>8, Zenon DEF CommitOutgoing, p

-----------------------------------------------------------------------------
(* The client sends.                                                       *)

\* The ages once nextOutgoing is sent.
AgeNext(s) == SequenceDistance(nextOutgoing, s)

LEMMA CollisionsAtTheWrap ==
  \A s \in SeqNum : CollidesWithClassifier(s) => s \in {SeqModulus - 1, SeqModulus - 2}
  BY HalfRangeAssumption
  DEF CollidesWithClassifier, EncodeSequenceWord, ClassifierWords, SeqNum, SeqModulus

(* Every age that matters grows by one, and the new number is of no age.   *)
LEMMA AgesGrow ==
  ASSUME ChannelInv
  PROVE  /\ AgeNext(nextOutgoing) = 0
         /\ \A s \in SeqNum : Age(s) < HalfRange => s # nextOutgoing /\ AgeNext(s) = Age(s) + 1
         /\ \A s \in SeqNum : Age(s) \in Nat /\ AgeNext(s) \in Nat
         /\ Age(nextOutgoing) >= HalfRange
<1>1. /\ lastOutgoing \in SeqNum /\ nextOutgoing = NextSeq(lastOutgoing)
      /\ nextOutgoing \in SeqNum
  BY AgesAreSmall DEF ChannelInv, ChannelTypes
<1>2. \A s \in SeqNum :
        /\ AgeNext(s) = IF s = nextOutgoing THEN 0 ELSE Age(s) + 1
        /\ s = nextOutgoing <=> Age(s) = SeqModulus - 1
  BY <1>1, SendingAges DEF Age, AgeNext
<1>3. HalfRange \in Nat /\ HalfRange <= SeqModulus - 1 /\ SeqModulus \in Nat
  BY HalfRangeAssumption DEF SeqModulus
<1>4. \A s \in SeqNum : Age(s) \in Nat /\ AgeNext(s) \in Nat
  BY <1>1, DistanceType DEF Age, AgeNext
<1>5. Age(nextOutgoing) = SeqModulus - 1 /\ AgeNext(nextOutgoing) = 0
  BY <1>1, <1>2
<1>6. ASSUME NEW s \in SeqNum, Age(s) < HalfRange
      PROVE  s # nextOutgoing /\ AgeNext(s) = Age(s) + 1
  <2>1. s # nextOutgoing
    BY <1>3, <1>4, <1>5, <1>6
  <2> QED
    BY <1>2, <2>1
<1> QED
  BY <1>3, <1>4, <1>5, <1>6

(* The numbers that mark other datagrams are passed at most once while a   *)
(* copy waits to be repeated.                                              *)
LEMMA SkippedOnce ==
  ASSUME ChannelInv, NEW m \in SeqNum, Age(m) < HalfRange
  PROVE  LET before == Bit(Age(SeqModulus - 1) < Age(m)) + Bit(Age(SeqModulus - 2) < Age(m))
             after  == Bit(AgeNext(SeqModulus - 1) < AgeNext(m))
                         + Bit(AgeNext(SeqModulus - 2) < AgeNext(m))
         IN  /\ before \in Nat /\ after \in Nat
             /\ before <= after
             /\ CollidesWithClassifier(nextOutgoing) => before + 1 <= after
<1> DEFINE x == SeqModulus - 1
           y == SeqModulus - 2
<1>1. x \in SeqNum /\ y \in SeqNum /\ x # y /\ HalfRange \in Nat
  BY HalfRangeAssumption DEF SeqNum, SeqModulus
<1>2. CollidesWithClassifier(nextOutgoing) => nextOutgoing = x \/ nextOutgoing = y
  BY CollisionsAtTheWrap, AgesAreSmall
<1> HIDE DEF x, y
<1>3. /\ AgeNext(m) = Age(m) + 1 /\ Age(m) \in Nat
      /\ \A s \in {x, y} : Age(s) \in Nat /\ AgeNext(s) \in Nat
      /\ \A s \in {x, y} : Age(s) < Age(m) => AgeNext(s) = Age(s) + 1
      /\ AgeNext(nextOutgoing) = 0 /\ Age(nextOutgoing) >= HalfRange
  <2>1. ASSUME NEW s \in {x, y}, Age(s) < Age(m) PROVE AgeNext(s) = Age(s) + 1
    <3>1. s \in SeqNum /\ Age(s) \in Nat /\ Age(m) \in Nat
      BY <1>1, AgesGrow
    <3>2. Age(s) < HalfRange
      BY <1>1, <2>1, <3>1
    <3> QED
      BY <3>1, <3>2, AgesGrow
  <2> QED
    BY <1>1, <2>1, AgesGrow
<1>4. \A s \in {x, y} : Bit(Age(s) < Age(m)) <= Bit(AgeNext(s) < AgeNext(m))
  BY <1>3 DEF Bit
<1>5. \A s \in {x, y} : s = nextOutgoing =>
        Bit(Age(s) < Age(m)) = 0 /\ Bit(AgeNext(s) < AgeNext(m)) = 1
  BY <1>1, <1>3 DEF Bit
<1>6. \A b : Bit(b) \in {0, 1}
  BY DEF Bit
<1>7. PICK a, b, c, d \in {0, 1} :
        /\ a = Bit(Age(x) < Age(m)) /\ b = Bit(Age(y) < Age(m))
        /\ c = Bit(AgeNext(x) < AgeNext(m)) /\ d = Bit(AgeNext(y) < AgeNext(m))
  BY <1>6
<1>8. /\ a <= c /\ b <= d
      /\ nextOutgoing = x => a = 0 /\ c = 1
      /\ nextOutgoing = y => b = 0 /\ d = 1
  BY <1>4, <1>5, <1>7
<1>9. /\ a + b \in Nat /\ c + d \in Nat /\ a + b <= c + d
      /\ CollidesWithClassifier(nextOutgoing) => a + b + 1 <= c + d
  BY <1>2, <1>8
<1> QED
  BY <1>7, <1>9 DEF x, y

LEMMA ClientSends ==
  ASSUME ChannelInv, Holding', NEW d, IsNext(d), AdvanceOutgoing,
         toPeer' = Put(toPeer, d),
         UNCHANGED <<toClient, peerRxVars, peerOutgoing, peerSeenAck>>,
         UNCHANGED <<incoming, peerAck, retired>>,
         firstAckSent => firstAckSent',
         AgeNext(peerAck) <= SendWindow + 1 + Bit(firstAckSent'),
         PutsInFlight(d) \/ Repeats(d) \/ LeavesInFlight(d)
  PROVE  ChannelInv'
<1>1. /\ lastOutgoing' = nextOutgoing /\ nextOutgoing' = NextSeq(nextOutgoing)
      /\ incoming' = incoming /\ peerAck' = peerAck /\ retired' = retired
      /\ toClient' = toClient
      /\ peerIncoming' = peerIncoming /\ peerGeneration' = peerGeneration
      /\ delivered' = delivered
      /\ peerOutgoing' = peerOutgoing /\ peerSeenAck' = peerSeenAck
  BY DEF AdvanceOutgoing, peerRxVars
<1>2. \A s : Age(s)' = AgeNext(s)
  BY <1>1 DEF Age, AgeNext
<1>3. /\ nextOutgoing \in SeqNum /\ peerAck \in SeqNum /\ peerIncoming \in SeqNum
      /\ Age(peerAck) \in Nat /\ Age(peerAck) < HalfRange
      /\ Age(peerIncoming) \in Nat /\ Age(peerIncoming) < HalfRange
      /\ \A e \in toPeer : e.sequence \in SeqNum /\ Age(e.sequence) < HalfRange
      /\ UpFresh \subseteq toPeer /\ DownFresh \subseteq toClient
      /\ \A e \in DownFresh : e.ack \in SeqNum /\ Age(e.ack) < HalfRange
  BY AgesAreSmall DEF ChannelInv, ChannelTypes, UpFresh, DownFresh
<1>4. /\ d.sequence = nextOutgoing /\ d.ack = incoming
      /\ AgeNext(d.sequence) = 0
      /\ AgeNext(peerAck) = Age(peerAck) + 1 /\ AgeNext(peerIncoming) = Age(peerIncoming) + 1
      /\ peerIncoming # nextOutgoing
      /\ \A e \in toPeer : /\ AgeNext(e.sequence) = Age(e.sequence) + 1
                           /\ e.sequence # nextOutgoing /\ Age(e.sequence) \in Nat
      /\ \A e \in DownFresh : /\ AgeNext(e.ack) = Age(e.ack) + 1
                              /\ e.ack # nextOutgoing /\ Age(e.ack) \in Nat
  BY <1>3, AgesGrow DEF IsNext
<1>5. /\ \A e \in toPeer' : e = d \/ (e \in toPeer /\ AgeNext(e.sequence) <= NetLifetime)
      /\ \A e \in UpFresh' : e = d \/ e \in UpFresh
      /\ DownFresh' = DownFresh
  <2>1. \A e \in toPeer' : e = d \/ (e \in toPeer /\ AgeNext(e.sequence) <= NetLifetime)
    BY <1>4 DEF Put, AgeNext
  <2>2. ASSUME NEW e \in UpFresh' PROVE e = d \/ e \in UpFresh
    <3>1. e \in toPeer' /\ AgeNext(e.sequence) < AgeNext(peerIncoming)
      BY <1>1, <2>2 DEF UpFresh, Age, AgeNext
    <3>2. CASE e \in toPeer
      BY <1>3, <1>4, <3>1, <3>2 DEF UpFresh
    <3> QED
      BY <2>1, <3>1, <3>2
  <2>3. DownFresh' = DownFresh
    BY <1>1 DEF DownFresh, Late
  <2> QED
    BY <2>1, <2>2, <2>3
<1>6. ChannelTypes'
  <2>1. \A e \in toPeer' : /\ e.sequence \in SeqNum /\ e.ack \in SeqNum
                           /\ e.reliable \in BOOLEAN /\ e.fragmented \in BOOLEAN
                           /\ e.reliable /\ e.fragmented => ~CollidesWithClassifier(e.sequence)
                           /\ ~e.reliable => e.bytes = <<>>
    BY <1>3, <1>5, AgesAreSmall DEF ChannelInv, ChannelTypes, IsNext
  <2> QED
    BY <1>1, <2>1 DEF ChannelInv, ChannelTypes
<1>7. Windows'
  <2>1. \A e \in toPeer' : AgeNext(e.sequence) <= NetLifetime
    BY <1>4, <1>5, NetworkAssumption
  <2> QED
    BY <1>1, <2>1 DEF ChannelInv, Windows, Age, AgeNext, Late
<1>8. UpOrder'
  <2>1. Late(incoming) \in Nat /\ Late(incoming) <= Late(peerSeenAck)
    BY AgesAreSmall DEF ChannelInv, UpOrder
  <2>2. \A e \in UpFresh' : Late(incoming) <= Late(e.ack) /\ Late(e.ack) <= Late(peerSeenAck)
    BY <1>4, <1>5, <2>1 DEF ChannelInv, UpOrder
  <2>3. ASSUME NEW e \in UpFresh', NEW f \in UpFresh',
               AgeNext(e.sequence) <= AgeNext(f.sequence)
        PROVE  Late(e.ack) <= Late(f.ack)
    <3>1. CASE e = d
      BY <1>4, <2>2, <3>1
    <3>2. CASE e # d
      <4>1. e \in UpFresh /\ e \in toPeer
        BY <1>3, <1>5, <3>2
      <4>2. f # d
        BY <1>4, <2>3, <4>1
      <4>3. f \in UpFresh /\ f \in toPeer
        BY <1>3, <1>5, <4>2
      <4>4. Age(e.sequence) <= Age(f.sequence)
        BY <1>4, <2>3, <4>1, <4>3
      <4> QED
        BY <4>1, <4>3, <4>4 DEF ChannelInv, UpOrder
    <3> QED
      BY <3>1, <3>2
  <2> QED
    BY <1>1, <2>1, <2>2, <2>3 DEF UpOrder, Age, AgeNext, Late
<1>9. DownOrder'
  <2>1. AgeNext(peerIncoming) <= AgeNext(peerAck)
    BY <1>3, <1>4 DEF ChannelInv, DownOrder
  <2>2. \A e \in DownFresh :
          AgeNext(peerIncoming) <= AgeNext(e.ack) /\ AgeNext(e.ack) <= AgeNext(peerAck)
    BY <1>3, <1>4 DEF ChannelInv, DownOrder
  <2>3. ASSUME NEW e \in DownFresh, NEW f \in DownFresh, Late(e.sequence) <= Late(f.sequence)
        PROVE  AgeNext(e.ack) <= AgeNext(f.ack)
    <3>1. Age(e.ack) <= Age(f.ack)
      BY <2>3 DEF ChannelInv, DownOrder
    <3> QED
      BY <1>4, <3>1
  <2>4. \A s : Late(s)' = Late(s)
    BY <1>1 DEF Late
  <2> QED
    BY <1>1, <1>5, <2>1, <2>2, <2>3, <2>4 DEF DownOrder, Age, AgeNext, Late
<1>10. /\ d \in UpFresh' => d.sequence = nextOutgoing
       /\ \A e \in UpFresh : Age(e.sequence) < Age(peerIncoming) /\ e.sequence # nextOutgoing
  BY <1>3, <1>4 DEF UpFresh
<1>11. toggle \in BOOLEAN /\ peerGeneration \in BOOLEAN
  BY DEF ChannelInv, ChannelTypes, Holding, CurrentUnitInv, TypeOK
<1>12. CASE PutsInFlight(d)
  <2>1. /\ inFlight = None /\ inFlight' # None /\ inFlight'.mostRecent = nextOutgoing
        /\ ~inFlight'.retransmit /\ inFlight'.bytes = d.bytes /\ Len(d.bytes) > 0
        /\ toggle' = ~toggle /\ d.reliable
    BY <1>12 DEF PutsInFlight
  <2>2. Admitted /\ \A e \in UpFresh : ~e.reliable
    BY <2>1 DEF ChannelInv, NoCopies
  <2>3. ~Admitted'
    BY <1>1, <1>11, <2>1, <2>2 DEF Admitted
  <2>4. AgeNext(inFlight'.mostRecent) = 0
    BY <1>4, <2>1
  <2>5. AgeNext(inFlight'.mostRecent) < AgeNext(peerAck) /\ peerIncoming # inFlight'.mostRecent
    BY <1>3, <1>4, <2>1, <2>4
  <2>6. \A e \in UpFresh' : /\ e.reliable <=> ~Admitted' /\ e.sequence = inFlight'.mostRecent
                            /\ e.reliable => e.bytes = inFlight'.bytes
    BY <1>4, <1>5, <1>10, <2>1, <2>2, <2>3
  <2>7. \A e \in DownFresh' : ~(AgeNext(e.ack) <= AgeNext(inFlight'.mostRecent))
    BY <1>4, <1>5, <2>4
  <2>8. Copies'
    BY <1>1, <1>2, <2>1, <2>3, <2>5, <2>6, <2>7 DEF Copies
  <2>9. NoCopies'
    BY <2>1 DEF NoCopies
  <2>10. Delivery'
    BY <1>1, <2>1, <2>3 DEF ChannelInv, Delivery
  <2> QED
    BY <1>6, <1>7, <1>8, <1>9, <2>8, <2>9, <2>10 DEF ChannelInv
<1>13. CASE Repeats(d)
  <2>1. /\ inFlight # None /\ inFlight.retransmit /\ inFlight' # None
        /\ inFlight'.mostRecent = nextOutgoing /\ ~inFlight'.retransmit
        /\ inFlight'.bytes = inFlight.bytes /\ d.bytes = inFlight.bytes
        /\ toggle' = toggle /\ d.reliable
    BY <1>13 DEF Repeats
  <2>2. ~Admitted /\ Age(peerIncoming) < Age(inFlight.mostRecent)
    BY <2>1 DEF ChannelInv, Copies
  <2>3. ~Admitted'
    BY <1>1, <2>1, <2>2 DEF Admitted
  <2>4. AgeNext(inFlight'.mostRecent) = 0
    BY <1>4, <2>1
  <2>5. AgeNext(inFlight'.mostRecent) < AgeNext(peerAck) /\ peerIncoming # inFlight'.mostRecent
    BY <1>3, <1>4, <2>1, <2>4
  <2>6. \A e \in UpFresh : ~e.reliable
    <3> SUFFICES ASSUME NEW e \in UpFresh, e.reliable PROVE FALSE
      OBVIOUS
    <3>1. e.sequence = inFlight.mostRecent
      BY <2>1 DEF ChannelInv, Copies
    <3>2. Age(e.sequence) < Age(peerIncoming) /\ Age(e.sequence) \in Nat
      BY <1>3, <1>4, <1>10
    <3> QED
      BY <1>3, <2>2, <3>1, <3>2
  <2>7. \A e \in UpFresh' : /\ e.reliable <=> ~Admitted' /\ e.sequence = inFlight'.mostRecent
                            /\ e.reliable => e.bytes = inFlight'.bytes
    BY <1>4, <1>5, <1>10, <2>1, <2>3, <2>6
  <2>8. \A e \in DownFresh' : ~(AgeNext(e.ack) <= AgeNext(inFlight'.mostRecent))
    BY <1>4, <1>5, <2>4
  <2>9. Copies'
    BY <1>1, <1>2, <2>1, <2>3, <2>5, <2>7, <2>8 DEF Copies
  <2>10. NoCopies'
    BY <2>1 DEF NoCopies
  <2>11. Delivery'
    BY <1>1, <2>1, <2>2, <2>3 DEF ChannelInv, Delivery
  <2> QED
    BY <1>6, <1>7, <1>8, <1>9, <2>9, <2>10, <2>11 DEF ChannelInv
<1>14. CASE LeavesInFlight(d)
  <2>1. /\ inFlight' = inFlight /\ toggle' = toggle /\ ~d.reliable
        /\ inFlight # None /\ inFlight.retransmit =>
             CollidesWithClassifier(nextOutgoing) \/ (~firstAckSent /\ firstAckSent')
    BY <1>14 DEF LeavesInFlight
  <2>2. Admitted' <=> Admitted
    BY <1>1, <2>1 DEF Admitted
  <2>3. Delivery'
    BY <1>1, <2>1, <2>2 DEF ChannelInv, Delivery
  <2>4. NoCopies'
    BY <1>5, <2>1, <2>2 DEF ChannelInv, NoCopies
  <2>5. CASE inFlight = None
    <3>1. Copies'
      BY <2>1, <2>5 DEF Copies
    <3> QED
      BY <1>6, <1>7, <1>8, <1>9, <2>3, <2>4, <3>1 DEF ChannelInv
  <2>6. CASE inFlight # None
    <3> DEFINE m == inFlight.mostRecent
    <3>1. /\ m \in SeqNum /\ Age(m) \in Nat /\ Age(m) < HalfRange
          /\ AgeNext(m) = Age(m) + 1 /\ m # nextOutgoing
      BY <2>6, AgesAreSmall, AgesGrow
    <3>2. ~inFlight.retransmit => AgeNext(m) < AgeNext(peerAck)
      BY <1>3, <1>4, <2>6, <3>1 DEF ChannelInv, Copies
    <3>3. ASSUME inFlight.retransmit
          PROVE  /\ ~Admitted /\ AgeNext(peerIncoming) < AgeNext(m)
                 /\ AgeNext(m) <= SendWindow + Bit(firstAckSent')
                                   + Bit(AgeNext(SeqModulus - 1) < AgeNext(m))
                                   + Bit(AgeNext(SeqModulus - 2) < AgeNext(m))
      <4>1. /\ ~Admitted /\ Age(peerIncoming) < Age(m)
            /\ Age(m) <= SendWindow + Bit(firstAckSent)
                           + Bit(Age(SeqModulus - 1) < Age(m))
                           + Bit(Age(SeqModulus - 2) < Age(m))
        BY <2>6, <3>3 DEF ChannelInv, Copies
      <4>2. AgeNext(peerIncoming) < AgeNext(m)
        BY <1>3, <1>4, <3>1, <4>1
      <4> DEFINE before == Bit(Age(SeqModulus - 1) < Age(m)) + Bit(Age(SeqModulus - 2) < Age(m))
                 after == Bit(AgeNext(SeqModulus - 1) < AgeNext(m))
                            + Bit(AgeNext(SeqModulus - 2) < AgeNext(m))
      <4>3. /\ before \in Nat /\ after \in Nat /\ before <= after
            /\ CollidesWithClassifier(nextOutgoing) => before + 1 <= after
        BY <3>1, SkippedOnce
      <4>4. /\ \A b : Bit(b) \in {0, 1}
            /\ Bit(firstAckSent) <= Bit(firstAckSent')
            /\ ~firstAckSent /\ firstAckSent' => Bit(firstAckSent) + 1 <= Bit(firstAckSent')
        BY DEF Bit
      <4>5. PICK b, c \in Nat : b = Bit(firstAckSent) /\ c = Bit(firstAckSent')
        BY <4>4
      <4>6. /\ Age(m) <= SendWindow + b + before /\ SendWindow \in Nat
            /\ b <= c /\ (b + 1 <= c \/ before + 1 <= after)
        <5>1. \A x, y \in Nat : SendWindow + b + x + y = SendWindow + b + (x + y)
          BY NetworkAssumption
        <5>2. /\ Bit(Age(SeqModulus - 1) < Age(m)) \in Nat
              /\ Bit(Age(SeqModulus - 2) < Age(m)) \in Nat
          BY <4>4
        <5>3. Age(m) <= SendWindow + b + before
          BY <4>1, <4>5, <5>1, <5>2
        <5>4. b + 1 <= c \/ before + 1 <= after
          BY <2>1, <2>6, <3>3, <4>3, <4>4, <4>5
        <5> QED
          BY <4>4, <4>5, <5>3, <5>4, NetworkAssumption
      <4>7. AgeNext(m) <= SendWindow + c + after
        <5> HIDE DEF before, after
        <5> QED
          BY <3>1, <4>3, <4>6
      <4>8. SendWindow + c + after = SendWindow + c
              + Bit(AgeNext(SeqModulus - 1) < AgeNext(m))
              + Bit(AgeNext(SeqModulus - 2) < AgeNext(m))
        <5>1. \A x, y \in Nat : SendWindow + c + x + y = SendWindow + c + (x + y)
          BY NetworkAssumption
        <5>2. /\ Bit(AgeNext(SeqModulus - 1) < AgeNext(m)) \in Nat
              /\ Bit(AgeNext(SeqModulus - 2) < AgeNext(m)) \in Nat
          BY <4>4
        <5> QED
          BY <5>1, <5>2
      <4> QED
        BY <4>1, <4>2, <4>5, <4>7, <4>8
    <3>4. Admitted => AgeNext(peerIncoming) <= AgeNext(m)
      BY <1>3, <1>4, <2>6, <3>1 DEF ChannelInv, Copies
    <3>5. peerIncoming = m => Admitted
      BY <2>6 DEF ChannelInv, Copies
    <3>6. \A e \in UpFresh' : /\ e.reliable <=> ~Admitted /\ e.sequence = m
                              /\ e.reliable => e.bytes = inFlight.bytes
      BY <1>4, <1>5, <2>1, <2>6, <3>1 DEF ChannelInv, Copies
    <3>7. \A e \in DownFresh' : AgeNext(e.ack) <= AgeNext(m) =>
            e.ackReliable = peerGeneration /\ (e.ack = m => Admitted)
      <4> SUFFICES ASSUME NEW e \in DownFresh, AgeNext(e.ack) <= AgeNext(m)
                   PROVE  e.ackReliable = peerGeneration /\ (e.ack = m => Admitted)
        BY <1>5
      <4>1. Age(e.ack) <= Age(m)
        BY <1>4, <3>1
      <4> QED
        BY <2>6, <4>1 DEF ChannelInv, Copies
    <3>8. Copies'
      <4>1. m' = m
        BY <2>1
      <4> HIDE DEF m
      <4> QED
        BY <1>1, <1>2, <2>1, <2>2, <3>2, <3>3, <3>4, <3>5, <3>6, <3>7, <4>1 DEF Copies, m
    <3> QED
      BY <1>6, <1>7, <1>8, <1>9, <2>3, <2>4, <3>8 DEF ChannelInv
  <2> QED
    BY <2>5, <2>6
<1> QED
  BY <1>12, <1>13, <1>14

(* What a datagram from the driver's update does.                          *)
LEMMA ClientSendKeeps ==
  ASSUME ChannelInv, Holding', ClientSend
  PROVE  ChannelInv'
<1>1. /\ Age(peerAck) \in Nat /\ Age(peerAck) < HalfRange /\ peerAck \in SeqNum
      /\ AgeNext(peerAck) = Age(peerAck) + 1
      /\ \A b : Bit(b) \in {0, 1}
      /\ SendWindow \in Nat
  BY AgesAreSmall, AgesGrow, NetworkAssumption DEF Bit
<1>2. CASE ClientTransmit
  <2>1. CommitOutgoing(Plan(0)) /\ toPeer' = Put(toPeer, Datagram(Plan(0)))
    BY <1>2 DEF ClientTransmit, Transmit
  <2>2. /\ AdvanceOutgoing
        /\ incoming' = incoming /\ peerAck' = peerAck /\ retired' = retired
        /\ firstAckSent' = firstAckSent
    BY <2>1 DEF CommitOutgoing, incomingVars, historyVars
  <2>3. UNCHANGED <<toClient, peerRxVars, peerOutgoing, peerSeenAck>>
    BY <1>2 DEF ClientTransmit, peerTxVars
  <2>4. AgeNext(peerAck) <= SendWindow + 1
    BY <1>1, <1>2 DEF ClientTransmit, ClientMaySend, ClientWindowOpen, AgeNext
  <2>5. AgeNext(peerAck) <= SendWindow + 1 + Bit(firstAckSent')
    <3>1. PICK b \in Nat : b = Bit(firstAckSent')
      BY <1>1
    <3> QED
      BY <1>1, <2>4, <3>1
  <2>6. CurrentUnitInv
    BY DEF ChannelInv, Holding
  <2> QED
    BY <2>1, <2>2, <2>3, <2>5, <2>6, PlanIsNext, TransmitEffect, ClientSends
<1>3. CASE ClientFirstAck
  <2>1. SendFirstAck /\ toPeer' = Put(toPeer, Datagram(FirstAckPlan))
    BY <1>3 DEF ClientFirstAck
  <2>2. /\ AdvanceOutgoing
        /\ incoming' = incoming /\ peerAck' = peerAck /\ retired' = retired
        /\ ~firstAckSent /\ firstAckSent'
    BY <2>1 DEF SendFirstAck, incomingVars, historyVars
  <2>3. UNCHANGED <<toClient, peerRxVars, peerOutgoing, peerSeenAck>>
    BY <1>3 DEF ClientFirstAck, peerTxVars
  <2>4. AgeNext(peerAck) <= SendWindow + 1 + Bit(firstAckSent')
    <3>1. Age(peerAck) <= SendWindow + 1 + Bit(firstAckSent)
      BY DEF ChannelInv, Windows
    <3>2. Bit(firstAckSent) = 0 /\ Bit(firstAckSent') = 1
      BY <2>2 DEF Bit
    <3> QED
      BY <1>1, <3>1, <3>2
  <2> QED
    BY <2>1, <2>2, <2>3, <2>4, FirstAckIsNext, ClientSends
<1> QED
  BY <1>2, <1>3 DEF ClientSend, ClientSendReliable, ClientPoll

-----------------------------------------------------------------------------
(* The peer sends.                                                         *)

LEMMA PeerSends ==
  ASSUME ChannelInv, Holding', NEW d,
         d.sequence = NextSeq(peerOutgoing), d.ack = peerIncoming,
         d.ackReliable = peerGeneration, d.reliable \in BOOLEAN,
         peerOutgoing' = NextSeq(peerOutgoing), PeerWindowOpen,
         toClient' = Put(toClient, d),
         UNCHANGED <<sessionVars, toPeer, peerRxVars, peerSeenAck>>
  PROVE  ChannelInv'
<1> DEFINE LateNext(s) == SequenceDistance(NextSeq(peerOutgoing), s)
<1>1. /\ lastOutgoing' = lastOutgoing /\ nextOutgoing' = nextOutgoing
      /\ incoming' = incoming /\ peerAck' = peerAck /\ firstAckSent' = firstAckSent
      /\ inFlight' = inFlight /\ toggle' = toggle /\ retired' = retired
      /\ peerIncoming' = peerIncoming /\ peerGeneration' = peerGeneration
      /\ delivered' = delivered /\ toPeer' = toPeer /\ peerSeenAck' = peerSeenAck
      /\ peerOutgoing' = NextSeq(peerOutgoing)
  BY DEF sessionVars, outgoingVars, incomingVars, reliableVars, historyVars, peerRxVars
<1>2. /\ \A s : Late(s)' = LateNext(s)
      /\ \A s : Age(s)' = Age(s)
  BY <1>1 DEF Late, Age
<1>3. /\ peerOutgoing \in SeqNum /\ NextSeq(peerOutgoing) \in SeqNum
      /\ incoming \in SeqNum /\ peerSeenAck \in SeqNum /\ peerIncoming \in SeqNum
      /\ Late(incoming) \in Nat /\ Late(incoming) < HalfRange
      /\ Late(peerSeenAck) \in Nat /\ Late(peerSeenAck) < HalfRange
      /\ \A e \in toClient : e.sequence \in SeqNum /\ Late(e.sequence) < HalfRange
      /\ UpFresh \subseteq toPeer /\ DownFresh \subseteq toClient
      /\ \A e \in UpFresh : e.ack \in SeqNum /\ Late(e.ack) < HalfRange
  BY AgesAreSmall, NextSeqType DEF ChannelInv, ChannelTypes, UpFresh, DownFresh
<1>4. ASSUME NEW s \in SeqNum, Late(s) < HalfRange
      PROVE  LateNext(s) = Late(s) + 1 /\ s # NextSeq(peerOutgoing) /\ Late(s) \in Nat
  <2>1. /\ LateNext(s) = IF s = NextSeq(peerOutgoing) THEN 0 ELSE Late(s) + 1
        /\ s = NextSeq(peerOutgoing) <=> Late(s) = SeqModulus - 1
    BY <1>3, SendingAges DEF Late
  <2>2. HalfRange \in Nat /\ HalfRange <= SeqModulus - 1 /\ Late(s) \in Nat
    BY <1>3, DistanceType, HalfRangeAssumption DEF SeqModulus, Late
  <2>3. Late(s) # SeqModulus - 1
    BY <1>4, <2>2
  <2> QED
    BY <2>1, <2>2, <2>3
<1>5. LateNext(NextSeq(peerOutgoing)) = 0
  BY <1>3, DistanceType
<1> HIDE DEF LateNext
<1>6. /\ LateNext(d.sequence) = 0
      /\ LateNext(incoming) = Late(incoming) + 1
      /\ LateNext(peerSeenAck) = Late(peerSeenAck) + 1
      /\ \A e \in toClient : /\ LateNext(e.sequence) = Late(e.sequence) + 1
                             /\ e.sequence # d.sequence /\ Late(e.sequence) \in Nat
      /\ \A e \in UpFresh : LateNext(e.ack) = Late(e.ack) + 1 /\ Late(e.ack) \in Nat
  BY <1>3, <1>4, <1>5
<1>7. /\ \A e \in toClient' : e = d \/ (e \in toClient /\ LateNext(e.sequence) <= NetLifetime)
      /\ \A e \in DownFresh' : e = d \/ e \in DownFresh
      /\ UpFresh' = UpFresh
  <2>1. \A e \in toClient' : e = d \/ (e \in toClient /\ LateNext(e.sequence) <= NetLifetime)
    BY DEF Put, LateNext
  <2>2. ASSUME NEW e \in DownFresh' PROVE e = d \/ e \in DownFresh
    <3>1. e \in toClient' /\ LateNext(e.sequence) < LateNext(incoming)
      BY <1>1, <2>2 DEF DownFresh, Late, LateNext
    <3>2. CASE e \in toClient
      BY <1>3, <1>6, <3>1, <3>2 DEF DownFresh
    <3> QED
      BY <2>1, <3>1, <3>2
  <2>3. UpFresh' = UpFresh
    BY <1>1 DEF UpFresh, Age
  <2> QED
    BY <2>1, <2>2, <2>3
<1>8. ChannelTypes'
  <2>1. \A e \in toClient' : /\ e.sequence \in SeqNum /\ e.ack \in SeqNum
                             /\ e.reliable \in BOOLEAN /\ e.ackReliable \in BOOLEAN
    BY <1>3, <1>7 DEF ChannelInv, ChannelTypes
  <2> QED
    BY <1>1, <1>3, <2>1 DEF ChannelInv, ChannelTypes
<1>9. Windows'
  <2>1. \A e \in toClient' : LateNext(e.sequence) <= NetLifetime
    BY <1>6, <1>7, NetworkAssumption
  <2>2. LateNext(peerSeenAck) <= PeerWindow
    BY DEF PeerWindowOpen, LateNext
  <2> QED
    BY <1>1, <2>1, <2>2 DEF ChannelInv, Windows, Age, Late, LateNext
<1>10. UpOrder'
  <2>1. LateNext(incoming) <= LateNext(peerSeenAck)
    BY <1>3, <1>6 DEF ChannelInv, UpOrder
  <2>2. \A e \in UpFresh :
          LateNext(incoming) <= LateNext(e.ack) /\ LateNext(e.ack) <= LateNext(peerSeenAck)
    BY <1>3, <1>6 DEF ChannelInv, UpOrder
  <2>3. ASSUME NEW e \in UpFresh, NEW f \in UpFresh, Age(e.sequence) <= Age(f.sequence)
        PROVE  LateNext(e.ack) <= LateNext(f.ack)
    <3>1. Late(e.ack) <= Late(f.ack)
      BY <2>3 DEF ChannelInv, UpOrder
    <3> QED
      BY <1>6, <3>1
  <2> QED
    BY <1>1, <1>7, <2>1, <2>2, <2>3 DEF UpOrder, Age, Late, LateNext
<1>11. DownOrder'
  <2>1. Age(peerIncoming) \in Nat /\ Age(peerIncoming) <= Age(peerAck)
    BY AgesAreSmall DEF ChannelInv, DownOrder
  <2>2. \A e \in DownFresh' : Age(peerIncoming) <= Age(e.ack) /\ Age(e.ack) <= Age(peerAck)
    BY <1>7, <2>1 DEF ChannelInv, DownOrder
  <2>3. ASSUME NEW e \in DownFresh', NEW f \in DownFresh',
               LateNext(e.sequence) <= LateNext(f.sequence)
        PROVE  Age(e.ack) <= Age(f.ack)
    <3>1. CASE e = d
      BY <2>2, <3>1
    <3>2. CASE e # d
      <4>1. e \in DownFresh /\ e \in toClient
        BY <1>3, <1>7, <3>2
      <4>2. f # d
        BY <1>6, <2>3, <4>1
      <4>3. f \in DownFresh /\ f \in toClient
        BY <1>3, <1>7, <4>2
      <4>4. Late(e.sequence) <= Late(f.sequence)
        BY <1>6, <2>3, <4>1, <4>3
      <4> QED
        BY <4>1, <4>3, <4>4 DEF ChannelInv, DownOrder
    <3> QED
      BY <3>1, <3>2
  <2> QED
    BY <1>1, <2>1, <2>2, <2>3 DEF DownOrder, Age, Late, LateNext
<1>12. Admitted' <=> Admitted
  BY <1>1 DEF Admitted
<1>13. Copies'
  <2>1. ASSUME inFlight # None
        PROVE  \A e \in DownFresh' : Age(e.ack) <= Age(inFlight.mostRecent) =>
                 e.ackReliable = peerGeneration /\ (e.ack = inFlight.mostRecent => Admitted)
    BY <1>7, <2>1 DEF ChannelInv, Copies
  <2> QED
    BY <1>1, <1>7, <1>12, <2>1 DEF ChannelInv, Copies, Age
<1>14. NoCopies' /\ Delivery'
  BY <1>1, <1>7, <1>12 DEF ChannelInv, NoCopies, Delivery
<1> QED
  BY <1>8, <1>9, <1>10, <1>11, <1>13, <1>14 DEF ChannelInv

LEMMA PeerSendKeeps ==
  ASSUME ChannelInv, Holding', PeerSend
  PROVE  ChannelInv'
<1>1. PICK r \in BOOLEAN : \E b : toClient' = Put(toClient, PeerPacket(r, b))
  BY DEF PeerSend, PeerSendNew, PeerResend, PeerSendUnreliable
<1>a. PICK b : toClient' = Put(toClient, PeerPacket(r, b))
  BY <1>1
<1>2. /\ PeerPacket(r, b).sequence = NextSeq(peerOutgoing)
      /\ PeerPacket(r, b).ack = peerIncoming
      /\ PeerPacket(r, b).ackReliable = peerGeneration
      /\ PeerPacket(r, b).reliable \in BOOLEAN
  BY DEF PeerPacket
<1>3. /\ PeerWindowOpen /\ peerOutgoing' = NextSeq(peerOutgoing)
      /\ UNCHANGED <<sessionVars, toPeer, peerRxVars, peerSeenAck>>
  BY DEF PeerSend
<1> QED
  BY <1>a, <1>2, <1>3, PeerSends

-----------------------------------------------------------------------------
(* The client receives.                                                    *)

\* The parts of a datagram's header that matter here; the rest depends on whether
\* it holds a fragment.
IsHeaderOf(h, d) ==
  h.sequence = d.sequence /\ h.ack = d.ack /\ h.ackReliable = d.ackReliable

\* An acknowledgement that is taken releases the copy in flight, shows that it
\* was lost, or leaves it as it is.
LEMMA TakingAnAcknowledgement ==
  ASSUME ChannelInv, NEW d \in DownFresh, NEW h, NEW class, IsHeaderOf(h, d),
         CommitIncoming(Inspection(h, class))
  PROVE  /\ incoming' = d.sequence /\ peerAck' = d.ack
         /\ UNCHANGED <<outgoingVars, toggle, firstAckSent, accepted>>
         /\ \/ /\ inFlight # None /\ Age(d.ack) <= Age(inFlight.mostRecent)
               /\ d.ackReliable = inFlight.toggle
               /\ inFlight' = None /\ retired' = retired + Len(inFlight.bytes)
            \/ /\ inFlight # None /\ Age(d.ack) < Age(inFlight.mostRecent)
               /\ d.ackReliable # inFlight.toggle
               /\ inFlight' = [inFlight EXCEPT !.retransmit = TRUE]
               /\ retired' = retired
            \/ /\ inFlight' = inFlight /\ retired' = retired
               /\ inFlight # None =>
                    \/ Age(d.ack) = Age(peerAck)
                    \/ Age(inFlight.mostRecent) < Age(d.ack)
                    \/ /\ Age(d.ack) = Age(inFlight.mostRecent)
                       /\ d.ackReliable # inFlight.toggle
<1> DEFINE i == Inspection(h, class)
<1>1. /\ i.sequence = d.sequence /\ i.ack = d.ack /\ i.ackReliable = d.ackReliable
      /\ CompareSequences(d.ack, peerAck) # "older" => i.disposition # "stale"
      /\ i.disposition = "advanced" <=> CompareSequences(d.ack, peerAck) = "newer"
  BY DEF Inspection, IsHeaderOf
<1>2. /\ CompareSequences(d.ack, peerAck) # "older"
      /\ CompareSequences(d.ack, peerAck) = "newer" <=> Age(d.ack) < Age(peerAck)
      /\ inFlight # None =>
           /\ Newer(d.ack, inFlight.mostRecent) <=> Age(d.ack) < Age(inFlight.mostRecent)
           /\ Covers(d.ack, inFlight.mostRecent) <=> Age(d.ack) <= Age(inFlight.mostRecent)
  BY FreshAcknowledgement
<1>3. /\ Age(d.ack) \in Nat /\ Age(peerAck) \in Nat /\ Age(d.ack) <= Age(peerAck)
      /\ inFlight # None => Age(inFlight.mostRecent) \in Nat
  BY AgesAreSmall DEF ChannelInv, DownOrder
<1>4. /\ incoming' = i.sequence /\ (i.disposition # "stale" => peerAck' = i.ack)
      /\ UNCHANGED <<outgoingVars, toggle, firstAckSent, accepted>>
      /\ \/ Releases(i) /\ ReleaseInFlight
         \/ /\ ~Releases(i)
            /\ inFlight' = IF ShowsLoss(i) THEN [inFlight EXCEPT !.retransmit = TRUE]
                                           ELSE inFlight
            /\ retired' = retired
  BY DEF CommitIncoming
<1> HIDE DEF i
<1>5. CASE Releases(i) /\ ReleaseInFlight
  BY <1>1, <1>2, <1>4, <1>5 DEF Releases, ReleaseInFlight
<1>6. CASE ~Releases(i) /\ ShowsLoss(i)
  BY <1>1, <1>2, <1>4, <1>6 DEF ShowsLoss
<1>7. CASE ~Releases(i) /\ ~ShowsLoss(i)
  <2>1. inFlight' = inFlight /\ retired' = retired
    BY <1>4, <1>7
  <2>2. ASSUME inFlight # None
        PROVE  \/ Age(d.ack) = Age(peerAck)
               \/ Age(inFlight.mostRecent) < Age(d.ack)
               \/ Age(d.ack) = Age(inFlight.mostRecent) /\ d.ackReliable # inFlight.toggle
    <3>1. CASE ~(Age(d.ack) < Age(peerAck))
      BY <1>3, <3>1
    <3>2. CASE Age(d.ack) < Age(peerAck) /\ Age(d.ack) <= Age(inFlight.mostRecent)
      <4>1. i.disposition = "advanced" /\ Covers(i.ack, inFlight.mostRecent)
        BY <1>1, <1>2, <2>2, <3>2
      <4>2. d.ackReliable # inFlight.toggle
        BY <1>1, <1>7, <2>2, <4>1 DEF Releases
      <4>3. ~Newer(i.ack, inFlight.mostRecent)
        BY <1>1, <1>7, <2>2, <4>1, <4>2 DEF ShowsLoss
      <4>4. ~(Age(d.ack) < Age(inFlight.mostRecent))
        BY <1>1, <1>2, <2>2, <4>3
      <4> QED
        BY <1>3, <2>2, <3>2, <4>2, <4>4
    <3>3. CASE Age(d.ack) < Age(peerAck) /\ ~(Age(d.ack) <= Age(inFlight.mostRecent))
      BY <1>3, <2>2, <3>3
    <3> QED
      BY <3>1, <3>2, <3>3
  <2> QED
    BY <1>1, <1>2, <1>4, <2>1, <2>2
<1> QED
  BY <1>4, <1>5, <1>6, <1>7

LEMMA ClientReceives ==
  ASSUME ChannelInv, Holding', NEW d \in DownFresh, NEW h, NEW class, IsHeaderOf(h, d),
         CommitIncoming(Inspection(h, class)),
         toClient' \subseteq toClient,
         UNCHANGED <<toPeer, peerRxVars, peerOutgoing, peerSeenAck>>
  PROVE  ChannelInv'
<1>1. /\ lastOutgoing' = lastOutgoing /\ nextOutgoing' = nextOutgoing
      /\ incoming' = d.sequence /\ peerAck' = d.ack
      /\ toggle' = toggle /\ firstAckSent' = firstAckSent
      /\ peerIncoming' = peerIncoming /\ peerGeneration' = peerGeneration
      /\ delivered' = delivered /\ toPeer' = toPeer /\ peerSeenAck' = peerSeenAck
      /\ peerOutgoing' = peerOutgoing
  BY TakingAnAcknowledgement DEF outgoingVars, peerRxVars
<1>2. (\A s : Age(s)' = Age(s)) /\ (\A s : Late(s)' = Late(s))
  BY <1>1 DEF Age, Late
<1>3. /\ d \in toClient /\ d.sequence \in SeqNum /\ d.ack \in SeqNum
      /\ Late(d.sequence) \in Nat /\ Late(d.sequence) < Late(incoming) /\ Late(incoming) \in Nat
      /\ Age(peerIncoming) <= Age(d.ack) /\ Age(d.ack) <= Age(peerAck)
      /\ Age(peerIncoming) \in Nat /\ Age(d.ack) \in Nat /\ Age(peerAck) \in Nat
  BY AgesAreSmall DEF ChannelInv, ChannelTypes, DownOrder, DownFresh
<1>4. UpFresh' = UpFresh
  BY <1>1 DEF UpFresh, Age
<1>5. \A e \in DownFresh' : e \in DownFresh /\ Late(e.sequence) <= Late(d.sequence)
  <2> SUFFICES ASSUME NEW e \in DownFresh'
               PROVE  e \in DownFresh /\ Late(e.sequence) <= Late(d.sequence)
    OBVIOUS
  <2>1. e \in toClient /\ Late(e.sequence) < Late(d.sequence)
    BY <1>1 DEF DownFresh, Late
  <2>2. Late(e.sequence) \in Nat
    BY <2>1, AgesAreSmall
  <2> QED
    BY <1>3, <2>1, <2>2 DEF DownFresh
<1>6. ChannelTypes'
  BY <1>1, <1>3 DEF ChannelInv, ChannelTypes
<1>7. Windows'
  <2>1. Age(d.ack) <= SendWindow + 1 + Bit(firstAckSent)
    <3>1. PICK b \in Nat : b = Bit(firstAckSent)
      BY DEF Bit
    <3>2. Age(peerAck) <= SendWindow + 1 + b /\ SendWindow \in Nat
      BY <3>1, NetworkAssumption DEF ChannelInv, Windows
    <3> QED
      BY <1>3, <3>1, <3>2
  <2> QED
    BY <1>1, <2>1 DEF ChannelInv, Windows, Age, Late
<1>8. UpOrder'
  <2>1. /\ Late(peerSeenAck) \in Nat /\ Late(incoming) <= Late(peerSeenAck)
        /\ \A e \in UpFresh : Late(e.ack) \in Nat /\ Late(incoming) <= Late(e.ack)
    BY AgesAreSmall DEF ChannelInv, UpOrder
  <2>2. Late(d.sequence) <= Late(peerSeenAck) /\ \A e \in UpFresh : Late(d.sequence) <= Late(e.ack)
    BY <1>3, <2>1
  <2> QED
    BY <1>1, <1>4, <2>2 DEF ChannelInv, UpOrder, Age, Late
<1>9. DownOrder'
  <2>1. \A e \in DownFresh' : Age(peerIncoming) <= Age(e.ack) /\ Age(e.ack) <= Age(d.ack)
    BY <1>5 DEF ChannelInv, DownOrder
  <2>2. ASSUME NEW e \in DownFresh', NEW f \in DownFresh', Late(e.sequence) <= Late(f.sequence)
        PROVE  Age(e.ack) <= Age(f.ack)
    BY <1>5, <2>2 DEF ChannelInv, DownOrder
  <2> QED
    BY <1>1, <1>3, <2>1, <2>2 DEF DownOrder, Age, Late
<1>10. (Admitted' <=> Admitted) /\ toggle \in BOOLEAN /\ peerGeneration \in BOOLEAN
  BY <1>1 DEF Admitted, ChannelInv, ChannelTypes, Holding, CurrentUnitInv, TypeOK
<1>11. ASSUME inFlight # None
       PROVE  /\ inFlight \in InFlightPayload /\ inFlight.toggle = toggle
              /\ Age(inFlight.mostRecent) \in Nat
              /\ Age(d.ack) <= Age(inFlight.mostRecent) => d.ackReliable = peerGeneration
              /\ d.ack = inFlight.mostRecent => Admitted
              /\ d.ack = inFlight.mostRecent <=> Age(d.ack) = Age(inFlight.mostRecent)
              /\ Len(inFlight.bytes) \in Nat
  <2>1. inFlight \in InFlightPayload /\ inFlight.toggle = toggle
    BY <1>11 DEF ChannelInv, Holding, CurrentUnitInv, TypeOK, InFlightIsCurrentUnit
  <2>2. inFlight.bytes \in Seq(Nat)
    BY <2>1 DEF InFlightPayload
  <2>3. d.ack = inFlight.mostRecent => Age(d.ack) <= Age(inFlight.mostRecent)
    BY <1>3
  <2>4. /\ Age(d.ack) <= Age(inFlight.mostRecent) => d.ackReliable = peerGeneration
        /\ d.ack = inFlight.mostRecent => Admitted
    BY <1>11, <2>3 DEF ChannelInv, Copies
  <2> QED
    BY <1>11, <2>1, <2>2, <2>4, AgesAreSmall, FreshAcknowledgement
<1>12. CASE /\ inFlight # None /\ Age(d.ack) <= Age(inFlight.mostRecent)
            /\ d.ackReliable = inFlight.toggle
            /\ inFlight' = None /\ retired' = retired + Len(inFlight.bytes)
  <2>1. Admitted
    BY <1>11, <1>12 DEF Admitted
  <2>2. \A e \in UpFresh : ~e.reliable
    BY <1>12, <2>1 DEF ChannelInv, Copies, ChannelTypes, UpFresh
  <2>3. Copies' /\ NoCopies'
    BY <1>4, <1>10, <1>12, <2>1, <2>2 DEF Copies, NoCopies
  <2>4. Delivery'
    <3>1. delivered = Units(1, retired + Len(inFlight.bytes))
      BY <1>12, <2>1 DEF ChannelInv, Delivery
    <3>2. retired + Len(inFlight.bytes) + 0 = retired + Len(inFlight.bytes)
      BY <1>11, <1>12 DEF ChannelInv, Holding, CurrentUnitInv, TypeOK
    <3> QED
      BY <1>1, <1>12, <3>1, <3>2 DEF Delivery
  <2> QED
    BY <1>6, <1>7, <1>8, <1>9, <2>3, <2>4 DEF ChannelInv
<1>13. CASE /\ inFlight # None /\ Age(d.ack) < Age(inFlight.mostRecent)
            /\ d.ackReliable # inFlight.toggle
            /\ inFlight' = [inFlight EXCEPT !.retransmit = TRUE]
            /\ retired' = retired
  <2>1. /\ inFlight'.mostRecent = inFlight.mostRecent /\ inFlight'.bytes = inFlight.bytes
        /\ inFlight'.retransmit = TRUE /\ inFlight' \in InFlightPayload
    BY <1>11, <1>13 DEF InFlightPayload
  <2>2. inFlight' # None
    BY <2>1, NoneAssumption
  <2>3. ~Admitted
    <3>1. Age(d.ack) <= Age(inFlight.mostRecent)
      BY <1>3, <1>11, <1>13
    <3> QED
      BY <1>11, <1>13, <3>1 DEF Admitted
  <2>4. Age(peerIncoming) < Age(inFlight.mostRecent)
    BY <1>3, <1>11, <1>13
  <2> DEFINE m == inFlight.mostRecent
  <2>5. Age(m) <= SendWindow + Bit(firstAckSent)
                    + Bit(Age(SeqModulus - 1) < Age(m)) + Bit(Age(SeqModulus - 2) < Age(m))
    <3>1. CASE inFlight.retransmit
      BY <1>13, <3>1 DEF ChannelInv, Copies
    <3>2. CASE ~inFlight.retransmit
      <4>1. Age(m) < Age(peerAck) /\ Age(peerAck) <= SendWindow + 1 + Bit(firstAckSent)
        BY <1>13, <3>2 DEF ChannelInv, Copies, Windows
      <4>2. \A b : Bit(b) \in Nat
        BY DEF Bit
      <4>3. PICK b, x, y \in Nat : /\ b = Bit(firstAckSent)
                                   /\ x = Bit(Age(SeqModulus - 1) < Age(m))
                                   /\ y = Bit(Age(SeqModulus - 2) < Age(m))
        BY <4>2
      <4>4. PICK a, c \in Nat : a = Age(m) /\ c = Age(peerAck)
        BY <1>3, <1>11, <1>13
      <4>5. a < c /\ c <= SendWindow + 1 + b /\ SendWindow \in Nat
        BY <4>1, <4>3, <4>4, NetworkAssumption
      <4>6. a <= SendWindow + b + x + y
        BY <4>5
      <4> QED
        BY <4>3, <4>4, <4>6
    <3> QED
      BY <3>1, <3>2
  <2>6. Copies'
    <3>1. inFlight'.mostRecent = m
      BY <2>1
    <3>2. /\ Admitted => Age(peerIncoming) <= Age(m)
          /\ peerIncoming = m => Admitted
          /\ \A e \in UpFresh : /\ e.reliable <=> ~Admitted /\ e.sequence = m
                                /\ e.reliable => e.bytes = inFlight.bytes
          /\ \A e \in DownFresh' : Age(e.ack) <= Age(m) =>
               e.ackReliable = peerGeneration /\ (e.ack = m => Admitted)
      BY <1>5, <1>13 DEF ChannelInv, Copies
    <3> HIDE DEF m
    <3> QED
      BY <1>1, <1>2, <1>4, <1>10, <2>1, <2>3, <2>4, <2>5, <3>1, <3>2 DEF Copies, m
  <2>7. NoCopies'
    BY <2>2 DEF NoCopies
  <2>8. Delivery'
    BY <1>1, <1>10, <1>13, <2>1, <2>2, <2>3 DEF ChannelInv, Delivery
  <2> QED
    BY <1>6, <1>7, <1>8, <1>9, <2>6, <2>7, <2>8 DEF ChannelInv
<1>14. CASE /\ inFlight' = inFlight /\ retired' = retired
            /\ inFlight # None =>
                 \/ Age(d.ack) = Age(peerAck)
                 \/ Age(inFlight.mostRecent) < Age(d.ack)
                 \/ /\ Age(d.ack) = Age(inFlight.mostRecent)
                    /\ d.ackReliable # inFlight.toggle
  <2>1. ASSUME inFlight # None, ~inFlight.retransmit
        PROVE  Age(inFlight.mostRecent) < Age(d.ack)
    <3>1. CASE Age(d.ack) = Age(peerAck)
      BY <2>1, <3>1 DEF ChannelInv, Copies
    <3>2. CASE Age(d.ack) = Age(inFlight.mostRecent) /\ d.ackReliable # inFlight.toggle
      <4>1. Admitted /\ d.ackReliable = peerGeneration
        BY <1>3, <1>11, <2>1, <3>2
      <4> QED
        BY <1>11, <2>1, <3>2, <4>1 DEF Admitted
    <3> QED
      BY <1>14, <2>1, <3>1, <3>2
  <2>2. Copies'
    BY <1>1, <1>2, <1>4, <1>5, <1>10, <1>14, <2>1 DEF ChannelInv, Copies
  <2>3. NoCopies' /\ Delivery'
    BY <1>1, <1>4, <1>10, <1>14 DEF ChannelInv, NoCopies, Delivery
  <2> QED
    BY <1>6, <1>7, <1>8, <1>9, <2>2, <2>3 DEF ChannelInv
<1> QED
  BY <1>12, <1>13, <1>14, TakingAnAcknowledgement

LEMMA ClientReceiveKeeps ==
  ASSUME ChannelInv, Holding', NEW d \in toClient, ClientReceive(d)
  PROVE  ChannelInv'
<1>1. /\ toClient' \subseteq toClient
      /\ UNCHANGED <<toPeer, peerRxVars, peerOutgoing, peerSeenAck>>
  BY DEF ClientReceive, AfterDelivery, peerTxVars
<1>2. CASE Receive(HeaderOf(d), "unfragmented")
  <2>1. d \in DownFresh /\ CommitIncoming(Inspection(HeaderOf(d), "unfragmented"))
    <3>1. Newer(d.sequence, incoming)
      BY <1>2 DEF Receive, Acceptable, HeaderOf
    <3> QED
      BY <1>2, <3>1, FreshIsNewer DEF Receive
  <2> QED
    BY <1>1, <2>1, ClientReceives DEF IsHeaderOf, HeaderOf
<1>3. CASE UNCHANGED sessionVars
  BY <1>1, <1>3, FewerDatagrams
  DEF sessionVars, outgoingVars, incomingVars, reliableVars, historyVars
<1> QED
  BY <1>2, <1>3 DEF ClientReceive

-----------------------------------------------------------------------------
(* The peer receives.                                                      *)

(* A run that starts with some units starts with a run of them.            *)
LEMMA UnitsFront ==
  ASSUME NEW first \in Nat, NEW n \in Nat, NEW left \in Seq(Nat), NEW right \in Seq(Nat),
         left \o right = Units(first, n)
  PROVE  Len(left) <= n /\ left = Units(first, Len(left))
<1>1. Len(left) \in Nat /\ Len(left) <= n
  <2>1. Len(left) \in 0 .. n
    BY UnitsDropPrefix, Zenon
  <2> QED
    BY <2>1
<1>2. /\ \A i \in 1 .. n : Units(first, n)[i] = first + i - 1
      /\ Units(first, Len(left)) \in Seq(Nat)
      /\ Len(Units(first, Len(left))) = Len(left)
      /\ \A i \in 1 .. Len(left) : Units(first, Len(left))[i] = first + i - 1
  BY <1>1, UnitsProperties
<1>3. \A i \in 1 .. Len(left) : (left \o right)[i] = left[i]
  BY ConcatProperties
<1>4. \A i \in 1 .. Len(left) : i \in 1 .. n
  BY <1>1
<1>5. \A i \in 1 .. Len(left) : left[i] = Units(first, Len(left))[i]
  BY <1>2, <1>3, <1>4
<1> QED
  BY <1>1, <1>2, <1>5, SeqEqual

(* The copy in flight is the front of the units that are held.             *)
LEMMA InFlightIsFront ==
  ASSUME Holding, inFlight # None
  PROVE  /\ inFlight.bytes \in Seq(Nat) /\ retired \in Nat /\ accepted \in Nat
         /\ inFlight.bytes = Units(retired + 1, Len(inFlight.bytes))
         /\ retired + Len(inFlight.bytes) <= accepted
<1>1. /\ inFlight.bytes \in Seq(Nat) /\ retired \in Nat /\ accepted \in Nat
      /\ retired + 1 \in Nat /\ accepted - retired \in Nat
      /\ Unacknowledged \in Seq(Nat) /\ pending \in Seq(Nat)
      /\ Unacknowledged \o pending = Units(retired + 1, accepted - retired)
  BY HeldRun DEF Holding, CurrentUnitInv, TypeOK, InFlightPayload
<1>2. \E rest \in Seq(Nat) : Unacknowledged = inFlight.bytes \o rest
  <2>1. CASE transfer = None
    <3>1. Unacknowledged = inFlight.bytes \o <<>> /\ <<>> \in Seq(Nat)
      BY <1>1, <2>1, ConcatEmptySeq DEF Unacknowledged
    <3> QED
      BY <3>1
  <2>2. CASE transfer # None
    <3> DEFINE payload == transfer.bytes
               index == transfer.index
               rest == IF index < FragmentCount(Len(payload))
                       THEN SubSeq(payload, ((index + 1) - 1) * FragmentSize + 1, Len(payload))
                       ELSE <<>>
    <3>1. /\ payload \in Seq(Nat) /\ Len(payload) > 0 /\ Len(payload) \in Nat \ {0}
          /\ index \in 1 .. FragmentCount(Len(payload))
          /\ inFlight.bytes = FragmentOf(payload, index)
      BY <2>2 DEF Holding, CurrentUnitInv, InFlightIsCurrentUnit, TypeOK, FragmentTransfer
    <3>2. Unacknowledged = FragmentOf(payload, index) \o rest
      BY <2>2, <3>1, FragmentIsFront DEF Unacknowledged
    <3>3. rest \in Seq(Nat)
      <4>1. CASE index < FragmentCount(Len(payload))
        <5>1. FragmentCount(Len(payload)) \in Nat /\ index \in Nat
          BY <3>1, FragmentCountProperties
        <5>2. (index + 1) \in 1 .. FragmentCount(Len(payload))
          BY <4>1, <5>1
        <5>3. ((index + 1) - 1) * FragmentSize \in Nat
          BY <3>1, <5>2, FragmentOffsets
        <5> DEFINE offset == ((index + 1) - 1) * FragmentSize
        <5> HIDE DEF offset
        <5>4. /\ offset + 1 \in Int /\ Len(payload) \in Int
              /\ \A i \in offset + 1 .. Len(payload) : payload[i] \in Nat
          <6>1. offset \in Nat
            BY <5>3 DEF offset
          <6> QED
            BY <3>1, <6>1
        <5>5. SubSeq(payload, offset + 1, Len(payload)) \in Seq(Nat)
          BY <5>4, SubSeqProperties
        <5> QED
          BY <4>1, <5>5 DEF offset
      <4>2. CASE ~(index < FragmentCount(Len(payload)))
        BY <4>2
      <4> QED
        BY <4>1, <4>2
    <3> QED
      BY <3>1, <3>2, <3>3
  <2> QED
    BY <2>1, <2>2
<1>3. PICK rest \in Seq(Nat) : Unacknowledged = inFlight.bytes \o rest
  BY <1>2
<1>4. rest \o pending \in Seq(Nat)
  BY <1>1, <1>3, ConcatProperties
<1>5. inFlight.bytes \o (rest \o pending) = Units(retired + 1, accepted - retired)
  <2>1. inFlight.bytes \in Seq(Nat) /\ rest \in Seq(Nat) /\ pending \in Seq(Nat)
    BY <1>1, <1>3
  <2>2. (inFlight.bytes \o rest) \o pending = inFlight.bytes \o (rest \o pending)
    BY <2>1, UnitsAssociative, Zenon
  <2> QED
    BY <1>1, <1>3, <2>2
<1>6. /\ Len(inFlight.bytes) <= accepted - retired
      /\ inFlight.bytes = Units(retired + 1, Len(inFlight.bytes))
  BY <1>1, <1>4, <1>5, UnitsFront
<1>7. Len(inFlight.bytes) \in Nat
  BY <1>1
<1> QED
  BY <1>1, <1>6, <1>7

LEMMA PeerReceives ==
  ASSUME ChannelInv, Holding', NEW d \in UpFresh, PeerAdmits(d),
         toPeer' \subseteq toPeer,
         UNCHANGED <<sessionVars, toClient>>
  PROVE  ChannelInv'
<1>1. /\ lastOutgoing' = lastOutgoing /\ nextOutgoing' = nextOutgoing
      /\ incoming' = incoming /\ peerAck' = peerAck /\ firstAckSent' = firstAckSent
      /\ inFlight' = inFlight /\ toggle' = toggle /\ retired' = retired
      /\ toClient' = toClient /\ peerOutgoing' = peerOutgoing
      /\ peerIncoming' = d.sequence /\ peerSeenAck' = d.ack
      /\ peerGeneration' = IF d.reliable THEN ~peerGeneration ELSE peerGeneration
      /\ delivered' = delivered \o d.bytes
  BY DEF PeerAdmits, sessionVars, outgoingVars, incomingVars, reliableVars, historyVars
<1>2. (\A s : Age(s)' = Age(s)) /\ (\A s : Late(s)' = Late(s))
  BY <1>1 DEF Age, Late
<1>3. /\ d \in toPeer /\ d.sequence \in SeqNum /\ d.ack \in SeqNum
      /\ d.reliable \in BOOLEAN /\ peerGeneration \in BOOLEAN /\ toggle \in BOOLEAN
      /\ ~d.reliable => d.bytes = <<>>
      /\ Age(d.sequence) \in Nat /\ Age(d.sequence) < Age(peerIncoming)
      /\ Age(peerIncoming) \in Nat
      /\ Late(incoming) <= Late(d.ack) /\ Late(d.ack) <= Late(peerSeenAck)
      /\ Late(d.ack) \in Nat /\ Late(peerSeenAck) \in Nat
  BY AgesAreSmall
  DEF ChannelInv, ChannelTypes, UpOrder, UpFresh, Holding, CurrentUnitInv, TypeOK
<1>4. DownFresh' = DownFresh
  BY <1>1 DEF DownFresh, Late
<1>5. \A e \in UpFresh' : /\ e \in UpFresh /\ Age(e.sequence) <= Age(d.sequence)
                          /\ e.sequence # d.sequence
  <2> SUFFICES ASSUME NEW e \in UpFresh'
               PROVE  /\ e \in UpFresh /\ Age(e.sequence) <= Age(d.sequence)
                      /\ e.sequence # d.sequence
    OBVIOUS
  <2>1. e \in toPeer /\ Age(e.sequence) < Age(d.sequence)
    BY <1>1 DEF UpFresh, Age
  <2>2. Age(e.sequence) \in Nat
    BY <2>1, AgesAreSmall
  <2> QED
    BY <1>3, <2>1, <2>2 DEF UpFresh
<1>6. ChannelTypes'
  BY <1>1, <1>3 DEF ChannelInv, ChannelTypes
<1>7. Windows'
  <2>1. Late(d.ack) <= PeerWindow
    <3>1. Late(peerSeenAck) <= PeerWindow /\ PeerWindow \in Nat
      BY NetworkAssumption DEF ChannelInv, Windows
    <3> QED
      BY <1>3, <3>1
  <2> QED
    BY <1>1, <2>1 DEF ChannelInv, Windows, Age, Late
<1>8. UpOrder'
  <2>1. \A e \in UpFresh' : Late(incoming) <= Late(e.ack) /\ Late(e.ack) <= Late(d.ack)
    BY <1>5 DEF ChannelInv, UpOrder
  <2>2. ASSUME NEW e \in UpFresh', NEW f \in UpFresh', Age(e.sequence) <= Age(f.sequence)
        PROVE  Late(e.ack) <= Late(f.ack)
    BY <1>5, <2>2 DEF ChannelInv, UpOrder
  <2> QED
    BY <1>1, <1>3, <2>1, <2>2 DEF UpOrder, Age, Late
<1>9. DownOrder'
  <2>1. /\ Age(peerAck) \in Nat /\ Age(peerIncoming) <= Age(peerAck)
        /\ \A e \in DownFresh : Age(e.ack) \in Nat /\ Age(peerIncoming) <= Age(e.ack)
    BY AgesAreSmall DEF ChannelInv, DownOrder
  <2>2. Age(d.sequence) <= Age(peerAck) /\ \A e \in DownFresh : Age(d.sequence) <= Age(e.ack)
    BY <1>3, <2>1
  <2> QED
    BY <1>1, <1>4, <2>2 DEF ChannelInv, DownOrder, Age, Late
<1>10. /\ ~d.reliable => (Admitted' <=> Admitted)
       /\ d.reliable => (Admitted' <=> ~Admitted)
  BY <1>1, <1>3 DEF Admitted
<1>11. CASE inFlight = None
  <2>1. ~d.reliable /\ Admitted
    BY <1>11 DEF ChannelInv, NoCopies
  <2>2. Copies' /\ NoCopies'
    BY <1>1, <1>5, <1>10, <1>11, <2>1 DEF ChannelInv, Copies, NoCopies
  <2>3. delivered' = delivered
    <3>1. delivered \in Seq(Nat)
      <4>1. delivered = Units(1, retired + 0) /\ retired \in Nat
        BY <1>11 DEF ChannelInv, Delivery, Holding, CurrentUnitInv, TypeOK
      <4> QED
        BY <4>1, UnitsProperties
    <3> QED
      BY <1>1, <1>3, <2>1, <3>1, ConcatEmptySeq
  <2>4. Delivery'
    BY <1>1, <1>11, <2>3 DEF ChannelInv, Delivery
  <2> QED
    BY <1>6, <1>7, <1>8, <1>9, <2>2, <2>4 DEF ChannelInv
<1>12. CASE inFlight # None
  <2> DEFINE m == inFlight.mostRecent
             b == inFlight.bytes
  <2>1. /\ m \in SeqNum /\ Age(m) \in Nat
        /\ d.reliable <=> ~Admitted /\ d.sequence = m
        /\ d.reliable => d.bytes = b
        /\ Admitted => Age(peerIncoming) <= Age(m)
        /\ inFlight.retransmit => ~Admitted /\ Age(peerIncoming) < Age(m)
        /\ b \in Seq(Nat) /\ b = Units(retired + 1, Len(b)) /\ retired \in Nat
    BY <1>12, AgesAreSmall, InFlightIsFront DEF ChannelInv, Copies
  <2>2. m' = m /\ b' = b
    BY <1>1
  <2>3. inFlight.retransmit =>
          ~d.reliable /\ ~Admitted' /\ Age(d.sequence) < Age(m)
    BY <1>3, <1>10, <2>1
  <2>4. Admitted' => Age(d.sequence) <= Age(m)
    BY <1>3, <1>10, <2>1
  <2>5. d.sequence = m => Admitted'
    BY <1>10, <2>1
  <2>6. \A e \in UpFresh' : /\ e.reliable <=> ~Admitted' /\ e.sequence = m
                            /\ e.reliable => e.bytes = b
    <3>1. \A e \in UpFresh' : /\ e.reliable <=> ~Admitted /\ e.sequence = m
                              /\ e.reliable => e.bytes = b
      BY <1>5, <1>12 DEF ChannelInv, Copies
    <3>2. CASE d.reliable
      BY <1>5, <1>10, <2>1, <3>1, <3>2
    <3>3. CASE ~d.reliable
      BY <1>10, <3>1, <3>3
    <3> QED
      BY <3>2, <3>3
  <2>7. \A e \in DownFresh : Age(e.ack) <= Age(m) =>
          e.ackReliable = peerGeneration' /\ (e.ack = m => Admitted')
    <3> SUFFICES ASSUME NEW e \in DownFresh, Age(e.ack) <= Age(m)
                 PROVE  e.ackReliable = peerGeneration' /\ (e.ack = m => Admitted')
      OBVIOUS
    <3>1. /\ e.ackReliable = peerGeneration /\ (e.ack = m => Admitted)
          /\ Age(peerIncoming) <= Age(e.ack) /\ Age(e.ack) \in Nat
      BY <1>12, AgesAreSmall DEF ChannelInv, Copies, DownOrder
    <3>2. ~d.reliable
      BY <1>3, <2>1, <3>1
    <3> QED
      BY <1>1, <1>10, <3>1, <3>2
  <2>8. ~inFlight.retransmit => Age(m) < Age(peerAck)
    BY <1>12 DEF ChannelInv, Copies
  <2>9. inFlight.retransmit =>
          Age(m) <= SendWindow + Bit(firstAckSent)
                      + Bit(Age(SeqModulus - 1) < Age(m)) + Bit(Age(SeqModulus - 2) < Age(m))
    BY <1>12 DEF ChannelInv, Copies
  <2>10. Delivery'
    <3>1. Len(b) \in Nat /\ Len(b) > 0
      BY <1>12, <2>1 DEF ChannelInv, Delivery
    <3>2. CASE d.reliable
      <4>1. ~Admitted /\ Admitted'
        BY <1>10, <2>1, <3>2
      <4>2. delivered = Units(1, retired)
        <5>1. delivered = Units(1, retired + 0) /\ retired + 0 = retired
          BY <1>12, <2>1, <4>1 DEF ChannelInv, Delivery
        <5> QED
          BY <5>1
      <4>3. delivered' = Units(1, retired) \o Units(retired + 1, Len(b))
        BY <1>1, <2>1, <3>2, <4>2
      <4>4. Units(1, retired) \o Units(1 + retired, Len(b)) = Units(1, retired + Len(b))
        <5>1. \A x, y \in Nat : Units(1, x) \o Units(1 + x, y) = Units(1, x + y)
          BY UnitsJoin
        <5> HIDE DEF b
        <5> QED
          BY <2>1, <3>1, <5>1
      <4>5. 1 + retired = retired + 1
        BY <2>1
      <4>6. delivered' = Units(1, retired + Len(b))
        BY <4>3, <4>4, <4>5
      <4> QED
        BY <1>1, <1>12, <3>1, <4>1, <4>6 DEF Delivery
    <3>3. CASE ~d.reliable
      <4>1. delivered \in Seq(Nat)
        <5> DEFINE n == retired + IF inFlight # None /\ Admitted THEN Len(b) ELSE 0
        <5>1. delivered = Units(1, n)
          BY DEF ChannelInv, Delivery
        <5>2. n \in Nat
          BY <2>1, <3>1
        <5> QED
          BY <5>1, <5>2, UnitsProperties
      <4>2. delivered' = delivered
        BY <1>1, <1>3, <3>3, <4>1, ConcatEmptySeq
      <4> QED
        BY <1>1, <1>10, <3>3, <4>2 DEF ChannelInv, Delivery
    <3> QED
      BY <3>2, <3>3
  <2>11. Copies'
    <3> HIDE DEF m, b
    <3> QED
      BY <1>1, <1>2, <1>4, <2>2, <2>3, <2>4, <2>5, <2>6, <2>7, <2>8, <2>9 DEF Copies, m, b
  <2>12. NoCopies'
    BY <1>1, <1>12 DEF NoCopies
  <2> QED
    BY <1>6, <1>7, <1>8, <1>9, <2>10, <2>11, <2>12 DEF ChannelInv
<1> QED
  BY <1>11, <1>12

LEMMA PeerReceiveKeeps ==
  ASSUME ChannelInv, Holding', NEW d \in toPeer, PeerReceive(d)
  PROVE  ChannelInv'
<1>1. /\ toPeer' \subseteq toPeer /\ toClient' = toClient /\ UNCHANGED sessionVars
  BY DEF PeerReceive, AfterDelivery
<1>2. CASE Newer(d.sequence, peerIncoming) /\ PeerAdmits(d)
  BY <1>1, <1>2, FreshIsNewer, PeerReceives
<1>3. CASE UNCHANGED <<peerRxVars, peerTxVars>>
  BY <1>1, <1>3, FewerDatagrams
  DEF peerTxVars, sessionVars, outgoingVars, incomingVars, reliableVars, historyVars
<1> QED
  BY <1>2, <1>3 DEF PeerReceive

-----------------------------------------------------------------------------
(* The invariant and what follows from it.                                 *)

LEMMA ChannelInvStep == ChannelInv /\ [ChannelNext]_channelVars => ChannelInv'
<1> SUFFICES ASSUME ChannelInv, [ChannelNext]_channelVars PROVE ChannelInv'
  OBVIOUS
<1>0. Holding'
  BY HoldingAcross
<1>1. CASE \E n \in 1 .. MaxAccepted : ClientQueue(n)
  <2>1. PICK n \in 1 .. MaxAccepted : ClientQueue(n)
    BY <1>1
  <2>2. /\ UNCHANGED <<nextOutgoing, lastOutgoing, incoming, peerAck, firstAckSent,
                       inFlight, toggle, retired>>
        /\ UNCHANGED <<peerRxVars, peerOutgoing, peerSeenAck>>
        /\ toPeer' = toPeer /\ toClient' = toClient
    BY <2>1 DEF ClientQueue, QueueReliable, outgoingVars, incomingVars, netVars, peerTxVars
  <2> QED
    BY <1>0, <2>2, FewerDatagrams
<1>2. CASE ClientSend
  BY <1>0, <1>2, ClientSendKeeps
<1>3. CASE \E d \in toClient : ClientReceive(d)
  BY <1>0, <1>3, ClientReceiveKeeps
<1>4. CASE \E d \in toPeer : PeerReceive(d)
  BY <1>0, <1>4, PeerReceiveKeeps
<1>5. CASE PeerSend
  BY <1>0, <1>5, PeerSendKeeps
<1>6. CASE Lose
  <2>1. toPeer' \subseteq toPeer /\ toClient' \subseteq toClient
    BY <1>6 DEF Lose
  <2>2. UNCHANGED <<sessionVars, peerRxVars, peerTxVars>>
    BY <1>6 DEF Lose
  <2> QED
    BY <1>0, <2>1, <2>2, FewerDatagrams
    DEF sessionVars, outgoingVars, incomingVars, reliableVars, historyVars, peerTxVars
<1>7. CASE UNCHANGED channelVars
  BY <1>0, <1>7, FewerDatagrams
  DEF channelVars, sessionVars, outgoingVars, incomingVars, reliableVars, historyVars,
      netVars, peerTxVars
<1> QED
  BY <1>1, <1>2, <1>3, <1>4, <1>5, <1>6, <1>7 DEF ChannelNext

LEMMA ChannelInvHolds == ChannelSpec => []ChannelInv
  BY ChannelInvInit, ChannelInvStep, PTL DEF ChannelSpec

(* No datagram of a correct peer, however late, repeated or out of order,  *)
(* is refused by inspect_incoming as a violation of the protocol.          *)
THEOREM ChannelRefusesNothing == ChannelSpec => []CorrectPeerIsNeverRejected
<1>1. ChannelInv => CorrectPeerIsNeverRejected
  <2> SUFFICES ASSUME ChannelInv, NEW d \in toClient, ~Ignored(d)
               PROVE  Acceptable(HeaderOf(d), "unfragmented")
    BY DEF CorrectPeerIsNeverRejected
  <2>1. d \in DownFresh
    BY FreshIsNewer
  <2> QED
    BY <2>1, FreshIsAcceptable
<1> QED
  BY <1>1, ChannelInvHolds, PTL

(* prepare_outgoing_packet never builds a word that marks another kind of  *)
(* datagram: at the wrap it sends the number without the fragment.         *)
THEOREM ChannelMarksNothing == ChannelSpec => []NeverTakenForAnotherKind
<1>1. ChannelInv => NeverTakenForAnotherKind
  <2> SUFFICES ASSUME ChannelInv, NEW d \in toPeer
               PROVE  EncodeSequenceWord(d.sequence, d.reliable, d.fragmented)
                        \notin ClassifierWords
    BY DEF NeverTakenForAnotherKind
  <2>1. /\ d.sequence \in SeqNum /\ d.reliable \in BOOLEAN /\ d.fragmented \in BOOLEAN
        /\ d.reliable /\ d.fragmented => ~CollidesWithClassifier(d.sequence)
    BY DEF ChannelInv, ChannelTypes
  <2>2. CASE d.reliable /\ d.fragmented
    <3>1. ~CollidesWithClassifier(d.sequence)
      BY <2>1, <2>2
    <3>2. d.reliable = TRUE /\ d.fragmented = TRUE
      BY <2>1, <2>2
    <3> QED
      BY <3>1, <3>2 DEF CollidesWithClassifier
  <2>3. CASE ~(d.reliable /\ d.fragmented)
    <3>1. PICK s \in SeqNum : s = d.sequence
      BY <2>1
    <3>2. EncodeSequenceWord(s, d.reliable, d.fragmented) \in 0 .. 3 * SeqModulus - 1
      BY <2>3, HalfRangeAssumption DEF EncodeSequenceWord, SeqNum, SeqModulus
    <3>3. \A w \in 0 .. 3 * SeqModulus - 1 : w \notin ClassifierWords
      BY HalfRangeAssumption DEF ClassifierWords, SeqModulus
    <3> QED
      BY <3>1, <3>2, <3>3
  <2> QED
    BY <2>2, <2>3
<1> QED
  BY <1>1, ChannelInvHolds, PTL

-----------------------------------------------------------------------------
(* The uplink implements ReliableDelivery.                                 *)

(* What has been delivered is a run from the first unit, of as many as the *)
(* session has let go of and perhaps the copy in flight.                   *)
LEMMA DeliveredRun ==
  ASSUME ChannelInv
  PROVE  /\ retired \in Nat /\ accepted \in Nat /\ Len(delivered) \in Nat
         /\ delivered = Units(1, Len(delivered))
         /\ Len(delivered) <= accepted
         /\ inFlight # None =>
              Len(inFlight.bytes) \in Nat /\ Len(inFlight.bytes) > 0
         /\ inFlight = None \/ ~Admitted => Len(delivered) = retired
         /\ inFlight # None /\ Admitted => Len(delivered) = retired + Len(inFlight.bytes)
<1>1. Holding /\ retired \in Nat /\ accepted \in Nat /\ retired <= accepted
  BY DEF ChannelInv, Holding, CurrentUnitInv, TypeOK
<1>2. CASE inFlight # None /\ Admitted
  <2>1. /\ Len(inFlight.bytes) \in Nat /\ Len(inFlight.bytes) > 0
        /\ retired + Len(inFlight.bytes) <= accepted
    <3>1. inFlight.bytes \in Seq(Nat) /\ retired + Len(inFlight.bytes) <= accepted
      BY <1>1, <1>2, InFlightIsFront
    <3> QED
      BY <1>2, <3>1 DEF ChannelInv, Delivery
  <2>2. delivered = Units(1, retired + Len(inFlight.bytes))
    BY <1>2 DEF ChannelInv, Delivery
  <2>3. Len(delivered) = retired + Len(inFlight.bytes)
    BY <1>1, <2>1, <2>2, UnitsProperties
  <2> QED
    BY <1>1, <1>2, <2>1, <2>2, <2>3
<1>3. CASE ~(inFlight # None /\ Admitted)
  <2>1. delivered = Units(1, retired)
    <3>1. delivered = Units(1, retired + 0) /\ retired + 0 = retired
      BY <1>1, <1>3 DEF ChannelInv, Delivery
    <3> QED
      BY <3>1
  <2>2. Len(delivered) = retired
    BY <1>1, <2>1, UnitsProperties
  <2>3. inFlight # None => Len(inFlight.bytes) \in Nat /\ Len(inFlight.bytes) > 0
    <3> SUFFICES ASSUME inFlight # None
                 PROVE  Len(inFlight.bytes) \in Nat /\ Len(inFlight.bytes) > 0
      OBVIOUS
    <3>1. inFlight.bytes \in Seq(Nat) /\ Len(inFlight.bytes) > 0
      BY <1>1, InFlightIsFront DEF ChannelInv, Delivery
    <3> QED
      BY <3>1
  <2> QED
    BY <1>1, <1>3, <2>1, <2>2, <2>3
<1> QED
  BY <1>2, <1>3

LEMMA DeliveredRunNext ==
  ChannelInv' => /\ Len(delivered') \in Nat
                 /\ delivered' = Units(1, Len(delivered'))
                 /\ Len(delivered') <= accepted'
<1>1. ChannelInv => /\ Len(delivered) \in Nat
                    /\ delivered = Units(1, Len(delivered))
                    /\ Len(delivered) <= accepted
  BY DeliveredRun
<1>2. (ChannelInv => /\ Len(delivered) \in Nat
                     /\ delivered = Units(1, Len(delivered))
                     /\ Len(delivered) <= accepted)'
  BY <1>1, PTL
<1> QED
  BY <1>2

LEMMA UplinkStep ==
  ASSUME ChannelInv, [ChannelNext]_channelVars, ChannelInv'
  PROVE  [Uplink!Next]_(Uplink!serviceVars)
<1> USE DEF Uplink!serviceVars
<1>0. /\ retired \in Nat /\ accepted \in Nat /\ Len(delivered) \in Nat
      /\ Len(delivered') \in Nat /\ delivered' = Units(1, Len(delivered'))
      /\ Len(delivered') <= accepted'
  BY DeliveredRun, DeliveredRunNext
<1>1. CASE \E n \in 1 .. MaxAccepted : ClientQueue(n)
  <2>1. PICK n \in 1 .. MaxAccepted : ClientQueue(n)
    BY <1>1
  <2>2. accepted' = accepted + n /\ retired' = retired /\ delivered' = delivered
    BY <2>1 DEF ClientQueue, QueueReliable, peerRxVars
  <2>3. accepted' \in Nat /\ accepted' > accepted
    BY <1>0, <2>2, LimitsAssumption
  <2>4. Uplink!Submit
    BY <2>2, <2>3 DEF Uplink!Submit
  <2> QED
    BY <2>4 DEF Uplink!Next
<1>2. CASE ClientSend
  <2>1. accepted' = accepted /\ retired' = retired /\ delivered' = delivered
    BY <1>2 DEF ClientSend, ClientSendReliable, ClientPoll, ClientFirstAck, ClientTransmit,
                Transmit, CommitOutgoing, SendFirstAck, historyVars, peerRxVars
  <2> QED
    BY <2>1
<1>3. CASE \E d \in toClient : ClientReceive(d)
  <2>1. PICK d \in toClient : ClientReceive(d)
    BY <1>3
  <2>2. delivered' = delivered
    BY <2>1 DEF ClientReceive, peerRxVars
  <2>3. CASE UNCHANGED sessionVars
    BY <2>2, <2>3 DEF sessionVars, historyVars
  <2>4. CASE Receive(HeaderOf(d), "unfragmented")
    <3>1. Newer(d.sequence, incoming) /\ CommitIncoming(Inspection(HeaderOf(d), "unfragmented"))
      BY <2>4 DEF Receive, Acceptable, HeaderOf
    <3>2. d \in DownFresh /\ IsHeaderOf(HeaderOf(d), d)
      BY <3>1, FreshIsNewer DEF IsHeaderOf, HeaderOf
    <3>3. accepted' = accepted
      BY <3>1, <3>2, TakingAnAcknowledgement
    <3>4. CASE retired' = retired
      BY <2>2, <3>3, <3>4
    <3>5. CASE /\ inFlight # None /\ Age(d.ack) <= Age(inFlight.mostRecent)
               /\ d.ackReliable = inFlight.toggle
               /\ retired' = retired + Len(inFlight.bytes)
      <4>1. /\ d.ackReliable = peerGeneration /\ inFlight.toggle = toggle
        BY <3>2, <3>5
        DEF ChannelInv, Copies, Holding, CurrentUnitInv, InFlightIsCurrentUnit
      <4>2. Admitted
        BY <3>5, <4>1 DEF Admitted
      <4>3. /\ Len(delivered) = retired + Len(inFlight.bytes)
            /\ Len(inFlight.bytes) \in Nat /\ Len(inFlight.bytes) > 0
        BY <3>5, <4>2, DeliveredRun
      <4>4. retired' \in Nat /\ retired' > retired /\ retired' <= Len(delivered)
        BY <1>0, <3>5, <4>3
      <4>5. Uplink!Release
        BY <2>2, <3>3, <4>4 DEF Uplink!Release
      <4> QED
        BY <4>5 DEF Uplink!Next
    <3> QED
      BY <3>1, <3>2, <3>4, <3>5, TakingAnAcknowledgement
  <2> QED
    BY <2>1, <2>3, <2>4 DEF ClientReceive
<1>4. CASE \E d \in toPeer : PeerReceive(d)
  <2>1. PICK d \in toPeer : PeerReceive(d)
    BY <1>4
  <2>2. accepted' = accepted /\ retired' = retired
    BY <2>1 DEF PeerReceive, sessionVars, historyVars
  <2>3. CASE UNCHANGED peerRxVars
    BY <2>2, <2>3 DEF peerRxVars
  <2>4. CASE Newer(d.sequence, peerIncoming) /\ PeerAdmits(d)
    <3>1. delivered' = delivered \o d.bytes
      BY <2>4 DEF PeerAdmits
    <3>2. d \in UpFresh
      BY <2>4, FreshIsNewer
    <3>3. CASE delivered' = delivered
      BY <2>2, <3>3
    <3>4. CASE Len(delivered') > Len(delivered)
      <4>1. delivered' = [i \in 1 .. Len(delivered') |-> i]
        <5>1. PICK n \in Nat : n = Len(delivered')
          BY <1>0
        <5>2. Units(1, n) = [i \in 1 .. n |-> i]
          BY <5>1 DEF Units
        <5> QED
          BY <1>0, <5>1, <5>2
      <4>2. Uplink!Deliver
        BY <1>0, <2>2, <3>4, <4>1 DEF Uplink!Deliver
      <4> QED
        BY <4>2 DEF Uplink!Next
    <3>5. d.bytes = <<>> \/ Len(d.bytes) > 0
      <4>1. CASE d.reliable
        <5>1. inFlight # None /\ d.bytes = inFlight.bytes
          BY <3>2, <4>1 DEF ChannelInv, Copies, NoCopies
        <5> QED
          BY <5>1, DeliveredRun
      <4>2. CASE ~d.reliable
        BY <4>2 DEF ChannelInv, ChannelTypes
      <4> QED
        BY <4>1, <4>2
    <3>6. delivered \in Seq(Nat) /\ (Len(d.bytes) > 0 => d.bytes \in Seq(Nat))
      <4>1. delivered \in Seq(Nat)
        BY <1>0, DeliveredRun, UnitsProperties
      <4>2. CASE d.reliable
        <5>1. inFlight # None /\ d.bytes = inFlight.bytes /\ Holding
          BY <3>2, <4>2 DEF ChannelInv, Copies, NoCopies
        <5> QED
          BY <4>1, <5>1, InFlightIsFront
      <4>3. CASE ~d.reliable
        <5>1. d.bytes = <<>> /\ <<>> \in Seq(Nat)
          BY <4>3 DEF ChannelInv, ChannelTypes
        <5> QED
          BY <4>1, <5>1
      <4> QED
        BY <4>2, <4>3
    <3>7. CASE d.bytes = <<>>
      BY <3>1, <3>3, <3>6, <3>7, ConcatEmptySeq
    <3>8. CASE Len(d.bytes) > 0
      <4>1. Len(delivered') = Len(delivered) + Len(d.bytes) /\ Len(d.bytes) \in Nat
        BY <3>1, <3>6, <3>8, ConcatProperties
      <4>2. Len(delivered') > Len(delivered)
        BY <1>0, <3>8, <4>1
      <4> QED
        BY <3>4, <4>2
    <3> QED
      BY <3>5, <3>7, <3>8
  <2> QED
    BY <2>1, <2>3, <2>4 DEF PeerReceive
<1>5. CASE PeerSend
  BY <1>5 DEF PeerSend, sessionVars, historyVars, peerRxVars
<1>6. CASE Lose
  BY <1>6 DEF Lose, sessionVars, historyVars, peerRxVars
<1>7. CASE UNCHANGED channelVars
  BY <1>7 DEF channelVars, sessionVars, historyVars, peerRxVars
<1> QED
  BY <1>1, <1>2, <1>3, <1>4, <1>5, <1>6, <1>7 DEF ChannelNext

(* Across loss, repetition and reordering the peer is handed the client's   *)
(* reliable units once each and in order, and commit_incoming lets go of a *)
(* unit only after that: the channel implements ReliableDelivery.          *)
THEOREM UplinkImplementsReliableDelivery == ChannelSpec => UplinkIsReliable
<1>1. ChannelInit => Uplink!Init
  BY DEF ChannelInit, Init, Uplink!Init
<1>2. ChannelInv /\ [ChannelNext]_channelVars /\ ChannelInv'
        => [Uplink!Next]_(Uplink!serviceVars)
  BY UplinkStep
<1> QED
  BY <1>1, <1>2, ChannelInvHolds, PTL DEF ChannelSpec, UplinkIsReliable, Uplink!Spec

-----------------------------------------------------------------------------
(* The way down.                                                           *)

\* The client has admitted every unit that the peer put in flight.
DownAdmitted == incomingReliableAck = peerToggle

\* The units of the peer that the client has.
Have == peerSent - (IF peerInFlight # None /\ ~DownAdmitted THEN 1 ELSE 0)

DownTypes ==
  /\ peerSent \in 0 .. MaxPeerUnits /\ peerToggle \in BOOLEAN
  /\ peerInFlight # None =>
       /\ peerInFlight \in InFlightPayload /\ peerInFlight.toggle = peerToggle
       /\ peerSent > 0 /\ peerInFlight.bytes = <<peerSent>>
  /\ \A d \in toClient : ~d.reliable => d.bytes = <<>>

\* As on the way up, but for a copy that was found lost: the peer may wait with
\* the next one for as long as it likes, so nothing is said of its number.
DownCopies ==
  peerInFlight # None =>
    LET m == peerInFlight.mostRecent
    IN  /\ \A d \in DownFresh : d.reliable => d.bytes = peerInFlight.bytes
        /\ peerInFlight.retransmit =>
             /\ ~DownAdmitted
             /\ \A d \in DownFresh : ~d.reliable
             /\ \A d \in UpFresh : d.ackReliable = incomingReliableAck
        /\ ~peerInFlight.retransmit =>
             /\ Late(m) < Late(peerSeenAck)
             /\ DownAdmitted => Late(incoming) <= Late(m)
             /\ incoming = m => DownAdmitted
             /\ \A d \in DownFresh : d.reliable <=> ~DownAdmitted /\ d.sequence = m
             /\ \A d \in UpFresh : Late(d.ack) <= Late(m) =>
                  d.ackReliable = incomingReliableAck /\ (d.ack = m => DownAdmitted)

NoDownCopies == peerInFlight = None => DownAdmitted /\ \A d \in DownFresh : ~d.reliable

DownInv == DownTypes /\ DownCopies /\ NoDownCopies

\* The fragments the client holds of the transfer under way.
Gathered == IF UnderWay(PieceAt(Have)) THEN PieceAt(Have).index ELSE 0

\* The units the client has are in two places: those of complete transfers, and
\* the front of the image.
Assembled ==
  /\ valid /\ revision \in 0 .. Have /\ nextId \in 1 .. Have + 1
  /\ Gathered <= Have
  /\ received = Units(1, Have - Gathered)
  /\ ranges = [i \in 1 .. Gathered |-> 1]
  /\ IF Gathered = 0 THEN active = None /\ bytes = <<>>
     ELSE /\ active.id \in Nat \ {0}
          /\ active = [id |-> active.id, count |-> PieceAt(Have).count,
                       received |-> Gathered, covered |-> Gathered, total |-> None,
                       lastAt |-> 0, deadline |-> 1]
          /\ bytes \in Seq(Nat) /\ Len(bytes) = PieceAt(Have).count
          /\ \A k \in 1 .. Gathered : bytes[k] = Have - Gathered + k

TransfersInv == ChannelInv /\ DownInv /\ Assembled

-----------------------------------------------------------------------------
(* The order of the peer's units.                                          *)

LEMMA PieceTypes ==
  \A n \in 0 .. MaxPeerUnits :
    /\ PieceAt(n).count \in 0 .. MaxPeerUnits /\ PieceAt(n).index \in Nat
    /\ UnderWay(PieceAt(n)) => PieceAt(n).index > 0
<1> SUFFICES ASSUME NEW n \in 0 .. MaxPeerUnits
             PROVE  /\ PieceAt(n).count \in 0 .. MaxPeerUnits /\ PieceAt(n).index \in Nat
                    /\ UnderWay(PieceAt(n)) => PieceAt(n).index > 0
  OBVIOUS
<1>0. MaxPeerUnits \in Nat
  BY NetworkAssumption
<1>1. CASE n = 0
  BY <1>0, <1>1 DEF PieceAt, Unfragmented, UnderWay
<1>2. CASE n # 0
  <2>1. n \in 1 .. MaxPeerUnits /\ PieceAt(n) = Pieces[n]
    BY <1>0, <1>2 DEF PieceAt
  <2>2. Pieces[n] \in [count : 0 .. MaxPeerUnits, index : Nat]
    BY <2>1, PiecesAssumption
  <2>3. CASE UnderWay(PieceAt(n - 1))
    <3>1. Pieces[n] = [PieceAt(n - 1) EXCEPT !.index = @ + 1]
      BY <2>1, <2>3, PiecesAssumption
    <3>2. PieceAt(n - 1) \in [count : 0 .. MaxPeerUnits, index : Nat]
      <4>1. CASE n = 1
        BY <1>0, <4>1 DEF PieceAt, Unfragmented
      <4>2. CASE n # 1
        <5>1. n - 1 \in 1 .. MaxPeerUnits /\ PieceAt(n - 1) = Pieces[n - 1]
          BY <1>0, <2>1, <4>2 DEF PieceAt
        <5> QED
          BY <5>1, PiecesAssumption
      <4> QED
        BY <4>1, <4>2
    <3>3. Pieces[n].index = PieceAt(n - 1).index + 1 /\ PieceAt(n - 1).index \in Nat
      BY <3>1, <3>2
    <3> QED
      BY <2>1, <2>2, <3>3
  <2>4. CASE ~UnderWay(PieceAt(n - 1))
    <3>1. Pieces[n] = Unfragmented \/ Pieces[n].index = 1
      BY <2>1, <2>4, PiecesAssumption
    <3> QED
      BY <2>1, <2>2, <3>1 DEF Unfragmented, UnderWay
  <2> QED
    BY <2>3, <2>4
<1> QED
  BY <1>1, <1>2

(* A fragment is the next one of the transfer under way or the first of a  *)
(* new one; an unfragmented unit comes between transfers.                  *)
LEMMA PieceFollows ==
  ASSUME NEW n \in 0 .. MaxPeerUnits, n + 1 <= MaxPeerUnits
  PROVE  LET before == PieceAt(n)
             piece  == PieceAt(n + 1)
         IN  /\ piece = Pieces[n + 1]
             /\ UnderWay(before) => /\ piece.count = before.count
                                    /\ piece.index = before.index + 1
             /\ piece.count = 0 => ~UnderWay(before) /\ ~UnderWay(piece)
             /\ piece.count # 0 =>
                  /\ piece.count \in 1 .. MaxPeerUnits
                  /\ piece.index = (IF UnderWay(before) THEN before.index ELSE 0) + 1
                  /\ piece.index \in 1 .. piece.count
<1> DEFINE before == PieceAt(n)
           piece  == PieceAt(n + 1)
<1>0. MaxPeerUnits \in Nat /\ n + 1 \in 1 .. MaxPeerUnits /\ n = (n + 1) - 1
  BY NetworkAssumption
<1>1. piece = Pieces[n + 1]
  BY <1>0 DEF PieceAt
<1>2. /\ before.count \in 0 .. MaxPeerUnits /\ before.index \in Nat
      /\ piece.count \in 0 .. MaxPeerUnits /\ piece.index \in Nat
      /\ UnderWay(before) => before.index > 0
  BY <1>0, PieceTypes
<1>3. IF UnderWay(PieceAt((n + 1) - 1))
      THEN Pieces[n + 1] = [PieceAt((n + 1) - 1) EXCEPT !.index = @ + 1]
      ELSE Pieces[n + 1] = Unfragmented \/ (Pieces[n + 1].count > 0 /\ Pieces[n + 1].index = 1)
  BY <1>0, PiecesAssumption
<1>4. ASSUME UnderWay(before)
      PROVE  piece.count = before.count /\ piece.index = before.index + 1
  <2>1. piece = [before EXCEPT !.index = @ + 1]
    BY <1>0, <1>1, <1>3, <1>4
  <2>2. before \in [count : 0 .. MaxPeerUnits, index : Nat]
    <3>1. CASE n = 0
      BY <1>0, <3>1 DEF PieceAt, Unfragmented
    <3>2. CASE n # 0
      BY <1>0, <3>2, PiecesAssumption DEF PieceAt
    <3> QED
      BY <3>1, <3>2
  <2> QED
    BY <2>1, <2>2
<1>5. ASSUME ~UnderWay(before)
      PROVE  piece = Unfragmented \/ (piece.count > 0 /\ piece.index = 1)
  BY <1>0, <1>1, <1>3, <1>5
<1> HIDE DEF before, piece
<1>6. CASE UnderWay(before)
  <2>1. before.index < before.count
    BY <1>6 DEF UnderWay
  <2> QED
    BY <1>0, <1>1, <1>2, <1>4, <1>6, <2>1 DEF before, piece
<1>7. CASE ~UnderWay(before)
  <2>1. piece.count = 0 => ~UnderWay(piece)
    BY <1>2 DEF UnderWay
  <2>2. piece.count # 0 => piece.index = 1 /\ piece.count \in 1 .. MaxPeerUnits
    BY <1>2, <1>5, <1>7 DEF Unfragmented
  <2> QED
    BY <1>0, <1>1, <1>2, <1>7, <2>1, <2>2 DEF before, piece
<1> QED
  BY <1>6, <1>7

-----------------------------------------------------------------------------
(* The reassembler takes the next fragment.                                *)

\* The n-th unit as the fragment the reassembler is offered.
FragmentAt(n) == [count |-> PieceAt(n).count, index |-> PieceAt(n).index, payload |-> <<n>>]

(* Where the fragment goes: behind those held of its transfer.              *)
LEMMA InsertionPoint ==
  ASSUME Assembled, Have \in Nat, NEW n \in 1 .. MaxPeerUnits, n = Have + 1, PieceAt(n).count # 0
  PROVE  LET f == FragmentAt(n)
         IN  /\ f.count \in 1 .. MaxPeerUnits /\ f.index \in 1 .. f.count
             /\ f.index = Gathered + 1 /\ Gathered \in Nat
             /\ f.payload = <<n>> /\ Len(f.payload) = 1 /\ f.payload[1] = n
             /\ Reassembler!Image(f) \in Seq(Nat) /\ Len(Reassembler!Image(f)) = f.count
             /\ \A k \in 1 .. Gathered : Reassembler!Image(f)[k] = Have - Gathered + k
             /\ Reassembler!Held(f) = [i \in 1 .. Gathered |-> 1]
             /\ \E t \in Nat \ {0} :
                  Reassembler!Target(f, 0) =
                    [id |-> t, count |-> f.count, received |-> Gathered,
                     covered |-> Gathered, total |-> None, lastAt |-> 0, deadline |-> 1]
             /\ active # None <=> Gathered > 0
             /\ Gathered > 0 => f.count = active.count
<1> DEFINE f == FragmentAt(n)
<1>0. MaxPeerUnits \in Nat /\ Have \in 0 .. MaxPeerUnits /\ Have + 1 <= MaxPeerUnits
  <2>1. Have = n - 1
    OBVIOUS
  <2> QED
    BY <2>1, NetworkAssumption
<1>1. /\ f.count = PieceAt(n).count /\ f.index = PieceAt(n).index
      /\ f.payload = <<n>> /\ Len(f.payload) = 1 /\ f.payload[1] = n
  BY DEF FragmentAt
<1>2. /\ f.count \in 1 .. MaxPeerUnits /\ f.index \in 1 .. f.count
      /\ f.index = Gathered + 1
      /\ UnderWay(PieceAt(Have)) => f.count = PieceAt(Have).count
  BY <1>0, <1>1, PieceFollows DEF Gathered
<1>3. Gathered \in Nat /\ (Gathered > 0 <=> UnderWay(PieceAt(Have)))
  BY <1>0, PieceTypes DEF Gathered
<1>4. active # None <=> Gathered > 0
  <2>1. ASSUME Gathered > 0 PROVE active # None
    <3>1. active \in Reassembler!TransferState
      <4>1. /\ active.id \in Nat \ {0}
            /\ active = [id |-> active.id, count |-> PieceAt(Have).count,
                         received |-> Gathered, covered |-> Gathered, total |-> None,
                         lastAt |-> 0, deadline |-> 1]
        BY <1>3, <2>1 DEF Assembled
      <4>2. PieceAt(Have).count \in Nat \ {0}
        BY <1>2, <1>3, <2>1
      <4> QED
        BY <1>3, <4>1, <4>2 DEF Reassembler!TransferState, Reassembler!Times
    <3> QED
      BY <3>1, TransfersNone
  <2> QED
    BY <1>3, <2>1 DEF Assembled
<1> HIDE DEF f
<1>5. CASE Gathered > 0
  <2>1. /\ active # None /\ f.count = PieceAt(Have).count
        /\ active.id \in Nat \ {0}
        /\ active = [id |-> active.id, count |-> PieceAt(Have).count,
                     received |-> Gathered, covered |-> Gathered, total |-> None,
                     lastAt |-> 0, deadline |-> 1]
        /\ bytes \in Seq(Nat) /\ Len(bytes) = PieceAt(Have).count
        /\ \A k \in 1 .. Gathered : bytes[k] = Have - Gathered + k
        /\ ranges = [i \in 1 .. Gathered |-> 1]
    BY <1>2, <1>3, <1>4, <1>5 DEF Assembled
  <2>2. /\ Reassembler!Image(f) = bytes /\ Reassembler!Held(f) = ranges
        /\ Reassembler!Target(f, 0) = active
    BY <2>1 DEF Reassembler!Image, Reassembler!Held, Reassembler!Target
  <2>3. f.count = active.count
    BY <2>1
  <2>4. \E t \in Nat \ {0} :
          Reassembler!Target(f, 0) =
            [id |-> t, count |-> f.count, received |-> Gathered,
             covered |-> Gathered, total |-> None, lastAt |-> 0, deadline |-> 1]
    BY <2>1, <2>2
  <2> QED
    BY <1>1, <1>2, <1>3, <1>4, <2>1, <2>2, <2>3, <2>4 DEF f
<1>6. CASE ~(Gathered > 0)
  <2>1. Gathered = 0 /\ active = None /\ f.index = 1
    BY <1>2, <1>3, <1>4, <1>6
  <2>2. Reassembler!ImageSize(f) = f.count
    <3>1. CASE f.count = 1
      BY <1>1, <2>1, <3>1 DEF Reassembler!ImageSize, Reassembler!End, Reassembler!Offset
    <3>2. CASE f.count # 1
      BY <1>2, <2>1, <3>2 DEF Reassembler!ImageSize
    <3> QED
      BY <3>1, <3>2
  <2>3. Reassembler!Image(f) = [k \in 1 .. f.count |-> 0]
    BY <2>1, <2>2 DEF Reassembler!Image
  <2>4. f.count \in Nat
    BY <1>2
  <2>5. Reassembler!Image(f) \in Seq(Nat) /\ Len(Reassembler!Image(f)) = f.count
    BY <2>3, <2>4
  <2>6. Reassembler!Held(f) = [i \in 1 .. Gathered |-> 1]
    BY <2>1 DEF Reassembler!Held, Reassembler!NoRanges
  <2>7. Reassembler!Target(f, 0) =
          [id |-> nextId, count |-> f.count, received |-> 0, covered |-> 0, total |-> None,
           lastAt |-> 0, deadline |-> 1]
    BY <2>1 DEF Reassembler!Target, Reassembler!StartState
  <2>8. nextId \in Nat \ {0}
    BY <1>0 DEF Assembled
  <2> QED
    BY <1>1, <1>2, <1>3, <1>4, <2>1, <2>5, <2>6, <2>7, <2>8 DEF f
<1> QED
  BY <1>5, <1>6

\* What the insert of that fragment leaves behind.
LEMMA InsertionEffect ==
  ASSUME Assembled, Have \in Nat, NEW n \in 1 .. MaxPeerUnits, n = Have + 1, PieceAt(n).count # 0
  PROVE  LET f == FragmentAt(n)
             g == Gathered + 1
         IN  /\ \E t \in Nat \ {0} :
                  Reassembler!StateAfter(f, 0) =
                    [id |-> t, count |-> f.count, received |-> g, covered |-> g,
                     total |-> IF g = f.count THEN g ELSE None, lastAt |-> 0, deadline |-> 1]
             /\ Reassembler!AllReceived(f, 0) <=> g = f.count
             /\ Reassembler!RangesAfter(f) = [i \in 1 .. g |-> 1]
             /\ Reassembler!ImageAfter(f) \in Seq(Nat)
             /\ Len(Reassembler!ImageAfter(f)) = f.count
             /\ \A k \in 1 .. g : Reassembler!ImageAfter(f)[k] = n - g + k
<1> DEFINE f == FragmentAt(n)
           g == Gathered + 1
<1>1. /\ f.count \in 1 .. MaxPeerUnits /\ f.index \in 1 .. f.count
      /\ f.index = g /\ Gathered \in Nat
      /\ f.payload = <<n>> /\ Len(f.payload) = 1 /\ f.payload[1] = n
      /\ Reassembler!Image(f) \in Seq(Nat) /\ Len(Reassembler!Image(f)) = f.count
      /\ \A k \in 1 .. Gathered : Reassembler!Image(f)[k] = Have - Gathered + k
      /\ Reassembler!Held(f) = [i \in 1 .. Gathered |-> 1]
  BY InsertionPoint
<1>2. PICK t \in Nat \ {0} :
        Reassembler!Target(f, 0) =
          [id |-> t, count |-> f.count, received |-> Gathered,
           covered |-> Gathered, total |-> None, lastAt |-> 0, deadline |-> 1]
  BY InsertionPoint
<1>3. n \in Nat /\ Have = n - 1 /\ MaxPeerUnits \in Nat
  <2>1. Have = n - 1
    OBVIOUS
  <2> QED
    BY <2>1, NetworkAssumption
<1> HIDE DEF f
<1>4. Reassembler!End(f) = g /\ Reassembler!Offset(f.index) = Gathered
  BY <1>1 DEF Reassembler!End, Reassembler!Offset
<1>5. Reassembler!StateAfter(f, 0) =
        [id |-> t, count |-> f.count, received |-> g, covered |-> g,
         total |-> IF g = f.count THEN g ELSE None, lastAt |-> 0, deadline |-> 1]
  <2> DEFINE s == [id |-> t, count |-> f.count, received |-> Gathered,
                   covered |-> Gathered, total |-> None, lastAt |-> 0, deadline |-> 1]
  <2>1. Reassembler!StateAfter(f, 0) =
          [s EXCEPT !.received = @ + 1, !.covered = @ + 1, !.lastAt = 0,
                    !.total = IF g = f.count THEN g ELSE @]
    <3> HIDE DEF s
    <3>1. Reassembler!Target(f, 0) = s
      BY <1>2 DEF s
    <3> QED
      BY <1>1, <1>4, <3>1 DEF Reassembler!StateAfter
  <2> QED
    BY <1>1, <2>1
<1>6. Reassembler!AllReceived(f, 0) <=> g = f.count
  BY <1>5 DEF Reassembler!AllReceived
<1>7. Reassembler!RangesAfter(f) = [i \in 1 .. g |-> 1]
  <2>1. DOMAIN Reassembler!Held(f) \cup {f.index} = 1 .. g
    BY <1>1
  <2> QED
    BY <1>1, <2>1 DEF Reassembler!RangesAfter
<1>8. /\ Reassembler!ImageAfter(f) =
           [k \in 1 .. f.count |-> IF k = g THEN n ELSE Reassembler!Image(f)[k]]
  <2>1. ASSUME NEW k \in 1 .. f.count
        PROVE  (Gathered < k /\ k <= g) <=> k = g
    BY <1>1
  <2>2. f.payload[g - Gathered] = n
    BY <1>1
  <2>3. ASSUME NEW k \in 1 .. f.count
        PROVE  (IF Reassembler!Offset(f.index) < k /\ k <= Reassembler!End(f)
                THEN f.payload[k - Reassembler!Offset(f.index)]
                ELSE Reassembler!Image(f)[k])
               = (IF k = g THEN n ELSE Reassembler!Image(f)[k])
    <3>1. CASE k = g
      BY <1>4, <2>1, <2>2, <3>1
    <3>2. CASE k # g
      BY <1>4, <2>1, <3>2
    <3> QED
      BY <3>1, <3>2
  <2> QED
    BY <1>1, <2>3 DEF Reassembler!ImageAfter
<1>9. /\ Reassembler!ImageAfter(f) \in Seq(Nat) /\ Len(Reassembler!ImageAfter(f)) = f.count
  <2>1. Reassembler!ImageAfter(f) \in [1 .. f.count -> Nat]
    BY <1>1, <1>3, <1>8
  <2>2. f.count \in Nat
    BY <1>1
  <2> HIDE DEF g
  <2> QED
    BY <1>8, <2>1, <2>2
<1>10. ASSUME NEW k \in 1 .. g PROVE Reassembler!ImageAfter(f)[k] = n - g + k
  <2>1. k \in 1 .. f.count
    BY <1>1
  <2>2. CASE k = g
    BY <1>1, <1>3, <1>8, <2>1, <2>2
  <2>3. CASE k # g
    <3>1. k \in 1 .. Gathered
      BY <1>1, <2>3
    <3>2. Reassembler!Image(f)[k] = Have - Gathered + k
      BY <1>1, <3>1
    <3>3. Reassembler!ImageAfter(f)[k] = Reassembler!Image(f)[k]
      BY <1>8, <2>1, <2>3
    <3> QED
      BY <1>1, <1>3, <3>2, <3>3
  <2> QED
    BY <2>2, <2>3
<1> QED
  BY <1>5, <1>6, <1>7, <1>9, <1>10 DEF f

(* The reassembler's module sees the library through its own instance.     *)
LEMMA ReassemblerCounts == \A S : Reassembler!Cardinality(S) = Cardinality(S)
  BY DEF Cardinality, Reassembler!Cardinality

(* The fragment is taken as a new one, whether it starts a transfer,        *)
(* continues or completes it.                                              *)
LEMMA NextFragmentIsInserted ==
  ASSUME Assembled, Have \in Nat, NEW n \in 1 .. MaxPeerUnits, n = Have + 1, PieceAt(n).count # 0
  PROVE  Reassembler!Plans(FragmentAt(n), 0) = {Reassembler!InsertPlan(FragmentAt(n), 0)}
<1> DEFINE f == FragmentAt(n)
           g == Gathered + 1
<1>1. /\ f.count \in 1 .. MaxPeerUnits /\ f.index \in 1 .. f.count
      /\ f.index = g /\ Gathered \in Nat /\ Len(f.payload) = 1
      /\ Len(Reassembler!Image(f)) = f.count
      /\ active # None <=> Gathered > 0
      /\ Gathered > 0 => f.count = active.count
      /\ MaxPeerUnits \in Nat
  BY InsertionPoint, NetworkAssumption
<1>2. /\ Reassembler!StateAfter(f, 0).covered = g
      /\ Reassembler!StateAfter(f, 0).total = IF g = f.count THEN g ELSE None
      /\ Reassembler!AllReceived(f, 0) <=> g = f.count
      /\ Reassembler!RangesAfter(f) = [i \in 1 .. g |-> 1]
  <2>1. /\ Reassembler!AllReceived(f, 0) <=> g = f.count
        /\ Reassembler!RangesAfter(f) = [i \in 1 .. g |-> 1]
    BY InsertionEffect
  <2>2. PICK t \in Nat \ {0} :
          Reassembler!StateAfter(f, 0) =
            [id |-> t, count |-> f.count, received |-> g, covered |-> g,
             total |-> IF g = f.count THEN g ELSE None, lastAt |-> 0, deadline |-> 1]
    BY InsertionEffect
  <2> HIDE DEF f, g
  <2> QED
    BY <2>1, <2>2
<1>3. /\ n \in Nat /\ Have = n - 1 /\ valid
      /\ revision \in 0 .. Have /\ nextId \in 1 .. Have + 1
      /\ ranges = [i \in 1 .. Gathered |-> 1]
      /\ Gathered > 0 => active.lastAt = 0 /\ active.deadline = 1
  <2>1. Have = n - 1
    OBVIOUS
  <2>2. ASSUME Gathered > 0 PROVE active.lastAt = 0 /\ active.deadline = 1
    <3>1. active = [id |-> active.id, count |-> PieceAt(Have).count,
                    received |-> Gathered, covered |-> Gathered, total |-> None,
                    lastAt |-> 0, deadline |-> 1]
      BY <1>1, <2>2 DEF Assembled
    <3> QED
      BY <3>1
  <2>3. /\ valid /\ revision \in 0 .. Have /\ nextId \in 1 .. Have + 1
        /\ ranges = [i \in 1 .. Gathered |-> 1]
    BY DEF Assembled
  <2> QED
    BY <1>1, <2>1, <2>2, <2>3
<1> HIDE DEF f
<1>4. Reassembler!WellFormed(f) /\ Reassembler!End(f) = g
  BY <1>1 DEF Reassembler!WellFormed, Reassembler!Offset, Reassembler!End
<1>5. ~Reassembler!Present(f)
  BY <1>1, <1>3 DEF Reassembler!Present
<1>6. ASSUME Gathered > 0
      PROVE  /\ Reassembler!Timely(f, 0)
             /\ Reassembler!Cardinality(DOMAIN ranges) < MaxPeerUnits
             /\ Reassembler!Disjoint(f)
  <2>1. Reassembler!Timely(f, 0)
    BY <1>1, <1>3, <1>6 DEF Reassembler!Timely
  <2>2. Cardinality(DOMAIN ranges) = Gathered
    <3>1. DOMAIN ranges = 1 .. Gathered
      BY <1>3
    <3>2. Cardinality(1 .. Gathered) = IF 1 > Gathered THEN 0 ELSE Gathered - 1 + 1
      BY <1>1, FS_Interval
    <3> QED
      BY <1>1, <1>6, <3>1, <3>2
  <2>3. Reassembler!Disjoint(f)
    BY <1>1, <1>3, <1>4 DEF Reassembler!Disjoint, Reassembler!Offset
  <2> QED
    BY <1>1, <2>1, <2>2, <2>3, ReassemblerCounts
<1>7. ASSUME ~(Gathered > 0) PROVE Reassembler!Startable(f, 0)
  BY <1>1, <1>3, <1>7 DEF Reassembler!Startable
<1>8. ASSUME g = f.count
      PROVE  Reassembler!Tiles(Reassembler!RangesAfter(f), Reassembler!StateAfter(f, 0).total)
  <2> DEFINE lengths == [i \in 1 .. g |-> 1]
  <2>1. Reassembler!RangesAfter(f) = lengths /\ Reassembler!StateAfter(f, 0).total = g
    BY <1>2, <1>8
  <2>2. g # None
    BY <1>1, TransfersNone
  <2>3. ASSUME NEW i \in 1 .. g
        PROVE  /\ Reassembler!Offset(i) = 0
                  \/ \E j \in 1 .. g : Reassembler!Offset(j) + lengths[j] = Reassembler!Offset(i)
               /\ Reassembler!Offset(i) + lengths[i] <= g
    <3>1. CASE i = 1
      BY <1>1, <3>1 DEF Reassembler!Offset
    <3>2. CASE i # 1
      <4>1. i - 1 \in 1 .. g /\ Reassembler!Offset(i - 1) + lengths[i - 1] = Reassembler!Offset(i)
        BY <1>1, <3>2 DEF Reassembler!Offset
      <4>2. Reassembler!Offset(i) + lengths[i] <= g
        BY <1>1 DEF Reassembler!Offset
      <4> QED
        BY <4>1, <4>2
    <3> QED
      BY <3>1, <3>2
  <2>4. g \in 1 .. g /\ Reassembler!Offset(g) + lengths[g] = g
    BY <1>1 DEF Reassembler!Offset
  <2>5. DOMAIN lengths = 1 .. g
    OBVIOUS
  <2> HIDE DEF lengths
  <2> QED
    BY <2>1, <2>2, <2>3, <2>4, <2>5 DEF Reassembler!Tiles
<1>9. Reassembler!Insertable(f, 0)
  <2>1. IF active # None
        THEN /\ Reassembler!Timely(f, 0) /\ ~Reassembler!Present(f)
             /\ Reassembler!Cardinality(DOMAIN ranges) < MaxPeerUnits
             /\ Reassembler!Disjoint(f)
        ELSE Reassembler!Startable(f, 0)
    BY <1>1, <1>5, <1>6, <1>7
  <2>2. /\ revision < MaxPeerUnits /\ Reassembler!End(f) <= Len(Reassembler!Image(f))
        /\ Reassembler!StateAfter(f, 0).covered <= MaxPeerUnits
    BY <1>1, <1>2, <1>3, <1>4
  <2>3. Reassembler!AllReceived(f, 0) =>
          Reassembler!Tiles(Reassembler!RangesAfter(f), Reassembler!StateAfter(f, 0).total)
    BY <1>2, <1>8
  <2> QED
    BY <1>3, <1>4, <2>1, <2>2, <2>3 DEF Reassembler!Insertable
<1>10. ~Reassembler!Repeatable(f, 0)
  BY <1>5 DEF Reassembler!Repeatable
<1> QED
  BY <1>9, <1>10 DEF Reassembler!Plans, f

(* The reassembler moves on with the units the client has.                 *)
LEMMA AssemblyStands ==
  ASSUME Assembled, Have' = Have, UNCHANGED <<reassembler, received>>
  PROVE  Assembled'
<1>1. /\ active' = active /\ bytes' = bytes /\ ranges' = ranges /\ nextId' = nextId
      /\ revision' = revision /\ valid' = valid /\ received' = received
  BY DEF reassembler
<1>2. PieceAt(Have)' = PieceAt(Have) /\ Gathered' = Gathered
  BY DEF PieceAt, Gathered
<1> QED
  BY <1>1, <1>2 DEF Assembled

LEMMA UnfragmentedAdvances ==
  ASSUME Assembled, Have \in Nat, NEW n \in 1 .. MaxPeerUnits, n = Have + 1,
         PieceAt(n).count = 0, Have' = n,
         UNCHANGED reassembler, received' = received \o <<n>>
  PROVE  Assembled'
<1>1. /\ active' = active /\ bytes' = bytes /\ ranges' = ranges /\ nextId' = nextId
      /\ revision' = revision /\ valid' = valid
  BY DEF reassembler
<1>2. /\ Have \in 0 .. MaxPeerUnits /\ Have + 1 <= MaxPeerUnits /\ n \in Nat
  BY NetworkAssumption
<1>3. ~UnderWay(PieceAt(Have)) /\ ~UnderWay(PieceAt(n))
  BY <1>2, PieceFollows
<1>4. Gathered = 0 /\ Gathered' = 0
  <2>1. PieceAt(Have)' = PieceAt(n)
    BY DEF PieceAt
  <2> QED
    BY <1>3, <2>1 DEF Gathered, UnderWay
<1>5. received' = Units(1, n)
  <2>1. received = Units(1, Have)
    <3>1. Have - 0 = Have
      OBVIOUS
    <3> QED
      BY <1>4, <3>1 DEF Assembled
  <2>2. <<n>> = Units(1 + Have, 1)
    <3>1. PICK m \in Nat : m = 1 + Have
      OBVIOUS
    <3>2. /\ Units(m, 1) \in Seq(Nat) /\ Len(Units(m, 1)) = 1
          /\ \A i \in 1 .. 1 : Units(m, 1)[i] = m + i - 1
      BY <3>1, UnitsProperties
    <3>3. Units(m, 1)[1] = n
      BY <3>1, <3>2
    <3>4. <<n>> \in Seq(Nat) /\ Len(<<n>>) = 1 /\ <<n>>[1] = n
      BY <1>2
    <3>5. \A i \in 1 .. 1 : <<n>>[i] = Units(m, 1)[i]
      BY <3>3, <3>4
    <3>6. <<n>> = Units(m, 1)
      BY <3>2, <3>4, <3>5, SeqEqual
    <3> QED
      BY <3>1, <3>6
  <2>3. Units(1, Have) \o Units(1 + Have, 1) = Units(1, Have + 1)
    BY UnitsJoin
  <2> QED
    BY <2>1, <2>2, <2>3
<1>6. n - 0 = n /\ n + 1 = Have + 2
  BY <1>2
<1>7. received' = Units(1, Have' - Gathered')
  BY <1>4, <1>5, <1>6
<1>8. revision' \in 0 .. Have' /\ nextId' \in 1 .. Have' + 1 /\ valid'
  BY <1>1, <1>2 DEF Assembled
<1>9. ranges' = [i \in 1 .. Gathered' |-> 1] /\ active' = None /\ bytes' = <<>>
  BY <1>1, <1>4 DEF Assembled
<1> QED
  BY <1>2, <1>4, <1>7, <1>8, <1>9 DEF Assembled

(* The front of a complete image is a run of units.                        *)
LEMMA ImageIsARun ==
  ASSUME NEW image \in Seq(Nat), NEW n \in Nat, NEW g \in Nat, g <= n, g <= Len(image),
         \A k \in 1 .. g : image[k] = n - g + k
  PROVE  SubSeq(image, 1, g) = Units(1 + (n - g), g)
<1>1. 1 + (n - g) \in Nat
  OBVIOUS
<1>2. /\ Units(1 + (n - g), g) \in Seq(Nat) /\ Len(Units(1 + (n - g), g)) = g
      /\ \A i \in 1 .. g : Units(1 + (n - g), g)[i] = (1 + (n - g)) + i - 1
  BY <1>1, UnitsProperties
<1>3. SubSeq(image, 1, g) = [i \in 1 .. g |-> image[i]]
  <2>1. SubSeq(image, 1, g) = [i \in 1 .. (1 + g - 1) |-> image[(i - 1) + 1]]
    BY SMTT(20)
  <2>2. 1 + g - 1 = g /\ \A i \in 1 .. g : (i - 1) + 1 = i
    OBVIOUS
  <2> QED
    BY <2>1, <2>2
<1>4. /\ SubSeq(image, 1, g) \in Seq(Nat) /\ Len(SubSeq(image, 1, g)) = g
  BY <1>3
<1>5. \A i \in 1 .. g : SubSeq(image, 1, g)[i] = Units(1 + (n - g), g)[i]
  BY <1>2, <1>3
<1> QED
  BY <1>2, <1>4, <1>5, SeqEqual

LEMMA FragmentAdvances ==
  ASSUME Assembled, Have \in Nat, NEW n \in 1 .. MaxPeerUnits, n = Have + 1,
         PieceAt(n).count # 0, Have' = n,
         Reassembler!Apply(Reassembler!InsertPlan(FragmentAt(n), 0)), UNCHANGED valid,
         received' = received \o Completion(Reassembler!InsertPlan(FragmentAt(n), 0))
  PROVE  Assembled'
<1> DEFINE f == FragmentAt(n)
           g == Gathered + 1
           plan == Reassembler!InsertPlan(f, 0)
<1>1. /\ f.count \in 1 .. MaxPeerUnits /\ g \in 1 .. f.count /\ g <= n /\ n - g = Have - Gathered
      /\ Gathered \in Nat /\ n \in Nat
      /\ f.count = PieceAt(n).count
  <2>1. /\ f.count \in 1 .. MaxPeerUnits /\ f.index \in 1 .. f.count /\ f.index = g
        /\ Gathered \in Nat
    BY InsertionPoint
  <2>2. Gathered <= Have
    BY DEF Assembled
  <2>3. f.count = PieceAt(n).count
    BY DEF FragmentAt
  <2> HIDE DEF f
  <2> QED
    BY <2>1, <2>2, <2>3
<1>2. PICK t \in Nat \ {0} :
        Reassembler!StateAfter(f, 0) =
          [id |-> t, count |-> f.count, received |-> g, covered |-> g,
           total |-> IF g = f.count THEN g ELSE None, lastAt |-> 0, deadline |-> 1]
  BY InsertionEffect
<1>3. /\ Reassembler!AllReceived(f, 0) <=> g = f.count
      /\ Reassembler!RangesAfter(f) = [i \in 1 .. g |-> 1]
      /\ Reassembler!ImageAfter(f) \in Seq(Nat)
      /\ Len(Reassembler!ImageAfter(f)) = f.count
      /\ \A k \in 1 .. g : Reassembler!ImageAfter(f)[k] = n - g + k
  BY InsertionEffect
<1>4. UnderWay(PieceAt(n)) <=> g < f.count
  <2>1. f.index = PieceAt(n).index /\ f.index = g
    BY InsertionPoint DEF FragmentAt
  <2> QED
    BY <1>1, <2>1 DEF UnderWay
<1>5. /\ PieceAt(Have)' = PieceAt(n)
      /\ Gathered' = IF g < f.count THEN g ELSE 0
  <2>1. PieceAt(Have)' = PieceAt(n)
    BY DEF PieceAt
  <2>2. UnderWay(PieceAt(Have))' <=> UnderWay(PieceAt(n))
    BY <2>1 DEF UnderWay
  <2>3. f.index = PieceAt(n).index /\ f.index = g
    BY InsertionPoint DEF FragmentAt
  <2> QED
    BY <1>4, <2>1, <2>2, <2>3 DEF Gathered
<1> HIDE DEF f
<1>6. /\ active' = plan.active /\ bytes' = plan.bytes /\ ranges' = plan.ranges
      /\ nextId' = plan.nextId /\ revision' = revision + 1
  BY DEF Reassembler!Apply, Reassembler!InsertPlan, f
<1>7. /\ plan.unchanged = FALSE
      /\ plan.active = IF g = f.count THEN None ELSE Reassembler!StateAfter(f, 0)
      /\ plan.ranges = IF g = f.count THEN Reassembler!NoRanges ELSE Reassembler!RangesAfter(f)
      /\ plan.bytes = IF g = f.count THEN <<>> ELSE Reassembler!ImageAfter(f)
      /\ plan.nextId \in {nextId, nextId + 1}
      /\ plan.completion = IF g = f.count
           THEN SubSeq(Reassembler!ImageAfter(f), 1, Reassembler!StateAfter(f, 0).total)
           ELSE None
  BY <1>3 DEF Reassembler!InsertPlan
<1>8. revision' \in 0 .. Have' /\ nextId' \in 1 .. Have' + 1 /\ valid'
  <2>1. valid' /\ revision \in 0 .. Have /\ nextId \in 1 .. Have + 1
    BY DEF Assembled
  <2>2. revision' = revision + 1 /\ nextId' \in {nextId, nextId + 1}
    BY <1>6, <1>7
  <2> HIDE DEF g, plan
  <2> QED
    BY <1>1, <2>1, <2>2
<1>9. received' = received \o Completion(plan)
  BY DEF f
<1> HIDE DEF plan
<1>10. received = Units(1, n - g) /\ n - g \in Nat /\ received \in Seq(Nat)
  <2>1. n - g \in Nat
    <3> HIDE DEF g
    <3> QED
      BY <1>1
  <2>2. received = Units(1, Have - Gathered)
    BY DEF Assembled
  <2> QED
    BY <1>1, <2>1, <2>2, UnitsProperties
<1>11. CASE g = f.count
  <2>1. /\ active' = None /\ bytes' = <<>>
        /\ ranges' = [i \in 1 .. 0 |-> 1] /\ Gathered' = 0
    BY <1>5, <1>6, <1>7, <1>11 DEF Reassembler!NoRanges
  <2>2. plan.completion = SubSeq(Reassembler!ImageAfter(f), 1, g)
    <3>1. Reassembler!StateAfter(f, 0).total = IF g = f.count THEN g ELSE None
      BY <1>2
    <3> QED
      BY <1>7, <1>11, <3>1
  <2>3. plan.completion = Units(1 + (n - g), g)
    <3>1. PICK c \in Nat : c = g /\ c <= n /\ c <= f.count
      BY <1>1
    <3>2. \A k \in 1 .. c : Reassembler!ImageAfter(f)[k] = n - c + k
      BY <1>3, <3>1
    <3>3. c <= Len(Reassembler!ImageAfter(f)) /\ Reassembler!ImageAfter(f) \in Seq(Nat)
      BY <1>3, <3>1
    <3>4. SubSeq(Reassembler!ImageAfter(f), 1, c) = Units(1 + (n - c), c)
      BY <1>1, <3>1, <3>2, <3>3, ImageIsARun
    <3> QED
      BY <2>2, <3>1, <3>4
  <2>4. plan.completion # None
    <3>1. Units(1 + (n - g), g) \in Seq(Nat)
      BY <1>1, <1>10, UnitsProperties
    <3> QED
      BY <2>3, <3>1, TransfersNone
  <2>5. received' = Units(1, n - g) \o Units(1 + (n - g), g)
    BY <1>7, <1>9, <1>10, <2>3, <2>4 DEF Completion
  <2>6. received' = Units(1, n)
    <3>1. PICK a, c \in Nat : a = n - g /\ c = g /\ a + c = n
      BY <1>1, <1>10
    <3>2. Units(1, a) \o Units(1 + a, c) = Units(1, a + c)
      BY UnitsJoin
    <3> QED
      BY <2>5, <3>1, <3>2
  <2>7. received' = Units(1, Have' - Gathered') /\ Gathered' <= Have'
    <3>1. n - 0 = n
      BY <1>1
    <3> QED
      BY <1>1, <2>1, <2>6, <3>1
  <2> QED
    BY <1>8, <2>1, <2>7 DEF Assembled
<1>12. CASE g # f.count
  <2>1. g < f.count /\ Gathered' = g /\ g # 0
    BY <1>1, <1>5, <1>12
  <2>2. /\ active' = [id |-> t, count |-> f.count, received |-> g, covered |-> g,
                      total |-> None, lastAt |-> 0, deadline |-> 1]
        /\ ranges' = [i \in 1 .. g |-> 1] /\ bytes' = Reassembler!ImageAfter(f)
    BY <1>2, <1>3, <1>6, <1>7, <1>12
  <2>3. received' = received
    <3>1. Completion(plan) = <<>>
      BY <1>7, <1>12 DEF Completion
    <3> QED
      BY <1>9, <1>10, <3>1, ConcatEmptySeq
  <2>4. received' = Units(1, Have' - Gathered')
    BY <1>10, <2>1, <2>3
  <2>5. Gathered' <= Have'
    BY <1>1, <2>1
  <2>6. /\ active'.id = t
        /\ active' = [id |-> active'.id, count |-> PieceAt(Have)'.count,
                      received |-> Gathered', covered |-> Gathered', total |-> None,
                      lastAt |-> 0, deadline |-> 1]
    BY <1>1, <1>5, <2>1, <2>2
  <2>7. /\ bytes' \in Seq(Nat) /\ Len(bytes') = PieceAt(Have)'.count
        /\ \A k \in 1 .. Gathered' : bytes'[k] = Have' - Gathered' + k
    BY <1>1, <1>3, <1>5, <2>1, <2>2
  <2> QED
    BY <1>8, <2>1, <2>2, <2>4, <2>5, <2>6, <2>7 DEF Assembled
<1> QED
  BY <1>11, <1>12

-----------------------------------------------------------------------------
(* The copy of the peer's unit, step by step.                              *)

LEMMA DownFacts ==
  ASSUME ChannelInv, DownInv
  PROVE  /\ incomingReliableAck \in BOOLEAN /\ peerToggle \in BOOLEAN
         /\ peerSent \in Nat /\ Have \in Nat /\ Have \in 0 .. MaxPeerUnits
         /\ peerInFlight # None => peerInFlight \in InFlightPayload
         /\ peerInFlight # None /\ ~peerInFlight.retransmit =>
              /\ peerInFlight.mostRecent \in SeqNum
              /\ Late(peerInFlight.mostRecent) \in Nat
              /\ Late(peerInFlight.mostRecent) < HalfRange
<1>1. /\ incomingReliableAck \in BOOLEAN /\ peerToggle \in BOOLEAN
      /\ peerSent \in 0 .. MaxPeerUnits /\ MaxPeerUnits \in Nat
      /\ peerInFlight # None => peerInFlight \in InFlightPayload /\ peerSent > 0
  BY NetworkAssumption
  DEF ChannelInv, Holding, CurrentUnitInv, TypeOK, DownInv, DownTypes
<1>2. Have \in 0 .. MaxPeerUnits
  BY <1>1 DEF Have
<1>3. ASSUME peerInFlight # None, ~peerInFlight.retransmit
      PROVE  /\ peerInFlight.mostRecent \in SeqNum
             /\ Late(peerInFlight.mostRecent) \in Nat
             /\ Late(peerInFlight.mostRecent) < HalfRange
  <2>1. peerInFlight.mostRecent \in SeqNum
    BY <1>1, <1>3 DEF InFlightPayload
  <2>2. Late(peerInFlight.mostRecent) \in Nat
    BY <2>1, AgesAreSmall, DistanceType DEF Late
  <2>3. Late(peerInFlight.mostRecent) < Late(peerSeenAck)
    BY <1>3 DEF DownInv, DownCopies
  <2> QED
    BY <2>1, <2>2, <2>3, AgesAreSmall, HalfRangeAssumption
<1> QED
  BY <1>1, <1>2, <1>3

LEMMA DownInvInit == TransfersInit => DownInv
<1> SUFFICES ASSUME TransfersInit PROVE DownInv
  OBVIOUS
<1>1. /\ peerInFlight = None /\ peerToggle = FALSE /\ peerSent = 0 /\ toClient = {}
      /\ incomingReliableAck = FALSE
  BY DEF TransfersInit, ChannelInit, Init
<1>2. DownFresh = {} /\ DownAdmitted
  BY <1>1 DEF DownFresh, DownAdmitted
<1>3. DownTypes
  <2>1. 0 \in 0 .. MaxPeerUnits
    BY NetworkAssumption
  <2>2. peerSent \in 0 .. MaxPeerUnits /\ peerToggle \in BOOLEAN
    BY <1>1, <2>1
  <2> QED
    BY <1>1, <2>2 DEF DownTypes
<1>4. DownCopies /\ NoDownCopies
  BY <1>1, <1>2 DEF DownCopies, NoDownCopies
<1> QED
  BY <1>3, <1>4 DEF DownInv

\* Nothing happens to the copy, except that datagrams of the peer may be lost and
\* the client may have sent one.
LEMMA DownStands ==
  ASSUME ChannelInv, DownInv,
         UNCHANGED <<incoming, incomingReliableAck, peerTxVars>>, toClient' \subseteq toClient,
         \A e \in UpFresh' : \/ e \in UpFresh
                             \/ e.ack = incoming /\ e.ackReliable = incomingReliableAck
  PROVE  DownInv' /\ Have' = Have
<1>1. /\ incoming' = incoming /\ incomingReliableAck' = incomingReliableAck
      /\ peerOutgoing' = peerOutgoing /\ peerSeenAck' = peerSeenAck
      /\ peerInFlight' = peerInFlight /\ peerToggle' = peerToggle /\ peerSent' = peerSent
  BY DEF peerTxVars
<1>2. \A s : Late(s)' = Late(s)
  BY <1>1 DEF Late
<1>3. (DownAdmitted' <=> DownAdmitted) /\ Have' = Have
  BY <1>1 DEF DownAdmitted, Have
<1>4. \A e \in DownFresh' : e \in DownFresh
  BY <1>1 DEF DownFresh, Late
<1>5. DownTypes'
  BY <1>1 DEF DownInv, DownTypes
<1>6. DownCopies'
  <2> SUFFICES ASSUME peerInFlight # None PROVE DownCopies'
    BY <1>1 DEF DownCopies
  <2> DEFINE m == peerInFlight.mostRecent
  <2>1. \A e \in DownFresh' : e.reliable => e.bytes = peerInFlight.bytes
    BY <1>4 DEF DownInv, DownCopies
  <2>2. peerInFlight.retransmit =>
          /\ ~DownAdmitted
          /\ \A e \in DownFresh' : ~e.reliable
          /\ \A e \in UpFresh' : e.ackReliable = incomingReliableAck
    BY <1>4 DEF DownInv, DownCopies
  <2>3. ~peerInFlight.retransmit =>
          /\ Late(m) < Late(peerSeenAck)
          /\ DownAdmitted => Late(incoming) <= Late(m)
          /\ incoming = m => DownAdmitted
          /\ \A e \in DownFresh' : e.reliable <=> ~DownAdmitted /\ e.sequence = m
    BY <1>4 DEF DownInv, DownCopies
  <2>4. ~peerInFlight.retransmit =>
          \A e \in UpFresh' : Late(e.ack) <= Late(m) =>
            e.ackReliable = incomingReliableAck /\ (e.ack = m => DownAdmitted)
    <3> SUFFICES ASSUME ~peerInFlight.retransmit, NEW e \in UpFresh', Late(e.ack) <= Late(m)
                 PROVE  e.ackReliable = incomingReliableAck /\ (e.ack = m => DownAdmitted)
      OBVIOUS
    <3>1. CASE e \in UpFresh
      BY <3>1 DEF DownInv, DownCopies
    <3>2. CASE e.ack = incoming /\ e.ackReliable = incomingReliableAck
      BY <2>3, <3>2
    <3> QED
      BY <3>1, <3>2
  <2> QED
    BY <1>1, <1>2, <1>3, <2>1, <2>2, <2>3, <2>4 DEF DownCopies
<1>7. NoDownCopies'
  BY <1>1, <1>3, <1>4 DEF DownInv, NoDownCopies
<1> QED
  BY <1>3, <1>5, <1>6, <1>7 DEF DownInv

-----------------------------------------------------------------------------
(* The client takes a datagram: the bit flips for a copy of the unit in    *)
(* flight, once.                                                           *)

LEMMA FreshUnit ==
  ASSUME ChannelInv, DownInv, NEW d \in DownFresh, d.reliable
  PROVE  /\ peerInFlight # None /\ ~DownAdmitted
         /\ peerSent \in 1 .. MaxPeerUnits /\ peerSent = Have + 1 /\ d.bytes = <<peerSent>>
<1>1. peerInFlight # None
  BY DEF DownInv, NoDownCopies
<1>2. ~DownAdmitted /\ d.bytes = peerInFlight.bytes
  BY <1>1 DEF DownInv, DownCopies
<1>3. peerSent \in 0 .. MaxPeerUnits /\ peerSent > 0 /\ MaxPeerUnits \in Nat
      /\ peerInFlight.bytes = <<peerSent>>
  BY <1>1, NetworkAssumption DEF DownInv, DownTypes
<1>4. Have = peerSent - 1
  BY <1>1, <1>2 DEF Have
<1> QED
  BY <1>1, <1>2, <1>3, <1>4

LEMMA DownReceives ==
  ASSUME ChannelInv, DownInv, NEW d \in DownFresh,
         incoming' = d.sequence,
         incomingReliableAck' = (IF d.reliable THEN ~incomingReliableAck ELSE incomingReliableAck),
         toClient' \subseteq toClient, UNCHANGED <<peerTxVars, toPeer, lastOutgoing, peerIncoming>>
  PROVE  /\ DownInv'
         /\ d.reliable => Have' = peerSent
         /\ ~d.reliable => Have' = Have
<1>1. /\ peerOutgoing' = peerOutgoing /\ peerSeenAck' = peerSeenAck
      /\ peerInFlight' = peerInFlight /\ peerToggle' = peerToggle /\ peerSent' = peerSent
  BY DEF peerTxVars
<1>2. \A s : Late(s)' = Late(s)
  BY <1>1 DEF Late
<1>3. /\ d \in toClient /\ d.sequence \in SeqNum /\ d.reliable \in BOOLEAN
      /\ Late(d.sequence) \in Nat /\ Late(d.sequence) < Late(incoming) /\ Late(incoming) \in Nat
      /\ incomingReliableAck \in BOOLEAN /\ peerToggle \in BOOLEAN /\ peerSent \in Nat
  BY AgesAreSmall, DownFacts DEF ChannelInv, ChannelTypes, DownFresh
<1>4. /\ UpFresh' = UpFresh
      /\ \A e \in UpFresh : Late(incoming) <= Late(e.ack) /\ Late(e.ack) \in Nat
  BY AgesAreSmall DEF UpFresh, Age, ChannelInv, UpOrder
<1>5. \A e \in DownFresh' : e \in DownFresh /\ e.sequence # d.sequence
  <2> SUFFICES ASSUME NEW e \in DownFresh'
               PROVE  e \in DownFresh /\ e.sequence # d.sequence
    OBVIOUS
  <2>1. e \in toClient /\ Late(e.sequence) < Late(d.sequence)
    BY <1>1 DEF DownFresh, Late
  <2>2. Late(e.sequence) \in Nat
    BY <2>1, AgesAreSmall
  <2> QED
    BY <1>3, <2>1, <2>2 DEF DownFresh
<1>6. /\ ~d.reliable => (DownAdmitted' <=> DownAdmitted)
      /\ d.reliable => (DownAdmitted' <=> ~DownAdmitted)
  BY <1>1, <1>3 DEF DownAdmitted
<1>7. DownTypes'
  BY <1>1 DEF DownInv, DownTypes
<1>8. CASE peerInFlight = None
  <2>1. ~d.reliable /\ DownAdmitted
    BY <1>8 DEF DownInv, NoDownCopies
  <2>2. DownCopies' /\ NoDownCopies'
    BY <1>1, <1>5, <1>6, <1>8, <2>1 DEF DownInv, DownCopies, NoDownCopies
  <2>3. Have' = Have
    BY <1>1, <1>8 DEF Have
  <2> QED
    BY <1>7, <2>1, <2>2, <2>3 DEF DownInv
<1>9. CASE peerInFlight # None /\ peerInFlight.retransmit
  <2>1. /\ ~d.reliable /\ ~DownAdmitted
        /\ \A e \in DownFresh : ~e.reliable
        /\ \A e \in UpFresh : e.ackReliable = incomingReliableAck
    BY <1>9 DEF DownInv, DownCopies
  <2>2. DownCopies' /\ NoDownCopies'
    BY <1>1, <1>4, <1>5, <1>6, <1>9, <2>1 DEF DownCopies, NoDownCopies
  <2>3. Have' = Have
    BY <1>1, <1>6, <1>9, <2>1 DEF Have
  <2> QED
    BY <1>7, <2>1, <2>2, <2>3 DEF DownInv
<1>10. CASE peerInFlight # None /\ ~peerInFlight.retransmit
  <2> DEFINE m == peerInFlight.mostRecent
  <2>1. /\ m \in SeqNum /\ Late(m) \in Nat /\ Late(m) < Late(peerSeenAck)
        /\ DownAdmitted => Late(incoming) <= Late(m)
        /\ \A e \in DownFresh : e.reliable <=> ~DownAdmitted /\ e.sequence = m
        /\ \A e \in DownFresh : e.reliable => e.bytes = peerInFlight.bytes
        /\ \A e \in UpFresh : Late(e.ack) <= Late(m) =>
             e.ackReliable = incomingReliableAck /\ (e.ack = m => DownAdmitted)
    BY <1>10, DownFacts DEF DownInv, DownCopies
  <2>2. \A e \in DownFresh' : /\ e.reliable <=> ~DownAdmitted' /\ e.sequence = m
                              /\ e.reliable => e.bytes = peerInFlight.bytes
    <3>1. CASE d.reliable
      <4>1. d.sequence = m /\ DownAdmitted'
        BY <1>6, <2>1, <3>1
      <4> QED
        BY <1>5, <2>1, <4>1
    <3>2. CASE ~d.reliable
      BY <1>5, <1>6, <2>1, <3>2
    <3> QED
      BY <3>1, <3>2
  <2>3. /\ DownAdmitted' => Late(d.sequence) <= Late(m)
        /\ d.sequence = m => DownAdmitted'
    <3>1. CASE d.reliable
      <4>1. d.sequence = m /\ DownAdmitted'
        BY <1>6, <2>1, <3>1
      <4> QED
        BY <1>3, <4>1
    <3>2. CASE ~d.reliable
      <4>1. DownAdmitted' => Late(d.sequence) <= Late(m)
        BY <1>3, <1>6, <2>1, <3>2
      <4>2. d.sequence = m => DownAdmitted
        BY <2>1, <3>2
      <4> QED
        BY <1>6, <3>2, <4>1, <4>2
    <3> QED
      BY <3>1, <3>2
  <2>4. \A e \in UpFresh : Late(e.ack) <= Late(m) =>
          e.ackReliable = incomingReliableAck' /\ (e.ack = m => DownAdmitted')
    <3>1. CASE d.reliable
      <4>1. d.sequence = m
        BY <2>1, <3>1
      <4>2. \A e \in UpFresh : ~(Late(e.ack) <= Late(m))
        BY <1>3, <1>4, <4>1
      <4> QED
        BY <4>2
    <3>2. CASE ~d.reliable
      BY <1>6, <2>1, <3>2
    <3> QED
      BY <3>1, <3>2
  <2>5. m' = m /\ peerInFlight'.retransmit = peerInFlight.retransmit
    BY <1>1
  <2>6. DownCopies'
    <3> HIDE DEF m
    <3> QED
      BY <1>1, <1>2, <1>4, <1>10, <2>1, <2>2, <2>3, <2>4, <2>5 DEF DownCopies, m
  <2>7. NoDownCopies'
    BY <1>1, <1>10 DEF NoDownCopies
  <2>8. ASSUME d.reliable PROVE Have' = peerSent
    <3>1. DownAdmitted'
      BY <1>6, <2>8, FreshUnit
    <3>2. Have' = peerSent - 0
      BY <1>1, <3>1 DEF Have
    <3> QED
      BY <1>3, <3>2
  <2>9. ~d.reliable => Have' = Have
    BY <1>1, <1>6 DEF Have
  <2> QED
    BY <1>7, <2>6, <2>7, <2>8, <2>9 DEF DownInv
<1> QED
  BY <1>8, <1>9, <1>10

-----------------------------------------------------------------------------
(* The peer sends and is acknowledged.                                     *)

\* What a new number does to the ages, and to the datagrams still to be taken.
LEMMA PeerNumbers ==
  ASSUME ChannelInv, NEW d, d.sequence = NextSeq(peerOutgoing),
         peerOutgoing' = NextSeq(peerOutgoing), toClient' = Put(toClient, d),
         UNCHANGED <<incoming, peerSeenAck, toPeer, lastOutgoing, peerIncoming>>
  PROVE  /\ Late(d.sequence)' = 0 /\ Late(peerSeenAck)' = Late(peerSeenAck) + 1
         /\ Late(peerSeenAck) \in Nat
         /\ \A s \in SeqNum : Late(s) < HalfRange =>
              Late(s)' = Late(s) + 1 /\ Late(s) \in Nat /\ s # d.sequence
         /\ incoming # d.sequence
         /\ Late(incoming)' = Late(incoming) + 1 /\ Late(incoming) \in Nat
         /\ \A e \in DownFresh' : \/ e = d
                                  \/ e \in DownFresh /\ e.sequence # d.sequence
         /\ UpFresh' = UpFresh
         /\ \A e \in UpFresh : Late(e.ack)' = Late(e.ack) + 1 /\ Late(e.ack) \in Nat
<1> DEFINE LateNext(s) == SequenceDistance(NextSeq(peerOutgoing), s)
<1>1. \A s : Late(s)' = LateNext(s)
  BY DEF Late
<1>2. /\ peerOutgoing \in SeqNum /\ NextSeq(peerOutgoing) \in SeqNum
      /\ incoming \in SeqNum /\ peerSeenAck \in SeqNum
      /\ Late(incoming) < HalfRange /\ Late(peerSeenAck) < HalfRange
      /\ \A e \in toClient : e.sequence \in SeqNum /\ Late(e.sequence) < HalfRange
      /\ \A e \in UpFresh : e.ack \in SeqNum /\ Late(e.ack) < HalfRange
  BY AgesAreSmall, NextSeqType DEF ChannelInv, ChannelTypes, UpFresh
<1>3. ASSUME NEW s \in SeqNum, Late(s) < HalfRange
      PROVE  LateNext(s) = Late(s) + 1 /\ s # NextSeq(peerOutgoing) /\ Late(s) \in Nat
  <2>1. /\ LateNext(s) = IF s = NextSeq(peerOutgoing) THEN 0 ELSE Late(s) + 1
        /\ s = NextSeq(peerOutgoing) <=> Late(s) = SeqModulus - 1
    BY <1>2, SendingAges DEF Late
  <2>2. HalfRange \in Nat /\ HalfRange <= SeqModulus - 1 /\ Late(s) \in Nat
    BY <1>2, DistanceType, HalfRangeAssumption DEF SeqModulus, Late
  <2>3. Late(s) # SeqModulus - 1
    BY <1>3, <2>2
  <2> QED
    BY <2>1, <2>2, <2>3
<1>4. LateNext(NextSeq(peerOutgoing)) = 0
  BY <1>2, DistanceType
<1>5. ASSUME NEW e \in DownFresh' PROVE e = d \/ (e \in DownFresh /\ e.sequence # d.sequence)
  <2>1. e = d \/ e \in toClient
    BY <1>5 DEF DownFresh, Put
  <2>2. LateNext(e.sequence) < LateNext(incoming)
    BY <1>5 DEF DownFresh, Late
  <2> HIDE DEF LateNext
  <2>3. CASE e \in toClient
    <3>1. /\ LateNext(e.sequence) = Late(e.sequence) + 1 /\ Late(e.sequence) \in Nat
          /\ LateNext(incoming) = Late(incoming) + 1 /\ Late(incoming) \in Nat
          /\ e.sequence # d.sequence
      BY <1>2, <1>3, <2>3
    <3> QED
      BY <2>2, <2>3, <3>1 DEF DownFresh
  <2> QED
    BY <2>1, <2>3
<1>6. UpFresh' = UpFresh
  BY DEF UpFresh, Age
<1> HIDE DEF LateNext
<1> QED
  BY <1>1, <1>2, <1>3, <1>4, <1>5, <1>6

LEMMA DownSends ==
  ASSUME ChannelInv, DownInv, PeerSend
  PROVE  DownInv' /\ Have' = Have
<1>1. /\ PeerWindowOpen /\ peerOutgoing' = NextSeq(peerOutgoing)
      /\ peerSeenAck' = peerSeenAck /\ incoming' = incoming /\ toPeer' = toPeer
      /\ incomingReliableAck' = incomingReliableAck
      /\ lastOutgoing' = lastOutgoing /\ peerIncoming' = peerIncoming
  BY DEF PeerSend, sessionVars, incomingVars, outgoingVars, peerRxVars
<1>2. PICK r \in BOOLEAN : \E b : toClient' = Put(toClient, PeerPacket(r, b))
                                 /\ (PeerSendNew => r /\ b = <<peerSent + 1>>)
                                 /\ (PeerResend => r /\ b = peerInFlight.bytes)
                                 /\ (~PeerSendNew /\ ~PeerResend => ~r /\ b = <<>>)
  <2>1. CASE PeerSendNew
    BY <2>1 DEF PeerSendNew, PeerResend
  <2>2. CASE ~PeerSendNew /\ PeerResend
    BY <2>2 DEF PeerResend
  <2>3. CASE ~PeerSendNew /\ ~PeerResend
    BY <2>3 DEF PeerSend, PeerSendUnreliable
  <2> QED
    BY <2>1, <2>2, <2>3
<1>3. PICK b : /\ toClient' = Put(toClient, PeerPacket(r, b))
               /\ PeerSendNew => r /\ b = <<peerSent + 1>>
               /\ PeerResend => r /\ b = peerInFlight.bytes
               /\ ~PeerSendNew /\ ~PeerResend => ~r /\ b = <<>>
  BY <1>2
<1>4. PICK d : /\ d.sequence = NextSeq(peerOutgoing) /\ d.reliable = r /\ d.bytes = b
               /\ toClient' = Put(toClient, d)
  <2>1. /\ PeerPacket(r, b).sequence = NextSeq(peerOutgoing)
        /\ PeerPacket(r, b).reliable = r /\ PeerPacket(r, b).bytes = b
    BY DEF PeerPacket
  <2> QED
    BY <1>3, <2>1
<1>5. /\ Late(d.sequence)' = 0 /\ Late(peerSeenAck)' = Late(peerSeenAck) + 1
      /\ Late(peerSeenAck) \in Nat
      /\ \A s \in SeqNum : Late(s) < HalfRange =>
           Late(s)' = Late(s) + 1 /\ Late(s) \in Nat /\ s # d.sequence
      /\ incoming # d.sequence
      /\ Late(incoming)' = Late(incoming) + 1 /\ Late(incoming) \in Nat
      /\ \A e \in DownFresh' : \/ e = d
                               \/ e \in DownFresh /\ e.sequence # d.sequence
      /\ UpFresh' = UpFresh
      /\ \A e \in UpFresh : Late(e.ack)' = Late(e.ack) + 1 /\ Late(e.ack) \in Nat
  BY <1>1, <1>4, PeerNumbers
<1>6. /\ peerToggle \in BOOLEAN /\ incomingReliableAck \in BOOLEAN
      /\ peerSent \in 0 .. MaxPeerUnits /\ MaxPeerUnits \in Nat
      /\ NextSeq(peerOutgoing) \in SeqNum
  BY AgesAreSmall, DownFacts, NextSeqType, NetworkAssumption DEF DownInv, DownTypes
<1>7. \A e \in toClient' : e = d \/ e \in toClient
  BY <1>4 DEF Put
<1>8. CASE PeerSendNew
  <2>1. /\ peerInFlight = None /\ peerSent < MaxPeerUnits /\ peerSent' = peerSent + 1
        /\ peerToggle' = ~peerToggle
        /\ peerInFlight' = [bytes |-> <<peerSent + 1>>, toggle |-> ~peerToggle,
                            mostRecent |-> d.sequence, retransmit |-> FALSE]
        /\ d.reliable /\ d.bytes = <<peerSent + 1>>
    BY <1>3, <1>4, <1>8 DEF PeerSendNew
  <2>2. DownAdmitted /\ ~DownAdmitted' /\ \A e \in DownFresh : ~e.reliable
    <3>1. DownAdmitted /\ \A e \in DownFresh : ~e.reliable
      BY <2>1 DEF DownInv, NoDownCopies
    <3>2. ~DownAdmitted'
      BY <1>1, <1>6, <2>1, <3>1 DEF DownAdmitted
    <3> QED
      BY <3>1, <3>2
  <2>3. /\ peerInFlight' \in InFlightPayload /\ peerInFlight' # None
        /\ peerInFlight'.bytes = <<peerSent'>> /\ peerInFlight'.toggle = peerToggle'
        /\ peerInFlight'.mostRecent = d.sequence /\ ~peerInFlight'.retransmit
    <3>1. <<peerSent + 1>> \in Seq(Nat)
      BY <1>6
    <3>2. peerInFlight' \in InFlightPayload
      BY <1>4, <1>6, <2>1, <3>1 DEF InFlightPayload
    <3> QED
      BY <2>1, <3>2, NoneAssumption
  <2>4. DownTypes'
    <3>1. \A e \in toClient' : ~e.reliable => e.bytes = <<>>
      BY <1>7, <2>1 DEF DownInv, DownTypes
    <3> QED
      BY <1>6, <2>1, <2>3, <3>1 DEF DownTypes
  <2>5. DownCopies'
    <3>1. \A e \in DownFresh' : /\ e.reliable <=> e.sequence = d.sequence
                                /\ e.reliable => e.bytes = <<peerSent'>>
      BY <1>5, <2>1, <2>2
    <3>2. 0 < Late(peerSeenAck)' /\ \A e \in UpFresh' : ~(Late(e.ack)' <= 0)
      BY <1>5
    <3>3. Late(peerInFlight.mostRecent)' = Late(d.sequence)'
      BY <2>3 DEF Late
    <3> QED
      BY <1>1, <1>5, <2>2, <2>3, <3>1, <3>2, <3>3 DEF DownCopies
  <2>6. NoDownCopies'
    BY <2>3 DEF NoDownCopies
  <2>7. Have' = Have
    <3>1. Have = peerSent - 0 /\ Have' = (peerSent + 1) - 1
      BY <2>1, <2>2, <2>3 DEF Have
    <3> QED
      BY <1>6, <3>1
  <2> QED
    BY <2>4, <2>5, <2>6, <2>7 DEF DownInv
<1>9. CASE PeerResend
  <2>1. /\ peerInFlight # None /\ peerInFlight.retransmit
        /\ peerSent' = peerSent /\ peerToggle' = peerToggle
        /\ peerInFlight' = [peerInFlight EXCEPT !.mostRecent = d.sequence,
                                                !.retransmit = FALSE]
        /\ d.reliable /\ d.bytes = peerInFlight.bytes
    BY <1>3, <1>4, <1>9 DEF PeerResend
  <2>2. /\ ~DownAdmitted /\ ~DownAdmitted' /\ \A e \in DownFresh : ~e.reliable
    <3>1. ~DownAdmitted /\ \A e \in DownFresh : ~e.reliable
      BY <2>1 DEF DownInv, DownCopies
    <3> QED
      BY <1>1, <2>1, <3>1 DEF DownAdmitted
  <2>3. /\ peerInFlight' \in InFlightPayload /\ peerInFlight' # None
        /\ peerInFlight'.bytes = peerInFlight.bytes /\ peerInFlight'.toggle = peerToggle
        /\ peerInFlight'.mostRecent = d.sequence /\ ~peerInFlight'.retransmit
    <3>1. peerInFlight \in InFlightPayload /\ peerInFlight.toggle = peerToggle
      BY <2>1 DEF DownInv, DownTypes
    <3>2. peerInFlight' \in InFlightPayload
      BY <1>4, <1>6, <2>1, <3>1 DEF InFlightPayload
    <3> QED
      BY <2>1, <3>1, <3>2, NoneAssumption DEF InFlightPayload
  <2>4. DownTypes'
    <3>1. \A e \in toClient' : ~e.reliable => e.bytes = <<>>
      BY <1>7, <2>1 DEF DownInv, DownTypes
    <3> QED
      BY <2>1, <2>3, <3>1 DEF DownInv, DownTypes
  <2>5. DownCopies'
    <3>1. \A e \in DownFresh' : /\ e.reliable <=> e.sequence = d.sequence
                                /\ e.reliable => e.bytes = peerInFlight.bytes
      BY <1>5, <2>1, <2>2
    <3>2. 0 < Late(peerSeenAck)' /\ \A e \in UpFresh' : ~(Late(e.ack)' <= 0)
      BY <1>5
    <3>3. Late(peerInFlight.mostRecent)' = Late(d.sequence)'
      BY <2>3 DEF Late
    <3> QED
      BY <1>1, <1>5, <2>2, <2>3, <3>1, <3>2, <3>3 DEF DownCopies
  <2>6. NoDownCopies'
    BY <2>3 DEF NoDownCopies
  <2>7. Have' = Have
    BY <2>1, <2>2, <2>3 DEF Have
  <2> QED
    BY <2>4, <2>5, <2>6, <2>7 DEF DownInv
<1>10. CASE ~PeerSendNew /\ ~PeerResend
  <2>1. /\ peerInFlight' = peerInFlight /\ peerSent' = peerSent /\ peerToggle' = peerToggle
        /\ ~d.reliable /\ d.bytes = <<>>
    BY <1>3, <1>4, <1>10 DEF PeerSend, PeerSendUnreliable
  <2>2. (DownAdmitted' <=> DownAdmitted) /\ Have' = Have
    BY <1>1, <2>1 DEF DownAdmitted, Have
  <2>3. DownTypes'
    BY <1>7, <2>1 DEF DownInv, DownTypes
  <2>4. CASE peerInFlight = None
    BY <1>5, <2>1, <2>2, <2>3, <2>4 DEF DownInv, DownCopies, NoDownCopies
  <2>5. CASE peerInFlight # None /\ peerInFlight.retransmit
    <3>1. /\ ~DownAdmitted
          /\ \A e \in DownFresh : ~e.reliable
          /\ \A e \in UpFresh : e.ackReliable = incomingReliableAck
      BY <2>5 DEF DownInv, DownCopies
    <3>2. DownCopies' /\ NoDownCopies'
      BY <1>1, <1>5, <2>1, <2>2, <2>5, <3>1 DEF DownCopies, NoDownCopies
    <3> QED
      BY <2>2, <2>3, <3>2 DEF DownInv
  <2>6. CASE peerInFlight # None /\ ~peerInFlight.retransmit
    <3>0. PICK m : m = peerInFlight.mostRecent
      OBVIOUS
    <3>1. /\ m \in SeqNum /\ Late(m) \in Nat /\ Late(m)' = Late(m) + 1 /\ m # d.sequence
      BY <1>5, <2>6, <3>0, DownFacts
    <3>2. /\ Late(m) < Late(peerSeenAck)
          /\ DownAdmitted => Late(incoming) <= Late(m)
          /\ incoming = m => DownAdmitted
          /\ \A e \in DownFresh : e.reliable <=> ~DownAdmitted /\ e.sequence = m
          /\ \A e \in DownFresh : e.reliable => e.bytes = peerInFlight.bytes
          /\ \A e \in UpFresh : Late(e.ack) <= Late(m) =>
               e.ackReliable = incomingReliableAck /\ (e.ack = m => DownAdmitted)
      BY <2>6, <3>0 DEF DownInv, DownCopies
    <3>3. /\ Late(m)' < Late(peerSeenAck)'
          /\ DownAdmitted => Late(incoming)' <= Late(m)'
          /\ \A e \in UpFresh : Late(e.ack)' <= Late(m)' => Late(e.ack) <= Late(m)
      BY <1>5, <3>1, <3>2
    <3>4. \A e \in DownFresh' : /\ e.reliable <=> ~DownAdmitted /\ e.sequence = m
                                /\ e.reliable => e.bytes = peerInFlight.bytes
      BY <1>5, <2>1, <3>1, <3>2
    <3>6. DownCopies'
      <4>1. Late(peerInFlight.mostRecent)' = Late(m)' /\ peerInFlight'.mostRecent = m
        BY <2>1, <3>0 DEF Late
      <4> QED
        BY <1>1, <1>5, <2>1, <2>2, <2>6, <3>2, <3>3, <3>4, <4>1 DEF DownCopies
    <3> QED
      BY <2>1, <2>2, <2>3, <2>6, <3>6 DEF DownInv, NoDownCopies
  <2> QED
    BY <2>4, <2>5, <2>6, <2>2
<1> QED
  BY <1>8, <1>9, <1>10

LEMMA DownAcknowledged ==
  ASSUME ChannelInv, DownInv, NEW d \in UpFresh, PeerAdmits(d),
         toPeer' \subseteq toPeer, UNCHANGED <<sessionVars, toClient>>
  PROVE  DownInv' /\ Have' = Have
<1>1. /\ incoming' = incoming /\ incomingReliableAck' = incomingReliableAck
      /\ lastOutgoing' = lastOutgoing /\ toClient' = toClient
      /\ peerOutgoing' = peerOutgoing /\ peerSeenAck' = d.ack /\ peerIncoming' = d.sequence
      /\ peerToggle' = peerToggle /\ peerSent' = peerSent
  BY DEF PeerAdmits, sessionVars, incomingVars, outgoingVars
<1>2. (\A s : Age(s)' = Age(s)) /\ (\A s : Late(s)' = Late(s))
  BY <1>1 DEF Age, Late
<1>3. /\ d \in toPeer /\ d.ack \in SeqNum /\ Late(d.ack) \in Nat /\ Late(d.ack) < HalfRange
      /\ Late(incoming) <= Late(d.ack) /\ Late(incoming) \in Nat
      /\ incomingReliableAck \in BOOLEAN /\ peerToggle \in BOOLEAN
  BY AgesAreSmall, DownFacts DEF ChannelInv, ChannelTypes, UpOrder, UpFresh
<1>4. DownFresh' = DownFresh /\ (DownAdmitted' <=> DownAdmitted)
  BY <1>1 DEF DownFresh, Late, DownAdmitted
<1>5. \A e \in UpFresh' : e \in UpFresh /\ Late(e.ack) <= Late(d.ack) /\ Late(e.ack) \in Nat
  <2> SUFFICES ASSUME NEW e \in UpFresh'
               PROVE  e \in UpFresh /\ Late(e.ack) <= Late(d.ack) /\ Late(e.ack) \in Nat
    OBVIOUS
  <2>1. e \in toPeer /\ Age(e.sequence) < Age(d.sequence)
    BY <1>1 DEF UpFresh, Age
  <2>2. /\ Age(e.sequence) \in Nat /\ Age(d.sequence) \in Nat /\ Age(peerIncoming) \in Nat
        /\ Age(d.sequence) < Age(peerIncoming)
    BY <1>3, <2>1, AgesAreSmall DEF UpFresh
  <2>3. e \in UpFresh /\ Age(e.sequence) <= Age(d.sequence)
    BY <2>1, <2>2 DEF UpFresh
  <2> QED
    BY <2>3, AgesAreSmall DEF ChannelInv, UpOrder
<1>6. CASE peerInFlight = None
  <2>1. peerInFlight' = None
    BY <1>6 DEF PeerAdmits
  <2> QED
    BY <1>1, <1>4, <1>6, <2>1 DEF DownInv, DownTypes, DownCopies, NoDownCopies, Have
<1>7. CASE peerInFlight # None /\ peerInFlight.retransmit
  <2>1. /\ ~DownAdmitted /\ \A e \in DownFresh : ~e.reliable
        /\ \A e \in UpFresh : e.ackReliable = incomingReliableAck
        /\ peerInFlight \in InFlightPayload /\ peerInFlight.toggle = peerToggle
    BY <1>7 DEF DownInv, DownTypes, DownCopies
  <2>2. d.ackReliable # peerInFlight.toggle
    BY <2>1 DEF DownAdmitted
  <2>3. /\ peerInFlight' \in {peerInFlight, [peerInFlight EXCEPT !.retransmit = TRUE]}
    BY <1>7, <2>2 DEF PeerAdmits
  <2>4. /\ peerInFlight' \in InFlightPayload /\ peerInFlight' # None
        /\ peerInFlight'.bytes = peerInFlight.bytes /\ peerInFlight'.toggle = peerToggle
        /\ peerInFlight'.retransmit
    <3>1. CASE peerInFlight' = peerInFlight
      BY <1>7, <2>1, <3>1
    <3>2. CASE peerInFlight' = [peerInFlight EXCEPT !.retransmit = TRUE]
      <4>1. peerInFlight' \in InFlightPayload
        BY <2>1, <3>2 DEF InFlightPayload
      <4> QED
        BY <2>1, <3>2, <4>1, NoneAssumption DEF InFlightPayload
    <3> QED
      BY <2>3, <3>1, <3>2
  <2>5. DownTypes'
    BY <1>1, <1>7, <2>4 DEF DownInv, DownTypes
  <2>6. DownCopies' /\ NoDownCopies'
    BY <1>1, <1>4, <1>5, <2>1, <2>4 DEF DownCopies, NoDownCopies
  <2>7. Have' = Have
    BY <1>1, <1>4, <1>7, <2>4 DEF Have
  <2> QED
    BY <2>5, <2>6, <2>7 DEF DownInv
<1>8. CASE peerInFlight # None /\ ~peerInFlight.retransmit
  <2> DEFINE m == peerInFlight.mostRecent
  <2>1. /\ m \in SeqNum /\ Late(m) \in Nat /\ Late(m) < HalfRange
        /\ DownAdmitted => Late(incoming) <= Late(m)
        /\ incoming = m => DownAdmitted
        /\ \A e \in DownFresh : e.reliable <=> ~DownAdmitted /\ e.sequence = m
        /\ \A e \in DownFresh : e.reliable => e.bytes = peerInFlight.bytes
        /\ \A e \in UpFresh : Late(e.ack) <= Late(m) =>
             e.ackReliable = incomingReliableAck /\ (e.ack = m => DownAdmitted)
        /\ peerInFlight \in InFlightPayload /\ peerInFlight.toggle = peerToggle
    BY <1>8, DownFacts DEF DownInv, DownTypes, DownCopies
  <2>2. /\ Covers(d.ack, m) <=> Late(d.ack) <= Late(m)
        /\ Newer(d.ack, m) <=> Late(d.ack) < Late(m)
        /\ d.ack = m <=> Late(d.ack) = Late(m)
    BY <1>3, <2>1, AgesAreSmall, ComparisonIsOfAges DEF Late
  <2>3. CASE d.ackReliable = peerInFlight.toggle /\ Covers(d.ack, m)
    <3>1. peerInFlight' = None
      BY <1>8, <2>3 DEF PeerAdmits
    <3>2. DownAdmitted
      BY <2>1, <2>2, <2>3 DEF DownAdmitted
    <3>3. \A e \in DownFresh : ~e.reliable
      <4>1. \A e \in DownFresh : e.reliable \in BOOLEAN
        BY DEF DownFresh, ChannelInv, ChannelTypes
      <4> QED
        BY <2>1, <3>2, <4>1
    <3>4. DownTypes' /\ DownCopies' /\ NoDownCopies'
      BY <1>1, <1>4, <3>1, <3>2, <3>3 DEF DownInv, DownTypes, DownCopies, NoDownCopies
    <3>5. Have' = Have
      BY <1>1, <3>1, <3>2 DEF Have
    <3> QED
      BY <3>4, <3>5 DEF DownInv
  <2>4. CASE d.ackReliable # peerInFlight.toggle /\ Newer(d.ack, m)
    <3>1. peerInFlight' = [peerInFlight EXCEPT !.retransmit = TRUE]
      BY <1>8, <2>4 DEF PeerAdmits
    <3>2. /\ peerInFlight' \in InFlightPayload /\ peerInFlight' # None
          /\ peerInFlight'.bytes = peerInFlight.bytes /\ peerInFlight'.toggle = peerToggle
          /\ peerInFlight'.retransmit
      <4>1. peerInFlight' \in InFlightPayload
        BY <2>1, <3>1 DEF InFlightPayload
      <4> QED
        BY <2>1, <3>1, <4>1, NoneAssumption DEF InFlightPayload
    <3>3. Late(d.ack) < Late(m) /\ Late(d.ack) <= Late(m)
      BY <1>3, <2>1, <2>2, <2>4
    <3>4. ~DownAdmitted
      BY <2>1, <2>4, <3>3 DEF DownAdmitted
    <3>5. \A e \in DownFresh : ~e.reliable
      <4> SUFFICES ASSUME NEW e \in DownFresh PROVE e.sequence # m
        BY <2>1
      <4>1. Late(e.sequence) < Late(incoming) /\ Late(e.sequence) \in Nat
        BY AgesAreSmall DEF DownFresh
      <4>2. Late(e.sequence) < Late(m)
        BY <1>3, <2>1, <3>3, <4>1
      <4> QED
        BY <2>1, <4>2
    <3>6. \A e \in UpFresh' : e.ackReliable = incomingReliableAck
      <4> SUFFICES ASSUME NEW e \in UpFresh' PROVE Late(e.ack) <= Late(m)
        BY <1>5, <2>1
      <4> QED
        BY <1>3, <1>5, <2>1, <3>3
    <3>7. DownTypes'
      BY <1>1, <1>8, <3>2 DEF DownInv, DownTypes
    <3>8. DownCopies' /\ NoDownCopies'
      <4>1. \A e \in DownFresh' : ~e.reliable
        BY <1>4, <3>5
      <4> QED
        BY <1>1, <1>4, <3>2, <3>4, <3>6, <4>1 DEF DownCopies, NoDownCopies
    <3>9. Have' = Have
      BY <1>1, <1>4, <1>8, <3>2 DEF Have
    <3> QED
      BY <3>7, <3>8, <3>9 DEF DownInv
  <2>5. CASE /\ ~(d.ackReliable = peerInFlight.toggle /\ Covers(d.ack, m))
             /\ ~(d.ackReliable # peerInFlight.toggle /\ Newer(d.ack, m))
    <3>1. peerInFlight' = peerInFlight
      BY <1>8, <2>5 DEF PeerAdmits
    <3>2. Late(m) < Late(d.ack)
      <4>1. ASSUME d.ack = m PROVE FALSE
        <5>1. d.ackReliable = peerInFlight.toggle
          BY <1>3, <2>1, <4>1 DEF DownAdmitted
        <5>2. Covers(d.ack, m)
          BY <1>3, <2>1, <2>2, <4>1
        <5> QED
          BY <2>5, <5>1, <5>2
      <4>2. ~(Late(d.ack) < Late(m))
        <5>1. ASSUME Late(d.ack) < Late(m) PROVE FALSE
          <6>1. Newer(d.ack, m) /\ Covers(d.ack, m)
            BY <1>3, <2>1, <2>2, <5>1
          <6> QED
            BY <2>5, <6>1
        <5> QED
          BY <5>1
      <4> QED
        BY <1>3, <2>1, <2>2, <4>1, <4>2
    <3>3. DownTypes' /\ NoDownCopies'
      BY <1>1, <1>8, <3>1 DEF DownInv, DownTypes, NoDownCopies
    <3>4. DownCopies'
      <4>1. m' = m
        BY <3>1
      <4> QED
        BY <1>1, <1>2, <1>4, <1>5, <1>8, <2>1, <3>1, <3>2 DEF DownCopies
    <3>5. Have' = Have
      BY <1>1, <1>4, <3>1 DEF Have
    <3> QED
      BY <3>3, <3>4, <3>5 DEF DownInv
  <2> QED
    BY <2>3, <2>4, <2>5
<1> QED
  BY <1>6, <1>7, <1>8

-----------------------------------------------------------------------------
(* The whole of the transfers, step by step.                               *)

\* What a step does to the number of the peer's units at each place.
UnitsStand == Have' = Have /\ peerSent' = peerSent /\ (peerInFlight' = None <=> peerInFlight = None)
UnitSent   == /\ Have' = Have /\ peerSent' = peerSent + 1
              /\ peerInFlight = None /\ peerInFlight' # None
UnitTaken  == /\ Have' = Have + 1 /\ Have' <= peerSent
              /\ peerSent' = peerSent /\ peerInFlight' = peerInFlight
UnitReleased == /\ Have' = Have /\ peerSent' = peerSent
                /\ peerInFlight # None /\ peerInFlight' = None
UnitsMove == UnitsStand \/ UnitSent \/ UnitTaken \/ UnitReleased

LEMMA TransfersInvInit == TransfersInit => TransfersInv
<1> SUFFICES ASSUME TransfersInit PROVE TransfersInv
  OBVIOUS
<1>1. ChannelInv /\ DownInv
  BY ChannelInvInit, DownInvInit DEF TransfersInit
<1>2. /\ active = None /\ bytes = <<>> /\ ranges = Reassembler!NoRanges
      /\ nextId = 1 /\ revision = 0 /\ valid = TRUE
      /\ received = <<>> /\ peerInFlight = None /\ peerSent = 0
  BY DEF TransfersInit, Reassembler!Init, ChannelInit
<1>3. Have = 0 /\ Gathered = 0
  <2>1. Have = peerSent - 0
    BY <1>2 DEF Have
  <2>2. Have = 0
    BY <1>2, <2>1
  <2> QED
    BY <2>2 DEF Gathered, PieceAt, UnderWay, Unfragmented
<1>4. received = Units(1, Have - Gathered) /\ ranges = [i \in 1 .. Gathered |-> 1]
  <2>1. Units(1, 0) = <<>>
    BY DEF Units
  <2> QED
    BY <1>2, <1>3, <2>1 DEF Reassembler!NoRanges
<1> QED
  BY <1>1, <1>2, <1>3, <1>4 DEF TransfersInv, Assembled

\* The fragment in a datagram still to be taken is the next one.
LEMMA FreshFragment ==
  ASSUME ChannelInv, DownInv, NEW d \in DownFresh, Fragmented(d)
  PROVE  /\ d.reliable /\ FragmentIn(d) = FragmentAt(peerSent)
         /\ PieceAt(peerSent).count # 0
<1>1. d.bytes # <<>>
  BY DEF Fragmented, Piece, Unfragmented
<1>2. d.reliable
  BY <1>1 DEF DownFresh, DownInv, DownTypes
<1>3. d.bytes = <<peerSent>> /\ peerSent \in 1 .. MaxPeerUnits
  BY <1>2, FreshUnit
<1>4. Piece(d) = PieceAt(peerSent)
  <2>1. d.bytes[1] = peerSent /\ peerSent # 0
    BY <1>3, NetworkAssumption
  <2> QED
    BY <1>1, <2>1 DEF Piece, PieceAt
<1> QED
  BY <1>2, <1>3, <1>4 DEF FragmentIn, FragmentAt, Fragmented

\* A unit that is no fragment comes between transfers.
LEMMA FreshUnfragmented ==
  ASSUME ChannelInv, DownInv, NEW d \in DownFresh, d.reliable, ~Fragmented(d)
  PROVE  PieceAt(peerSent).count = 0
<1>1. d.bytes = <<peerSent>> /\ peerSent \in 1 .. MaxPeerUnits
  BY FreshUnit
<1>2. d.bytes # <<>> /\ d.bytes[1] = peerSent /\ peerSent # 0
  BY <1>1, NetworkAssumption
<1> QED
  BY <1>2 DEF Fragmented, Piece, PieceAt

\* The datagram's fragment is new to the reassembler, and to the session so too.
LEMMA FreshFragmentIsNew ==
  ASSUME TransfersInv, NEW d \in DownFresh, Fragmented(d)
  PROVE  LET plan == Reassembler!InsertPlan(FragmentIn(d), 0)
         IN  /\ Reassembler!Plans(FragmentIn(d), 0) = {plan}
             /\ Classification(plan) = "new_fragment_unit"
<1>1. /\ d.reliable /\ FragmentIn(d) = FragmentAt(peerSent) /\ PieceAt(peerSent).count # 0
      /\ peerSent \in 1 .. MaxPeerUnits /\ peerSent = Have + 1 /\ Have \in Nat
      /\ Assembled
  BY FreshFragment, FreshUnit, DownFacts DEF TransfersInv
<1>2. Reassembler!Plans(FragmentAt(peerSent), 0)
        = {Reassembler!InsertPlan(FragmentAt(peerSent), 0)}
  <2>1. \A n \in 1 .. MaxPeerUnits : n = Have + 1 /\ PieceAt(n).count # 0 =>
          Reassembler!Plans(FragmentAt(n), 0) = {Reassembler!InsertPlan(FragmentAt(n), 0)}
    BY <1>1, NextFragmentIsInserted
  <2> QED
    BY <1>1, <2>1
<1>3. Reassembler!InsertPlan(FragmentAt(peerSent), 0).unchanged = FALSE
  BY DEF Reassembler!InsertPlan
<1> QED
  BY <1>1, <1>2, <1>3 DEF Classification

\* What taking a header does to the numbers the peer is told.
LEMMA HeaderTaken ==
  ASSUME NEW h, NEW class, CommitIncoming(Inspection(h, class))
  PROVE  /\ incoming' = h.sequence /\ lastOutgoing' = lastOutgoing
         /\ incomingReliableAck' = (IF NewReliable(h, class) THEN ~incomingReliableAck
                                                             ELSE incomingReliableAck)
  BY DEF CommitIncoming, Inspection, outgoingVars

\* The rest of the client's state is as it was: nothing moves.
LEMMA NothingMoves ==
  ASSUME TransfersInv, ChannelInv',
         UNCHANGED <<incoming, incomingReliableAck, peerTxVars, reassembler, received>>,
         toClient' \subseteq toClient,
         \A e \in UpFresh' : \/ e \in UpFresh
                             \/ e.ack = incoming /\ e.ackReliable = incomingReliableAck
  PROVE  TransfersInv' /\ UnitsMove
<1>1. DownInv' /\ Have' = Have
  BY DownStands DEF TransfersInv
<1>2. Assembled'
  BY <1>1, AssemblyStands DEF TransfersInv
<1> QED
  BY <1>1, <1>2 DEF TransfersInv, UnitsMove, UnitsStand, peerTxVars

LEMMA ClientSendStep ==
  ASSUME TransfersInv, ClientSend, UNCHANGED reassembler
  PROVE  TransfersInv' /\ UnitsMove
<1>1. ChannelInv'
  BY ChannelInvStep DEF TransfersInv, ChannelNext
<1>2. PICK d : /\ IsNext(d) /\ toPeer' = Put(toPeer, d)
               /\ d.ack = incoming /\ d.ackReliable = incomingReliableAck
  <2>1. CASE ClientSendReliable \/ ClientPoll
    <3>1. /\ toPeer' = Put(toPeer, Datagram(Plan(0)))
          /\ Datagram(Plan(0)).ack = incoming
          /\ Datagram(Plan(0)).ackReliable = incomingReliableAck
      BY <2>1 DEF ClientSendReliable, ClientPoll, ClientTransmit, Datagram, Plan
    <3> QED
      BY <3>1, PlanIsNext
  <2>2. CASE ClientFirstAck
    <3>1. /\ toPeer' = Put(toPeer, Datagram(FirstAckPlan))
          /\ Datagram(FirstAckPlan).ack = incoming
          /\ Datagram(FirstAckPlan).ackReliable = incomingReliableAck
      BY <2>2 DEF ClientFirstAck, Datagram, FirstAckPlan
    <3> QED
      BY <3>1, FirstAckIsNext
  <2> QED
    BY <2>1, <2>2 DEF ClientSend
<1>3. /\ incoming' = incoming /\ incomingReliableAck' = incomingReliableAck
      /\ UNCHANGED <<peerTxVars, received>> /\ toClient' = toClient
      /\ lastOutgoing' = nextOutgoing /\ peerIncoming' = peerIncoming
  BY DEF ClientSend, ClientSendReliable, ClientPoll, ClientTransmit, Transmit, CommitOutgoing,
         ClientFirstAck, SendFirstAck, AdvanceOutgoing, incomingVars, peerRxVars
<1>4. ASSUME NEW e \in UpFresh', e # d PROVE e \in UpFresh
  <2>1. e \in toPeer /\ AgeNext(e.sequence) < AgeNext(peerIncoming)
    BY <1>2, <1>3, <1>4 DEF UpFresh, Put, Age, AgeNext
  <2>2. /\ e.sequence \in SeqNum /\ Age(e.sequence) < HalfRange /\ Age(e.sequence) \in Nat
        /\ peerIncoming \in SeqNum /\ Age(peerIncoming) < HalfRange /\ Age(peerIncoming) \in Nat
    BY <2>1, AgesAreSmall DEF TransfersInv, ChannelInv, ChannelTypes
  <2>3. /\ AgeNext(e.sequence) = Age(e.sequence) + 1
        /\ AgeNext(peerIncoming) = Age(peerIncoming) + 1
    BY <2>2, AgesGrow DEF TransfersInv
  <2> QED
    BY <2>1, <2>2, <2>3 DEF UpFresh
<1> QED
  BY <1>1, <1>2, <1>3, <1>4, NothingMoves

LEMMA PeerSendStep ==
  ASSUME TransfersInv, PeerSend, UNCHANGED reassembler
  PROVE  TransfersInv' /\ UnitsMove
<1>1. ChannelInv'
  BY ChannelInvStep DEF TransfersInv, ChannelNext
<1>2. DownInv' /\ Have' = Have
  BY DownSends DEF TransfersInv
<1>3. Assembled'
  BY <1>2, AssemblyStands DEF TransfersInv, PeerSend
<1>4. UnitSent \/ UnitsStand
  <2>1. CASE PeerSendNew
    <3>1. peerInFlight' # None
      <4>1. peerSent' > 0 /\ peerSent' \in Nat
        BY <2>1, DownFacts DEF PeerSendNew, TransfersInv
      <4>2. peerInFlight' \in InFlightPayload
        <5>1. /\ peerSent + 1 \in Nat /\ peerToggle \in BOOLEAN /\ NextSeq(peerOutgoing) \in SeqNum
          BY DownFacts, AgesAreSmall, NextSeqType DEF TransfersInv
        <5>2. <<peerSent + 1>> \in Seq(Nat)
          BY <5>1
        <5> QED
          BY <2>1, <5>1, <5>2 DEF PeerSendNew, InFlightPayload
      <4> QED
        BY <4>2, NoneAssumption
    <3> QED
      BY <1>2, <2>1, <3>1 DEF PeerSendNew, UnitSent
  <2>2. CASE PeerResend
    <3>1. /\ peerInFlight # None /\ peerSent' = peerSent /\ peerInFlight \in InFlightPayload
          /\ peerInFlight' = [peerInFlight EXCEPT !.mostRecent = NextSeq(peerOutgoing),
                                                  !.retransmit = FALSE]
          /\ NextSeq(peerOutgoing) \in SeqNum
      BY <2>2, DownFacts, AgesAreSmall, NextSeqType DEF PeerResend, TransfersInv
    <3>2. peerInFlight' \in InFlightPayload
      BY <3>1 DEF InFlightPayload
    <3> QED
      BY <1>2, <3>1, <3>2, NoneAssumption DEF UnitsStand
  <2>3. CASE PeerSendUnreliable
    BY <1>2, <2>3 DEF PeerSendUnreliable, UnitsStand
  <2> QED
    BY <2>1, <2>2, <2>3 DEF PeerSend
<1> QED
  BY <1>1, <1>2, <1>3, <1>4 DEF TransfersInv, UnitsMove

LEMMA PeerReceiveStep ==
  ASSUME TransfersInv, NEW d \in toPeer, PeerReceive(d), UNCHANGED reassembler
  PROVE  TransfersInv' /\ UnitsMove
<1>1. ChannelInv'
  BY ChannelInvStep DEF TransfersInv, ChannelNext
<1>2. /\ toPeer' \subseteq toPeer /\ toClient' = toClient /\ UNCHANGED <<sessionVars, received>>
  BY DEF PeerReceive, AfterDelivery
<1>3. CASE UNCHANGED <<peerRxVars, peerTxVars>>
  <2>1. /\ UNCHANGED <<incoming, incomingReliableAck, lastOutgoing, peerIncoming>>
    BY <1>2, <1>3 DEF sessionVars, incomingVars, outgoingVars, peerRxVars
  <2>2. \A e \in UpFresh' : e \in UpFresh
    BY <1>2, <2>1 DEF UpFresh, Age
  <2> QED
    BY <1>1, <1>2, <1>3, <2>1, <2>2, NothingMoves
<1>4. CASE Newer(d.sequence, peerIncoming) /\ PeerAdmits(d)
  <2>1. d \in UpFresh
    BY <1>4, FreshIsNewer DEF TransfersInv
  <2>2. DownInv' /\ Have' = Have
    BY <1>2, <1>4, <2>1, DownAcknowledged DEF TransfersInv
  <2>3. Assembled'
    BY <1>2, <2>2, AssemblyStands DEF TransfersInv
  <2>4. UnitsStand \/ UnitReleased
    <3>1. peerSent' = peerSent /\ (peerInFlight = None => peerInFlight' = None)
      BY <1>4 DEF PeerAdmits
    <3> QED
      BY <2>2, <3>1 DEF UnitsStand, UnitReleased
  <2> QED
    BY <1>1, <2>2, <2>3, <2>4 DEF TransfersInv, UnitsMove
<1> QED
  BY <1>3, <1>4 DEF PeerReceive

\* The client takes a unit of the peer: the reassembler and the session move on
\* together.
LEMMA UnitIsTaken ==
  ASSUME TransfersInv, ChannelInv', NEW d \in DownFresh, d.reliable,
         incoming' = d.sequence, incomingReliableAck' = ~incomingReliableAck,
         lastOutgoing' = lastOutgoing,
         toClient' \subseteq toClient, UNCHANGED <<toPeer, peerRxVars, peerTxVars>>,
         \A n \in 1 .. MaxPeerUnits :
           n = Have + 1 /\ d.bytes = <<n>> /\ n = peerSent /\ Have' = n => Assembled'
  PROVE  TransfersInv' /\ UnitsMove
<1>1. /\ peerSent \in 1 .. MaxPeerUnits /\ peerSent = Have + 1 /\ d.bytes = <<peerSent>>
  BY FreshUnit DEF TransfersInv
<1>2. DownInv' /\ Have' = peerSent
  BY DownReceives DEF TransfersInv, peerRxVars
<1>3. Assembled'
  BY <1>1, <1>2
<1>4. UnitTaken
  BY <1>1, <1>2 DEF UnitTaken, peerTxVars
<1> QED
  BY <1>2, <1>3, <1>4 DEF TransfersInv, UnitsMove

LEMMA IgnoredStep ==
  ASSUME TransfersInv, ChannelInv', UNCHANGED <<sessionVars, reassembler, received>>,
         toClient' \subseteq toClient, UNCHANGED <<toPeer, peerRxVars, peerTxVars>>
  PROVE  TransfersInv' /\ UnitsMove
<1>1. UNCHANGED <<incoming, incomingReliableAck, lastOutgoing, peerIncoming>>
  BY DEF sessionVars, incomingVars, outgoingVars, peerRxVars
<1>2. \A e \in UpFresh' : e \in UpFresh
  BY <1>1 DEF UpFresh, Age
<1> QED
  BY <1>1, <1>2, NothingMoves

LEMMA ReceiveUnfragmentedStep ==
  ASSUME TransfersInv, NEW d \in toClient, ReceiveUnfragmented(d)
  PROVE  TransfersInv' /\ UnitsMove
<1>1. ChannelInv'
  <2>1. ClientReceive(d)
    BY DEF ReceiveUnfragmented
  <2> QED
    BY <2>1, ChannelInvStep DEF TransfersInv, ChannelNext
<1>2. /\ toClient' \subseteq toClient /\ UNCHANGED <<toPeer, peerRxVars, peerTxVars, reassembler>>
      /\ ~Fragmented(d)
  BY DEF ReceiveUnfragmented, ClientReceive, AfterDelivery
<1>3. CASE Ignored(d) /\ UNCHANGED <<sessionVars, received>>
  BY <1>1, <1>2, <1>3, IgnoredStep
<1>4. CASE Receive(HeaderOf(d), "unfragmented") /\ received' = received \o d.bytes
  <2>1. d \in DownFresh /\ CommitIncoming(Inspection(HeaderOf(d), "unfragmented"))
    <3>1. Newer(d.sequence, incoming)
      BY <1>4 DEF Receive, Acceptable, HeaderOf
    <3> QED
      BY <1>4, <3>1, FreshIsNewer DEF Receive, TransfersInv
  <2>2. /\ incoming' = d.sequence /\ lastOutgoing' = lastOutgoing
        /\ incomingReliableAck' = IF d.reliable THEN ~incomingReliableAck
                                                ELSE incomingReliableAck
  BY <2>1, HeaderTaken DEF HeaderOf, NewReliable
  <2>3. CASE d.reliable
    <3>1. PieceAt(peerSent).count = 0 /\ Have \in Nat
      BY <1>2, <2>1, <2>3, FreshUnfragmented, DownFacts DEF TransfersInv
    <3>2. ASSUME NEW n \in 1 .. MaxPeerUnits,
                 n = Have + 1, d.bytes = <<n>>, n = peerSent, Have' = n
          PROVE  Assembled'
      <4>1. received' = received \o <<n>> /\ PieceAt(n).count = 0 /\ Assembled
        BY <1>4, <3>1, <3>2 DEF TransfersInv
      <4> QED
        BY <1>2, <3>1, <3>2, <4>1, UnfragmentedAdvances
    <3>3. incomingReliableAck' = ~incomingReliableAck
      BY <2>2, <2>3
    <3> QED
      BY <1>1, <1>2, <2>1, <2>2, <2>3, <3>2, <3>3, UnitIsTaken
  <2>4. CASE ~d.reliable
    <3>1. DownInv' /\ Have' = Have
      BY <1>2, <2>1, <2>2, <2>4, DownReceives DEF TransfersInv, peerRxVars
    <3>2. received' = received
      <4>1. received \in Seq(Nat)
        <5>1. /\ Gathered <= Have /\ Have \in Nat /\ Gathered \in Nat
              /\ received = Units(1, Have - Gathered)
          BY DownFacts, PieceTypes DEF TransfersInv, Assembled, Gathered
        <5>2. PICK n \in Nat : n = Have - Gathered
          BY <5>1
        <5> QED
          BY <5>1, <5>2, UnitsProperties
      <4>2. d.bytes = <<>>
        BY <2>4 DEF TransfersInv, DownInv, DownTypes
      <4> QED
        BY <1>4, <4>1, <4>2, ConcatEmptySeq
    <3>3. Assembled'
      BY <1>2, <3>1, <3>2, AssemblyStands DEF TransfersInv
    <3> QED
      BY <1>1, <1>2, <3>1, <3>3 DEF TransfersInv, UnitsMove, UnitsStand, peerTxVars
  <2> QED
    BY <2>3, <2>4
<1> QED
  BY <1>3, <1>4 DEF ReceiveUnfragmented, ClientReceive

LEMMA ReceiveFragmentStep ==
  ASSUME TransfersInv, NEW d \in toClient, ReceiveFragment(d)
  PROVE  TransfersInv' /\ UnitsMove
<1>1. /\ toClient' \subseteq toClient /\ UNCHANGED <<toPeer, peerRxVars, peerTxVars>>
      /\ Fragmented(d)
  BY DEF ReceiveFragment, AfterDelivery
<1>2. CASE Ignored(d) /\ UNCHANGED <<sessionVars, reassembler, received>>
  <2>1. Holding'
    <3>1. [Next]_sessionVars
      BY <1>2
    <3> QED
      BY <3>1, HoldingStep DEF TransfersInv, ChannelInv
  <2>2. ChannelInv'
    BY <1>1, <1>2, <2>1, FewerDatagrams
    DEF TransfersInv, sessionVars, outgoingVars, incomingVars, reliableVars, historyVars,
        peerTxVars
  <2> QED
    BY <1>1, <1>2, <2>2, IgnoredStep
<1>3. CASE AcceptFragment(d)
  <2> DEFINE h == TransferHeader(d)
  <2>1. PICK plan \in Reassembler!Plans(FragmentIn(d), 0) :
          /\ Receive(TransferHeader(d), Classification(plan))
          /\ Reassembler!Apply(plan) /\ UNCHANGED <<valid, held>>
          /\ received' = received \o Completion(plan)
    BY <1>3 DEF AcceptFragment
  <2>2. /\ h.sequence = d.sequence /\ h.ack = d.ack /\ h.ackReliable = d.ackReliable
        /\ h.reliable = d.reliable /\ h.fragmented = Fragmented(d)
    BY DEF TransferHeader, HeaderOf
  <2>3. Newer(d.sequence, incoming) /\ d \in DownFresh
    <3>1. Newer(d.sequence, incoming)
      BY <2>1, <2>2 DEF Receive, Acceptable
    <3> QED
      BY <3>1, FreshIsNewer DEF TransfersInv
  <2>4. /\ plan = Reassembler!InsertPlan(FragmentIn(d), 0)
        /\ Classification(plan) = "new_fragment_unit"
    BY <1>1, <2>3, FreshFragmentIsNew
  <2>5. /\ Receive(h, "new_fragment_unit")
        /\ CommitIncoming(Inspection(h, "new_fragment_unit"))
    BY <2>1, <2>4 DEF Receive
  <2>6. d.reliable /\ FragmentIn(d) = FragmentAt(peerSent) /\ PieceAt(peerSent).count # 0
    BY <1>1, <2>3, FreshFragment DEF TransfersInv
  <2>7. Holding'
    <3>1. h \in NewerHeader
      <4>1. /\ d.sequence \in SeqNum /\ d.ack \in SeqNum
            /\ d.reliable \in BOOLEAN /\ d.ackReliable \in BOOLEAN
        BY DEF TransfersInv, ChannelInv, ChannelTypes
      <4>2. h = [sequence |-> d.sequence, reliable |-> d.reliable, fragmented |-> Fragmented(d),
                 ack |-> d.ack, ackReliable |-> d.ackReliable]
        BY DEF TransferHeader, HeaderOf
      <4>3. Fragmented(d) \in BOOLEAN
        BY DEF Fragmented
      <4> QED
        BY <2>3, <4>1, <4>2, <4>3 DEF NewerHeader
    <3>2. "new_fragment_unit" \in Classifications
      BY DEF Classifications
    <3>3. Next
      BY <2>5, <3>1, <3>2 DEF Next
    <3> QED
      BY <3>3, HoldingStep DEF TransfersInv, ChannelInv
  <2>8. /\ incoming' = d.sequence /\ lastOutgoing' = lastOutgoing
        /\ incomingReliableAck' = ~incomingReliableAck
    <3>1. NewReliable(h, "new_fragment_unit")
      BY <2>2, <2>6 DEF NewReliable
    <3> HIDE DEF h
    <3> QED
      BY <2>2, <2>5, <3>1, HeaderTaken
  <2>9. ChannelInv'
    <3>1. IsHeaderOf(h, d)
      BY <2>2 DEF IsHeaderOf
    <3>2. UNCHANGED <<toPeer, peerRxVars, peerOutgoing, peerSeenAck>>
      BY <1>1 DEF peerTxVars
    <3> HIDE DEF h
    <3> QED
      BY <1>1, <2>3, <2>5, <2>7, <3>1, <3>2, ClientReceives DEF TransfersInv
  <2>10. ASSUME NEW n \in 1 .. MaxPeerUnits,
                n = Have + 1, d.bytes = <<n>>, n = peerSent, Have' = n
         PROVE  Assembled'
    <3>1. /\ plan = Reassembler!InsertPlan(FragmentAt(n), 0)
          /\ PieceAt(n).count # 0 /\ Assembled /\ Have \in Nat
      BY <2>4, <2>6, <2>10, DownFacts DEF TransfersInv
    <3>2. /\ Reassembler!Apply(Reassembler!InsertPlan(FragmentAt(n), 0)) /\ UNCHANGED valid
          /\ received' = received \o Completion(Reassembler!InsertPlan(FragmentAt(n), 0))
      BY <2>1, <3>1
    <3> QED
      BY <2>10, <3>1, <3>2, FragmentAdvances
  <2> QED
    BY <1>1, <2>3, <2>6, <2>8, <2>9, <2>10, UnitIsTaken
<1> QED
  BY <1>2, <1>3 DEF ReceiveFragment

LEMMA TransfersStep ==
  TransfersInv /\ [TransfersNext]_transferVars => TransfersInv' /\ UnitsMove
<1> SUFFICES ASSUME TransfersInv, [TransfersNext]_transferVars
             PROVE  TransfersInv' /\ UnitsMove
  OBVIOUS
<1>1. CASE ClientSend /\ UNCHANGED reassembler
  BY <1>1, ClientSendStep
<1>2. CASE PeerSend /\ UNCHANGED reassembler
  BY <1>2, PeerSendStep
<1>3. CASE Lose /\ UNCHANGED reassembler
  <2>1. ChannelInv'
    BY <1>3, ChannelInvStep DEF TransfersInv, ChannelNext
  <2>2. /\ toPeer' \subseteq toPeer /\ toClient' \subseteq toClient
        /\ UNCHANGED <<sessionVars, peerRxVars, peerTxVars, received>>
    BY <1>3 DEF Lose
  <2>3. UNCHANGED <<incoming, incomingReliableAck, lastOutgoing, peerIncoming>>
    BY <2>2 DEF sessionVars, incomingVars, outgoingVars, peerRxVars
  <2>4. \A e \in UpFresh' : e \in UpFresh
    BY <2>2, <2>3 DEF UpFresh, Age
  <2> QED
    BY <1>3, <2>1, <2>2, <2>3, <2>4, NothingMoves
<1>4. CASE \E d \in toPeer : PeerReceive(d) /\ UNCHANGED reassembler
  BY <1>4, PeerReceiveStep
<1>5. CASE \E d \in toClient : ReceiveFragment(d) \/ ReceiveUnfragmented(d)
  BY <1>5, ReceiveFragmentStep, ReceiveUnfragmentedStep
<1>6. CASE UNCHANGED transferVars
  <2>1. UNCHANGED <<channelVars, reassembler>>
    BY <1>6 DEF transferVars
  <2>2. UNCHANGED <<sessionVars, toPeer, toClient, peerRxVars, peerTxVars, received>>
    BY <2>1 DEF channelVars, netVars
  <2>3. ChannelInv'
    BY <2>1, ChannelInvStep DEF TransfersInv
  <2> QED
    BY <2>1, <2>2, <2>3, IgnoredStep
<1> QED
  BY <1>1, <1>2, <1>3, <1>4, <1>5, <1>6 DEF TransfersNext

LEMMA TransfersInvHolds == TransfersSpec => []TransfersInv
<1>1. TransfersInv /\ [TransfersNext]_transferVars => TransfersInv'
  BY TransfersStep
<1> QED
  BY <1>1, TransfersInvInit, PTL DEF TransfersSpec

(* No loss, repetition or reordering of a correct peer's datagrams makes    *)
(* process_fragment_packet refuse one: the fragment in it is the next of   *)
(* its transfer and the acknowledgement is one the session takes.          *)
THEOREM TransfersTakeEveryFragment == TransfersSpec => []CorrectFragmentIsTaken
<1>1. TransfersInv => CorrectFragmentIsTaken
  <2> SUFFICES ASSUME TransfersInv, NEW d \in toClient, ~Ignored(d)
               PROVE  \/ ~Fragmented(d) /\ Acceptable(HeaderOf(d), "unfragmented")
                      \/ /\ Fragmented(d)
                         /\ \E plan \in Reassembler!Plans(FragmentIn(d), 0) :
                              Acceptable(TransferHeader(d), Classification(plan))
    BY DEF CorrectFragmentIsTaken
  <2>1. d \in DownFresh /\ Newer(d.sequence, incoming)
    BY FreshIsNewer DEF TransfersInv
  <2>2. CASE ~Fragmented(d)
    BY <2>1, <2>2, FreshIsAcceptable DEF TransfersInv
  <2>3. CASE Fragmented(d)
    <3>1. /\ TransferHeader(d).sequence = d.sequence /\ TransferHeader(d).ack = d.ack
          /\ TransferHeader(d).reliable = d.reliable
          /\ TransferHeader(d).fragmented = Fragmented(d)
      BY DEF TransferHeader, HeaderOf
    <3>2. d.reliable
      BY <2>1, <2>3, FreshFragment DEF TransfersInv
    <3>3. Acceptable(TransferHeader(d), "new_fragment_unit")
      BY <2>1, <2>3, <3>1, <3>2, FreshAcknowledgement DEF Acceptable, TransfersInv
    <3> QED
      BY <2>1, <2>3, <3>3, FreshFragmentIsNew
  <2> QED
    BY <2>2, <2>3
<1> QED
  BY <1>1, TransfersInvHolds, PTL

-----------------------------------------------------------------------------
(* The way down implements ReliableDelivery.                               *)

LEMMA CollectedIsARun ==
  TransfersInv => Collected = Units(1, Have) /\ Have \in Nat /\ peerSent \in Nat
<1> SUFFICES ASSUME TransfersInv PROVE Collected = Units(1, Have) /\ Have \in Nat /\ peerSent \in Nat
  OBVIOUS
<1>1. /\ Have \in Nat /\ peerSent \in Nat /\ Gathered \in Nat /\ Gathered <= Have
      /\ received = Units(1, Have - Gathered) /\ ranges = [i \in 1 .. Gathered |-> 1]
  BY DownFacts, PieceTypes DEF TransfersInv, Assembled, Gathered
<1>2. Cardinality(DOMAIN ranges) = Gathered
  <2>1. DOMAIN ranges = 1 .. Gathered
    BY <1>1
  <2>2. Cardinality(1 .. Gathered) = IF 1 > Gathered THEN 0 ELSE Gathered - 1 + 1
    BY <1>1, FS_Interval
  <2> QED
    BY <1>1, <2>1, <2>2
<1>3. bytes \in Seq(Nat) /\ Gathered <= Len(bytes)
      /\ \A k \in 1 .. Gathered : bytes[k] = Have - Gathered + k
  <2>1. CASE Gathered = 0
    BY <2>1 DEF TransfersInv, Assembled
  <2>2. CASE Gathered # 0
    <3>1. /\ bytes \in Seq(Nat) /\ Len(bytes) = PieceAt(Have).count
          /\ \A k \in 1 .. Gathered : bytes[k] = Have - Gathered + k
      BY <2>2 DEF TransfersInv, Assembled
    <3>2. Gathered <= PieceAt(Have).count
      <4>1. PieceAt(Have).index < PieceAt(Have).count /\ Gathered = PieceAt(Have).index
        BY <2>2 DEF Gathered, UnderWay
      <4>2. PieceAt(Have).count \in Nat
        BY DownFacts, PieceTypes, NetworkAssumption DEF TransfersInv
      <4> QED
        BY <1>1, <4>1, <4>2
    <3> QED
      BY <3>1, <3>2
  <2> QED
    BY <2>1, <2>2
<1>4. PICK g, a, n \in Nat : g = Gathered /\ n = Have /\ a = n - g /\ a + g = n /\ g <= n
  BY <1>1
<1>5. SubSeq(bytes, 1, g) = Units(1 + (n - g), g)
  BY <1>3, <1>4, ImageIsARun
<1>6. Units(1, a) \o Units(1 + a, g) = Units(1, a + g)
  BY UnitsJoin
<1> QED
  BY <1>1, <1>2, <1>4, <1>5, <1>6 DEF Collected

LEMMA CollectedIsARunNext == TransfersInv' => Collected' = Units(1, Have') /\ Have' \in Nat
<1>1. TransfersInv => Collected = Units(1, Have) /\ Have \in Nat
  BY CollectedIsARun
<1>2. (TransfersInv => Collected = Units(1, Have) /\ Have \in Nat)'
  BY <1>1, PTL
<1> QED
  BY <1>2

LEMMA DownlinkStep ==
  ASSUME TransfersInv, TransfersInv', UnitsMove
  PROVE  [Fragments!Next]_(Fragments!serviceVars)
<1> USE DEF Fragments!serviceVars
<1> DEFINE released == peerSent - (IF peerInFlight = None THEN 0 ELSE 1)
<1>1. /\ Collected = Units(1, Have) /\ Have \in Nat /\ peerSent \in Nat
      /\ Collected' = Units(1, Have') /\ Have' \in Nat
      /\ peerInFlight # None => peerSent > 0
  BY CollectedIsARun, CollectedIsARunNext DEF TransfersInv, DownInv, DownTypes
<1>2. Len(Collected) = Have /\ Len(Collected') = Have'
  BY <1>1, UnitsProperties
<1> HIDE DEF released
<1>3. CASE UnitsStand
  <2>1. released' = released
    BY <1>3 DEF UnitsStand, released
  <2> QED
    BY <1>1, <1>3, <2>1 DEF UnitsStand, released
<1>4. CASE UnitSent
  <2>1. peerSent' \in Nat /\ peerSent' > peerSent
    BY <1>1, <1>4 DEF UnitSent
  <2>2. released' = released
    <3>1. released = peerSent - 0 /\ released' = (peerSent + 1) - 1
      BY <1>4 DEF UnitSent, released
    <3> QED
      BY <1>1, <3>1
  <2>3. Collected' = Collected
    BY <1>1, <1>4 DEF UnitSent
  <2> QED
    BY <2>1, <2>2, <2>3 DEF Fragments!Next, Fragments!Submit, released
<1>5. CASE UnitTaken
  <2>1. Len(Collected') > Len(Collected) /\ Len(Collected') <= peerSent
    BY <1>1, <1>2, <1>5 DEF UnitTaken
  <2>2. Collected' = [i \in 1 .. Len(Collected') |-> i]
    <3>1. PICK n \in Nat : n = Have'
      BY <1>1
    <3>2. Units(1, n) = [i \in 1 .. n |-> i]
      BY DEF Units
    <3> QED
      BY <1>1, <1>2, <3>1, <3>2
  <2>3. peerSent' = peerSent /\ released' = released
    BY <1>5 DEF UnitTaken, released
  <2> QED
    BY <2>1, <2>2, <2>3 DEF Fragments!Next, Fragments!Deliver, released
<1>6. CASE UnitReleased
  <2>1. released = peerSent - 1 /\ released' = peerSent - 0
    BY <1>6 DEF UnitReleased, released
  <2>2. released' \in Nat /\ released' > released /\ released' = peerSent
    BY <1>1, <2>1
  <2>3. Have = peerSent
    <3>1. Have' = peerSent' - 0
      BY <1>6 DEF UnitReleased, Have
    <3> QED
      BY <1>1, <1>6, <3>1 DEF UnitReleased
  <2>4. Collected' = Collected /\ peerSent' = peerSent
    BY <1>1, <1>6 DEF UnitReleased
  <2>5. released' <= Len(Collected)
    BY <1>1, <1>2, <2>2, <2>3
  <2> QED
    BY <2>2, <2>4, <2>5 DEF Fragments!Next, Fragments!Release, released
<1> QED
  BY <1>3, <1>4, <1>5, <1>6 DEF UnitsMove

(* The reassembler is handed each fragment of the peer once and in order,  *)
(* and the session's bit tells the peer so only after that: across loss,   *)
(* repetition and reordering of the datagrams the peer's units, whole or   *)
(* in fragments, arrive as ReliableDelivery promises.                      *)
THEOREM TransfersImplementReliableDelivery == TransfersSpec => FragmentsAreReliable
<1>1. TransfersInit => Fragments!Init
  <2> SUFFICES ASSUME TransfersInit PROVE Fragments!Init
    OBVIOUS
  <2>1. TransfersInv /\ peerInFlight = None /\ peerSent = 0
    BY TransfersInvInit DEF TransfersInit, ChannelInit
  <2>2. Have = 0
    BY <2>1 DEF Have
  <2>3. Collected = <<>>
    BY <2>1, <2>2, CollectedIsARun DEF Units
  <2> QED
    BY <2>1, <2>3 DEF Fragments!Init
<1>2. TransfersInv /\ [TransfersNext]_transferVars /\ TransfersInv'
        => [Fragments!Next]_(Fragments!serviceVars)
  BY TransfersStep, DownlinkStep
<1> QED
  BY <1>1, <1>2, TransfersInvHolds, PTL DEF TransfersSpec, FragmentsAreReliable, Fragments!Spec
=============================================================================
