---------------------------- MODULE NetchanChannel ----------------------------
(***************************************************************************)
(* The client's session and a stock Protocol 48 peer, joined by a network  *)
(* that loses, repeats and reorders datagrams.  The client's end is        *)
(* NetchanSession; the peer is outside the repository and is modelled from *)
(* what the session's ACK rules rely on.                                   *)
(***************************************************************************)
EXTENDS NetchanSession

CONSTANTS
  NetLifetime,      \* bound: later datagrams of its direction a datagram can outlive
  SendWindow,       \* bound: numbers the client may run ahead of the peer's acknowledgement
  PeerWindow,       \* bound: the same for the peer
  MaxPeerUnits,     \* bound: reliable units the peer sends
  Losses,           \* whether datagrams are lost outright, besides those that grow too old
  Duplicates,       \* whether a delivered datagram may be delivered again
  IdlePoll          \* config_.idle_poll_interval > 0

ASSUME NetworkAssumption ==
  /\ NetLifetime \in Nat \ {0} /\ NetLifetime < HalfRange
  /\ SendWindow \in Nat \ {0} /\ SendWindow + 3 < HalfRange
  /\ PeerWindow \in Nat \ {0} /\ PeerWindow + 2 < HalfRange
  /\ MaxPeerUnits \in Nat /\ Duplicates \in BOOLEAN /\ Losses \in BOOLEAN /\ IdlePoll \in BOOLEAN

VARIABLES
  toPeer, toClient,     \* datagrams under way
  peerIncoming,         \* newest client sequence the peer has admitted
  peerGeneration,       \* the reliable bit the peer acknowledges with
  peerOutgoing,         \* last sequence the peer sent
  peerSeenAck,          \* newest of its own sequences the client acknowledged
  peerInFlight,         \* the peer's unacknowledged reliable unit, or None
  peerToggle,           \* generation of the peer's last reliable unit
  peerSent,             \* reliable units the peer has put in flight
  delivered,            \* units of the client the peer has admitted
  received              \* units of the peer the client has admitted

netVars     == <<toPeer, toClient>>
peerRxVars  == <<peerIncoming, peerGeneration, delivered>>
peerTxVars  == <<peerOutgoing, peerSeenAck, peerInFlight, peerToggle, peerSent>>
channelVars == <<sessionVars, netVars, peerRxVars, peerTxVars, received>>

ChannelInit ==
  /\ Init
  /\ toPeer = {} /\ toClient = {}
  /\ peerIncoming = 0 /\ peerGeneration = FALSE /\ delivered = <<>>
  /\ peerOutgoing = 0 /\ peerSeenAck = 0
  /\ peerInFlight = None /\ peerToggle = FALSE /\ peerSent = 0
  /\ received = <<>>

-----------------------------------------------------------------------------
(* The network.                                                            *)

\* Sending a datagram ages the others of its direction.
Put(net, datagram) ==
  {datagram} \cup
  {d \in net : SequenceDistance(datagram.sequence, d.sequence) <= NetLifetime}

\* A delivered datagram may stay behind and be delivered again.
AfterDelivery(net, datagram) ==
  {net \ {datagram}} \cup (IF Duplicates THEN {net} ELSE {})

ClientWindowOpen == SequenceDistance(nextOutgoing, peerAck) <= SendWindow
PeerWindowOpen   == SequenceDistance(NextSeq(peerOutgoing), peerSeenAck) <= PeerWindow

\* The bounds alone must not leave both ends waiting for each other: then one
\* datagram more than the window is let out.
ClientMaySend ==
  \/ ClientWindowOpen
  \/ /\ ~PeerWindowOpen /\ peerSeenAck # incoming /\ toPeer = {} /\ toClient = {}
     /\ SequenceDistance(nextOutgoing, peerAck) = SendWindow + 1

Newest(net) == CHOOSE d \in net : \A e \in net : Covers(d.sequence, e.sequence)

\* The bound on the window must not turn a loss into silence: the last datagram
\* it lets a sender send is not lost.
Lose ==
  /\ Losses
  /\ \/ /\ ClientWindowOpen
        /\ \E d \in toPeer : toPeer' = toPeer \ {d}
        /\ UNCHANGED toClient
     \/ /\ PeerWindowOpen
        /\ \E d \in toClient : toClient' = toClient \ {d}
        /\ UNCHANGED toPeer
  /\ UNCHANGED <<sessionVars, peerRxVars, peerTxVars, received>>

-----------------------------------------------------------------------------
(* The client.                                                             *)

Datagram(p) ==
  [sequence |-> p.sequence, reliable |-> p.reliable, fragmented |-> p.fragmented,
   ack |-> p.ack, ackReliable |-> p.ackReliable, bytes |-> p.bytes]

ClientQueue(n) ==
  /\ QueueReliable(n)
  /\ UNCHANGED <<netVars, peerRxVars, peerTxVars, received>>

ClientTransmit ==
  /\ ClientMaySend
  /\ Transmit(0)
  /\ toPeer' = Put(toPeer, Datagram(Plan(0)))
  /\ UNCHANGED <<toClient, peerRxVars, peerTxVars, received>>

\* A payload that waits behind the one in flight counts as work although the
\* datagram it causes carries neither.
HasReliableWork ==
  pending # <<>> \/ ReliableDecision \notin {"none", "blocked_waiting_for_ack"}

\* send_pending with reliable work to do.
ClientSendReliable == HasReliableWork /\ ClientTransmit

\* send_pending without it: an idle poll, which carries the acknowledgement
\* alone and is sent only once the first acknowledgement is out.
ClientNeverPolls ==   \* mutant: the interval never elapses
  /\ FALSE
  /\ ClientTransmit
ClientPoll ==
  /\ IdlePoll /\ firstAckSent
  /\ ~HasReliableWork
  /\ ClientTransmit

\* Sent as the first datagram is received, so the bound on the window does not
\* hold it back.
ClientFirstAck ==
  /\ SendFirstAck
  /\ toPeer' = Put(toPeer, Datagram(FirstAckPlan))
  /\ UNCHANGED <<toClient, peerRxVars, peerTxVars, received>>

\* What an update of the driver sends, at most one of the three being possible
\* once the first acknowledgement is out.
ClientSend == ClientSendReliable \/ ClientPoll \/ ClientFirstAck

HeaderOf(d) == [sequence |-> d.sequence, reliable |-> d.reliable, fragmented |-> FALSE,
                ack |-> d.ack, ackReliable |-> d.ackReliable]

Ignored(d) == ~Newer(d.sequence, incoming) /\ ~Ambiguous(d.sequence, incoming)

\* process_target_datagram for an unfragmented datagram: one that is not newer
\* is ignored, and the reliable units of one that is are published.
ClientReceive(d) ==
  /\ toClient' \in AfterDelivery(toClient, d)
  /\ \/ /\ Receive(HeaderOf(d), "unfragmented")
        /\ received' = received \o d.bytes
     \/ /\ Ignored(d)
        /\ UNCHANGED <<sessionVars, received>>
  /\ UNCHANGED <<toPeer, peerRxVars, peerTxVars>>

-----------------------------------------------------------------------------
(* The peer.  It admits newer datagrams, flips the bit it acknowledges     *)
(* with for each reliable one, and sends its own reliable units by the     *)
(* same rules.                                                             *)

PeerAdmits(d) ==
  /\ peerIncoming' = d.sequence
  /\ peerGeneration' = IF d.reliable THEN ~peerGeneration ELSE peerGeneration
  /\ delivered' = delivered \o d.bytes
  /\ peerSeenAck' = d.ack
  /\ peerInFlight' =
       CASE peerInFlight = None -> None
         [] peerInFlight # None /\ d.ackReliable = peerInFlight.toggle
            /\ Covers(d.ack, peerInFlight.mostRecent) -> None
         [] peerInFlight # None /\ d.ackReliable # peerInFlight.toggle
            /\ Newer(d.ack, peerInFlight.mostRecent) ->
              [peerInFlight EXCEPT !.retransmit = TRUE]
         [] OTHER -> peerInFlight
  /\ UNCHANGED <<peerOutgoing, peerToggle, peerSent>>

PeerReceive(d) ==
  /\ toPeer' \in AfterDelivery(toPeer, d)
  /\ \/ Newer(d.sequence, peerIncoming) /\ PeerAdmits(d)
     \/ ~Newer(d.sequence, peerIncoming) /\ UNCHANGED <<peerRxVars, peerTxVars>>
  /\ UNCHANGED <<sessionVars, toClient, received>>

PeerPacket(isReliable, units) ==
  [sequence |-> NextSeq(peerOutgoing), reliable |-> isReliable,
   ack |-> peerIncoming, ackReliable |-> peerGeneration, bytes |-> units]

\* A new unit, another copy of the unit in flight, or no reliable unit.
PeerSendNew ==
  /\ peerInFlight = None /\ peerSent < MaxPeerUnits
  /\ peerSent' = peerSent + 1
  /\ peerToggle' = ~peerToggle
  /\ peerInFlight' = [bytes |-> <<peerSent + 1>>, toggle |-> ~peerToggle,
                      mostRecent |-> NextSeq(peerOutgoing), retransmit |-> FALSE]
  /\ toClient' = Put(toClient, PeerPacket(TRUE, <<peerSent + 1>>))

PeerResend ==
  /\ peerInFlight # None /\ peerInFlight.retransmit
  /\ peerInFlight' = [peerInFlight EXCEPT !.mostRecent = NextSeq(peerOutgoing),
                                          !.retransmit = FALSE]
  /\ toClient' = Put(toClient, PeerPacket(TRUE, peerInFlight.bytes))
  /\ UNCHANGED <<peerSent, peerToggle>>

PeerSendUnreliable ==
  /\ toClient' = Put(toClient, PeerPacket(FALSE, <<>>))
  /\ UNCHANGED <<peerSent, peerToggle, peerInFlight>>

PeerSend ==
  /\ PeerWindowOpen
  /\ PeerSendNew \/ PeerResend \/ PeerSendUnreliable
  /\ peerOutgoing' = NextSeq(peerOutgoing)
  /\ UNCHANGED <<sessionVars, toPeer, peerRxVars, peerSeenAck, received>>

ChannelNext ==
  \/ \E n \in 1 .. MaxAccepted : ClientQueue(n)
  \/ ClientSend
  \/ \E d \in toClient : ClientReceive(d)
  \/ \E d \in toPeer : PeerReceive(d)
  \/ PeerSend
  \/ Lose

ChannelSpec == ChannelInit /\ [][ChannelNext]_channelVars

PeerAdmitsReliable ==
  \E d \in toPeer : /\ d.reliable /\ Newer(d.sequence, peerIncoming)
                    /\ PeerReceive(d)

(* The driver is updated for as long as it is active, so it keeps sending  *)
(* what it has to send; the peer keeps sending; and the network does not   *)
(* lose every datagram, nor lose or overtake every reliable one.           *)
FairChannelSpec ==
  /\ ChannelSpec
  /\ WF_channelVars(ClientSend)
  /\ WF_channelVars(PeerSend)
  /\ SF_channelVars(toClient # {} /\ ClientReceive(Newest(toClient)))
  /\ SF_channelVars(toPeer # {} /\ PeerReceive(Newest(toPeer)))
  /\ SF_channelVars(PeerAdmitsReliable)

-----------------------------------------------------------------------------
(* Whatever the network does, the client's reliable units reach the peer   *)
(* once each and in order, and the session drops a unit only after the     *)
(* peer has admitted it.                                                   *)
Uplink == INSTANCE ReliableDelivery
            WITH submitted <- accepted, delivered <- delivered, released <- retired
UplinkIsReliable == Uplink!Spec

(* A datagram of a correct peer never looks like a protocol violation to   *)
(* the session, however late, repeated or out of order it arrives: it is   *)
(* ignored or admitted.                                                    *)
CorrectPeerIsNeverRejected ==
  \A d \in toClient :
    Ignored(d) \/ Acceptable(HeaderOf(d), "unfragmented")

(* No datagram of the client starts with the word that marks another kind  *)
(* of datagram, not even at the wrap of the sequence numbers.              *)
NeverTakenForAnotherKind ==
  \A d \in toPeer :
    EncodeSequenceWord(d.sequence, d.reliable, d.fragmented) \notin ClassifierWords

(* Everything accepted is eventually acknowledged and released, although a *)
(* lost reliable datagram is only repeated after some later datagram of    *)
(* the client has been acknowledged.                                       *)
EverythingIsDelivered ==
  \A n \in 1 .. MaxAccepted : accepted >= n ~> retired >= n
=============================================================================
