--------------------------- MODULE NetchanTransfers ---------------------------
(***************************************************************************)
(* The way down once more, with a peer that fragments: its reliable units   *)
(* are the fragments of transfers, sent one at a time, with unfragmented    *)
(* ones in between.  A datagram's fragment goes through the reassembler,    *)
(* which tells the session whether it is new; both are then committed.     *)
(* Time stands still: a transfer that reaches its deadline ends the         *)
(* connection.                                                             *)
(***************************************************************************)
EXTENDS NetchanChannel, FiniteSets

CONSTANTS
  Pieces        \* the peer's units in order: [count, index], count 0 if unfragmented

\* The n-th unit; what comes before the first counts as unfragmented.
Unfragmented == [count |-> 0, index |-> 0]
PieceAt(n) == IF n = 0 THEN Unfragmented ELSE Pieces[n]
UnderWay(piece) == piece.index < piece.count

\* The fragments of a transfer are sent in order with nothing in between, and are
\* no more than the reassembler takes.
ASSUME PiecesAssumption ==
  /\ Len(Pieces) = MaxPeerUnits
  /\ \A n \in 1 .. MaxPeerUnits :
       /\ Pieces[n] \in [count : 0 .. MaxPeerUnits, index : Nat]
       /\ IF UnderWay(PieceAt(n - 1))
          THEN Pieces[n] = [PieceAt(n - 1) EXCEPT !.index = @ + 1]
          ELSE Pieces[n] = Unfragmented \/ (Pieces[n].count > 0 /\ Pieces[n].index = 1)

VARIABLES active, bytes, ranges, tombstone, nextId, revision, valid, held, published

reassembler == <<active, bytes, ranges, tombstone, nextId, revision, valid, held, published>>
transferVars == <<channelVars, reassembler>>

Reassembler ==
  INSTANCE NetchanReassembly
    WITH ChunkSize <- 1, MaxPayload <- 1, MaxSize <- MaxPeerUnits,
         MaxFragments <- MaxPeerUnits, MaxRanges <- MaxPeerUnits, Timeout <- 1,
         MaxTime <- 1, MaxId <- MaxPeerUnits + 1, MaxRevision <- MaxPeerUnits,
         Byte <- 0 .. MaxPeerUnits, Zero <- 0,
         Payload <- {<<n>> : n \in 1 .. MaxPeerUnits}

\* The absence of a transfer is none of the values it stands beside.
ASSUME TransfersNone == None \notin Nat \cup Reassembler!TransferState \cup Seq(Nat)

TransfersInit == ChannelInit /\ Reassembler!Init

-----------------------------------------------------------------------------
Piece(d) == IF d.bytes = <<>> THEN Unfragmented ELSE Pieces[d.bytes[1]]
Fragmented(d) == Piece(d).count # 0
FragmentIn(d) == [count |-> Piece(d).count, index |-> Piece(d).index, payload |-> d.bytes]
TransferHeader(d) == [HeaderOf(d) EXCEPT !.fragmented = Fragmented(d)]

Classification(plan) ==
  IF plan.unchanged THEN "exact_fragment_retransmission" ELSE "new_fragment_unit"
Completion(plan) ==
  IF plan.unchanged THEN <<>> ELSE IF plan.completion = None THEN <<>> ELSE plan.completion

\* process_fragment_packet: prepare the insert, inspect the header, commit both.
AcceptFragment(d) ==
  \E plan \in Reassembler!Plans(FragmentIn(d), 0) :
    /\ Receive(TransferHeader(d), Classification(plan))
    /\ Reassembler!Apply(plan) /\ UNCHANGED <<valid, held>>
    /\ received' = received \o Completion(plan)

\* process_target_datagram looks at the number before either.
ReceiveAnyFragment(d) ==   \* mutant: an old fragment reaches the reassembler
  /\ toClient' \in AfterDelivery(toClient, d)
  /\ Fragmented(d)
  /\ \/ AcceptFragment(d)
     \/ /\ Ignored(d)
        /\ \E plan \in Reassembler!Plans(FragmentIn(d), 0) :
             /\ Reassembler!Apply(plan) /\ UNCHANGED <<valid, held>>
             /\ received' = received \o Completion(plan)
        /\ UNCHANGED sessionVars
  /\ UNCHANGED <<toPeer, peerRxVars, peerTxVars>>

ReceiveFragment(d) ==
  /\ toClient' \in AfterDelivery(toClient, d)
  /\ Fragmented(d)
  /\ \/ AcceptFragment(d)
     \/ /\ Ignored(d)
        /\ UNCHANGED <<sessionVars, reassembler, received>>
  /\ UNCHANGED <<toPeer, peerRxVars, peerTxVars>>

ReceiveUnfragmented(d) ==
  /\ ~Fragmented(d)
  /\ ClientReceive(d)
  /\ UNCHANGED reassembler

TransfersNext ==
  \/ (ClientSend \/ PeerSend \/ Lose) /\ UNCHANGED reassembler
  \/ \E d \in toPeer : PeerReceive(d) /\ UNCHANGED reassembler
  \/ \E d \in toClient : ReceiveFragment(d) \/ ReceiveUnfragmented(d)

TransfersSpec == TransfersInit /\ [][TransfersNext]_transferVars

-----------------------------------------------------------------------------
\* The units the client has: those of complete transfers, then those held in the
\* image of the transfer under way.
Collected == received \o SubSeq(bytes, 1, Cardinality(DOMAIN ranges))

(* The peer's units reach the client once each and in order, whether they  *)
(* are published or still held in the image, and the peer is told so for    *)
(* exactly those: each fragment flips the acknowledging bit once.          *)
Fragments == INSTANCE ReliableDelivery
               WITH submitted <- peerSent, delivered <- Collected,
                    released <- peerSent - (IF peerInFlight = None THEN 0 ELSE 1)
FragmentsAreReliable == Fragments!Spec

(* The reassembler and the session both take every newer datagram of a      *)
(* correct peer, so that no loss, repetition or reordering can end the      *)
(* connection.                                                             *)
CorrectFragmentIsTaken ==
  \A d \in toClient :
    \/ Ignored(d)
    \/ ~Fragmented(d) /\ Acceptable(HeaderOf(d), "unfragmented")
    \/ /\ Fragmented(d)
       /\ \E plan \in Reassembler!Plans(FragmentIn(d), 0) :
            Acceptable(TransferHeader(d), Classification(plan))
=============================================================================
