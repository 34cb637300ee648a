------------------------- MODULE NetchanSessionProofs -------------------------
(***************************************************************************)
(* Proofs about NetchanSession, for every value of its constants: its       *)
(* types, and that it holds exactly the accepted units it has not let go    *)
(* of, in order.                                                           *)
(***************************************************************************)
EXTENDS NetchanSession, SequenceTheorems, TLAPS

(* Consecutive units make a sequence of units of that length.              *)
LEMMA UnitsProperties ==
  ASSUME NEW first \in Nat, NEW n \in Nat
  PROVE  /\ Units(first, n) \in Seq(Nat)
         /\ Len(Units(first, n)) = n
         /\ \A i \in 1 .. n : Units(first, n)[i] = first + i - 1
<1>1. Units(first, n) \in [1 .. n -> Nat]
  BY DEF Units
<1>2. Units(first, n) \in Seq(Nat)
  BY <1>1
<1>3. Len(Units(first, n)) = n
  BY <1>1
<1> QED
  BY <1>2, <1>3 DEF Units

(* The number of fragments is that of a ceiling division: all but the last *)
(* fragment are full, and the last one reaches the end.                    *)
LEMMA FragmentCountProperties ==
  ASSUME NEW size \in Nat \ {0}
  PROVE  /\ FragmentCount(size) \in Nat \ {0}
         /\ (FragmentCount(size) - 1) * FragmentSize < size
         /\ size <= FragmentCount(size) * FragmentSize
<1> DEFINE q == (size - 1) \div FragmentSize
<1>1. FragmentSize \in Nat \ {0}
  BY LimitsAssumption
<1>2. q \in Nat /\ q * FragmentSize <= size - 1 /\ size - 1 < (q + 1) * FragmentSize
  BY <1>1, SMTT(30)
<1> QED
  BY <1>1, <1>2 DEF FragmentCount

(* Counting fragments: the offset of a fragment that is not the last leaves *)
(* a full fragment before the end of the payload.                          *)
LEMMA FragmentOffsets ==
  ASSUME NEW size \in Nat \ {0}, NEW index \in 1 .. FragmentCount(size)
  PROVE  /\ (index - 1) * FragmentSize \in Nat
         /\ index * FragmentSize = (index - 1) * FragmentSize + FragmentSize
         /\ (index - 1) * FragmentSize < size
         /\ index < FragmentCount(size) => index * FragmentSize < size
         /\ index = FragmentCount(size) => size <= index * FragmentSize
<1>1. FragmentSize \in Nat \ {0} /\ FragmentCount(size) \in Nat
  BY LimitsAssumption, FragmentCountProperties
<1>2. \A a, b \in Nat : a <= b => a * FragmentSize <= b * FragmentSize
  BY <1>1, SMTT(30)
<1>3. (index - 1) * FragmentSize <= (FragmentCount(size) - 1) * FragmentSize
  BY <1>1, <1>2
<1>4. index < FragmentCount(size) =>
        index * FragmentSize <= (FragmentCount(size) - 1) * FragmentSize
  BY <1>1, <1>2
<1>5. (index - 1) * FragmentSize \in Nat
  BY <1>1, SMTT(30)
<1>6. index * FragmentSize = (index - 1) * FragmentSize + FragmentSize
  BY <1>1, SMTT(30)
<1>7. (FragmentCount(size) - 1) * FragmentSize \in Nat /\ index * FragmentSize \in Nat
  BY <1>1, SMTT(30)
<1>8. /\ (FragmentCount(size) - 1) * FragmentSize < size
      /\ size <= FragmentCount(size) * FragmentSize
  BY FragmentCountProperties
<1>9. (index - 1) * FragmentSize < size
  BY <1>3, <1>5, <1>7, <1>8
<1>10. index < FragmentCount(size) => index * FragmentSize < size
  BY <1>4, <1>7, <1>8
<1>11. index = FragmentCount(size) => size <= index * FragmentSize
  BY <1>8
<1> QED
  BY <1>5, <1>6, <1>9, <1>10, <1>11

(* A fragment is a sequence of units.                                      *)
LEMMA FragmentOfType ==
  ASSUME NEW bytes \in Seq(Nat), NEW index \in Nat \ {0}
  PROVE  FragmentOf(bytes, index) \in Seq(Nat)
<1> DEFINE offset == (index - 1) * FragmentSize
           end == offset + FragmentSize
           last == IF end <= Len(bytes) THEN end ELSE Len(bytes)
<1>1. FragmentSize \in Nat \ {0}
  BY LimitsAssumption
<1>2. offset \in Nat
  BY <1>1, SMTT(30)
<1> HIDE DEF offset
<1>3. last \in Nat /\ last <= Len(bytes) /\ offset + 1 \in Nat /\ offset + 1 >= 1
  BY <1>1, <1>2
<1>4. SubSeq(bytes, offset + 1, last) \in Seq(Nat)
  BY <1>2, <1>3, SubSeqProperties
<1> QED
  BY <1>4 DEF FragmentOf, offset

(* A fragment within a payload: its length, and the units it holds.        *)
LEMMA FragmentOfProperties ==
  ASSUME NEW bytes \in Seq(Nat), Len(bytes) > 0,
         NEW index \in 1 .. FragmentCount(Len(bytes))
  PROVE  /\ FragmentOf(bytes, index) \in Seq(Nat)
         /\ Len(FragmentOf(bytes, index)) =
              IF index < FragmentCount(Len(bytes)) THEN FragmentSize
              ELSE Len(bytes) - (index - 1) * FragmentSize
         /\ \A i \in 1 .. Len(FragmentOf(bytes, index)) :
              /\ (index - 1) * FragmentSize + i \in 1 .. Len(bytes)
              /\ FragmentOf(bytes, index)[i] = bytes[(index - 1) * FragmentSize + i]
<1> DEFINE offset == (index - 1) * FragmentSize
           end == offset + FragmentSize
           last == IF end <= Len(bytes) THEN end ELSE Len(bytes)
           count == FragmentCount(Len(bytes))
<1>1. FragmentSize \in Nat \ {0} /\ Len(bytes) \in Nat \ {0} /\ count \in Nat \ {0}
  BY LimitsAssumption, FragmentCountProperties
<1>2. /\ offset \in Nat /\ offset < Len(bytes)
      /\ index < count => end < Len(bytes)
      /\ index = count => Len(bytes) <= end
  BY <1>1, FragmentOffsets
<1> HIDE DEF offset, count
<1>3. last \in offset + 1 .. Len(bytes)
  BY <1>1, <1>2
<1>4. /\ SubSeq(bytes, offset + 1, last) \in Seq(Nat)
      /\ Len(SubSeq(bytes, offset + 1, last)) = last - offset
      /\ \A i \in 1 .. last - offset :
           /\ offset + i \in 1 .. Len(bytes)
           /\ SubSeq(bytes, offset + 1, last)[i] = bytes[offset + i]
  <2>1. offset + 1 .. last \subseteq 1 .. Len(bytes)
    BY <1>2, <1>3
  <2>2. offset + 1 \in Int /\ last \in Int /\ \A i \in offset + 1 .. last : bytes[i] \in Nat
    BY <1>2, <1>3, <2>1
  <2>3. /\ SubSeq(bytes, offset + 1, last) \in Seq(Nat)
        /\ Len(SubSeq(bytes, offset + 1, last)) = last - (offset + 1) + 1
        /\ \A i \in 1 .. last - (offset + 1) + 1 :
             SubSeq(bytes, offset + 1, last)[i] = bytes[offset + 1 + i - 1]
    <3> HIDE DEF last
    <3> QED
      BY <1>3, <2>2, SubSeqProperties, SMTT(30)
  <2> HIDE DEF last
  <2> QED
    BY <1>1, <1>2, <1>3, <2>1, <2>3
<1>5. index \in Nat /\ (index < count \/ index = count)
  BY <1>1 DEF count
<1>6. last - offset = IF index < count THEN FragmentSize ELSE Len(bytes) - offset
  BY <1>1, <1>2, <1>5
<1>7. FragmentOf(bytes, index) = SubSeq(bytes, offset + 1, last)
  BY DEF FragmentOf, offset
<1> QED
  BY <1>4, <1>6, <1>7 DEF offset, count

-----------------------------------------------------------------------------
(* Types.                                                                  *)

LEMMA NextSeqType == \A s \in SeqNum : NextSeq(s) \in SeqNum
  BY HalfRangeAssumption DEF NextSeq, SeqNum, SeqModulus

(* What a plan may hold in a well-typed state.                             *)
LEMMA PlanType ==
  ASSUME TypeOK, NEW u
  PROVE  /\ Plan(u).toggle \in BOOLEAN
         /\ Plan(u).bytes \in Seq(Nat)
         /\ Plan(u).decision = "send_new_fragment" /\ transfer = None =>
              /\ Plan(u).count = FragmentCount(Len(pending)) /\ Plan(u).index = 1
              /\ Len(pending) > 0
         /\ Plan(u).decision \in {"retransmit", "retransmit_fragment"} => inFlight # None
<1>1. inFlight # None => inFlight.toggle \in BOOLEAN /\ inFlight.bytes \in Seq(Nat)
  BY DEF TypeOK, InFlightPayload
<1>2. ReliableDecision \in FragmentDecisions =>
        CurrentTransfer.bytes \in Seq(Nat) /\ CurrentTransfer.index \in Nat \ {0}
  BY DEF TypeOK, CurrentTransfer, FragmentTransfer
<1>3. ReliableUnits(ReliableDecision) \in Seq(Nat)
  BY <1>1, <1>2, FragmentOfType DEF ReliableUnits, ReliableDecision, FragmentDecisions, TypeOK
<1>4. Plan(u).bytes \in Seq(Nat)
  BY <1>3 DEF Plan
<1>5. Plan(u).toggle \in BOOLEAN
  BY <1>1 DEF Plan, TypeOK, ReliableDecision, FragmentDecisions
<1>6. ASSUME Plan(u).decision = "send_new_fragment", transfer = None
      PROVE  /\ Plan(u).count = FragmentCount(Len(pending)) /\ Plan(u).index = 1
             /\ Len(pending) > 0
  BY <1>6, LimitsAssumption DEF Plan, ReliableDecision, FragmentDecisions, CurrentTransfer, TypeOK
<1>7. Plan(u).decision \in {"retransmit", "retransmit_fragment"} => inFlight # None
  BY DEF Plan, ReliableDecision, FragmentDecisions
<1> QED
  BY <1>4, <1>5, <1>6, <1>7

(* What a commit puts in flight, or makes the active transfer, is a record  *)
(* of its kind, and so is there.                                           *)
LEMMA NewRecords ==
  ASSUME TypeOK, NEW u
  PROVE  /\ NewInFlight(Plan(u), pending) \in InFlightPayload
         /\ NewInFlight(Plan(u), Plan(u).bytes) \in InFlightPayload
         /\ Plan(u).decision = "send_new_fragment" /\ transfer = None =>
              [bytes |-> pending, count |-> Plan(u).count, index |-> Plan(u).index]
                \in FragmentTransfer
<1>1. Plan(u).toggle \in BOOLEAN /\ Plan(u).bytes \in Seq(Nat)
  BY PlanType
<1>2. /\ NewInFlight(Plan(u), pending) \in InFlightPayload
      /\ NewInFlight(Plan(u), Plan(u).bytes) \in InFlightPayload
  BY <1>1 DEF NewInFlight, InFlightPayload, TypeOK
<1>3. Plan(u).decision = "send_new_fragment" /\ transfer = None =>
        [bytes |-> pending, count |-> Plan(u).count, index |-> Plan(u).index]
          \in FragmentTransfer
  BY PlanType, FragmentCountProperties DEF FragmentTransfer, TypeOK
<1> QED
  BY <1>2, <1>3

LEMMA TypeInit == Init => TypeOK
<1>1. 0 \in SeqNum /\ 1 \in SeqNum
  BY HalfRangeAssumption DEF SeqNum, SeqModulus
<1> SUFFICES ASSUME Init PROVE TypeOK
  OBVIOUS
<1>2. /\ nextOutgoing \in SeqNum /\ lastOutgoing \in SeqNum
      /\ incoming \in SeqNum /\ peerAck \in SeqNum
  BY <1>1 DEF Init
<1>3. pending \in Seq(Nat) /\ accepted \in Nat /\ retired \in Nat
  BY DEF Init
<1>4. /\ incomingReliableAck \in BOOLEAN /\ peerReliableAck \in BOOLEAN
      /\ toggle \in BOOLEAN /\ firstIncoming \in BOOLEAN /\ firstAckSent \in BOOLEAN
  BY DEF Init
<1>5. inFlight \in InFlightPayload \cup {None} /\ transfer \in FragmentTransfer \cup {None}
  BY DEF Init
<1> QED
  BY <1>2, <1>3, <1>4, <1>5 DEF TypeOK

LEMMA TypeStep == TypeOK /\ [Next]_sessionVars => TypeOK'
<1> SUFFICES ASSUME TypeOK, [Next]_sessionVars PROVE TypeOK'
  OBVIOUS
<1>1. ASSUME NEW n \in 1 .. MaxAccepted, QueueReliable(n) PROVE TypeOK'
  <2>1. n \in Nat /\ Units(accepted + 1, n) \in Seq(Nat)
    BY UnitsProperties, LimitsAssumption DEF TypeOK
  <2> QED
    BY <1>1, <2>1, ConcatProperties DEF QueueReliable, TypeOK, outgoingVars, incomingVars
<1>2. ASSUME NEW u \in 0 .. MaxUnreliable, Transmit(u) PROVE TypeOK'
  <2> DEFINE p == Plan(u)
  <2>1. CommitOutgoing(p)
    BY <1>2 DEF Transmit
  <2>2. nextOutgoing' \in SeqNum /\ lastOutgoing' \in SeqNum
    BY <2>1, NextSeqType DEF CommitOutgoing, AdvanceOutgoing, TypeOK
  <2>3. p.toggle \in BOOLEAN /\ p.bytes \in Seq(Nat)
    BY PlanType
  <2>4. /\ NewInFlight(p, pending) \in InFlightPayload
        /\ NewInFlight(p, p.bytes) \in InFlightPayload
    BY NewRecords
  <2>5. /\ p.decision = "send_new_fragment" /\ transfer = None =>
             [bytes |-> pending, count |-> p.count, index |-> p.index] \in FragmentTransfer
        /\ p.decision \in {"retransmit", "retransmit_fragment"} => inFlight # None
    BY PlanType, NewRecords
  <2> HIDE DEF p
  <2>6. /\ pending' \in Seq(Nat) /\ toggle' \in BOOLEAN
        /\ inFlight' \in InFlightPayload \cup {None}
        /\ transfer' \in FragmentTransfer \cup {None}
    <3>1. CASE CommitNew(p)
      BY <3>1, <2>3, <2>4 DEF CommitNew, TypeOK
    <3>2. CASE CommitNewFragment(p)
      <4>1. CASE transfer = None
        BY <3>2, <4>1, <2>3, <2>4, <2>5 DEF CommitNewFragment, TypeOK
      <4>2. CASE transfer # None
        BY <3>2, <4>2, <2>3, <2>4 DEF CommitNewFragment, TypeOK
      <4> QED
        BY <4>1, <4>2
    <3>3. CASE CommitRetransmission(p)
      BY <3>3, <2>5 DEF CommitRetransmission, TypeOK, InFlightPayload
    <3>4. CASE CommitWithoutReliable(p)
      BY <3>4 DEF CommitWithoutReliable, reliableVars, TypeOK
    <3>5. \/ CommitNew(p)
          \/ CommitNewFragment(p)
          \/ CommitRetransmission(p)
          \/ CommitWithoutReliable(p)
      BY <2>1, Zenon DEF CommitOutgoing
    <3> QED
      BY <3>1, <3>2, <3>3, <3>4, <3>5, Zenon
  <2> QED
    BY <2>1, <2>2, <2>6 DEF CommitOutgoing, TypeOK, incomingVars, historyVars
<1>3. ASSUME SendFirstAck PROVE TypeOK'
  BY <1>3, NextSeqType
  DEF SendFirstAck, AdvanceOutgoing, TypeOK, incomingVars, reliableVars, historyVars
<1>4. ASSUME NEW h \in NewerHeader, NEW class \in Classifications, Receive(h, class)
      PROVE  TypeOK'
  <2> DEFINE i == Inspection(h, class)
  <2>1. CommitIncoming(i)
    BY <1>4 DEF Receive
  <2>2. /\ i.sequence \in SeqNum /\ i.reliableAck \in BOOLEAN
        /\ i.ack \in SeqNum /\ i.ackReliable \in BOOLEAN
    BY DEF Inspection, NewerHeader, NewReliable, TypeOK
  <2> HIDE DEF i
  <2>3. /\ incoming' \in SeqNum /\ incomingReliableAck' \in BOOLEAN
        /\ peerAck' \in SeqNum /\ peerReliableAck' \in BOOLEAN
        /\ firstIncoming' \in BOOLEAN
    BY <2>1, <2>2 DEF CommitIncoming, TypeOK
  <2>4. /\ inFlight' \in InFlightPayload \cup {None}
        /\ transfer' \in FragmentTransfer \cup {None}
        /\ retired' \in Nat
    <3>1. CASE Releases(i) /\ ReleaseInFlight
      <4>1. inFlight \in InFlightPayload /\ Len(inFlight.bytes) \in Nat /\ retired \in Nat
        BY <3>1 DEF Releases, TypeOK, InFlightPayload
      <4>2. inFlight' \in InFlightPayload \cup {None} /\ retired' \in Nat
        BY <3>1, <4>1 DEF ReleaseInFlight
      <4>3. transfer' \in FragmentTransfer \cup {None}
        <5>1. CASE transfer # None /\ transfer.index < transfer.count
          <6>1. transfer \in FragmentTransfer
            BY <5>1 DEF TypeOK
          <6>2. transfer' = [transfer EXCEPT !.index = @ + 1]
            BY <3>1, <5>1 DEF ReleaseInFlight
          <6> QED
            BY <6>1, <6>2 DEF FragmentTransfer
        <5>2. CASE ~(transfer # None /\ transfer.index < transfer.count)
          BY <3>1, <5>2 DEF ReleaseInFlight
        <5> QED
          BY <5>1, <5>2
      <4> QED
        BY <4>2, <4>3
    <3>2. CASE ~Releases(i)
      BY <2>1, <3>2 DEF CommitIncoming, ShowsLoss, TypeOK, InFlightPayload
    <3> QED
      BY <2>1, <3>1, <3>2 DEF CommitIncoming
  <2> QED
    BY <2>1, <2>3, <2>4 DEF CommitIncoming, TypeOK, outgoingVars
<1>5. ASSUME ClearReliableState PROVE TypeOK'
  BY <1>5 DEF ClearReliableState, TypeOK, outgoingVars, incomingVars
<1>6. ASSUME UNCHANGED sessionVars PROVE TypeOK'
  BY <1>6 DEF TypeOK, sessionVars, outgoingVars, incomingVars, reliableVars, historyVars
<1> QED
  BY <1>1, <1>2, <1>3, <1>4, <1>5, <1>6 DEF Next

(* In every behaviour of the session each part of its state keeps its type: *)
(* above all, every sequence number stays within the wire's range.          *)
THEOREM SessionTypeOK == Spec => []TypeOK
<1> QED
  BY TypeInit, TypeStep, PTL DEF Spec

-----------------------------------------------------------------------------
(* Runs of consecutive units.                                              *)

LEMMA UnitsAssociative ==
  \A s, t, r \in Seq(Nat) : (s \o t) \o r = s \o (t \o r)
  BY SMTT(30)

(* Two runs that meet are one.                                             *)
LEMMA UnitsJoin ==
  ASSUME NEW first \in Nat, NEW m \in Nat, NEW n \in Nat
  PROVE  Units(first, m) \o Units(first + m, n) = Units(first, m + n)
<1> DEFINE left == Units(first, m)
           right == Units(first + m, n)
           whole == Units(first, m + n)
<1>0. first + m \in Nat /\ m + n \in Nat
  OBVIOUS
<1>1. /\ left \in Seq(Nat) /\ Len(left) = m /\ \A i \in 1 .. m : left[i] = first + i - 1
      /\ right \in Seq(Nat) /\ Len(right) = n
      /\ \A i \in 1 .. n : right[i] = first + m + i - 1
      /\ whole \in Seq(Nat) /\ Len(whole) = m + n
      /\ \A i \in 1 .. m + n : whole[i] = first + i - 1
  <2>1. /\ left \in Seq(Nat) /\ Len(left) = m
        /\ \A i \in 1 .. m : left[i] = first + i - 1
    BY UnitsProperties
  <2>2. /\ right \in Seq(Nat) /\ Len(right) = n
        /\ \A i \in 1 .. n : right[i] = first + m + i - 1
    BY <1>0, UnitsProperties
  <2>3. /\ whole \in Seq(Nat) /\ Len(whole) = m + n
        /\ \A i \in 1 .. m + n : whole[i] = first + i - 1
    BY <1>0, UnitsProperties
  <2> QED
    BY <2>1, <2>2, <2>3
<1> HIDE DEF left, right, whole
<1>2. /\ left \o right \in Seq(Nat) /\ Len(left \o right) = m + n
      /\ \A i \in 1 .. m + n : (left \o right)[i] =
                                 IF i <= m THEN left[i] ELSE right[i - m]
  <2>1. left \in Seq(Nat) /\ right \in Seq(Nat) /\ Len(left) = m /\ Len(right) = n
    BY <1>1
  <2>2. /\ left \o right \in Seq(Nat) /\ Len(left \o right) = Len(left) + Len(right)
        /\ \A i \in 1 .. Len(left) + Len(right) :
             (left \o right)[i] = IF i <= Len(left) THEN left[i] ELSE right[i - Len(left)]
    BY <2>1, ConcatProperties, ZenonT(60)
  <2> QED
    BY <2>1, <2>2
<1>3. \A i \in 1 .. m + n : (left \o right)[i] = whole[i]
  <2> SUFFICES ASSUME NEW i \in 1 .. m + n
               PROVE  (left \o right)[i] = whole[i]
    OBVIOUS
  <2>1. whole[i] = first + i - 1
    BY <1>1
  <2>2. CASE i <= m
    <3>1. i \in 1 .. m /\ (left \o right)[i] = left[i]
      BY <1>2, <2>2
    <3>2. left[i] = first + i - 1
      BY <1>1, <3>1, ZenonT(30)
    <3> QED
      BY <2>1, <3>1, <3>2
  <2>3. CASE ~(i <= m)
    <3>0. i - m \in 1 .. n
      BY <2>3
    <3>1. (left \o right)[i] = right[i - m]
      BY <1>2, <2>3, ZenonT(30)
    <3>2. right[i - m] = first + m + (i - m) - 1
      BY <1>1, <3>0, ZenonT(30)
    <3> QED
      BY <2>1, <3>0, <3>1, <3>2
  <2> QED
    BY <2>2, <2>3
<1>4. left \o right = whole
  <2>1. left \o right \in Seq(Nat) /\ whole \in Seq(Nat)
    BY <1>1, <1>2
  <2>2. Len(left \o right) = Len(whole) /\ Len(whole) = m + n
    BY <1>1, <1>2
  <2> QED
    BY <1>3, <2>1, <2>2, SeqEqual
<1> QED
  BY <1>4 DEF left, right, whole

(* What is left of a run when a prefix of it is dropped is a run.          *)
LEMMA UnitsDropPrefix ==
  \A first, n \in Nat : \A left, right \in Seq(Nat) :
    left \o right = Units(first, n) =>
      /\ Len(left) \in 0 .. n
      /\ right = Units(first + Len(left), n - Len(left))
<1> SUFFICES ASSUME NEW first \in Nat, NEW n \in Nat,
                    NEW left \in Seq(Nat), NEW right \in Seq(Nat),
                    left \o right = Units(first, n)
             PROVE  /\ Len(left) \in 0 .. n
                    /\ right = Units(first + Len(left), n - Len(left))
  OBVIOUS
<1>1. /\ Units(first, n) \in Seq(Nat) /\ Len(Units(first, n)) = n
      /\ \A i \in 1 .. n : Units(first, n)[i] = first + i - 1
  BY UnitsProperties
<1>2. /\ Len(left \o right) = Len(left) + Len(right)
      /\ \A i \in 1 .. Len(left) + Len(right) :
           (left \o right)[i] = IF i <= Len(left) THEN left[i] ELSE right[i - Len(left)]
      /\ Len(left) \in Nat /\ Len(right) \in Nat
  BY ConcatProperties
<1>a. Len(left \o right) = n
  BY <1>1
<1>3. n = Len(left) + Len(right) /\ first + Len(left) \in Nat /\ n - Len(left) \in Nat
  BY <1>a, <1>2
<1> DEFINE rest == Units(first + Len(left), n - Len(left))
<1>4. /\ rest \in Seq(Nat) /\ Len(rest) = n - Len(left)
      /\ \A i \in 1 .. n - Len(left) : rest[i] = first + Len(left) + i - 1
  BY <1>3, UnitsProperties
<1> HIDE DEF rest
<1>5. ASSUME NEW i \in 1 .. Len(right) PROVE right[i] = rest[i]
  <2>1. Len(left) + i \in 1 .. n /\ ~(Len(left) + i <= Len(left))
        /\ Len(left) + i - Len(left) = i
    BY <1>2, <1>3
  <2>2. (left \o right)[Len(left) + i] = right[i]
    BY <1>2, <1>3, <2>1
  <2>3. (left \o right)[Len(left) + i] = first + Len(left) + i - 1
    BY <1>1, <1>2, <2>1
  <2> QED
    BY <1>3, <1>4, <2>2, <2>3
<1>6. right = rest
  BY <1>3, <1>4, <1>5, SeqEqual, SMTT(30)
<1> QED
  BY <1>2, <1>3, <1>6 DEF rest

(* A fragment is the front of what is left of its transfer; what follows it *)
(* begins with the next fragment, if there is one.                         *)
LEMMA FragmentIsFront ==
  ASSUME NEW bytes \in Seq(Nat), Len(bytes) > 0,
         NEW index \in 1 .. FragmentCount(Len(bytes))
  PROVE  SubSeq(bytes, (index - 1) * FragmentSize + 1, Len(bytes)) =
           FragmentOf(bytes, index) \o
           (IF index < FragmentCount(Len(bytes))
            THEN SubSeq(bytes, ((index + 1) - 1) * FragmentSize + 1, Len(bytes)) ELSE <<>>)
<1> DEFINE offset == (index - 1) * FragmentSize
           end == offset + FragmentSize
           count == FragmentCount(Len(bytes))
<1>1. FragmentSize \in Nat \ {0} /\ Len(bytes) \in Nat \ {0} /\ count \in Nat \ {0}
  BY LimitsAssumption, FragmentCountProperties
<1>2. /\ offset \in Nat /\ offset < Len(bytes) /\ index * FragmentSize = end
      /\ index < count => end < Len(bytes)
      /\ index = count => Len(bytes) <= end
  BY <1>1, FragmentOffsets
<1>3. (index + 1) - 1 = index /\ (index < count \/ index = count)
  BY <1>1
<1>6. FragmentOf(bytes, index) =
        SubSeq(bytes, offset + 1, IF end <= Len(bytes) THEN end ELSE Len(bytes))
  BY DEF FragmentOf
<1>7. SubSeq(bytes, ((index + 1) - 1) * FragmentSize + 1, Len(bytes)) =
        SubSeq(bytes, end + 1, Len(bytes))
  BY <1>2, <1>3
<1> HIDE DEF offset, count
<1>4. CASE index < count
  <2>1. FragmentOf(bytes, index) = SubSeq(bytes, offset + 1, end)
    BY <1>1, <1>2, <1>4, <1>6
  <2>2. SubSeq(bytes, offset + 1, Len(bytes)) =
          SubSeq(bytes, offset + 1, end) \o SubSeq(bytes, end + 1, Len(bytes))
    <3>1. /\ offset + 1 \in 1 .. Len(bytes) + 1
          /\ end \in (offset + 1) - 1 .. Len(bytes)
          /\ Len(bytes) \in end .. Len(bytes)
      BY <1>1, <1>2, <1>4
    <3> HIDE DEF end
    <3> QED
      BY <3>1, ConcatAdjacentSubSeq, ZenonT(60)
  <2> QED
    BY <1>4, <1>7, <2>1, <2>2 DEF offset, count
<1>5. CASE index = count
  <2>1. FragmentOf(bytes, index) = SubSeq(bytes, offset + 1, Len(bytes))
    BY <1>1, <1>2, <1>5, <1>6
  <2>2. FragmentOf(bytes, index) \in Seq(Nat)
    BY FragmentOfType
  <2>3. FragmentOf(bytes, index) \o <<>> = FragmentOf(bytes, index)
    BY <2>2, ConcatEmptySeq
  <2> QED
    <3>1. ~(index < count)
      BY <1>1, <1>5
    <3> QED
      BY <3>1, <2>1, <2>3 DEF offset, count
<1> QED
  BY <1>3, <1>4, <1>5

-----------------------------------------------------------------------------
(* The current unit is the one in flight.                                  *)

LEMMA PlanContents ==
  ASSUME NEW u
  PROVE  /\ Plan(u).decision = "send_new" => inFlight = None /\ transfer = None
         /\ Plan(u).decision = "send_new_fragment" =>
              /\ inFlight = None
              /\ Plan(u).bytes = FragmentOf(CurrentTransfer.bytes, CurrentTransfer.index)
  BY DEF Plan, ReliableDecision, FragmentDecisions, ReliableUnits

(* One step keeps InFlightIsCurrentUnit, and keeps transfers non-empty.    *)
CurrentUnitInv ==
  /\ TypeOK
  /\ InFlightIsCurrentUnit
  /\ transfer # None => Len(transfer.bytes) > 0

LEMMA CurrentUnitCommit ==
  ASSUME CurrentUnitInv, NEW u, CommitOutgoing(Plan(u))
  PROVE  InFlightIsCurrentUnit' /\ (transfer # None => Len(transfer.bytes) > 0)'
<1> DEFINE p == Plan(u)
<1>1. /\ p.decision = "send_new" => inFlight = None /\ transfer = None
      /\ p.decision = "send_new_fragment" =>
           /\ inFlight = None
           /\ p.bytes = FragmentOf(CurrentTransfer.bytes, CurrentTransfer.index)
      /\ p.decision = "send_new_fragment" /\ transfer = None =>
           /\ p.count = FragmentCount(Len(pending)) /\ p.index = 1
           /\ Len(pending) > 0
      /\ p.decision \in {"retransmit", "retransmit_fragment"} => inFlight # None
  BY PlanContents, PlanType DEF CurrentUnitInv
<1>2. \/ CommitNew(p)
      \/ CommitNewFragment(p)
      \/ CommitRetransmission(p)
      \/ CommitWithoutReliable(p)
  BY Zenon DEF CommitOutgoing
<1> HIDE DEF p
<1>3. ASSUME CommitNew(p)
      PROVE  InFlightIsCurrentUnit' /\ (transfer # None => Len(transfer.bytes) > 0)'
  BY <1>1, <1>3 DEF CommitNew, NewInFlight, InFlightIsCurrentUnit
<1>4. ASSUME CommitNewFragment(p), transfer # None
      PROVE  InFlightIsCurrentUnit' /\ (transfer # None => Len(transfer.bytes) > 0)'
  BY <1>1, <1>4 DEF CommitNewFragment, NewInFlight, InFlightIsCurrentUnit, CurrentTransfer,
                    CurrentUnitInv
<1>5. ASSUME CommitNewFragment(p), transfer = None
      PROVE  InFlightIsCurrentUnit' /\ (transfer # None => Len(transfer.bytes) > 0)'
  <2>1. /\ p.count = FragmentCount(Len(pending)) /\ p.index = 1 /\ Len(pending) > 0
        /\ p.bytes = FragmentOf(pending, 1)
    BY <1>1, <1>5 DEF CommitNewFragment, CurrentTransfer
  <2>2. 1 \in 1 .. FragmentCount(Len(pending))
    BY <2>1, FragmentCountProperties DEF CurrentUnitInv, TypeOK
  <2>3. /\ transfer' = [bytes |-> pending, count |-> FragmentCount(Len(pending)), index |-> 1]
        /\ toggle' = p.toggle
        /\ inFlight' = [bytes |-> FragmentOf(pending, 1), toggle |-> p.toggle,
                        mostRecent |-> nextOutgoing, retransmit |-> FALSE]
    BY <1>5, <2>1 DEF CommitNewFragment, NewInFlight
  <2> QED
    BY <2>1, <2>2, <2>3 DEF InFlightIsCurrentUnit
<1>6. ASSUME CommitRetransmission(p)
      PROVE  InFlightIsCurrentUnit' /\ (transfer # None => Len(transfer.bytes) > 0)'
  <2>1. /\ inFlight # None /\ inFlight \in InFlightPayload
        /\ inFlight'.toggle = inFlight.toggle /\ inFlight'.bytes = inFlight.bytes
    BY <1>1, <1>6 DEF CommitRetransmission, CurrentUnitInv, TypeOK, InFlightPayload
  <2> QED
    BY <1>6, <2>1 DEF CommitRetransmission, InFlightIsCurrentUnit, CurrentUnitInv
<1>7. ASSUME CommitWithoutReliable(p)
      PROVE  InFlightIsCurrentUnit' /\ (transfer # None => Len(transfer.bytes) > 0)'
  BY <1>7 DEF CommitWithoutReliable, reliableVars, InFlightIsCurrentUnit, CurrentUnitInv
<1> QED
  BY <1>2, <1>3, <1>4, <1>5, <1>6, <1>7

LEMMA CurrentUnitReceive ==
  ASSUME CurrentUnitInv, NEW i, CommitIncoming(i)
  PROVE  InFlightIsCurrentUnit' /\ (transfer # None => Len(transfer.bytes) > 0)'
<1>1. CASE Releases(i) /\ ReleaseInFlight
  <2>1. CASE transfer # None /\ transfer.index < transfer.count
    <3>1. transfer \in FragmentTransfer /\ transfer.index \in Nat
      BY <2>1 DEF CurrentUnitInv, TypeOK, FragmentTransfer
    <3>2. /\ transfer'.bytes = transfer.bytes /\ transfer'.count = transfer.count
          /\ transfer'.index = transfer.index + 1
      BY <1>1, <2>1, <3>1 DEF ReleaseInFlight, FragmentTransfer
    <3>3. transfer.count \in Nat
      BY <3>1 DEF FragmentTransfer
    <3> QED
      BY <1>1, <2>1, <3>1, <3>2, <3>3
      DEF ReleaseInFlight, InFlightIsCurrentUnit, CurrentUnitInv
  <2>2. CASE ~(transfer # None /\ transfer.index < transfer.count)
    BY <1>1, <2>2 DEF ReleaseInFlight, InFlightIsCurrentUnit
  <2> QED
    BY <2>1, <2>2
<1>2. CASE ~Releases(i)
  <2>1. UNCHANGED <<transfer, toggle>>
    BY <1>2 DEF CommitIncoming
  <2>2. /\ inFlight # None <=> inFlight' # None
        /\ inFlight # None => /\ inFlight'.toggle = inFlight.toggle
                              /\ inFlight'.bytes = inFlight.bytes
    BY <1>2, NoneAssumption DEF CommitIncoming, ShowsLoss, CurrentUnitInv, TypeOK, InFlightPayload
  <2> QED
    BY <2>1, <2>2 DEF InFlightIsCurrentUnit, CurrentUnitInv
<1> QED
  BY <1>1, <1>2 DEF CommitIncoming

LEMMA CurrentUnitStep == CurrentUnitInv /\ [Next]_sessionVars => CurrentUnitInv'
<1> SUFFICES ASSUME CurrentUnitInv, [Next]_sessionVars
             PROVE  InFlightIsCurrentUnit' /\ (transfer # None => Len(transfer.bytes) > 0)'
  BY TypeStep DEF CurrentUnitInv
<1>1. ASSUME NEW n \in 1 .. MaxAccepted, QueueReliable(n)
      PROVE  InFlightIsCurrentUnit' /\ (transfer # None => Len(transfer.bytes) > 0)'
  BY <1>1 DEF QueueReliable, CurrentUnitInv, InFlightIsCurrentUnit
<1>2. ASSUME NEW u \in 0 .. MaxUnreliable, Transmit(u)
      PROVE  InFlightIsCurrentUnit' /\ (transfer # None => Len(transfer.bytes) > 0)'
  BY <1>2, CurrentUnitCommit DEF Transmit
<1>3. ASSUME SendFirstAck
      PROVE  InFlightIsCurrentUnit' /\ (transfer # None => Len(transfer.bytes) > 0)'
  BY <1>3 DEF SendFirstAck, reliableVars, CurrentUnitInv, InFlightIsCurrentUnit
<1>4. ASSUME NEW h \in NewerHeader, NEW class \in Classifications, Receive(h, class)
      PROVE  InFlightIsCurrentUnit' /\ (transfer # None => Len(transfer.bytes) > 0)'
  BY <1>4, CurrentUnitReceive DEF Receive
<1>5. ASSUME ClearReliableState
      PROVE  InFlightIsCurrentUnit' /\ (transfer # None => Len(transfer.bytes) > 0)'
  BY <1>5 DEF ClearReliableState, InFlightIsCurrentUnit
<1>6. ASSUME UNCHANGED sessionVars
      PROVE  InFlightIsCurrentUnit' /\ (transfer # None => Len(transfer.bytes) > 0)'
  BY <1>6 DEF sessionVars, reliableVars, CurrentUnitInv, InFlightIsCurrentUnit
<1> QED
  BY <1>1, <1>2, <1>3, <1>4, <1>5, <1>6 DEF Next

LEMMA CurrentUnitInit == Init => CurrentUnitInv
  BY TypeInit DEF Init, CurrentUnitInv, InFlightIsCurrentUnit

(* Whatever is in flight is the current fragment of the active transfer, of *)
(* the generation last used: no retransmission can carry other bytes.      *)
THEOREM SessionInFlightIsCurrentUnit == Spec => []InFlightIsCurrentUnit
<1>1. Spec => []CurrentUnitInv
  BY CurrentUnitInit, CurrentUnitStep, PTL DEF Spec
<1>2. CurrentUnitInv => InFlightIsCurrentUnit
  BY DEF CurrentUnitInv
<1> QED
  BY <1>1, <1>2, PTL

-----------------------------------------------------------------------------
(* The accepted units are held, in order.                                  *)

Holding ==
  /\ CurrentUnitInv
  /\ retired <= accepted
  /\ HoldsAcceptedInOrder

LEMMA UnacknowledgedType == CurrentUnitInv => Unacknowledged \in Seq(Nat)
<1> SUFFICES ASSUME CurrentUnitInv PROVE Unacknowledged \in Seq(Nat)
  OBVIOUS
<1>1. CASE transfer # None
  <2>1. /\ transfer.bytes \in Seq(Nat) /\ Len(transfer.bytes) \in Nat \ {0}
        /\ transfer.index \in 1 .. FragmentCount(Len(transfer.bytes))
    BY <1>1 DEF CurrentUnitInv, TypeOK, FragmentTransfer, InFlightIsCurrentUnit
  <2> DEFINE offset == (transfer.index - 1) * FragmentSize
  <2>2. offset \in Nat
    BY <2>1, FragmentOffsets
  <2> HIDE DEF offset
  <2>3. /\ offset + 1 \in Int /\ Len(transfer.bytes) \in Int
        /\ \A i \in offset + 1 .. Len(transfer.bytes) : transfer.bytes[i] \in Nat
    BY <2>1, <2>2
  <2>4. SubSeq(transfer.bytes, offset + 1, Len(transfer.bytes)) \in Seq(Nat)
    BY <2>3, SubSeqProperties
  <2> QED
    BY <1>1, <2>4 DEF Unacknowledged, offset
<1>2. CASE transfer = None
  BY <1>2 DEF Unacknowledged, CurrentUnitInv, TypeOK, InFlightPayload
<1> QED
  BY <1>1, <1>2

LEMMA UnacknowledgedTypeNext == CurrentUnitInv' => (Unacknowledged \in Seq(Nat))'
  BY UnacknowledgedType, PTL

(* The run of held units and its length.                                   *)
LEMMA HeldRun ==
  ASSUME Holding
  PROVE  /\ retired + 1 \in Nat /\ accepted - retired \in Nat
         /\ Unacknowledged \in Seq(Nat) /\ pending \in Seq(Nat)
         /\ Unacknowledged \o pending = Units(retired + 1, accepted - retired)
  BY UnacknowledgedType DEF Holding, CurrentUnitInv, TypeOK, HoldsAcceptedInOrder

LEMMA HoldsQueue ==
  ASSUME Holding, NEW n \in 1 .. MaxAccepted, QueueReliable(n)
  PROVE  retired' <= accepted' /\ HoldsAcceptedInOrder'
<1> DEFINE unsent == Unacknowledged
           held == accepted - retired
<1>1. /\ retired + 1 \in Nat /\ held \in Nat /\ accepted \in Nat /\ retired \in Nat
      /\ n \in Nat /\ unsent \in Seq(Nat) /\ pending \in Seq(Nat)
      /\ unsent \o pending = Units(retired + 1, held)
  BY HeldRun, LimitsAssumption DEF Holding, CurrentUnitInv, TypeOK
<1>2. /\ Unacknowledged' = unsent /\ retired' = retired /\ accepted' = accepted + n
      /\ pending' = pending \o Units(accepted + 1, n)
  BY DEF QueueReliable, Unacknowledged
<1> DEFINE added == Units(accepted + 1, n)
<1>3. accepted + 1 \in Nat /\ retired + 1 + held = accepted + 1
  BY <1>1
<1>8. added \in Seq(Nat)
  BY <1>1, <1>3, UnitsProperties
<1>4. unsent \o (pending \o added) = (unsent \o pending) \o added
  <2> HIDE DEF added, unsent
  <2> QED
    BY <1>1, <1>8, UnitsAssociative
<1> HIDE DEF unsent
<1>5. Units(retired + 1, held) \o Units(retired + 1 + held, n) =
        Units(retired + 1, held + n)
  <2> HIDE DEF held
  <2> QED
    BY <1>1, UnitsJoin
<1>6. held + n = accepted' - retired'
  BY <1>1, <1>2
<1>7. Unacknowledged' \o pending' = Units(retired' + 1, accepted' - retired')
  BY <1>1, <1>2, <1>3, <1>4, <1>5, <1>6
<1>9. retired' <= accepted'
  BY <1>1, <1>2
<1> QED
  BY <1>7, <1>9 DEF HoldsAcceptedInOrder

(* Moving the pending payload into flight, whole or as a transfer, leaves  *)
(* what is held as it was.                                                 *)
LEMMA HeldAcrossCommit ==
  ASSUME CurrentUnitInv, NEW u, CommitOutgoing(Plan(u))
  PROVE  (Unacknowledged \o pending)' = Unacknowledged \o pending
<1> DEFINE p == Plan(u)
<1>1. /\ p.decision = "send_new" => inFlight = None /\ transfer = None
      /\ p.decision = "send_new_fragment" => inFlight = None
      /\ p.decision = "send_new_fragment" /\ transfer = None => p.index = 1
      /\ p.decision \in {"retransmit", "retransmit_fragment"} => inFlight # None
  BY PlanContents, PlanType DEF CurrentUnitInv
<1>2. \/ CommitNew(p)
      \/ CommitNewFragment(p)
      \/ CommitRetransmission(p)
      \/ CommitWithoutReliable(p)
  BY Zenon DEF CommitOutgoing
<1>8. /\ NewInFlight(p, pending) # None /\ NewInFlight(p, p.bytes) # None
      /\ p.decision = "send_new_fragment" /\ transfer = None =>
           [bytes |-> pending, count |-> p.count, index |-> p.index] # None
  BY NewRecords, NoneAssumption DEF CurrentUnitInv
<1> HIDE DEF p
<1>3. pending \in Seq(Nat) /\ <<>> \o pending = pending /\ pending \o <<>> = pending
  BY ConcatEmptySeq DEF CurrentUnitInv, TypeOK
<1>4. CASE CommitNew(p)
  <2>1. /\ Unacknowledged = <<>> /\ pending' = <<>> /\ transfer' = None
        /\ inFlight' = NewInFlight(p, pending)
    BY <1>1, <1>4 DEF CommitNew, Unacknowledged
  <2>2. Unacknowledged' = pending
    BY <1>8, <2>1 DEF Unacknowledged, NewInFlight
  <2> QED
    BY <1>3, <2>1, <2>2
<1>5. CASE CommitNewFragment(p) /\ transfer = None
  <2>1. Unacknowledged = <<>> /\ pending' = <<>>
    BY <1>1, <1>5 DEF CommitNewFragment, Unacknowledged
  <2>2. transfer' # None /\ transfer'.bytes = pending /\ transfer'.index = 1
    BY <1>1, <1>5, <1>8 DEF CommitNewFragment
  <2>3. SubSeq(pending, 1, Len(pending)) = pending /\ (1 - 1) * FragmentSize + 1 = 1
    BY <1>3, SubSeqFull, LimitsAssumption
  <2>4. Unacknowledged' = pending
    BY <2>2, <2>3 DEF Unacknowledged
  <2> QED
    BY <1>3, <2>1, <2>4
<1>6. CASE CommitNewFragment(p) /\ transfer # None
  BY <1>6 DEF CommitNewFragment, Unacknowledged
<1>7. CASE CommitRetransmission(p)
  <2>1. inFlight # None /\ inFlight' # None /\ inFlight'.bytes = inFlight.bytes
    BY <1>1, <1>7, NoneAssumption DEF CommitRetransmission, CurrentUnitInv, TypeOK, InFlightPayload
  <2> QED
    BY <1>7, <2>1 DEF CommitRetransmission, Unacknowledged
<1>9. CASE CommitWithoutReliable(p)
  BY <1>9 DEF CommitWithoutReliable, reliableVars, Unacknowledged
<1> QED
  BY <1>2, <1>4, <1>5, <1>6, <1>7, <1>9

(* What is released is the front of what is owed to the peer.              *)
LEMMA ReleaseTakesFront ==
  ASSUME CurrentUnitInv, inFlight # None, ReleaseInFlight
  PROVE  inFlight.bytes \o Unacknowledged' = Unacknowledged
<1>1. inFlight.bytes \in Seq(Nat) /\ inFlight.bytes \o <<>> = inFlight.bytes
  BY ConcatEmptySeq DEF CurrentUnitInv, TypeOK, InFlightPayload
<1>2. CASE transfer = None
  <2>1. Unacknowledged' = <<>> /\ Unacknowledged = inFlight.bytes
    BY <1>2 DEF ReleaseInFlight, Unacknowledged
  <2> QED
    BY <1>1, <2>1
<1>3. CASE transfer # None
  <2> DEFINE bytes == transfer.bytes
             index == transfer.index
             count == FragmentCount(Len(bytes))
             rest == IF index < count
                     THEN SubSeq(bytes, ((index + 1) - 1) * FragmentSize + 1, Len(bytes))
                     ELSE <<>>
  <2>1. /\ transfer \in FragmentTransfer /\ bytes \in Seq(Nat) /\ Len(bytes) > 0
        /\ index \in 1 .. count /\ transfer.count = count
        /\ inFlight.bytes = FragmentOf(bytes, index)
    BY <1>3 DEF CurrentUnitInv, TypeOK, FragmentTransfer, InFlightIsCurrentUnit
  <2>2. Unacknowledged = FragmentOf(bytes, index) \o rest
    BY <1>3, <2>1, FragmentIsFront DEF Unacknowledged
  <2>3. CASE index < count
    <3>1. transfer' = [transfer EXCEPT !.index = @ + 1]
      BY <1>3, <2>1, <2>3 DEF ReleaseInFlight
    <3>2. index \in Nat \ {0} /\ index + 1 \in Nat \ {0}
      BY <2>1 DEF FragmentTransfer
    <3>3. /\ transfer' \in FragmentTransfer
          /\ transfer'.bytes = bytes /\ transfer'.index = index + 1
      BY <2>1, <3>1, <3>2 DEF FragmentTransfer
    <3>4. Unacknowledged' = rest
      BY <2>3, <3>3, NoneAssumption DEF Unacknowledged
    <3> QED
      BY <2>1, <2>2, <3>4
  <2>4. CASE ~(index < count)
    <3>1. transfer' = None /\ inFlight' = None
      BY <1>3, <2>1, <2>4 DEF ReleaseInFlight
    <3>2. Unacknowledged' = rest
      BY <2>4, <3>1 DEF Unacknowledged
    <3> QED
      BY <2>1, <2>2, <3>2
  <2> QED
    BY <2>3, <2>4
<1> QED
  BY <1>2, <1>3

LEMMA HoldsReceive ==
  ASSUME Holding, NEW i, CommitIncoming(i), Unacknowledged' \in Seq(Nat)
  PROVE  retired' <= accepted' /\ HoldsAcceptedInOrder'
<1>1. pending' = pending /\ accepted' = accepted
  BY DEF CommitIncoming
<1>2. CASE Releases(i) /\ ReleaseInFlight
  <2> DEFINE front == inFlight.bytes
             held == accepted - retired
  <2>1. inFlight # None /\ front \in Seq(Nat)
    BY <1>2 DEF Releases, Holding, CurrentUnitInv, TypeOK, InFlightPayload
  <2>2. front \o Unacknowledged' = Unacknowledged
    BY <1>2, <2>1, ReleaseTakesFront DEF Holding
  <2>3. /\ retired + 1 \in Nat /\ held \in Nat /\ accepted \in Nat /\ retired \in Nat
        /\ pending \in Seq(Nat)
        /\ Unacknowledged \o pending = Units(retired + 1, held)
    BY HeldRun DEF Holding, CurrentUnitInv, TypeOK
  <2> HIDE DEF front, held
  <2>4. front \o (Unacknowledged' \o pending) = Units(retired + 1, held)
    BY <2>1, <2>2, <2>3, UnitsAssociative
  <2>5. Unacknowledged' \o pending \in Seq(Nat)
    BY <2>3, ConcatProperties
  <2>6. /\ Len(front) \in 0 .. held
        /\ Unacknowledged' \o pending = Units(retired + 1 + Len(front), held - Len(front))
    <3> DEFINE later == Unacknowledged' \o pending
               start == retired + 1
    <3>1. start \in Nat /\ later \in Seq(Nat) /\ front \o later = Units(start, held)
      BY <2>3, <2>4, <2>5
    <3> HIDE DEF later, start
    <3>2. Len(front) \in 0 .. held /\ later = Units(start + Len(front), held - Len(front))
      <4>1. front \in Seq(Nat) /\ held \in Nat
        BY <2>1, <2>3
      <4>2. \A left, right \in Seq(Nat) :
              left \o right = Units(start, held) =>
                /\ Len(left) \in 0 .. held
                /\ right = Units(start + Len(left), held - Len(left))
        BY <3>1, <4>1, UnitsDropPrefix, ZenonT(60)
      <4>3. front \o later = Units(start, held)
        BY <3>1
      <4> QED
        BY <3>1, <4>1, <4>2, <4>3, ZenonT(60)
    <3> QED
      BY <3>2 DEF later, start
  <2>7. retired' = retired + Len(front) /\ Len(front) \in Nat
    BY <1>2, <2>1 DEF ReleaseInFlight, front
  <2>8. /\ retired' <= accepted'
        /\ retired' + 1 = retired + 1 + Len(front)
        /\ accepted' - retired' = held - Len(front)
    BY <1>1, <2>3, <2>6, <2>7 DEF held
  <2> QED
    BY <1>1, <2>6, <2>8 DEF HoldsAcceptedInOrder
<1>3. CASE ~Releases(i)
  <2>1. UNCHANGED <<transfer, retired>>
    BY <1>3 DEF CommitIncoming
  <2>2. /\ inFlight # None <=> inFlight' # None
        /\ inFlight # None => inFlight'.bytes = inFlight.bytes
    BY <1>3, NoneAssumption
    DEF CommitIncoming, ShowsLoss, Holding, CurrentUnitInv, TypeOK, InFlightPayload
  <2>3. Unacknowledged' = Unacknowledged
    BY <2>1, <2>2 DEF Unacknowledged
  <2> QED
    BY <1>1, <2>1, <2>3 DEF HoldsAcceptedInOrder, Holding
<1> QED
  BY <1>2, <1>3 DEF CommitIncoming

LEMMA HoldsClear ==
  ASSUME Holding, ClearReliableState
  PROVE  retired' <= accepted' /\ HoldsAcceptedInOrder'
<1>1. accepted \in Nat /\ accepted' = accepted /\ retired' = accepted
  BY DEF ClearReliableState, Holding, CurrentUnitInv, TypeOK
<1>2. Unacknowledged' = <<>> /\ pending' = <<>>
  BY DEF ClearReliableState, Unacknowledged
<1>3. /\ Units(accepted + 1, 0) \in Seq(Nat) /\ Len(Units(accepted + 1, 0)) = 0
      /\ accepted - accepted = 0
  BY <1>1, UnitsProperties
<1>4. Units(accepted + 1, 0) = <<>>
  BY <1>3
<1>5. <<>> \o <<>> = <<>>
  OBVIOUS
<1>6. (Unacknowledged \o pending)' = Units(retired + 1, accepted - retired)'
  BY <1>1, <1>2, <1>3, <1>4, <1>5
<1> QED
  BY <1>1, <1>6 DEF HoldsAcceptedInOrder

LEMMA HoldingStep == Holding /\ [Next]_sessionVars => Holding'
<1> SUFFICES ASSUME Holding, [Next]_sessionVars
             PROVE  retired' <= accepted' /\ HoldsAcceptedInOrder'
  BY CurrentUnitStep DEF Holding
<1>0. CurrentUnitInv /\ CurrentUnitInv'
  BY CurrentUnitStep DEF Holding
<1>1. ASSUME NEW n \in 1 .. MaxAccepted, QueueReliable(n)
      PROVE  retired' <= accepted' /\ HoldsAcceptedInOrder'
  BY <1>1, HoldsQueue
<1>2. ASSUME NEW u \in 0 .. MaxUnreliable, Transmit(u)
      PROVE  retired' <= accepted' /\ HoldsAcceptedInOrder'
  <2>1. (Unacknowledged \o pending)' = Unacknowledged \o pending
    BY <1>0, <1>2, HeldAcrossCommit DEF Transmit
  <2>2. UNCHANGED historyVars
    BY <1>2 DEF Transmit, CommitOutgoing
  <2> QED
    BY <2>1, <2>2 DEF historyVars, HoldsAcceptedInOrder, Holding
<1>3. ASSUME SendFirstAck PROVE retired' <= accepted' /\ HoldsAcceptedInOrder'
  BY <1>3 DEF SendFirstAck, reliableVars, historyVars, Holding, HoldsAcceptedInOrder,
              Unacknowledged
<1>4. ASSUME NEW h \in NewerHeader, NEW class \in Classifications, Receive(h, class)
      PROVE  retired' <= accepted' /\ HoldsAcceptedInOrder'
  <2>1. Unacknowledged' \in Seq(Nat)
    BY <1>0, UnacknowledgedTypeNext
  <2> QED
    BY <1>4, <2>1, HoldsReceive DEF Receive
<1>5. ASSUME ClearReliableState PROVE retired' <= accepted' /\ HoldsAcceptedInOrder'
  BY <1>5, HoldsClear
<1>6. ASSUME UNCHANGED sessionVars PROVE retired' <= accepted' /\ HoldsAcceptedInOrder'
  BY <1>6 DEF sessionVars, reliableVars, historyVars, Holding, HoldsAcceptedInOrder,
              Unacknowledged
<1> QED
  BY <1>1, <1>2, <1>3, <1>4, <1>5, <1>6 DEF Next

LEMMA HoldingInit == Init => Holding
<1> SUFFICES ASSUME Init PROVE Holding
  OBVIOUS
<1>1. CurrentUnitInv
  BY CurrentUnitInit
<1>2. accepted = 0 /\ retired = 0 /\ pending = <<>> /\ Unacknowledged = <<>>
  BY DEF Init, Unacknowledged
<1>3. Units(1, 0) \in Seq(Nat) /\ Len(Units(1, 0)) = 0
  BY UnitsProperties
<1>4. Units(1, 0) = <<>> /\ <<>> \o <<>> = <<>>
  BY <1>3
<1> QED
  BY <1>1, <1>2, <1>4 DEF Holding, HoldsAcceptedInOrder

(* For every limit, fragment size and sequence range: the session holds, in *)
(* order and once each, exactly the units it has accepted and not released. *)
THEOREM SessionHoldsAcceptedInOrder == Spec => []HoldsAcceptedInOrder
<1>1. Spec => []Holding
  BY HoldingInit, HoldingStep, PTL DEF Spec
<1>2. Holding => HoldsAcceptedInOrder
  BY DEF Holding
<1> QED
  BY <1>1, <1>2, PTL

-----------------------------------------------------------------------------
(* What is prepared is a function of the session's state: while that stays, *)
(* the session would prepare the same again.                                *)
LEMMA PreparedIsAFunctionOfTheSession ==
  ASSUME UNCHANGED sessionVars
  PROVE  /\ \A u : Plan(u)' = Plan(u) /\ (CanPrepare(u)' <=> CanPrepare(u))
         /\ NewerHeader' = NewerHeader
         /\ \A h, class : /\ Acceptable(h, class)' <=> Acceptable(h, class)
                          /\ Inspection(h, class)' = Inspection(h, class)
         /\ FirstAckPlan' = FirstAckPlan
         /\ firstIncoming' = firstIncoming
<1> USE DEF sessionVars, outgoingVars, incomingVars, reliableVars, historyVars
<1>1. /\ nextOutgoing' = nextOutgoing /\ lastOutgoing' = lastOutgoing
      /\ incoming' = incoming /\ incomingReliableAck' = incomingReliableAck
      /\ peerAck' = peerAck /\ peerReliableAck' = peerReliableAck
      /\ pending' = pending /\ inFlight' = inFlight /\ transfer' = transfer
      /\ toggle' = toggle /\ firstIncoming' = firstIncoming
  OBVIOUS
<1>2. ReliableDecision' = ReliableDecision /\ CurrentTransfer' = CurrentTransfer
  BY <1>1 DEF ReliableDecision, CurrentTransfer, FragmentCount
<1>3. \A d : ReliableUnits(d)' = ReliableUnits(d)
  BY <1>1, <1>2 DEF ReliableUnits
<1>4. \A u : CanPrepare(u)' <=> CanPrepare(u)
  BY <1>1, <1>2, <1>3 DEF CanPrepare, Fits
<1>5. \A u : Plan(u)' = Plan(u)
  BY <1>1, <1>2, <1>3 DEF Plan
<1>6. NewerHeader' = NewerHeader
  BY <1>1 DEF NewerHeader
<1>7. \A h, class : Acceptable(h, class)' <=> Acceptable(h, class)
  BY <1>1 DEF Acceptable
<1>8. \A h, class : Inspection(h, class)' = Inspection(h, class)
  BY <1>1 DEF Inspection, NewReliable
<1>9. FirstAckPlan' = FirstAckPlan
  BY <1>1 DEF FirstAckPlan
<1> QED
  BY <1>1, <1>4, <1>5, <1>6, <1>7, <1>8, <1>9
=============================================================================
