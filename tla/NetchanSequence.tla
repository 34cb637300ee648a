--------------------------- MODULE NetchanSequence ---------------------------
(***************************************************************************)
(* Sequence numbers of the Protocol 48 channel: numbers modulo             *)
(* 2 * HalfRange (2^30 in the code) compared by their forward distance, and *)
(* the 32-bit word that carries one of them beside two flag bits.          *)
(***************************************************************************)
EXTENDS Integers

CONSTANT HalfRange          \* kNetchanSequenceHalfRange, 2^29 in the code

ASSUME HalfRangeAssumption == HalfRange \in Nat /\ HalfRange >= 2

SeqModulus == 2 * HalfRange
SeqNum == 0 .. SeqModulus - 1

NextSeq(s) == IF s = SeqModulus - 1 THEN 0 ELSE s + 1

(* The forward distance from reference to candidate: their difference      *)
(* reduced into SeqNum.                                                    *)
SequenceDistance(candidate, reference) ==
  IF candidate >= reference THEN candidate - reference
                            ELSE candidate - reference + SeqModulus

CompareSequences(candidate, reference) ==
  LET distance == SequenceDistance(candidate, reference)
  IN  CASE distance = 0         -> "equal"
        [] distance = HalfRange -> "half_range_ambiguous"
        [] distance \in 1 .. HalfRange - 1 -> "newer"
        [] OTHER                -> "older"

Newer(candidate, reference) == CompareSequences(candidate, reference) = "newer"
Ambiguous(candidate, reference) ==
  CompareSequences(candidate, reference) = "half_range_ambiguous"

(* Newer than or equal to the reference.                                   *)
Covers(candidate, reference) ==
  CompareSequences(candidate, reference) \in {"equal", "newer"}

-----------------------------------------------------------------------------
(* The wire word: the number in the low bits, the fragment flag above it   *)
(* and the reliable flag above that.                                       *)

EncodeSequenceWord(s, reliable, fragmented) ==
  s + (IF fragmented THEN SeqModulus ELSE 0)
    + (IF reliable THEN 2 * SeqModulus ELSE 0)

DecodeSequenceWord(word) ==
  [sequence   |-> word % SeqModulus,
   fragmented |-> (word \div SeqModulus) % 2 = 1,
   reliable   |-> word >= 2 * SeqModulus]

(* The two words a receiver takes for another kind of datagram:            *)
(* 0xffffffff (connectionless) and 0xfffffffe (split packet).              *)
ClassifierWords == {4 * SeqModulus - 1, 4 * SeqModulus - 2}

CollidesWithConnectionless(s) ==   \* mutant: the split-packet word is forgotten
  EncodeSequenceWord(s, TRUE, TRUE) = 4 * SeqModulus - 1
CollidesWithClassifier(s) == EncodeSequenceWord(s, TRUE, TRUE) \in ClassifierWords
=============================================================================
