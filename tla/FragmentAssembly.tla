--------------------------- MODULE FragmentAssembly ---------------------------
(***************************************************************************)
(* What reassembly promises.  One transfer at a time is collected from its *)
(* parts, which may come in any order; the first copy of a part is the one *)
(* that counts, and once every part is there their concatenation is        *)
(* published.  The time a transfer may take is fixed when it starts.       *)
(***************************************************************************)
EXTENDS Naturals, SequencesExt

CONSTANTS Count, Part, Deadline, None
VARIABLES
  collecting,   \* [count, deadline] of the transfer being collected, or None
  parts,        \* the parts it has: a function on some of 1 .. count
  published     \* the transfer published last, or None

vars == <<collecting, parts, published>>

NoParts == [i \in {} |-> <<>>]
With(fs, i, part) == [j \in DOMAIN fs \cup {i} |-> IF j = i THEN part ELSE fs[j]]

Init == collecting = None /\ parts = NoParts /\ published = None

\* A part that leaves the transfer incomplete, and the part that completes it.
Collect(transfer, fs) ==
  \/ /\ DOMAIN fs # 1 .. transfer.count
     /\ collecting' = transfer /\ parts' = fs
     /\ UNCHANGED published
  \/ /\ DOMAIN fs = 1 .. transfer.count
     /\ collecting' = None /\ parts' = NoParts
     /\ published' = FlattenSeq(fs)

Start ==
  /\ collecting = None
  /\ \E count \in Count, deadline \in Deadline, part \in Part :
       \E i \in 1 .. count :
         Collect([count |-> count, deadline |-> deadline], With(NoParts, i, part))

Add ==
  /\ collecting # None
  /\ \E i \in (1 .. collecting.count) \ DOMAIN parts, part \in Part :
       Collect(collecting, With(parts, i, part))

\* The deadline passed, or the channel was reset.
Drop == collecting' = None /\ parts' = NoParts /\ UNCHANGED published

Next == Start \/ Add \/ Drop
Spec == Init /\ [][Next]_vars
=============================================================================
