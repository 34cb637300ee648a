------------------------ MODULE NetchanReassemblyProofs ------------------------
(***************************************************************************)
(* Proofs about NetchanReassembly, for every limit, payload and clock: the *)
(* reassembler's counters agree with what it holds, no fragment that is     *)
(* missing and in time is ever refused, and what comes out are whole        *)
(* transfers: the reassembler implements FragmentAssembly.                  *)
(***************************************************************************)
EXTENDS NetchanReassembly, FiniteSetTheorems, SequenceTheorems, WellFoundedInduction, TLAPS

\* What an operation may leave, and what a plan may carry.
GoodState(a, b, r, t) ==
  /\ a \in TransferState \cup {None}
  /\ b \in Seq(Byte)
  /\ DOMAIN r \subseteq Nat \ {0} /\ \A i \in DOMAIN r : r[i] \in Nat \ {0}
  /\ t \in Nat \cup {None}
  /\ IF a = None THEN r = NoRanges /\ b = <<>>
     ELSE t = None /\ ConsistentTransfer(a, b, r)

GoodPlan(p) ==
  p.unchanged # TRUE =>
    /\ GoodState(p.active, p.bytes, p.ranges, p.tombstone)
    /\ p.nextId \in Nat \ {0}
    /\ p.completion \in Seq(Byte) \cup {None}

\* The inductive invariant: a plan held by the caller is as good as the state,
\* whether or not it is still current.
IInv ==
  /\ GoodState(active, bytes, ranges, tombstone)
  /\ nextId \in Nat \ {0} /\ revision \in 0 .. MaxRevision /\ valid \in BOOLEAN
  /\ published \in Seq(Byte) \cup {None}
  /\ held # None => GoodPlan(held)

-----------------------------------------------------------------------------
(* Multiples of the chunk size are ordered as their factors.               *)
LEMMA ChunkProducts ==
  /\ ChunkSize \in Nat \ {0}
  /\ \A m \in Nat : m * ChunkSize \in Nat
  /\ \A m, n \in Nat : m <= n => m * ChunkSize <= n * ChunkSize
  /\ \A m \in Nat : (m + 1) * ChunkSize = m * ChunkSize + ChunkSize
<1>1. ChunkSize \in Nat \ {0}
  BY ReassemblyLimits
<1>2. \A m \in Nat : m * ChunkSize \in Nat
  BY <1>1, SMTT(30)
<1>3. \A m, n \in Nat : m <= n => m * ChunkSize <= n * ChunkSize
  BY <1>1, SMTT(30)
<1>4. \A m \in Nat : (m + 1) * ChunkSize = m * ChunkSize + ChunkSize
  BY <1>1, SMTT(30)
<1> QED
  BY <1>1, <1>2, <1>3, <1>4

(* Offsets: each index has room for a full chunk before the next ones.     *)
LEMMA Offsets ==
  /\ \A i \in Nat \ {0} : Offset(i) \in Nat /\ i * ChunkSize = Offset(i) + ChunkSize
  /\ Offset(1) = 0
  /\ \A i, j \in Nat \ {0} : i < j => Offset(i) + ChunkSize <= Offset(j)
  /\ \A n \in Nat : Offset(n + 1) = n * ChunkSize
<1>1. \A i \in Nat \ {0} : i - 1 \in Nat /\ i = (i - 1) + 1
  OBVIOUS
<1>2. \A i \in Nat \ {0} : Offset(i) \in Nat /\ i * ChunkSize = Offset(i) + ChunkSize
  <2> TAKE i \in Nat \ {0}
  <2> DEFINE m == i - 1
  <2>1. m \in Nat /\ i = m + 1
    OBVIOUS
  <2>2. m * ChunkSize \in Nat /\ (m + 1) * ChunkSize = m * ChunkSize + ChunkSize
    BY <2>1, ChunkProducts
  <2> QED
    BY <2>1, <2>2 DEF Offset
<1>3. Offset(1) = 0
  <2>1. 0 * ChunkSize = 0
    BY ReassemblyLimits, SMTT(10)
  <2> QED
    BY <2>1 DEF Offset
<1>4. \A i, j \in Nat \ {0} : i < j => Offset(i) + ChunkSize <= Offset(j)
  <2> TAKE i, j \in Nat \ {0}
  <2> HAVE i < j
  <2>1. i \in Nat /\ j - 1 \in Nat /\ i <= j - 1
    OBVIOUS
  <2>2. i * ChunkSize <= (j - 1) * ChunkSize
    BY <2>1, ChunkProducts
  <2> QED
    BY <1>2, <2>2 DEF Offset
<1>5. \A n \in Nat : Offset(n + 1) = n * ChunkSize
  BY DEF Offset
<1> QED
  BY <1>2, <1>3, <1>4, <1>5

(* A set of indices that lacks one of them has fewer than there are, and    *)
(* one that lacks two has two fewer.                                       *)
LEMMA IndexSets ==
  ASSUME NEW n \in Nat \ {0}, NEW S \in SUBSET (1 .. n)
  PROVE  /\ IsFiniteSet(S) /\ Cardinality(S) \in 0 .. n
         /\ Cardinality(S) = n => S = 1 .. n
         /\ \A i \in (1 .. n) \ S :
              /\ Cardinality(S) <= n - 1
              /\ Cardinality(S \cup {i}) = Cardinality(S) + 1
              /\ \A j \in (1 .. n) \ S : i # j => Cardinality(S) + 2 <= n
<1>1. IsFiniteSet(1 .. n) /\ Cardinality(1 .. n) = n
  BY FS_Interval
<1>2. /\ IsFiniteSet(S) /\ Cardinality(S) \in Nat /\ Cardinality(S) <= n
      /\ Cardinality(S) = n => S = 1 .. n
  <2>1. IsFiniteSet(S)
    BY <1>1, FS_Subset
  <2>2. Cardinality(S) \in Nat
    BY <2>1, FS_CardinalityType
  <2>3. Cardinality(S) <= n /\ (Cardinality(S) = n => S = 1 .. n)
    BY <1>1, FS_Subset
  <2> QED
    BY <2>1, <2>2, <2>3
<1>3. ASSUME NEW i \in (1 .. n) \ S
      PROVE  /\ Cardinality(S) <= n - 1
             /\ Cardinality(S \cup {i}) = Cardinality(S) + 1
             /\ \A j \in (1 .. n) \ S : i # j => Cardinality(S) + 2 <= n
  <2>1. S # 1 .. n
    BY <1>3
  <2>2. IsFiniteSet(S \cup {i}) /\ Cardinality(S \cup {i}) = Cardinality(S) + 1
    BY <1>2, <1>3, FS_AddElement
  <2>3. ASSUME NEW j \in (1 .. n) \ S, i # j
        PROVE  Cardinality(S) + 2 <= n
    <3> DEFINE T == S \cup {i}
    <3>0. j \notin T
      BY <2>3
    <3> HIDE DEF T
    <3>1a. Cardinality(T \cup {j}) = Cardinality(T) + 1
      BY <2>2, <3>0, FS_AddElement DEF T
    <3>1. Cardinality((S \cup {i}) \cup {j}) = Cardinality(S) + 2
      BY <1>2, <2>2, <3>1a DEF T
    <3>2. (S \cup {i}) \cup {j} \in SUBSET (1 .. n)
      BY <1>3, <2>3
    <3>3. Cardinality((S \cup {i}) \cup {j}) <= Cardinality(1 .. n)
      BY <1>1, <3>2, FS_Subset
    <3> QED
      BY <1>1, <1>2, <3>1, <3>3
  <2> QED
    BY <1>2, <2>1, <2>2, <2>3
<1> QED
  BY <1>2, <1>3

(* A well-formed fragment fits between its offset and the bound.           *)
LEMMA WellFormedFragment ==
  ASSUME NEW f \in Fragment, WellFormed(f)
  PROVE  /\ f.count \in Nat \ {0} /\ f.index \in 1 .. f.count
         /\ f.payload \in Seq(Byte) /\ Len(f.payload) \in 1 .. ChunkSize
         /\ f.index # f.count => Len(f.payload) = ChunkSize
         /\ f.count <= MaxFragments /\ Offset(f.count) < MaxSize
         /\ End(f) \in Nat /\ End(f) <= MaxSize
         /\ End(f) = Offset(f.index) + Len(f.payload)
         /\ End(f) <= f.count * ChunkSize
         /\ Offset(f.index) < End(f)
<1>1. /\ f.count \in 1 .. MaxFragments /\ f.index \in 1 .. MaxFragments
      /\ f.payload \in Payload /\ f.payload \in Seq(Byte)
      /\ MaxPayload \in 1 .. ChunkSize /\ ChunkSize \in Nat \ {0}
      /\ MaxFragments \in Nat \ {0} /\ MaxSize \in Nat
  BY ReassemblyLimits DEF Fragment
<1>2. f.count \in Nat \ {0} /\ f.index \in Nat \ {0} /\ f.index <= f.count
  BY <1>1 DEF WellFormed
<1>3. Len(f.payload) \in 1 .. ChunkSize
  BY <1>1 DEF WellFormed
<1>4. Offset(f.index) \in Nat /\ Offset(f.count) \in Nat
  BY <1>2, Offsets
<1>5. f.index < f.count => Offset(f.index) + ChunkSize <= Offset(f.count)
  BY <1>2, Offsets
<1>6. f.count * ChunkSize = Offset(f.count) + ChunkSize
  BY <1>2, Offsets
<1>7. End(f) \in Nat /\ End(f) = Offset(f.index) + Len(f.payload)
  BY <1>1, <1>3, <1>4 DEF End
<1>8. End(f) <= f.count * ChunkSize
  BY <1>1, <1>2, <1>3, <1>4, <1>5, <1>6, <1>7, SMTT(30)
<1>9. Offset(f.count) < MaxSize /\ End(f) <= MaxSize /\ f.count <= MaxFragments
      /\ (f.index # f.count => Len(f.payload) = ChunkSize)
  <2>1. Offset(f.count) + 1 <= MaxSize /\ End(f) <= MaxSize /\ f.count <= MaxFragments
    BY DEF WellFormed
  <2>2. f.index # f.count => Len(f.payload) = ChunkSize
    BY DEF WellFormed
  <2>3. Offset(f.count) < MaxSize
    BY <1>1, <1>4, <2>1
  <2> QED
    BY <2>1, <2>2, <2>3
<1>10. Offset(f.index) < End(f)
  BY <1>3, <1>4, <1>7
<1> QED
  BY <1>1, <1>2, <1>3, <1>7, <1>8, <1>9, <1>10

-----------------------------------------------------------------------------
\* The checks that come before the capacity checks, for a fragment to insert.
Admissible(f, now) ==
  /\ WellFormed(f)
  /\ IF active # None THEN Timely(f, now) /\ ~Present(f) ELSE Startable(f, now)

\* What the transfer, image and ranges a fragment goes into have in common,
\* whether the transfer is new or already under way.
GoodTarget(f, t, b, r) ==
  /\ t \in TransferState /\ t.count = f.count
  /\ b \in Seq(Byte) /\ Len(b) <= MaxSize
  /\ Offset(f.count) < Len(b) /\ End(f) <= Len(b)
  /\ DOMAIN r \subseteq 1 .. f.count /\ f.index \notin DOMAIN r
  /\ \A i \in DOMAIN r : r[i] \in Nat \ {0} /\ (i # f.count => r[i] = ChunkSize)
  /\ t.received = Cardinality(DOMAIN r)
  /\ f.count \in DOMAIN r =>
       /\ t.total = Offset(f.count) + r[f.count] /\ t.total <= Len(b)
       /\ t.received # 0 /\ t.covered = Offset(t.received) + r[f.count]
  /\ f.count \notin DOMAIN r =>
       /\ t.total = None /\ t.covered = t.received * ChunkSize
       /\ f.index # f.count => Len(b) = f.count * ChunkSize \/ Len(b) = MaxSize

(* A transfer that starts has room for every one of its fragments.         *)
LEMMA StartTarget ==
  ASSUME nextId \in Nat \ {0}, active = None,
         NEW f \in Fragment, NEW now \in Times, Admissible(f, now)
  PROVE  /\ GoodTarget(f, Target(f, now), Image(f), Held(f))
         /\ now < Target(f, now).deadline
<1> DEFINE t == StartState(f, now)
           b == [k \in 1 .. ImageSize(f) |-> Zero]
<1>1. /\ f.count \in Nat \ {0} /\ f.index \in 1 .. f.count
      /\ Offset(f.count) < MaxSize /\ Offset(f.count) \in Nat
      /\ f.count * ChunkSize = Offset(f.count) + ChunkSize
      /\ End(f) \in Nat /\ End(f) <= MaxSize /\ End(f) <= f.count * ChunkSize
      /\ f.index = f.count => Offset(f.count) < End(f)
      /\ MaxSize \in Nat /\ ChunkSize \in Nat \ {0} /\ Zero \in Byte
  <2>1. /\ f.count \in Nat \ {0} /\ f.index \in 1 .. f.count
        /\ Offset(f.count) < MaxSize
        /\ End(f) \in Nat /\ End(f) <= MaxSize /\ End(f) <= f.count * ChunkSize
        /\ Offset(f.index) < End(f)
    BY WellFormedFragment DEF Admissible
  <2>2. Offset(f.count) \in Nat /\ f.count * ChunkSize = Offset(f.count) + ChunkSize
    BY <2>1, Offsets
  <2> QED
    BY <2>1, <2>2, ReassemblyLimits
<1>2. now \in Nat /\ Timeout \in Nat \ {0} /\ now + Timeout \in Times /\ MaxTime \in Nat
  BY ReassemblyLimits DEF Admissible, Startable, Times
<1>3. t \in TransferState /\ t.count = f.count /\ t.received = 0 /\ t.covered = 0
      /\ t.total = None /\ now < t.deadline
  BY <1>1, <1>2 DEF StartState, TransferState
<1>4. /\ ImageSize(f) \in Nat /\ ImageSize(f) <= MaxSize
      /\ Offset(f.count) < ImageSize(f) /\ End(f) <= ImageSize(f)
      /\ f.index # f.count =>
           ImageSize(f) = f.count * ChunkSize \/ ImageSize(f) = MaxSize
  BY <1>1 DEF ImageSize
<1>5. b \in Seq(Byte) /\ Len(b) = ImageSize(f)
  <2>1. b \in [1 .. ImageSize(f) -> Byte]
    BY <1>1
  <2> QED
    BY <1>4, <2>1
<1>6. DOMAIN NoRanges = {} /\ Cardinality({}) = 0
  BY FS_EmptySet DEF NoRanges
<1>7. 0 * ChunkSize = 0
  BY <1>1, SMTT(10)
<1> HIDE DEF t, b
<1>8. GoodTarget(f, t, b, NoRanges)
  BY <1>1, <1>3, <1>4, <1>5, <1>6, <1>7 DEF GoodTarget
<1>9. Target(f, now) = t /\ Image(f) = b /\ Held(f) = NoRanges
  BY DEF Target, Image, Held, t, b
<1> QED
  BY <1>3, <1>8, <1>9

(* The transfer under way has room for every fragment it lacks.            *)
LEMMA ActiveTarget ==
  ASSUME GoodState(active, bytes, ranges, tombstone), active # None,
         NEW f \in Fragment, NEW now \in Times, Admissible(f, now)
  PROVE  /\ GoodTarget(f, Target(f, now), Image(f), Held(f))
         /\ now < Target(f, now).deadline
<1>1. /\ f.count \in Nat \ {0} /\ f.index \in 1 .. f.count
      /\ End(f) \in Nat /\ End(f) <= MaxSize /\ End(f) <= f.count * ChunkSize
      /\ End(f) = Offset(f.index) + Len(f.payload)
      /\ f.index # f.count => Len(f.payload) = ChunkSize
  BY WellFormedFragment DEF Admissible
<1>2. Offset(f.count) \in Nat /\ Offset(f.index) \in Nat
      /\ (f.index < f.count => Offset(f.index) + ChunkSize <= Offset(f.count))
  <2>1. f.index \in Nat \ {0}
    BY <1>1
  <2> QED
    BY <1>1, <2>1, Offsets
<1>3. /\ active \in TransferState /\ active.count = f.count /\ now < active.deadline
      /\ f.index \notin DOMAIN ranges
  BY DEF Admissible, Timely, Present, GoodState
<1>4. bytes \in Seq(Byte) /\ Len(bytes) \in Nat /\ ConsistentTransfer(active, bytes, ranges)
      /\ \A i \in DOMAIN ranges : ranges[i] \in Nat \ {0}
  BY DEF GoodState
<1>5. Offset(f.count) < Len(bytes) /\ Len(bytes) <= MaxSize
  BY <1>3, <1>4 DEF ConsistentTransfer
<1>6. End(f) <= Len(bytes)
  <2>1. CASE f.index # f.count
    BY <1>1, <1>2, <1>4, <1>5, <2>1
  <2>2. CASE f.index = f.count
    <3>1. Len(bytes) = f.count * ChunkSize \/ Len(bytes) = MaxSize
      BY <1>3, <1>4, <2>2 DEF ConsistentTransfer
    <3> QED
      BY <1>1, <3>1
  <2> QED
    BY <2>1, <2>2
<1>7. GoodTarget(f, active, bytes, ranges)
  BY <1>3, <1>4, <1>5, <1>6 DEF GoodTarget, ConsistentTransfer
<1>8. Target(f, now) = active /\ Image(f) = bytes /\ Held(f) = ranges
  BY DEF Target, Image, Held
<1> QED
  BY <1>3, <1>7, <1>8

-----------------------------------------------------------------------------
(* The counters after an insert agree with the ranges after it, and the    *)
(* transfer stays within the bound.                                        *)
LEMMA CountersAfter ==
  ASSUME NEW f \in Fragment, NEW now \in Times, WellFormed(f),
         GoodTarget(f, Target(f, now), Image(f), Held(f))
  PROVE  LET s == StateAfter(f, now)
             q == RangesAfter(f)
             n == f.count
         IN  /\ s \in TransferState /\ s.count = n
             /\ s.lastAt = now /\ s.deadline = Target(f, now).deadline
             /\ DOMAIN q \subseteq 1 .. n /\ \A i \in DOMAIN q : q[i] \in Nat \ {0}
             /\ s.received = Cardinality(DOMAIN q) /\ s.received \in 1 .. n
             /\ \A i \in DOMAIN q \ {n} : q[i] = ChunkSize
             /\ n \in DOMAIN q =>
                  /\ s.total = Offset(n) + q[n] /\ s.total <= Len(Image(f))
                  /\ s.covered = Offset(s.received) + q[n]
             /\ n \notin DOMAIN q =>
                  /\ s.total = None /\ s.covered = s.received * ChunkSize
                  /\ s.received < n
                  /\ Len(Image(f)) = n * ChunkSize \/ Len(Image(f)) = MaxSize
             /\ s.covered <= MaxSize
<1> DEFINE t == Target(f, now)
           b == Image(f)
           r == Held(f)
           s == StateAfter(f, now)
           q == RangesAfter(f)
           n == f.count
           c == t.received
           len == Len(f.payload)
<1>0. GoodTarget(f, t, b, r)
  OBVIOUS
<1>1. s = [t EXCEPT !.received = @ + 1, !.covered = @ + len, !.lastAt = now,
                    !.total = IF f.index = n THEN End(f) ELSE @]
  BY DEF StateAfter
<1>2. q = [i \in DOMAIN r \cup {f.index} |-> IF i = f.index THEN len ELSE r[i]]
  BY DEF RangesAfter
<1>2a. c = t.received /\ n = f.count /\ len = Len(f.payload)
  OBVIOUS
<1> HIDE DEF t, b, r, s, q, n, c, len
<1>3. /\ n \in Nat \ {0} /\ f.index \in 1 .. n /\ len \in 1 .. ChunkSize
      /\ f.index # n => len = ChunkSize
      /\ Offset(n) < MaxSize /\ MaxSize \in Nat /\ ChunkSize \in Nat \ {0}
      /\ End(f) \in Nat /\ End(f) = Offset(f.index) + len
  BY WellFormedFragment, ReassemblyLimits, <1>2a
<1>4. /\ t \in TransferState /\ t.count = n /\ c \in Nat /\ t.covered \in Nat
      /\ Len(b) \in Nat /\ Len(b) <= MaxSize /\ Offset(n) < Len(b) /\ End(f) <= Len(b)
  BY <1>0, <1>2a DEF GoodTarget, TransferState
<1>5. /\ DOMAIN r \in SUBSET (1 .. n) /\ f.index \in (1 .. n) \ DOMAIN r
      /\ c = Cardinality(DOMAIN r)
  BY <1>0, <1>2a, <1>3 DEF GoodTarget
<1>6. /\ c <= n - 1 /\ Cardinality(DOMAIN r \cup {f.index}) = c + 1
      /\ \A j \in (1 .. n) \ DOMAIN r : f.index # j => c + 2 <= n
  <2>1. n \in Nat \ {0} /\ f.index \in (1 .. n) \ DOMAIN r
    BY <1>3, <1>5
  <2>2. \A i \in (1 .. n) \ DOMAIN r :
          /\ Cardinality(DOMAIN r) <= n - 1
          /\ Cardinality(DOMAIN r \cup {i}) = Cardinality(DOMAIN r) + 1
          /\ \A j \in (1 .. n) \ DOMAIN r : i # j => Cardinality(DOMAIN r) + 2 <= n
    BY <1>5, <2>1, IndexSets
  <2> QED
    BY <1>5, <2>1, <2>2, Zenon
<1>7. /\ DOMAIN q = DOMAIN r \cup {f.index} /\ q[f.index] = len
      /\ \A i \in DOMAIN r : q[i] = r[i]
  BY <1>2, <1>5
<1>8. /\ \A i \in DOMAIN q : q[i] \in Nat \ {0}
      /\ \A i \in DOMAIN q \ {n} : q[i] = ChunkSize
  BY <1>0, <1>2a, <1>3, <1>7, SMTT(30) DEF GoodTarget
<1>9. /\ s \in TransferState /\ s.count = n /\ s.received = c + 1
      /\ s.covered = t.covered + len /\ s.lastAt = now /\ s.deadline = t.deadline
      /\ s.total = IF f.index = n THEN End(f) ELSE t.total
  <2>1. c + 1 \in Nat /\ t.covered + len \in Nat /\ End(f) \in Nat
    BY <1>3, <1>4
  <2> QED
    BY <1>1, <1>2a, <1>4, <2>1 DEF TransferState
<1>10. /\ Offset(c + 1) = c * ChunkSize /\ Offset(c + 1) \in Nat /\ Offset(n) \in Nat
       /\ (c + 1) * ChunkSize = c * ChunkSize + ChunkSize
       /\ c # 0 => c * ChunkSize = Offset(c) + ChunkSize /\ Offset(c) \in Nat
       /\ c * ChunkSize \in Nat
  BY <1>3, <1>4, Offsets, ChunkProducts
<1>11. c + 1 < n => Offset(c + 1) + ChunkSize <= Offset(n)
  <2>1. c + 1 \in Nat \ {0}
    BY <1>4
  <2> QED
    BY <1>3, <2>1, Offsets
<1>12. ASSUME n \in DOMAIN q
       PROVE  /\ s.total = Offset(n) + q[n] /\ s.total <= Len(b)
              /\ s.covered = Offset(s.received) + q[n] /\ s.covered <= MaxSize
  <2>1. /\ s.total = Offset(n) + q[n] /\ s.total <= Len(b)
        /\ s.covered = Offset(c + 1) + q[n]
    <3>1. CASE f.index = n
      <4>1. n \notin DOMAIN r
        BY <1>5, <3>1
      <4>2. t.covered = c * ChunkSize
        BY <1>0, <1>2a, <4>1 DEF GoodTarget
      <4> QED
        BY <1>3, <1>4, <1>7, <1>9, <1>10, <3>1, <4>2
    <3>2. CASE f.index # n
      <4>1. n \in DOMAIN r
        BY <1>7, <1>12, <3>2
      <4>2. /\ t.total = Offset(n) + r[n] /\ t.total <= Len(b)
            /\ c # 0 /\ t.covered = Offset(c) + r[n] /\ r[n] \in Nat
        BY <1>0, <1>2a, <4>1 DEF GoodTarget
      <4>3. q[n] = r[n]
        BY <1>7, <4>1
      <4>4. s.total = t.total
        BY <1>9, <3>2
      <4>5. len = ChunkSize /\ s.covered = t.covered + len
        BY <1>3, <1>9, <3>2
      <4>6. t.covered + ChunkSize = Offset(c + 1) + r[n]
        BY <1>3, <1>4, <1>10, <4>2, SMTT(30)
      <4> QED
        BY <4>2, <4>3, <4>4, <4>5, <4>6
    <3> QED
      BY <3>1, <3>2
  <2>2. Offset(c + 1) <= Offset(n)
    <3>1. CASE c + 1 = n
      BY <1>10, <3>1
    <3>2. CASE c + 1 < n
      BY <1>3, <1>10, <1>11, <3>2
    <3> QED
      BY <1>3, <1>4, <1>6, <3>1, <3>2
  <2>3. q[n] \in Nat
    BY <1>8, <1>12
  <2>4. s.covered = Offset(s.received) + q[n]
    BY <1>9, <2>1
  <2>5. s.covered <= Offset(n) + q[n]
    BY <1>10, <2>1, <2>2, <2>3
  <2>6. Offset(n) + q[n] <= MaxSize /\ s.covered \in Nat
    <3>1. Offset(n) + q[n] <= Len(b) /\ s.covered = Offset(c + 1) + q[n]
      BY <2>1
    <3>2. Offset(n) \in Nat /\ Offset(c + 1) \in Nat /\ q[n] \in Nat
      BY <1>10, <2>3
    <3>3. Len(b) \in Nat /\ Len(b) <= MaxSize /\ MaxSize \in Nat
      BY <1>3, <1>4
    <3> QED
      BY <3>1, <3>2, <3>3
  <2> QED
    BY <1>3, <1>10, <2>1, <2>3, <2>4, <2>5, <2>6
<1>13. ASSUME n \notin DOMAIN q
       PROVE  /\ s.total = None /\ s.covered = s.received * ChunkSize
              /\ s.received < n /\ s.covered <= MaxSize
              /\ Len(b) = n * ChunkSize \/ Len(b) = MaxSize
  <2>1. f.index # n /\ n \notin DOMAIN r /\ n \in 1 .. n
    BY <1>3, <1>7, <1>13
  <2>2. c + 2 <= n
    BY <1>6, <2>1
  <2>3. t.total = None /\ t.covered = c * ChunkSize
        /\ (Len(b) = n * ChunkSize \/ Len(b) = MaxSize)
    BY <1>0, <1>2a, <2>1 DEF GoodTarget
  <2>4. Offset(c + 1) + ChunkSize <= Offset(n)
    BY <1>3, <1>4, <1>11, <2>2
  <2> QED
    BY <1>3, <1>4, <1>9, <1>10, <2>1, <2>2, <2>3, <2>4
<1>14. s.received \in 1 .. n /\ s.received = Cardinality(DOMAIN q)
       /\ DOMAIN q \subseteq 1 .. n
  BY <1>3, <1>4, <1>5, <1>6, <1>7, <1>9
<1>15. s.covered <= MaxSize
  BY <1>12, <1>13
<1> QED
  BY <1>8, <1>9, <1>12, <1>13, <1>14, <1>15 DEF t, b, r, s, q, n, c, len

(* The fragments of a complete transfer tile it: the boundary check that    *)
(* ends an insert cannot fail.                                             *)
LEMMA CompleteTiles ==
  ASSUME NEW f \in Fragment, NEW now \in Times, WellFormed(f),
         GoodTarget(f, Target(f, now), Image(f), Held(f)), AllReceived(f, now)
  PROVE  /\ Tiles(RangesAfter(f), StateAfter(f, now).total)
         /\ StateAfter(f, now).total \in Nat
         /\ StateAfter(f, now).total <= Len(Image(f))
<1> DEFINE s == StateAfter(f, now)
           q == RangesAfter(f)
           n == f.count
<1>1. /\ DOMAIN q \in SUBSET (1 .. n) /\ s.received = n /\ Cardinality(DOMAIN q) = n
      /\ \A i \in DOMAIN q : q[i] \in Nat \ {0}
      /\ \A i \in DOMAIN q \ {n} : q[i] = ChunkSize
      /\ n \in DOMAIN q => s.total = Offset(n) + q[n] /\ s.total <= Len(Image(f))
  BY CountersAfter DEF AllReceived
<1>2. n \in Nat \ {0} /\ ChunkSize \in Nat \ {0} /\ Offset(n) \in Nat
  <2>1. n \in Nat \ {0} /\ ChunkSize \in Nat \ {0}
    BY WellFormedFragment, ReassemblyLimits
  <2> QED
    BY <2>1, Offsets
<1> HIDE DEF s, q, n
<1>3. DOMAIN q = 1 .. n /\ n \in DOMAIN q
  BY <1>1, <1>2, IndexSets
<1>4. s.total = Offset(n) + q[n] /\ s.total \in Nat
  BY <1>1, <1>2, <1>3
<1>5. ASSUME NEW i \in DOMAIN q
      PROVE  /\ Offset(i) = 0 \/ \E j \in DOMAIN q : Offset(j) + q[j] = Offset(i)
             /\ Offset(i) + q[i] <= s.total
  <2>1. i \in Nat \ {0} /\ i <= n /\ Offset(i) \in Nat
    <3>1. i \in Nat \ {0} /\ i <= n
      BY <1>2, <1>3
    <3> QED
      BY <3>1, Offsets
  <2>2. CASE i = 1
    <3>1. Offset(i) = 0
      BY <2>2, Offsets
    <3>2. CASE n = 1
      BY <1>4, <2>2, <3>1, <3>2
    <3>3. CASE n # 1
      <4>1. q[i] = ChunkSize /\ Offset(i) + ChunkSize <= Offset(n)
        BY <1>1, <1>2, <2>1, <2>2, <3>3, Offsets
      <4> QED
        BY <1>1, <1>2, <1>3, <1>4, <3>1, <4>1
    <3> QED
      BY <3>2, <3>3
  <2>3. CASE i # 1
    <3>1. i - 1 \in Nat \ {0} /\ i - 1 \in 1 .. n /\ i - 1 # n /\ (i - 1) + 1 = i
      BY <1>2, <2>1, <2>3
    <3>2. q[i - 1] = ChunkSize
      BY <1>1, <1>3, <3>1
    <3>3. Offset(i - 1) + ChunkSize = Offset(i)
      <4>1. (i - 1) * ChunkSize = Offset(i - 1) + ChunkSize
        BY <3>1, Offsets
      <4>2. Offset((i - 1) + 1) = (i - 1) * ChunkSize
        BY <3>1, Offsets
      <4> QED
        BY <3>1, <4>1, <4>2
    <3>4. Offset(i) + q[i] <= s.total
      <4>1. CASE i = n
        BY <1>4, <2>1, <4>1, <1>1, <1>2
      <4>2. CASE i # n
        <5>1. i < n
          BY <1>2, <2>1, <4>2
        <5>2. q[i] = ChunkSize /\ Offset(i) + ChunkSize <= Offset(n)
          BY <1>1, <1>2, <2>1, <4>2, <5>1, Offsets
        <5> QED
          BY <1>1, <1>2, <1>3, <1>4, <2>1, <5>2
      <4> QED
        BY <4>1, <4>2
    <3> QED
      BY <1>3, <3>1, <3>2, <3>3, <3>4
  <2> QED
    BY <2>2, <2>3
<1>6. s.total # None
  BY <1>4, ReassemblyNone
<1>7. Tiles(q, s.total)
  BY <1>3, <1>4, <1>5, <1>6 DEF Tiles
<1> QED
  BY <1>1, <1>3, <1>4, <1>7 DEF s, q

(* Writing a fragment into an image with room for it keeps it an image of   *)
(* the same size.                                                          *)
LEMMA ImageAfterType ==
  ASSUME NEW f \in Fragment, WellFormed(f), Image(f) \in Seq(Byte), End(f) <= Len(Image(f))
  PROVE  ImageAfter(f) \in Seq(Byte) /\ Len(ImageAfter(f)) = Len(Image(f))
<1>1. /\ Offset(f.index) \in Nat /\ End(f) = Offset(f.index) + Len(f.payload)
      /\ f.payload \in Seq(Byte) /\ End(f) \in Nat
  <2>1. /\ f.index \in Nat \ {0} /\ f.payload \in Seq(Byte) /\ End(f) \in Nat
        /\ End(f) = Offset(f.index) + Len(f.payload)
    BY WellFormedFragment
  <2> QED
    BY <2>1, Offsets
<1>2. ASSUME NEW k \in 1 .. Len(Image(f))
      PROVE  (IF Offset(f.index) < k /\ k <= End(f) THEN f.payload[k - Offset(f.index)]
              ELSE Image(f)[k]) \in Byte
  <2>1. CASE Offset(f.index) < k /\ k <= End(f)
    <3>1. k - Offset(f.index) \in 1 .. Len(f.payload)
      BY <1>1, <2>1
    <3> QED
      BY <1>1, <2>1, <3>1
  <2>2. CASE ~(Offset(f.index) < k /\ k <= End(f))
    BY <2>2
  <2> QED
    BY <2>1, <2>2
<1>3. ImageAfter(f) \in [1 .. Len(Image(f)) -> Byte]
  BY <1>2 DEF ImageAfter
<1>4. Len(Image(f)) \in Nat
  OBVIOUS
<1> QED
  BY <1>3, <1>4

(* A fragment that belongs to the transfer under way and is missing never   *)
(* overlaps one that is there.                                             *)
LEMMA MissingIsDisjoint ==
  ASSUME GoodState(active, bytes, ranges, tombstone), active # None,
         NEW f \in Fragment, NEW now \in Times, Admissible(f, now)
  PROVE  Disjoint(f)
<1>1. /\ f.count \in Nat \ {0} /\ f.index \in 1 .. f.count
      /\ End(f) = Offset(f.index) + Len(f.payload) /\ Len(f.payload) \in Nat
      /\ f.index # f.count => Len(f.payload) = ChunkSize
  BY WellFormedFragment DEF Admissible
<1>2. /\ active.count = f.count /\ f.index \notin DOMAIN ranges
      /\ DOMAIN ranges \subseteq 1 .. f.count
      /\ \A i \in DOMAIN ranges \ {f.count} : ranges[i] = ChunkSize
  BY DEF Admissible, Timely, Present, GoodState, ConsistentTransfer
<1>3. ASSUME NEW i \in DOMAIN ranges
      PROVE  Offset(i) + ranges[i] <= Offset(f.index) \/ End(f) <= Offset(i)
  <2>1. i \in Nat \ {0} /\ f.index \in Nat \ {0} /\ i <= f.count /\ f.index <= f.count
        /\ i # f.index
    BY <1>1, <1>2, <1>3
  <2>2. CASE i < f.index
    <3>1. ranges[i] = ChunkSize
      BY <1>1, <1>2, <2>1, <2>2
    <3> QED
      BY <2>1, <2>2, <3>1, Offsets
  <2>3. CASE f.index < i
    <3>1. Len(f.payload) = ChunkSize
      BY <1>1, <2>1, <2>3
    <3> QED
      BY <1>1, <2>1, <2>3, <3>1, Offsets
  <2> QED
    BY <2>1, <2>2, <2>3
<1> QED
  BY <1>3 DEF Disjoint

-----------------------------------------------------------------------------
(* An admissible fragment meets a target with room for it.                 *)
LEMMA AdmissibleTarget ==
  ASSUME GoodState(active, bytes, ranges, tombstone), nextId \in Nat \ {0},
         NEW f \in Fragment, NEW now \in Times, Admissible(f, now)
  PROVE  /\ GoodTarget(f, Target(f, now), Image(f), Held(f))
         /\ now < Target(f, now).deadline
<1>1. CASE active = None
  BY <1>1, StartTarget
<1>2. CASE active # None
  BY <1>2, ActiveTarget
<1> QED
  BY <1>1, <1>2

(* The plan for a fragment that is inserted carries a good state.          *)
LEMMA InsertPlanIsGood ==
  ASSUME GoodState(active, bytes, ranges, tombstone), nextId \in Nat \ {0},
         NEW f \in Fragment, NEW now \in Times, Insertable(f, now)
  PROVE  GoodPlan(InsertPlan(f, now))
<1> DEFINE s == StateAfter(f, now)
           q == RangesAfter(f)
           p == InsertPlan(f, now)
<1>1. Admissible(f, now) /\ WellFormed(f)
  BY DEF Insertable, Admissible
<1>2. GoodTarget(f, Target(f, now), Image(f), Held(f)) /\ now < Target(f, now).deadline
  BY <1>1, AdmissibleTarget
<1>3. ImageAfter(f) \in Seq(Byte) /\ Len(ImageAfter(f)) = Len(Image(f))
  BY <1>1, <1>2, ImageAfterType DEF GoodTarget
<1>4. f.count \in Nat \ {0} /\ f.count <= MaxFragments /\ Offset(f.count) < MaxSize
  BY <1>1, WellFormedFragment
<1>5. p.nextId \in Nat \ {0}
  BY DEF InsertPlan
<1>6. CASE AllReceived(f, now)
  <2>1. s.total \in Nat /\ s.total <= Len(ImageAfter(f))
    BY <1>1, <1>2, <1>3, <1>6, CompleteTiles
  <2>2. p.completion = SubSeq(ImageAfter(f), 1, s.total)
    BY <1>6 DEF InsertPlan
  <2>3. SubSeq(ImageAfter(f), 1, s.total) \in Seq(Byte)
    BY <1>3, <2>1
  <2>4. /\ p.active = None /\ p.bytes = <<>> /\ p.ranges = NoRanges
        /\ p.tombstone = f.count
    BY <1>6 DEF InsertPlan
  <2>5. GoodState(p.active, p.bytes, p.ranges, p.tombstone)
    BY <1>4, <2>4 DEF GoodState, NoRanges
  <2> QED
    BY <1>5, <2>2, <2>3, <2>5 DEF GoodPlan
<1>7. CASE ~AllReceived(f, now)
  <2>1. /\ p.active = s /\ p.bytes = ImageAfter(f) /\ p.ranges = q
        /\ p.completion = None
        /\ p.tombstone = IF active # None THEN tombstone ELSE None
    BY <1>7 DEF InsertPlan
  <2>2. p.tombstone = None
    BY <2>1 DEF GoodState
  <2>3. /\ s \in TransferState /\ s.count = f.count
        /\ s.lastAt = now /\ s.deadline = Target(f, now).deadline
        /\ DOMAIN q \subseteq 1 .. f.count /\ \A i \in DOMAIN q : q[i] \in Nat \ {0}
        /\ s.received = Cardinality(DOMAIN q) /\ s.received \in 1 .. f.count
        /\ \A i \in DOMAIN q \ {f.count} : q[i] = ChunkSize
        /\ f.count \in DOMAIN q =>
             /\ s.total = Offset(f.count) + q[f.count] /\ s.total <= Len(Image(f))
             /\ s.covered = Offset(s.received) + q[f.count]
        /\ f.count \notin DOMAIN q =>
             /\ s.total = None /\ s.covered = s.received * ChunkSize
             /\ Len(Image(f)) = f.count * ChunkSize \/ Len(Image(f)) = MaxSize
    BY <1>1, <1>2, CountersAfter
  <2>4. s.received # f.count
    BY <1>7, <2>3 DEF AllReceived
  <2>5. Len(Image(f)) <= MaxSize /\ Offset(f.count) < Len(Image(f))
    BY <1>2 DEF GoodTarget
  <2> HIDE DEF s, q, p
  <2>6. s.received \in 1 .. s.count - 1
    BY <1>4, <2>3, <2>4
  <2>7. ConsistentTransfer(s, ImageAfter(f), q)
    BY <1>2, <1>3, <1>4, <2>3, <2>5, <2>6 DEF ConsistentTransfer
  <2>8. s # None
    BY <2>3, ReassemblyNone
  <2>9. GoodState(s, ImageAfter(f), q, None)
    BY <1>3, <1>4, <2>3, <2>7, <2>8 DEF GoodState
  <2> QED
    BY <1>5, <2>1, <2>2, <2>9 DEF GoodPlan, p
<1> QED
  BY <1>6, <1>7

(* Every plan prepare_insert returns is good.                              *)
LEMMA PlansAreGood ==
  ASSUME GoodState(active, bytes, ranges, tombstone), nextId \in Nat \ {0},
         NEW f \in Fragment, NEW now \in Times, NEW p \in Plans(f, now)
  PROVE  GoodPlan(p)
<1>1. CASE Insertable(f, now) /\ p = InsertPlan(f, now)
  BY <1>1, InsertPlanIsGood
<1>2. CASE p = RepeatPlan
  BY <1>2 DEF RepeatPlan, GoodPlan
<1> QED
  BY <1>1, <1>2 DEF Plans

(* Applying a good plan leaves a good state.                               *)
LEMMA ApplyGoodPlan ==
  ASSUME IInv, NEW p, GoodPlan(p), ~p.unchanged => revision < MaxRevision, Apply(p)
  PROVE  /\ GoodState(active, bytes, ranges, tombstone)'
         /\ (nextId \in Nat \ {0} /\ revision \in 0 .. MaxRevision)'
         /\ (published \in Seq(Byte) \cup {None})'
<1>1. CASE p.unchanged
  BY <1>1 DEF Apply, imageVars, IInv
<1>2. CASE ~p.unchanged
  <2>1. /\ active' = p.active /\ bytes' = p.bytes /\ ranges' = p.ranges
        /\ tombstone' = p.tombstone /\ nextId' = p.nextId
        /\ published' = IF p.completion = None THEN published ELSE p.completion
        /\ revision' = revision + 1
    BY <1>2 DEF Apply
  <2>2. /\ GoodState(p.active, p.bytes, p.ranges, p.tombstone)
        /\ p.nextId \in Nat \ {0} /\ p.completion \in Seq(Byte) \cup {None}
    BY <1>2 DEF GoodPlan
  <2>3. GoodState(active, bytes, ranges, tombstone)'
    BY <2>1, <2>2
  <2>4. (revision \in 0 .. MaxRevision)'
    BY <1>2, <2>1, ReassemblyLimits DEF IInv
  <2> QED
    BY <2>1, <2>2, <2>3, <2>4 DEF IInv
<1> QED
  BY <1>1, <1>2

(* Nothing held, nothing received: a good state, whatever the mark.        *)
LEMMA EmptyIsGood ==
  ASSUME NEW t \in Nat \cup {None}
  PROVE  GoodState(None, <<>>, NoRanges, t)
  BY DEF GoodState, NoRanges

-----------------------------------------------------------------------------
(* The invariant holds at the start and every operation preserves it.      *)
LEMMA InitIInv == Init => IInv
<1> SUFFICES ASSUME Init PROVE IInv
  OBVIOUS
<1>1. GoodState(None, <<>>, NoRanges, None)
  BY EmptyIsGood
<1>2. GoodState(active, bytes, ranges, tombstone)
  BY <1>1 DEF Init
<1>3. nextId \in Nat \ {0} /\ revision \in 0 .. MaxRevision
  BY ReassemblyLimits DEF Init
<1>4. valid \in BOOLEAN /\ published \in Seq(Byte) \cup {None} /\ held = None
  BY DEF Init
<1> QED
  BY <1>2, <1>3, <1>4 DEF IInv

LEMMA NextIInv == IInv /\ [Next]_reassemblyVars => IInv'
<1> SUFFICES ASSUME IInv, [Next]_reassemblyVars PROVE IInv'
  OBVIOUS
<1>0. /\ GoodState(active, bytes, ranges, tombstone) /\ nextId \in Nat \ {0}
      /\ revision \in 0 .. MaxRevision /\ valid \in BOOLEAN /\ MaxRevision \in Nat
      /\ published \in Seq(Byte) \cup {None} /\ tombstone \in Nat \cup {None}
      /\ held # None => GoodPlan(held)
  BY ReassemblyLimits DEF IInv, GoodState
<1>1. ASSUME NEW f \in Fragment, NEW now \in Times, Prepare(f, now) PROVE IInv'
  <2>1. PICK p \in Plans(f, now) : held' = p
    BY <1>1 DEF Prepare
  <2>2. GoodPlan(p)
    BY <1>0, PlansAreGood
  <2>3. UNCHANGED <<imageVars, revision, valid>>
    BY <1>1 DEF Prepare
  <2>4. GoodState(active, bytes, ranges, tombstone)'
    BY <1>0, <2>3 DEF imageVars
  <2>5. GoodPlan(held')
    BY <2>1, <2>2
  <2> QED
    BY <1>0, <2>3, <2>4, <2>5 DEF IInv, imageVars, GoodPlan
<1>2. ASSUME NEW f \in Fragment, NEW now \in Times, Insert(f, now) PROVE IInv'
  <2>1. PICK p \in Plans(f, now) : Apply(p)
    BY <1>2 DEF Insert
  <2>2. GoodPlan(p)
    BY <1>0, PlansAreGood
  <2>3. ~p.unchanged => revision < MaxRevision
    BY <2>1 DEF Plans, RepeatPlan, Insertable
  <2>4. /\ GoodState(active, bytes, ranges, tombstone)'
        /\ (nextId \in Nat \ {0} /\ revision \in 0 .. MaxRevision)'
        /\ (published \in Seq(Byte) \cup {None})'
    BY <2>1, <2>2, <2>3, ApplyGoodPlan
  <2>5. UNCHANGED <<valid, held>>
    BY <1>2 DEF Insert
  <2> QED
    BY <1>0, <2>4, <2>5 DEF IInv, GoodPlan
<1>3. CASE CommitHeld
  <2>1. GoodPlan(held) /\ Apply(held) /\ (~held.unchanged => revision < MaxRevision)
    BY <1>0, <1>3 DEF CommitHeld, Current
  <2>2. /\ GoodState(active, bytes, ranges, tombstone)'
        /\ (nextId \in Nat \ {0} /\ revision \in 0 .. MaxRevision)'
        /\ (published \in Seq(Byte) \cup {None})'
    BY <2>1, ApplyGoodPlan
  <2>3. valid' = valid /\ held' = None
    BY <1>3 DEF CommitHeld
  <2> QED
    BY <1>0, <2>2, <2>3 DEF IInv
<1>4. CASE DropHeld
  BY <1>0, <1>4 DEF DropHeld, IInv, imageVars, GoodState
<1>5. ASSUME NEW now \in Times, Expire(now) PROVE IInv'
  <2>1. GoodState(None, <<>>, NoRanges, tombstone)
    BY <1>0, EmptyIsGood
  <2>2. /\ active' = None /\ bytes' = <<>> /\ ranges' = NoRanges
        /\ tombstone' = tombstone /\ nextId' = nextId /\ published' = published
        /\ valid' = valid /\ held' = held /\ revision' = revision + 1
        /\ revision < MaxRevision
    BY <1>5 DEF Expire
  <2>3. GoodState(active, bytes, ranges, tombstone)'
    BY <2>1, <2>2
  <2>4. revision' \in 0 .. MaxRevision
    BY <1>0, <2>2
  <2> QED
    BY <1>0, <2>2, <2>3, <2>4 DEF IInv, GoodPlan
<1>6. CASE Clear
  <2>1. GoodState(None, <<>>, NoRanges, None)
    BY EmptyIsGood
  <2>2. /\ active' = None /\ bytes' = <<>> /\ ranges' = NoRanges /\ tombstone' = None
        /\ nextId' = nextId /\ published' = published /\ held' = held
    BY <1>6 DEF Clear
  <2>3. GoodState(active, bytes, ranges, tombstone)'
    BY <2>1, <2>2
  <2>4. revision' \in 0 .. MaxRevision
    <3>1. CASE revision < MaxRevision
      BY <1>0, <1>6, <3>1 DEF Clear
    <3>2. CASE ~(revision < MaxRevision)
      BY <1>0, <1>6, <3>2 DEF Clear
    <3> QED
      BY <3>1, <3>2
  <2>5. valid' \in BOOLEAN
    <3>1. valid' = valid \/ valid' = FALSE
      BY <1>6, Zenon DEF Clear
    <3> QED
      BY <1>0, <3>1
  <2> QED
    BY <1>0, <2>2, <2>3, <2>4, <2>5 DEF IInv, GoodPlan
<1>7. CASE UNCHANGED reassemblyVars
  <2>1. /\ UNCHANGED <<active, bytes, ranges, tombstone, nextId, published>>
        /\ UNCHANGED <<revision, valid, held>>
    BY <1>7 DEF reassemblyVars, imageVars
  <2> QED
    BY <1>0, <2>1 DEF IInv, GoodState, GoodPlan
<1> QED
  BY <1>1, <1>2, <1>3, <1>4, <1>5, <1>6, <1>7 DEF Next

(* The invariant in every state of every behaviour.                        *)
LEMMA SpecIInv == Spec => []IInv
  BY InitIInv, NextIInv, PTL DEF Spec

(* Types: what prepare_insert, commit_insert, expire and clear store is     *)
(* what the members of the class may hold.                                 *)
THEOREM ReassemblyTypeOK == Spec => []TypeOK
<1>1. IInv => TypeOK
  BY DEF IInv, GoodState, TypeOK
<1> QED
  BY <1>1, SpecIInv, PTL

(* The counters of NetchanNormalTransferState agree with the ranges and the *)
(* image, and a completed transfer's mark goes when the next one starts,   *)
(* whatever plans are prepared, overtaken, committed or abandoned.         *)
THEOREM ReassemblyIsConsistent == Spec => []ImageIsConsistent
<1>1. IInv => ImageIsConsistent
  BY DEF IInv, GoodState, ImageIsConsistent
<1> QED
  BY <1>1, SpecIInv, PTL

(* No missing fragment of the transfer under way that arrives in time is    *)
(* refused, in any order of arrival and however close to the size limit:   *)
(* prepare_insert's overlap, bounds, size, range and boundary errors are   *)
(* unreachable for it.                                                     *)
THEOREM ReassemblyTakesMissing == Spec => []MissingFragmentIsTaken
<1>1. IInv => MissingFragmentIsTaken
  <2> SUFFICES ASSUME IInv, NEW f \in Fragment, NEW now \in Times,
                      valid, revision < MaxRevision, WellFormed(f), active # None,
                      Timely(f, now), ~Present(f)
               PROVE  Insertable(f, now)
    BY DEF MissingFragmentIsTaken
  <2>1. /\ GoodState(active, bytes, ranges, tombstone) /\ nextId \in Nat \ {0}
        /\ Admissible(f, now)
    BY DEF IInv, Admissible
  <2>2. GoodTarget(f, Target(f, now), Image(f), Held(f))
    BY <2>1, AdmissibleTarget
  <2>3. Disjoint(f)
    BY <2>1, MissingIsDisjoint
  <2>4. End(f) <= Len(Image(f))
    BY <2>2 DEF GoodTarget
  <2>5. StateAfter(f, now).covered <= MaxSize
    BY <2>2, CountersAfter
  <2>6. AllReceived(f, now) => Tiles(RangesAfter(f), StateAfter(f, now).total)
    BY <2>2, CompleteTiles
  <2>7. Cardinality(DOMAIN ranges) < MaxRanges
    <3>1. ConsistentTransfer(active, bytes, ranges) /\ active \in TransferState
      BY <2>1 DEF GoodState
    <3>2. /\ Cardinality(DOMAIN ranges) \in 1 .. active.count - 1
          /\ active.count <= MaxFragments /\ active.count \in Nat
      BY <3>1 DEF ConsistentTransfer, TransferState
    <3> QED
      BY <3>2, ReassemblyLimits
  <2> QED
    BY <2>3, <2>4, <2>5, <2>6, <2>7 DEF Insertable
<1> QED
  BY <1>1, SpecIInv, PTL

-----------------------------------------------------------------------------
(* Pieces of sequences.                                                     *)

LEMMA SubSeqIs ==
  ASSUME NEW S, NEW s, NEW o \in Nat, NEW t \in Seq(S),
         \A k \in 1 .. Len(t) : s[o + k] = t[k] /\ s[o + k] \in S
  PROVE  SubSeq(s, o + 1, o + Len(t)) = t
<1> DEFINE u == SubSeq(s, o + 1, o + Len(t))
<1>1. PICK l \in Nat : l = Len(t)
  OBVIOUS
<1>2. \A i \in o + 1 .. o + l : s[i] \in S
  <2> TAKE i \in o + 1 .. o + l
  <2>1. i - o \in 1 .. l /\ o + (i - o) = i
    BY <1>1
  <2> QED
    BY <1>1, <2>1
<1>3. /\ u \in Seq(S) /\ Len(u) = IF o + 1 <= o + l THEN (o + l) - (o + 1) + 1 ELSE 0
      /\ \A i \in 1 .. (o + l) - (o + 1) + 1 : u[i] = s[(o + 1) + i - 1]
  <2>1. o + 1 \in Int /\ o + l \in Int
    BY <1>1
  <2> QED
    BY <1>1, <1>2, <2>1, SubSeqProperties
<1> HIDE DEF u
<1>4. Len(u) = l
  BY <1>1, <1>3
<1>5. \A i \in 1 .. l : u[i] = t[i]
  <2> TAKE i \in 1 .. l
  <2>1. i \in 1 .. (o + l) - (o + 1) + 1 /\ (o + 1) + i - 1 = o + i
    BY <1>1
  <2> QED
    BY <1>1, <1>3, <2>1
<1>6. u = t
  BY <1>1, <1>3, <1>4, <1>5, SeqEqual
<1> QED
  BY <1>6 DEF u

LEMMA SameSubSeq ==
  ASSUME NEW S, NEW s, NEW t, NEW o \in Nat, NEW l \in Nat,
         \A k \in o + 1 .. o + l : s[k] = t[k] /\ s[k] \in S /\ t[k] \in S
  PROVE  SubSeq(s, o + 1, o + l) = SubSeq(t, o + 1, o + l)
<1> DEFINE u == SubSeq(t, o + 1, o + l)
<1>1. o + 1 \in Int /\ o + l \in Int
  OBVIOUS
<1>2. /\ u \in Seq(S) /\ Len(u) = IF o + 1 <= o + l THEN (o + l) - (o + 1) + 1 ELSE 0
      /\ \A i \in 1 .. (o + l) - (o + 1) + 1 : u[i] = t[(o + 1) + i - 1]
  BY <1>1, SubSeqProperties
<1> HIDE DEF u
<1>3. Len(u) = l
  BY <1>2
<1>4. \A k \in 1 .. l : s[o + k] = u[k] /\ s[o + k] \in S
  <2> TAKE k \in 1 .. l
  <2>1. k \in 1 .. (o + l) - (o + 1) + 1 /\ (o + 1) + k - 1 = o + k /\ o + k \in o + 1 .. o + l
    OBVIOUS
  <2> QED
    BY <1>2, <2>1
<1>5. SubSeq(s, o + 1, o + Len(u)) = u
  BY <1>2, <1>3, <1>4, SubSeqIs
<1> QED
  BY <1>3, <1>5 DEF u

(* Induction over data goes by the least counterexample.                   *)
LEMMA LeastNumber == \A T \in SUBSET Nat : T # {} => \E x \in T : \A y \in T : x <= y
<1> DEFINE Less == {p \in Nat \X Nat : p[1] < p[2]}
<1>1. IsWellFoundedOn(Less, Nat)
  BY NatLessThanWellFounded DEF OpToRel
<1> SUFFICES ASSUME NEW T \in SUBSET Nat, T # {} PROVE \E x \in T : \A y \in T : x <= y
  OBVIOUS
<1> HIDE DEF Less
<1>2. PICK x \in T : \A y \in T : ~ (<<y, x>> \in Less)
  BY <1>1, WFMin
<1>3. x \in Nat
  OBVIOUS
<1>4. ASSUME NEW y \in T PROVE x <= y
  <2>1. y \in Nat
    OBVIOUS
  <2>2. <<y, x>> \in Less <=> y < x
    BY <1>3, <2>1 DEF Less
  <2> QED
    BY <1>2, <1>3, <2>1, <2>2
<1> QED
  BY <1>4

-----------------------------------------------------------------------------
(* The abstract state that a transfer, its image and its ranges stand for.  *)

Collecting(a) == IF a = None THEN None ELSE [count |-> a.count, deadline |-> a.deadline]
PartsOf(b, r) == [i \in DOMAIN r |-> SubSeq(b, Offset(i) + 1, Offset(i) + r[i])]

\* The plan adds one part to what is collected, or completes it.
Adds(c, ps, p) ==
  \E f \in Fragment, t \in [count : 1 .. MaxFragments, deadline : Times] :
    /\ f.index \in (1 .. t.count) \ DOMAIN ps
    /\ c # None => t = c
    /\ LET fs == Assembly!With(ps, f.index, f.payload)
       IN IF DOMAIN fs = 1 .. t.count
          THEN /\ p.active = None /\ p.ranges = NoRanges
               /\ p.completion # None /\ p.completion = Assembly!FlattenSeq(fs)
          ELSE /\ p.active # None /\ Collecting(p.active) = t
               /\ PartsOf(p.bytes, p.ranges) = fs
               /\ p.completion = None

\* A held plan that is still current adds a part to what is collected now.
HeldAdds ==
  held # None /\ ~held.unchanged =>
    /\ held.revision \in Nat /\ held.revision <= revision
    /\ valid /\ held.revision = revision =>
         Adds(Collecting(active), PartsOf(bytes, ranges), held)

(* Writing a fragment into the image adds its part and leaves the others as *)
(* they were: no byte of another fragment's range is touched.              *)
LEMMA PartsAfterInsert ==
  ASSUME NEW f \in Fragment, NEW now \in Times, WellFormed(f),
         GoodTarget(f, Target(f, now), Image(f), Held(f))
  PROVE  PartsOf(ImageAfter(f), RangesAfter(f))
           = Assembly!With(PartsOf(Image(f), Held(f)), f.index, f.payload)
<1> DEFINE b == Image(f)
           r == Held(f)
           g == ImageAfter(f)
           q == RangesAfter(f)
           n == f.count
           m == f.index
           len == Len(f.payload)
<1>1. GoodTarget(f, Target(f, now), b, r)
  OBVIOUS
<1>2. g = [k \in 1 .. Len(b) |-> IF Offset(m) < k /\ k <= End(f) THEN f.payload[k - Offset(m)]
                                 ELSE b[k]]
  BY DEF ImageAfter
<1>3. q = [i \in DOMAIN r \cup {m} |-> IF i = m THEN len ELSE r[i]]
  BY DEF RangesAfter
<1>4. n = f.count /\ m = f.index /\ len = Len(f.payload)
  OBVIOUS
<1>5. g \in Seq(Byte) /\ Len(g) = Len(b)
  BY <1>1, ImageAfterType DEF GoodTarget
<1> HIDE DEF b, r, g, q, n, m, len
<1>6. /\ n \in Nat \ {0} /\ m \in 1 .. n /\ m \in Nat \ {0} /\ len \in 1 .. ChunkSize
      /\ f.payload \in Seq(Byte)
      /\ m # n => len = ChunkSize
      /\ End(f) \in Nat /\ End(f) = Offset(m) + len /\ Offset(m) \in Nat
  <2>1. /\ n \in Nat \ {0} /\ m \in 1 .. n /\ len \in 1 .. ChunkSize
        /\ f.payload \in Seq(Byte)
        /\ m # n => len = ChunkSize
        /\ End(f) \in Nat /\ End(f) = Offset(m) + len
    BY <1>4, WellFormedFragment
  <2>2. m \in Nat \ {0}
    BY <2>1
  <2> QED
    BY <2>1, <2>2, Offsets
<1>7. /\ b \in Seq(Byte) /\ Len(b) \in Nat /\ Offset(n) < Len(b) /\ End(f) <= Len(b)
      /\ DOMAIN r \subseteq 1 .. n /\ m \notin DOMAIN r
      /\ \A i \in DOMAIN r : r[i] \in Nat \ {0} /\ (i # n => r[i] = ChunkSize)
      /\ n \in DOMAIN r => Offset(n) + r[n] <= Len(b)
  BY <1>1, <1>4 DEF GoodTarget
<1>8. ASSUME NEW i \in DOMAIN r
      PROVE  /\ i \in Nat \ {0} /\ Offset(i) \in Nat /\ r[i] \in Nat
             /\ Offset(i) + r[i] <= Len(b)
             /\ Offset(i) + r[i] <= Offset(m) \/ End(f) <= Offset(i)
  <2>1. i \in Nat \ {0} /\ i <= n /\ i # m /\ r[i] \in Nat /\ (i # n => r[i] = ChunkSize)
    BY <1>6, <1>7, <1>8
  <2>2. /\ Offset(i) \in Nat /\ Offset(n) \in Nat
        /\ i < n => Offset(i) + ChunkSize <= Offset(n)
        /\ i < m => Offset(i) + ChunkSize <= Offset(m)
        /\ m < i => Offset(m) + ChunkSize <= Offset(i)
    BY <1>6, <2>1, Offsets
  <2>3. Offset(i) + r[i] <= Len(b)
    <3>1. CASE i = n
      BY <1>7, <1>8, <3>1
    <3>2. CASE i # n
      <4>1. i < n /\ r[i] = ChunkSize
        BY <1>6, <2>1, <3>2
      <4> QED
        BY <1>7, <2>2, <4>1
    <3> QED
      BY <3>1, <3>2
  <2>4. CASE i < m
    <3>1. i # n /\ r[i] = ChunkSize
      BY <1>6, <2>1, <2>4
    <3> QED
      BY <2>1, <2>2, <2>3, <2>4, <3>1
  <2>5. CASE m < i
    <3>1. m # n /\ len = ChunkSize
      BY <1>6, <2>1, <2>5
    <3> QED
      BY <1>6, <2>1, <2>2, <2>3, <2>5, <3>1
  <2> QED
    BY <1>6, <2>1, <2>4, <2>5
<1>9. ASSUME NEW i \in DOMAIN r
      PROVE  SubSeq(g, Offset(i) + 1, Offset(i) + r[i]) = SubSeq(b, Offset(i) + 1, Offset(i) + r[i])
  <2>1. PICK o \in Nat, l \in Nat : /\ o = Offset(i) /\ l = r[i] /\ o + l <= Len(b)
                                    /\ o + l <= Offset(m) \/ End(f) <= o
    BY <1>8
  <2>2. \A k \in o + 1 .. o + l : g[k] = b[k] /\ g[k] \in Byte /\ b[k] \in Byte
    <3> TAKE k \in o + 1 .. o + l
    <3>1. PICK om, e, lb \in Nat : om = Offset(m) /\ e = End(f) /\ lb = Len(b)
      BY <1>6, <1>7
    <3>2. k \in 1 .. lb /\ (o + l <= om \/ e <= o => ~(om < k /\ k <= e))
      <4>1. o + l <= lb
        BY <2>1, <3>1
      <4> QED
        BY <4>1
    <3>3. k \in 1 .. Len(b) /\ ~(Offset(m) < k /\ k <= End(f))
      BY <2>1, <3>1, <3>2
    <3> QED
      BY <1>2, <1>5, <1>7, <3>3
  <2>3. SubSeq(g, o + 1, o + l) = SubSeq(b, o + 1, o + l)
    BY <2>2, SameSubSeq
  <2> QED
    BY <2>1, <2>3
<1>10. SubSeq(g, Offset(m) + 1, Offset(m) + q[m]) = f.payload
  <2>1. q[m] = len
    BY <1>3
  <2>2. PICK o \in Nat : o = Offset(m)
    BY <1>6
  <2>3. \A k \in 1 .. len : g[o + k] = f.payload[k] /\ g[o + k] \in Byte
    <3> TAKE k \in 1 .. len
    <3>1. o + k \in 1 .. Len(b) /\ o < o + k /\ o + k <= End(f) /\ (o + k) - o = k
      BY <1>6, <1>7, <2>2
    <3> QED
      BY <1>2, <1>5, <2>2, <3>1
  <2>4. SubSeq(g, o + 1, o + len) = f.payload
    BY <1>4, <1>6, <2>3, SubSeqIs
  <2> QED
    BY <2>1, <2>2, <2>4
<1>11. PartsOf(g, q) = [i \in DOMAIN r \cup {m} |->
                          IF i = m THEN f.payload
                          ELSE SubSeq(b, Offset(i) + 1, Offset(i) + r[i])]
  <2>1. /\ DOMAIN q = DOMAIN r \cup {m} /\ q[m] = len
        /\ \A i \in DOMAIN r : q[i] = r[i]
    BY <1>3, <1>7
  <2>2. \A i \in DOMAIN r \cup {m} :
          SubSeq(g, Offset(i) + 1, Offset(i) + q[i])
            = IF i = m THEN f.payload ELSE SubSeq(b, Offset(i) + 1, Offset(i) + r[i])
    BY <1>7, <1>9, <1>10, <2>1
  <2> QED
    BY <2>1, <2>2, Zenon DEF PartsOf
<1>12. Assembly!With(PartsOf(b, r), m, f.payload)
         = [i \in DOMAIN r \cup {m} |-> IF i = m THEN f.payload
                                        ELSE SubSeq(b, Offset(i) + 1, Offset(i) + r[i])]
  <2>1. /\ DOMAIN PartsOf(b, r) = DOMAIN r
        /\ \A i \in DOMAIN r : PartsOf(b, r)[i] = SubSeq(b, Offset(i) + 1, Offset(i) + r[i])
    BY DEF PartsOf
  <2>2. \A i \in DOMAIN r \cup {m} :
          (IF i = m THEN f.payload ELSE PartsOf(b, r)[i])
            = IF i = m THEN f.payload ELSE SubSeq(b, Offset(i) + 1, Offset(i) + r[i])
    BY <2>1
  <2> QED
    BY <2>1, <2>2, Zenon DEF Assembly!With
<1> QED
  BY <1>11, <1>12 DEF b, r, g, q, m

(* The part of every index lies within the whole.                          *)
LEMMA PartsFit ==
  ASSUME NEW b \in Seq(Byte), NEW n \in Nat \ {0}, NEW r,
         \A i \in 1 .. n : r[i] \in Nat \ {0} /\ (i # n => r[i] = ChunkSize),
         Offset(n) + r[n] <= Len(b),
         NEW i \in 1 .. n
  PROVE  /\ Offset(i) \in Nat /\ Offset(i) + r[i] \in Nat
         /\ Offset(i) <= Offset(i) + r[i] /\ Offset(i) + r[i] <= Len(b)
<1>1. i \in Nat \ {0} /\ i <= n /\ r[i] \in Nat \ {0} /\ n \in 1 .. n
  OBVIOUS
<1>2. r[n] \in Nat
  BY <1>1
<1>3. Offset(i) \in Nat /\ Offset(n) \in Nat /\ (i < n => Offset(i) + ChunkSize <= Offset(n))
  BY <1>1, Offsets
<1>4. CASE i = n
  BY <1>1, <1>3, <1>4
<1>5. CASE i # n
  <2>1. i < n /\ r[i] = ChunkSize
    BY <1>1, <1>5
  <2> QED
    BY <1>1, <1>2, <1>3, <2>1
<1> QED
  BY <1>4, <1>5

(* The parts of a complete transfer, one after the other, are its image.    *)
LEMMA PartsMakeTheImage ==
  ASSUME NEW b \in Seq(Byte), NEW n \in Nat \ {0}, NEW r, DOMAIN r = 1 .. n,
         \A i \in 1 .. n : r[i] \in Nat \ {0} /\ (i # n => r[i] = ChunkSize),
         Offset(n) + r[n] <= Len(b)
  PROVE  Assembly!FlattenSeq(PartsOf(b, r)) = SubSeq(b, 1, Offset(n) + r[n])
<1> DEFINE ps == PartsOf(b, r)
           E(i) == Offset(i) + r[i]
           G(g) == [i \in 1 .. n |-> IF i = 1 THEN ps[i] ELSE g[i - 1] \o ps[i]]
           w == [i \in 1 .. n |-> SubSeq(b, 1, E(i))]
           h == CHOOSE g : g = G(g)
<1>1. \A i \in 1 .. n : ps[i] = SubSeq(b, Offset(i) + 1, E(i))
  BY DEF PartsOf
<1>2. ps \in Seq(Seq(Byte)) /\ Len(ps) = n
  <2>1. ASSUME NEW i \in 1 .. n PROVE ps[i] \in Seq(Byte)
    <3>1. PICK o \in Nat, e \in Nat : o = Offset(i) /\ e = E(i) /\ e <= Len(b)
      BY PartsFit
    <3>2. \A k \in o + 1 .. e : b[k] \in Byte
      BY <3>1
    <3>3. SubSeq(b, o + 1, e) \in Seq(Byte)
      BY <3>2, SubSeqProperties
    <3> QED
      BY <1>1, <3>1, <3>3
  <2>2. DOMAIN ps = 1 .. n /\ ps = [i \in 1 .. n |-> ps[i]]
    BY DEF PartsOf
  <2> HIDE DEF ps
  <2>3. ps \in [1 .. n -> Seq(Byte)]
    BY <2>1, <2>2
  <2> QED
    BY <2>3
<1>3. Assembly!FlattenSeq(ps) = h[n]
  <2>1. Len(ps) = n /\ Len(ps) # 0
    BY <1>2
  <2> HIDE DEF ps
  <2> QED
    BY <2>1 DEF Assembly!FlattenSeq
<1> HIDE DEF ps
<1>4. Offset(1) = 0 /\ E(1) = r[1]
  BY Offsets
<1>5. ASSUME NEW i \in 1 .. n, i # 1
      PROVE  i - 1 \in 1 .. n /\ E(i - 1) = Offset(i) /\ w[i - 1] \o ps[i] = w[i]
  <2>1. i - 1 \in 1 .. n /\ i - 1 \in Nat \ {0} /\ i - 1 # n /\ (i - 1) + 1 = i
    BY <1>5
  <2>2. r[i - 1] = ChunkSize
    BY <2>1
  <2>3. (i - 1) * ChunkSize = Offset(i - 1) + ChunkSize /\ Offset((i - 1) + 1) = (i - 1) * ChunkSize
    BY <2>1, Offsets
  <2>4. E(i - 1) = Offset(i)
    BY <2>1, <2>2, <2>3
  <2>5. PICK o \in Nat, e \in Nat : o = Offset(i) /\ e = E(i) /\ o <= e /\ e <= Len(b)
    BY PartsFit
  <2>6. SubSeq(b, 1, o) \o SubSeq(b, o + 1, e) = SubSeq(b, 1, e)
    <3>1. 1 \in 1 .. Len(b) + 1 /\ o \in 1 - 1 .. Len(b) /\ e \in o .. Len(b)
      BY <2>5
    <3> QED
      BY <3>1, ConcatAdjacentSubSeq
  <2>7. w[i - 1] = SubSeq(b, 1, o) /\ ps[i] = SubSeq(b, o + 1, e) /\ w[i] = SubSeq(b, 1, e)
    BY <1>1, <2>1, <2>4, <2>5
  <2> QED
    BY <2>1, <2>4, <2>6, <2>7
<1>6. ps[1] = w[1]
  <2>1. 1 \in 1 .. n /\ Offset(1) + 1 = 1
    BY <1>4
  <2>2. ps[1] = SubSeq(b, Offset(1) + 1, E(1)) /\ w[1] = SubSeq(b, 1, E(1))
    BY <1>1, <2>1
  <2> QED
    BY <2>1, <2>2
<1>7. w = G(w)
  <2>1. \A i \in 1 .. n : w[i] = IF i = 1 THEN ps[i] ELSE w[i - 1] \o ps[i]
    BY <1>5, <1>6
  <2>2. w = [i \in 1 .. n |-> w[i]]
    OBVIOUS
  <2> HIDE DEF w
  <2> QED
    BY <2>1, <2>2
<1>8. h = G(h)
  <2> HIDE DEF w, G
  <2> QED
    BY <1>7
<1> HIDE DEF h
<1>9. \A i \in 1 .. n : h[i] = IF i = 1 THEN ps[i] ELSE h[i - 1] \o ps[i]
  BY <1>8
<1> DEFINE Bad == {i \in 1 .. n : h[i] # w[i]}
<1>10. Bad = {}
  <2> SUFFICES ASSUME Bad # {} PROVE FALSE
    OBVIOUS
  <2>1. Bad \in SUBSET Nat
    OBVIOUS
  <2>2. PICK i \in Bad : \A j \in Bad : i <= j
    <3> HIDE DEF Bad
    <3> QED
      BY <2>1, LeastNumber
  <2> HIDE DEF w
  <2>3. i \in 1 .. n /\ h[i] # w[i]
    OBVIOUS
  <2>4. i # 1
    BY <1>6, <1>9, <2>3
  <2>5. i - 1 \in 1 .. n /\ ~(i <= i - 1)
    BY <2>3, <2>4
  <2>6. h[i - 1] = w[i - 1]
    BY <2>2, <2>5
  <2>7. h[i] = w[i - 1] \o ps[i] /\ w[i - 1] \o ps[i] = w[i]
    BY <1>5, <1>9, <2>3, <2>4, <2>6
  <2> QED
    BY <2>3, <2>7
<1>11. n \in 1 .. n
  OBVIOUS
<1>12. h[n] = w[n]
  <2> HIDE DEF w
  <2> QED
    BY <1>10, <1>11
<1> QED
  BY <1>3, <1>11, <1>12 DEF ps

(* The plan for a fragment adds its part to what is collected, whole and in *)
(* its place, and completes the transfer exactly when it is the last one   *)
(* missing; what is completed is the parts in their order.                 *)
LEMMA InsertAdds ==
  ASSUME GoodState(active, bytes, ranges, tombstone), nextId \in Nat \ {0},
         NEW f \in Fragment, NEW now \in Times, Insertable(f, now)
  PROVE  Adds(Collecting(active), PartsOf(bytes, ranges), InsertPlan(f, now))
<1> DEFINE s == StateAfter(f, now)
           q == RangesAfter(f)
           g == ImageAfter(f)
           n == f.count
           p == InsertPlan(f, now)
           t == [count |-> n, deadline |-> Target(f, now).deadline]
           ps == PartsOf(bytes, ranges)
           fs == Assembly!With(ps, f.index, f.payload)
<1>1. Admissible(f, now) /\ WellFormed(f)
  BY DEF Insertable, Admissible
<1>2. GoodTarget(f, Target(f, now), Image(f), Held(f))
  BY <1>1, AdmissibleTarget
<1>3. /\ n \in Nat \ {0} /\ n \in 1 .. MaxFragments /\ f.index \in 1 .. n
  BY <1>1, WellFormedFragment, ReassemblyLimits
<1>4. /\ g \in Seq(Byte) /\ Len(g) = Len(Image(f))
  BY <1>1, <1>2, ImageAfterType DEF GoodTarget
<1>5. PartsOf(Image(f), Held(f)) = ps
  <2>1. CASE active = None
    <3>1. ranges = NoRanges /\ Held(f) = NoRanges /\ DOMAIN NoRanges = {}
      BY <2>1 DEF GoodState, Held, NoRanges
    <3> QED
      BY <3>1 DEF PartsOf
  <2>2. CASE active # None
    BY <2>2 DEF Image, Held
  <2> QED
    BY <2>1, <2>2
<1>6. PartsOf(g, q) = fs
  BY <1>1, <1>2, <1>5, PartsAfterInsert
<1>7. DOMAIN fs = DOMAIN q /\ f.index \notin DOMAIN ps
  <2>1. DOMAIN PartsOf(g, q) = DOMAIN q /\ DOMAIN ps = DOMAIN Held(f)
    BY <1>5 DEF PartsOf
  <2>2. f.index \notin DOMAIN Held(f)
    BY <1>2 DEF GoodTarget
  <2> QED
    BY <1>6, <2>1, <2>2
<1>8. t \in [count : 1 .. MaxFragments, deadline : Times]
  <2>1. Target(f, now).deadline \in Times
    BY <1>2 DEF GoodTarget, TransferState
  <2> QED
    BY <1>3, <2>1
<1>9. Collecting(active) # None => t = Collecting(active)
  <2> SUFFICES ASSUME active # None PROVE t = Collecting(active)
    BY DEF Collecting
  <2>1. Target(f, now) = active /\ active.count = n
    BY <1>1 DEF Target, Admissible, Timely
  <2> QED
    BY <2>1 DEF Collecting
<1>10. /\ s \in TransferState /\ s.count = n /\ s.deadline = Target(f, now).deadline
       /\ DOMAIN q \subseteq 1 .. n /\ \A i \in DOMAIN q : q[i] \in Nat \ {0}
       /\ s.received = Cardinality(DOMAIN q)
       /\ \A i \in DOMAIN q \ {n} : q[i] = ChunkSize
       /\ n \in DOMAIN q => s.total = Offset(n) + q[n] /\ s.total <= Len(Image(f))
  BY <1>1, <1>2, CountersAfter
<1>11. AllReceived(f, now) <=> DOMAIN q = 1 .. n
  <2> HIDE DEF q
  <2>0. DOMAIN q \in SUBSET (1 .. n)
    BY <1>10
  <2>1. Cardinality(1 .. n) = n /\ (Cardinality(DOMAIN q) = n => DOMAIN q = 1 .. n)
    <3>1. Cardinality(DOMAIN q) = n => DOMAIN q = 1 .. n
      BY <1>3, <2>0, IndexSets
    <3>3. Cardinality(1 .. n) = n
      BY <1>3, FS_Interval
    <3> QED
      BY <3>1, <3>3
  <2>2. AllReceived(f, now) <=> Cardinality(DOMAIN q) = n
    BY <1>10 DEF AllReceived
  <2> QED
    BY <2>1, <2>2
<1>12. CASE AllReceived(f, now)
  <2>1. /\ p.active = None /\ p.ranges = NoRanges
        /\ p.completion = SubSeq(g, 1, s.total)
    BY <1>12 DEF InsertPlan
  <2> HIDE DEF s, q, g, p
  <2>2. DOMAIN q = 1 .. n /\ n \in DOMAIN q /\ s.total = Offset(n) + q[n]
        /\ s.total <= Len(g)
    BY <1>3, <1>4, <1>10, <1>11, <1>12
  <2>3. \A i \in 1 .. n : q[i] \in Nat \ {0} /\ (i # n => q[i] = ChunkSize)
    BY <1>10, <2>2
  <2>4. Assembly!FlattenSeq(PartsOf(g, q)) = SubSeq(g, 1, Offset(n) + q[n])
    BY <1>3, <1>4, <2>2, <2>3, PartsMakeTheImage
  <2>5. p.completion \in Seq(Byte) /\ p.completion # None
    <3>1. PICK e \in Nat : e = s.total /\ e <= Len(g)
      BY <1>1, <1>2, <1>4, <1>12, <2>2, CompleteTiles DEF s
    <3>2. \A i \in 1 .. e : g[i] \in Byte
      BY <1>4, <3>1
    <3>3. SubSeq(g, 1, e) \in Seq(Byte)
      BY <3>2, SubSeqProperties
    <3> QED
      BY <2>1, <3>1, <3>3, ReassemblyNone
  <2>6. p.completion = Assembly!FlattenSeq(fs) /\ DOMAIN fs = 1 .. t.count
    BY <1>6, <1>7, <2>1, <2>2, <2>4
  <2> HIDE DEF fs, ps, t
  <2>7. f.index \in (1 .. t.count) \ DOMAIN ps
    BY <1>3, <1>7 DEF t
  <2> QED
    BY <1>8, <1>9, <2>1, <2>5, <2>6, <2>7, Zenon DEF Adds, fs, ps, p
<1>13. CASE ~AllReceived(f, now)
  <2>1. p.active = s /\ p.bytes = g /\ p.ranges = q /\ p.completion = None
    BY <1>13 DEF InsertPlan
  <2>2. s # None
    BY <1>10, ReassemblyNone
  <2>3. Collecting(p.active) = t
    BY <1>10, <2>1, <2>2 DEF Collecting
  <2>4. PartsOf(p.bytes, p.ranges) = fs /\ DOMAIN fs # 1 .. t.count
    BY <1>6, <1>7, <1>11, <1>13, <2>1
  <2>5. p.active # None
    BY <2>1, <2>2
  <2> HIDE DEF fs, ps, t, p, s, q, g
  <2>6. f.index \in (1 .. t.count) \ DOMAIN ps
    BY <1>3, <1>7 DEF t
  <2> QED
    BY <1>8, <1>9, <2>1, <2>3, <2>4, <2>5, <2>6, Zenon DEF Adds, fs, ps, p
<1> QED
  BY <1>12, <1>13

LEMMA NoRangesNoParts == \A b : PartsOf(b, NoRanges) = Assembly!NoParts
  BY DEF PartsOf, NoRanges, Assembly!NoParts

\* The state of the abstract specification, as the refinement maps it.
LEMMA MappedState ==
  /\ Collecting(active) = IF active = None THEN None
                          ELSE [count |-> active.count, deadline |-> active.deadline]
  /\ PartsOf(bytes, ranges) = Parts
  /\ Collecting(active)' = (IF active = None THEN None
                            ELSE [count |-> active.count, deadline |-> active.deadline])'
  /\ PartsOf(bytes, ranges)' = Parts'
  BY DEF Collecting, PartsOf, Parts

(* Applying a plan that adds a part is a step of the abstract specification. *)
LEMMA ApplyIsAStep ==
  ASSUME GoodState(active, bytes, ranges, tombstone), NEW p, ~p.unchanged, Apply(p),
         Adds(Collecting(active), PartsOf(bytes, ranges), p)
  PROVE  Assembly!Next
<1> DEFINE c == Collecting(active)
           ps == PartsOf(bytes, ranges)
<1>1. PICK f \in Fragment, t \in [count : 1 .. MaxFragments, deadline : Times] :
        /\ f.index \in (1 .. t.count) \ DOMAIN ps
        /\ c # None => t = c
        /\ LET fs == Assembly!With(ps, f.index, f.payload)
           IN IF DOMAIN fs = 1 .. t.count
              THEN /\ p.active = None /\ p.ranges = NoRanges
                   /\ p.completion # None /\ p.completion = Assembly!FlattenSeq(fs)
              ELSE /\ p.active # None /\ Collecting(p.active) = t
                   /\ PartsOf(p.bytes, p.ranges) = fs
                   /\ p.completion = None
  BY DEF Adds
<1> DEFINE fs == Assembly!With(ps, f.index, f.payload)
<1>2. /\ active' = p.active /\ bytes' = p.bytes /\ ranges' = p.ranges
      /\ published' = IF p.completion = None THEN published ELSE p.completion
  BY DEF Apply
<1>3. /\ Collecting(active)' = Collecting(p.active)
      /\ PartsOf(bytes, ranges)' = PartsOf(p.bytes, p.ranges)
  BY <1>2 DEF Collecting, PartsOf
<1>4. PartsOf(p.bytes, NoRanges) = Assembly!NoParts
  BY NoRangesNoParts
<1>5. Assembly!Collect(t, fs)
  <2>1. CASE DOMAIN fs = 1 .. t.count
    <3>1. /\ p.active = None /\ p.ranges = NoRanges
          /\ p.completion # None /\ p.completion = Assembly!FlattenSeq(fs)
      BY <1>1, <2>1
    <3>2. Collecting(active)' = None /\ PartsOf(bytes, ranges)' = Assembly!NoParts
      BY <1>3, <1>4, <3>1 DEF Collecting
    <3>3. published' = Assembly!FlattenSeq(fs)
      BY <1>2, <3>1
    <3> HIDE DEF fs
    <3> QED
      BY <2>1, <3>2, <3>3, MappedState DEF Assembly!Collect
  <2>2. CASE DOMAIN fs # 1 .. t.count
    <3>1. Collecting(p.active) = t /\ PartsOf(p.bytes, p.ranges) = fs /\ p.completion = None
      BY <1>1, <2>2
    <3>2. Collecting(active)' = t /\ PartsOf(bytes, ranges)' = fs /\ published' = published
      BY <1>2, <1>3, <3>1
    <3> HIDE DEF fs
    <3> QED
      BY <2>2, <3>2, MappedState DEF Assembly!Collect
  <2> QED
    BY <2>1, <2>2
<1>6. t.count \in 1 .. MaxFragments /\ t.deadline \in Times /\ f.payload \in Payload
      /\ t = [count |-> t.count, deadline |-> t.deadline]
  BY DEF Fragment
<1>7. CASE active # None
  <2>1. c # None /\ c = t
    <3>1. active \in TransferState
      BY <1>7 DEF GoodState
    <3>2. active.count \in Nat /\ active.deadline \in Nat
      BY <3>1 DEF TransferState, Times
    <3>3. c \in [count : Nat, deadline : Nat]
      BY <1>7, <3>2 DEF Collecting
    <3>4. c # None
      BY <3>3, ReassemblyNone
    <3> QED
      BY <1>1, <3>4
  <2> HIDE DEF c, ps, fs
  <2>2. c # None /\ f.index \in (1 .. c.count) \ DOMAIN ps /\ Assembly!Collect(c, fs)
    BY <1>1, <1>5, <2>1
  <2>3. Assembly!Add
    BY <1>6, <2>2, MappedState, Zenon DEF Assembly!Add, c, ps, fs
  <2> QED
    BY <2>3 DEF Assembly!Next
<1>8. CASE active = None
  <2>1. c = None /\ ps = Assembly!NoParts
    BY <1>8, NoRangesNoParts DEF Collecting, GoodState
  <2>2. f.index \in 1 .. t.count
    BY <1>1
  <2>3. Assembly!Collect([count |-> t.count, deadline |-> t.deadline],
                         Assembly!With(Assembly!NoParts, f.index, f.payload))
    BY <1>5, <1>6, <2>1
  <2> HIDE DEF c, ps, fs
  <2>4. Assembly!Start
    BY <1>6, <2>1, <2>2, <2>3, MappedState, Zenon DEF Assembly!Start, c
  <2> QED
    BY <2>4 DEF Assembly!Next
<1> QED
  BY <1>7, <1>8

(* What prepare_insert returns, if it would change anything, adds a part.   *)
LEMMA PlansAdd ==
  ASSUME GoodState(active, bytes, ranges, tombstone), nextId \in Nat \ {0},
         NEW f \in Fragment, NEW now \in Times, NEW p \in Plans(f, now), ~p.unchanged
  PROVE  /\ Adds(Collecting(active), PartsOf(bytes, ranges), p)
         /\ p.revision = revision
<1>1. p # RepeatPlan
  BY DEF RepeatPlan
<1>2. Insertable(f, now) /\ p = InsertPlan(f, now)
  BY <1>1 DEF Plans
<1> QED
  BY <1>2, InsertAdds DEF InsertPlan

(* A change of the reassembler takes a new revision or disables it, so that *)
(* a plan prepared before it is current no more.                           *)
LEMMA ChangesOutdate ==
  ASSUME HeldAdds, held' = held, revision \in Nat,
         \/ revision' = revision + 1
         \/ valid' = FALSE /\ revision' = revision
         \/ UNCHANGED <<active, bytes, ranges, revision, valid>>
  PROVE  HeldAdds'
<1> SUFFICES ASSUME held # None, ~held.unchanged
             PROVE  /\ held.revision \in Nat /\ held.revision <= revision'
                    /\ valid' /\ held.revision = revision' =>
                         Adds(Collecting(active), PartsOf(bytes, ranges), held)'
  BY DEF HeldAdds
<1>1. /\ held.revision \in Nat /\ held.revision <= revision
      /\ valid /\ held.revision = revision =>
           Adds(Collecting(active), PartsOf(bytes, ranges), held)
  BY DEF HeldAdds
<1>2. CASE revision' = revision + 1
  <2>1. held.revision <= revision' /\ held.revision # revision'
    BY <1>1, <1>2
  <2> QED
    BY <1>1, <2>1
<1>3. CASE valid' = FALSE /\ revision' = revision
  BY <1>1, <1>3
<1>4. CASE UNCHANGED <<active, bytes, ranges, revision, valid>>
  <2>1. Collecting(active)' = Collecting(active) /\ PartsOf(bytes, ranges)' = PartsOf(bytes, ranges)
    BY <1>4 DEF Collecting, PartsOf
  <2>2. Adds(Collecting(active), PartsOf(bytes, ranges), held) =>
          Adds(Collecting(active), PartsOf(bytes, ranges), held)'
    BY <1>4, <2>1 DEF Adds
  <2> QED
    BY <1>1, <1>4, <2>2
<1> QED
  BY <1>2, <1>3, <1>4

(* A held plan that is still current adds a part, in every state.           *)
LEMMA NextHeldAdds == IInv /\ HeldAdds /\ [Next]_reassemblyVars => HeldAdds'
<1> SUFFICES ASSUME IInv, HeldAdds, [Next]_reassemblyVars PROVE HeldAdds'
  OBVIOUS
<1>0. /\ GoodState(active, bytes, ranges, tombstone) /\ nextId \in Nat \ {0}
      /\ revision \in Nat
  BY ReassemblyLimits DEF IInv
<1>1. ASSUME NEW f \in Fragment, NEW now \in Times, Prepare(f, now) PROVE HeldAdds'
  <2>1. PICK p \in Plans(f, now) : held' = p
    BY <1>1 DEF Prepare
  <2>2. UNCHANGED <<active, bytes, ranges, revision, valid>>
    BY <1>1 DEF Prepare, imageVars
  <2>3. CASE p.unchanged
    BY <2>1, <2>3 DEF HeldAdds
  <2>4. CASE ~p.unchanged
    <3>1. Adds(Collecting(active), PartsOf(bytes, ranges), p) /\ p.revision = revision
      BY <1>0, <2>4, PlansAdd
    <3>2. Collecting(active)' = Collecting(active) /\ PartsOf(bytes, ranges)' = PartsOf(bytes, ranges)
      BY <2>2 DEF Collecting, PartsOf
    <3>3. Adds(Collecting(active), PartsOf(bytes, ranges), held)'
      BY <2>1, <3>1, <3>2 DEF Adds
    <3>4. held'.revision \in Nat /\ held'.revision <= revision'
      BY <1>0, <2>1, <2>2, <3>1
    <3> QED
      BY <3>3, <3>4 DEF HeldAdds
  <2> QED
    BY <2>3, <2>4
<1>2. ASSUME NEW f \in Fragment, NEW now \in Times, Insert(f, now) PROVE HeldAdds'
  <2>1. PICK p \in Plans(f, now) : Apply(p)
    BY <1>2 DEF Insert
  <2>2. held' = held /\ valid' = valid
    BY <1>2 DEF Insert
  <2>3. CASE p.unchanged
    BY <1>0, <2>1, <2>2, <2>3, ChangesOutdate DEF Apply, imageVars
  <2>4. CASE ~p.unchanged
    BY <1>0, <2>1, <2>2, <2>4, ChangesOutdate DEF Apply
  <2> QED
    BY <2>3, <2>4
<1>3. CASE CommitHeld \/ DropHeld
  BY <1>3 DEF CommitHeld, DropHeld, HeldAdds
<1>4. ASSUME NEW now \in Times, Expire(now) PROVE HeldAdds'
  BY <1>0, <1>4, ChangesOutdate DEF Expire
<1>5. CASE Clear
  <2>1. held' = held
    BY <1>5 DEF Clear
  <2>2. revision' = revision + 1 \/ (valid' = FALSE /\ revision' = revision)
    <3>1. CASE revision < MaxRevision
      BY <1>5, <3>1 DEF Clear
    <3>2. CASE ~(revision < MaxRevision)
      BY <1>5, <3>2 DEF Clear
    <3> QED
      BY <3>1, <3>2
  <2> QED
    BY <1>0, <2>1, <2>2, ChangesOutdate
<1>6. CASE UNCHANGED reassemblyVars
  BY <1>0, <1>6, ChangesOutdate DEF reassemblyVars, imageVars
<1> QED
  BY <1>1, <1>2, <1>3, <1>4, <1>5, <1>6 DEF Next

(* Every step of the reassembler is a step of the abstract specification, or *)
(* leaves the abstract state as it was.                                    *)
LEMMA StepAssembles == IInv /\ HeldAdds /\ [Next]_reassemblyVars => [Assembly!Next]_(Assembly!vars)
<1> SUFFICES ASSUME IInv, HeldAdds, [Next]_reassemblyVars
             PROVE  Assembly!Next \/ UNCHANGED Assembly!vars
  OBVIOUS
<1>0. GoodState(active, bytes, ranges, tombstone) /\ nextId \in Nat \ {0}
  BY DEF IInv
<1>1. UNCHANGED <<active, bytes, ranges, published>> => UNCHANGED Assembly!vars
  BY DEF Assembly!vars, Parts
<1>2. active' = None /\ ranges' = NoRanges /\ UNCHANGED published => Assembly!Drop
  <2> SUFFICES ASSUME active' = None, ranges' = NoRanges, UNCHANGED published
               PROVE  Assembly!Drop
    OBVIOUS
  <2>1. Collecting(active)' = None /\ PartsOf(bytes, ranges)' = Assembly!NoParts
    BY NoRangesNoParts DEF Collecting, PartsOf
  <2> QED
    BY <2>1, MappedState DEF Assembly!Drop
<1>3. ASSUME NEW f \in Fragment, NEW now \in Times, Prepare(f, now)
      PROVE  UNCHANGED Assembly!vars
  BY <1>1, <1>3 DEF Prepare, imageVars
<1>4. ASSUME NEW f \in Fragment, NEW now \in Times, Insert(f, now)
      PROVE  Assembly!Next \/ UNCHANGED Assembly!vars
  <2>1. PICK p \in Plans(f, now) : Apply(p)
    BY <1>4 DEF Insert
  <2>2. CASE p.unchanged
    BY <1>1, <2>1, <2>2 DEF Apply, imageVars
  <2>3. CASE ~p.unchanged
    BY <1>0, <2>1, <2>3, PlansAdd, ApplyIsAStep
  <2> QED
    BY <2>2, <2>3
<1>5. CASE CommitHeld
  <2>1. held # None /\ Current(held) /\ Apply(held)
    BY <1>5 DEF CommitHeld
  <2>2. CASE held.unchanged
    BY <1>1, <2>1, <2>2 DEF Apply, imageVars
  <2>3. CASE ~held.unchanged
    <3>1. Adds(Collecting(active), PartsOf(bytes, ranges), held)
      BY <2>1, <2>3 DEF HeldAdds, Current
    <3> QED
      BY <1>0, <2>1, <2>3, <3>1, ApplyIsAStep
  <2> QED
    BY <2>2, <2>3
<1>6. CASE DropHeld
  BY <1>1, <1>6 DEF DropHeld, imageVars
<1>7. ASSUME NEW now \in Times, Expire(now) PROVE Assembly!Next
  BY <1>2, <1>7 DEF Expire, Assembly!Next
<1>8. CASE Clear
  BY <1>2, <1>8 DEF Clear, Assembly!Next
<1>9. CASE UNCHANGED reassemblyVars
  BY <1>1, <1>9 DEF reassemblyVars, imageVars
<1> QED
  BY <1>3, <1>4, <1>5, <1>6, <1>7, <1>8, <1>9 DEF Next

(* For every limit, payload and clock the reassembler implements the        *)
(* abstract assembly: whatever is prepared, overtaken, committed, expired   *)
(* or cleared, a transfer is published only whole, its fragments in their  *)
(* order and each as it was first received, within the one deadline fixed  *)
(* at its start.                                                           *)
THEOREM ReassemblyAssembles == Spec => TransfersAreAssembled
<1>1. Init => Assembly!Init
  <2>1. Init => PartsOf(bytes, ranges) = Assembly!NoParts
    BY NoRangesNoParts DEF Init
  <2> QED
    BY <2>1, MappedState DEF Init, Assembly!Init
<1>2. Init => HeldAdds
  BY DEF Init, HeldAdds
<1> QED
  BY <1>1, <1>2, SpecIInv, NextHeldAdds, StepAssembles, PTL
     DEF Spec, TransfersAreAssembled, Assembly!Spec
=============================================================================
