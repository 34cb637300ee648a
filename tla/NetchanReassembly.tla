--------------------------- MODULE NetchanReassembly ---------------------------
(***************************************************************************)
(* The reassembler of the server's fragmented transfers (class             *)
(* NetchanNormalReassembler).  An insert is prepared, which leaves the     *)
(* reassembler alone, and committed or abandoned later; expiry and clear    *)
(* may come in between.  Every operation takes the caller's clock.         *)
(***************************************************************************)
EXTENDS Integers, Sequences, FiniteSets

CONSTANTS
  ChunkSize,        \* kStockProtocol48NormalFragmentChunkSize
  MaxPayload,       \* limits_.maximum_fragment_payload_size
  MaxSize,          \* limits_.maximum_normal_transfer_size
  MaxFragments,     \* limits_.maximum_fragments_per_transfer
  MaxRanges,        \* limits_.maximum_fragment_ranges
  Timeout,          \* limits_.fragment_timeout
  MaxTime,          \* NetchanFragmentTimePoint::max()
  MaxId,            \* numeric_limits<uint64_t>::max(), transfer identities
  MaxRevision,      \* numeric_limits<uint64_t>::max(), revisions
  Byte,             \* what a position of a payload holds
  Zero,             \* what an unwritten position of the image holds
  Payload,          \* bound: the payloads a fragment may carry
  None              \* no value (std::nullopt)

\* valid_limits.
ASSUME ReassemblyLimits ==
  /\ ChunkSize \in Nat \ {0}
  /\ MaxPayload \in 1 .. ChunkSize
  /\ MaxFragments \in Nat \ {0}
  /\ MaxSize \in 1 .. MaxFragments * ChunkSize
  /\ MaxRanges \in Nat /\ MaxRanges >= MaxFragments
  /\ Timeout \in Nat \ {0}
  /\ MaxTime \in Nat /\ MaxId \in Nat \ {0} /\ MaxRevision \in Nat
  /\ Zero \in Byte
  /\ \A p \in Payload : p \in Seq(Byte)

Times == 0 .. MaxTime

\* NetchanNormalTransferState.
TransferState == [id : Nat \ {0}, count : Nat \ {0}, received : Nat, covered : Nat,
                  total : Nat \cup {None}, lastAt : Times, deadline : Times]

ASSUME ReassemblyNone ==
  None \notin Nat \cup TransferState \cup Seq(Byte) \cup [count : Nat, deadline : Nat]

VARIABLES
  active,           \* active_transfer_
  bytes,            \* bytes_
  ranges,           \* ranges_: the length received for each index
  tombstone,        \* completed_fragment_count_
  nextId,           \* next_transfer_id_
  revision,         \* revision_
  valid,            \* valid_configuration_
  held,             \* the NetchanFragmentInsertPlan the caller holds, or None
  published         \* history: the payload completed last, or None

imageVars == <<active, bytes, ranges, tombstone, nextId, published>>
reassemblyVars == <<imageVars, revision, valid, held>>

NoRanges == [i \in {} |-> 0]

Init ==
  /\ active = None /\ bytes = <<>> /\ ranges = NoRanges
  /\ tombstone = None /\ nextId = 1
  /\ revision = 0 /\ valid = TRUE
  /\ held = None /\ published = None

-----------------------------------------------------------------------------
(* A fragment: the declared count, its one-based index and its payload.    *)

Offset(index) == (index - 1) * ChunkSize
End(f) == Offset(f.index) + Len(f.payload)

\* The checks on the descriptor alone.
WellFormed(f) ==
  /\ f.index \in 1 .. f.count
  /\ f.count <= MaxFragments
  /\ Offset(f.count) + 1 <= MaxSize
  /\ Len(f.payload) \in 1 .. MaxPayload
  /\ f.index # f.count => Len(f.payload) = ChunkSize
  /\ End(f) <= MaxSize

\* The checks against the transfer being assembled.
Timely(f, now) ==
  /\ now >= active.lastAt
  /\ f.count = active.count
  /\ now < active.deadline

Present(f) == f.index \in DOMAIN ranges

Repeats(f) ==
  /\ Len(f.payload) = ranges[f.index]
  /\ \A k \in 1 .. Len(f.payload) : bytes[Offset(f.index) + k] = f.payload[k]

Disjoint(f) ==
  \A i \in DOMAIN ranges :
    Offset(i) + ranges[i] <= Offset(f.index) \/ End(f) <= Offset(i)

\* A transfer starts with any of its fragments, but after a completed one only
\* with the first: another may be left over from it.
Startable(f, now) ==
  /\ tombstone # None => f.index = 1
  /\ now + Timeout <= MaxTime
  /\ nextId < MaxId

-----------------------------------------------------------------------------
(* What an insert makes of the reassembler.                                *)

\* Until the last fragment comes the size is unknown and the bound is reserved.
ImageForFirst(f) == End(f)   \* mutant: only the first arrival is made room for
ImageSize(f) ==
  IF f.index = f.count THEN End(f)
  ELSE IF f.count * ChunkSize <= MaxSize THEN f.count * ChunkSize ELSE MaxSize

StartState(f, now) ==
  [id |-> nextId, count |-> f.count, received |-> 0, covered |-> 0, total |-> None,
   lastAt |-> now, deadline |-> now + Timeout]

\* The transfer and the image the fragment goes into.
Target(f, now) == IF active # None THEN active ELSE StartState(f, now)
Image(f) == IF active # None THEN bytes ELSE [k \in 1 .. ImageSize(f) |-> Zero]
Held(f) == IF active # None THEN ranges ELSE NoRanges

StateAfter(f, now) ==
  [Target(f, now) EXCEPT !.received = @ + 1, !.covered = @ + Len(f.payload),
                         !.lastAt = now,
                         !.total = IF f.index = f.count THEN End(f) ELSE @]

ImageAfter(f) ==
  [k \in 1 .. Len(Image(f)) |->
     IF Offset(f.index) < k /\ k <= End(f) THEN f.payload[k - Offset(f.index)]
     ELSE Image(f)[k]]

RangesOfChunks(f) ==   \* mutant: the last fragment counted as a full chunk
  [i \in DOMAIN Held(f) \cup {f.index} |-> ChunkSize]
RangesAfter(f) ==
  [i \in DOMAIN Held(f) \cup {f.index} |->
     IF i = f.index THEN Len(f.payload) ELSE Held(f)[i]]

AllReceived(f, now) == StateAfter(f, now).received = StateAfter(f, now).count

\* The ranges, in order, cover the whole transfer and no more.
Tiles(lengths, total) ==
  /\ total # None
  /\ \A i \in DOMAIN lengths :
       /\ Offset(i) = 0 \/ \E j \in DOMAIN lengths : Offset(j) + lengths[j] = Offset(i)
       /\ Offset(i) + lengths[i] <= total
  /\ \E i \in DOMAIN lengths : Offset(i) + lengths[i] = total

\* prepare_insert yields a plan that changes the state.
Insertable(f, now) ==
  /\ valid /\ WellFormed(f)
  /\ IF active # None
     THEN /\ Timely(f, now) /\ ~Present(f)
          /\ Cardinality(DOMAIN ranges) < MaxRanges
          /\ Disjoint(f)
     ELSE Startable(f, now)
  /\ revision < MaxRevision
  /\ End(f) <= Len(Image(f))
  /\ StateAfter(f, now).covered <= MaxSize
  /\ AllReceived(f, now) => Tiles(RangesAfter(f), StateAfter(f, now).total)

InsertPlan(f, now) ==
  LET done == AllReceived(f, now)
  IN  [unchanged  |-> FALSE,
       active     |-> IF done THEN None ELSE StateAfter(f, now),
       bytes      |-> IF done THEN <<>> ELSE ImageAfter(f),
       ranges     |-> IF done THEN NoRanges ELSE RangesAfter(f),
       tombstone  |-> IF done THEN f.count
                      ELSE IF active # None THEN tombstone ELSE None,
       nextId     |-> IF active # None THEN nextId ELSE nextId + 1,
       completion |-> IF done THEN SubSeq(ImageAfter(f), 1, StateAfter(f, now).total)
                              ELSE None,
       revision   |-> revision]

\* An exact repetition of a fragment the transfer already has.
Repeatable(f, now) ==
  /\ valid /\ WellFormed(f)
  /\ active # None /\ Timely(f, now) /\ Present(f) /\ Repeats(f)

RepeatPlan == [unchanged |-> TRUE, revision |-> revision]

\* What prepare_insert returns: a plan, or nothing when it reports an error.
Plans(f, now) ==
  (IF Insertable(f, now) THEN {InsertPlan(f, now)} ELSE {}) \cup
  (IF Repeatable(f, now) THEN {RepeatPlan} ELSE {})

-----------------------------------------------------------------------------
(* Operations.                                                             *)

Prepare(f, now) ==
  /\ held = None
  /\ \E plan \in Plans(f, now) : held' = plan
  /\ UNCHANGED <<imageVars, revision, valid>>

Apply(plan) ==
  IF plan.unchanged THEN UNCHANGED <<imageVars, revision>>
  ELSE /\ active' = plan.active /\ bytes' = plan.bytes /\ ranges' = plan.ranges
       /\ tombstone' = plan.tombstone /\ nextId' = plan.nextId
       /\ published' = IF plan.completion = None THEN published ELSE plan.completion
       /\ revision' = revision + 1

\* commit_insert consumes the plan, and applies it if the reassembler has not
\* changed since.
CurrentUnchecked(plan) == valid   \* mutant: the revision is not compared
Current(plan) ==
  /\ valid
  /\ plan.revision = revision
  /\ ~plan.unchanged => revision < MaxRevision

CommitHeld ==
  /\ held # None
  /\ Current(held)
  /\ Apply(held)
  /\ held' = None
  /\ UNCHANGED valid

\* The commit refuses the plan, or abandon_insert gives it back.
DropHeld ==
  /\ held # None
  /\ held' = None
  /\ UNCHANGED <<imageVars, revision, valid>>

\* Prepared and committed with nothing in between, as the driver does.
Insert(f, now) ==
  /\ \E plan \in Plans(f, now) : Apply(plan)
  /\ UNCHANGED <<valid, held>>

\* expire drops a transfer that has reached its deadline, and keeps the mark of
\* the one completed before it, which starting it has erased.
Expire(now) ==
  /\ valid
  /\ active # None
  /\ active.lastAt <= now /\ active.deadline <= now
  /\ revision < MaxRevision
  /\ active' = None /\ bytes' = <<>> /\ ranges' = NoRanges
  /\ revision' = revision + 1
  /\ UNCHANGED <<tombstone, nextId, published, valid, held>>

\* clear has no error to return: out of revisions it disables the reassembler.
Clear ==
  /\ active' = None /\ bytes' = <<>> /\ ranges' = NoRanges
  /\ tombstone' = None
  /\ IF revision < MaxRevision
     THEN revision' = revision + 1 /\ UNCHANGED valid
     ELSE valid' = FALSE /\ UNCHANGED revision
  /\ UNCHANGED <<nextId, published, held>>

Fragment == [count : 1 .. MaxFragments, index : 1 .. MaxFragments, payload : Payload]

Next ==
  \/ \E f \in Fragment, now \in Times : Prepare(f, now) \/ Insert(f, now)
  \/ CommitHeld \/ DropHeld
  \/ \E now \in Times : Expire(now)
  \/ Clear

Spec == Init /\ [][Next]_reassemblyVars

-----------------------------------------------------------------------------
TypeOK ==
  /\ active \in TransferState \cup {None}
  /\ bytes \in Seq(Byte)
  /\ DOMAIN ranges \subseteq Nat \ {0} /\ \A i \in DOMAIN ranges : ranges[i] \in Nat \ {0}
  /\ tombstone \in Nat \cup {None}
  /\ nextId \in Nat \ {0} /\ revision \in 0 .. MaxRevision /\ valid \in BOOLEAN
  /\ published \in Seq(Byte) \cup {None}

(* The counters kept beside the ranges agree with them: the transfer holds  *)
(* as many fragments as it counts and covers what they cover, knows its     *)
(* size exactly when it has the last one, and has room for all that is      *)
(* missing.  No transfer is held complete, none outlives the clock, and the *)
(* mark left by a completed one goes when the next starts.                  *)
ConsistentTransfer(a, b, r) ==
  /\ a.count <= MaxFragments /\ Offset(a.count) < MaxSize
  /\ DOMAIN r \subseteq 1 .. a.count
  /\ a.received = Cardinality(DOMAIN r)
  /\ a.received \in 1 .. a.count - 1
  /\ \A i \in DOMAIN r \ {a.count} : r[i] = ChunkSize
  /\ \/ /\ a.count \in DOMAIN r
        /\ a.total = Offset(a.count) + r[a.count]
        /\ a.covered = Offset(a.received) + r[a.count]
        /\ a.total <= Len(b)
     \/ /\ a.count \notin DOMAIN r
        /\ a.total = None
        /\ a.covered = a.received * ChunkSize
        /\ Len(b) = a.count * ChunkSize \/ Len(b) = MaxSize
  /\ Len(b) <= MaxSize /\ Offset(a.count) < Len(b)
  /\ a.lastAt < a.deadline

ImageIsConsistent ==
  IF active = None THEN ranges = NoRanges /\ bytes = <<>>
  ELSE tombstone = None /\ ConsistentTransfer(active, bytes, ranges)

(* Whatever order the fragments of a transfer arrive in, a missing one that *)
(* arrives in time is taken: no partial overlap, lack of room or bad final  *)
(* boundary can turn up, however close to the limit the transfer is.        *)
MissingFragmentIsTaken ==
  \A f \in Fragment, now \in Times :
    /\ valid /\ revision < MaxRevision
    /\ WellFormed(f) /\ active # None /\ Timely(f, now) /\ ~Present(f)
    => Insertable(f, now)

\* What the image holds of each fragment received.
Parts == [i \in DOMAIN ranges |-> SubSeq(bytes, Offset(i) + 1, Offset(i) + ranges[i])]

(* Transfers come out whole, each fragment once and in its place as first   *)
(* received, in whatever order they arrived; a repeated, overtaken or       *)
(* stale insert changes nothing; the deadline is fixed at the start.        *)
Assembly == INSTANCE FragmentAssembly
              WITH Count <- 1 .. MaxFragments, Part <- Payload, Deadline <- Times,
                   collecting <- IF active = None THEN None
                                 ELSE [count |-> active.count, deadline |-> active.deadline],
                   parts <- Parts
TransfersAreAssembled == Assembly!Spec
=============================================================================
