-------------------------- MODULE PredictionHistory --------------------------
(***************************************************************************)
(* The commands the server has not acknowledged, with the states predicted  *)
(* before and after each, and what an authoritative state does to them: the *)
(* history is never changed in place, a call returns the one that replaces  *)
(* it or refuses.  The movement kernel is a function of a position and a    *)
(* command's movement; a state is its position.  The signature of a state   *)
(* is the state, and its revision, velocity and modes are left out: they    *)
(* only add ways for two states to differ.  The counters of revisions and   *)
(* bytes are out of reach of a behaviour and are left out too.              *)
(***************************************************************************)
EXTENDS Integers, Sequences

CONSTANTS
  Positions,       \* where a player can be
  Moves,           \* what a command asks for
  Kernel,          \* GoldSrcLocalMovementKernel::simulate: no position when it fails
  Spawn,           \* spawn_initial_state_signature
  MaxDelay,        \* maximum_authority_delay_commands, at most maximum_entries
  MaxReplay,       \* maximum_replay_commands
  Epsilon,         \* visual_no_offset_epsilon
  SmallError,      \* small_correction_maximum
  LargeError,      \* large_correction_snap_threshold
  MaxError         \* maximum_acceptable_authoritative_position_error

\* valid_local_prediction_history_limits, valid_prediction_state_comparison_config.
ASSUME PredictionAssumption ==
  /\ Positions \subseteq Int /\ Spawn \in Positions
  /\ DOMAIN Kernel = Positions \X Moves
  /\ MaxDelay \in Nat \ {0} /\ MaxReplay \in Nat \ {0}
  /\ Epsilon \in Nat /\ SmallError \in Nat /\ LargeError \in Nat /\ MaxError \in Nat

Distance(p, q) == IF p < q THEN q - p ELSE p - q

\* AuthoritativePlayerState: the identity and the state of an update.  Only a
\* reset acknowledges no command, which is written 0.
Update ==
  [session : Nat, ordinal : Nat, ack : Nat, pos : Positions,
   kind : {"initial", "normal", "teleport", "reset"}]

Entry == [seq : Nat \ {0}, move : Moves, jump : BOOLEAN, pre : Positions, post : Positions]

\* The anchor is the last update accepted; before the first one it has no
\* ordinal.
InitialHistory ==
  [anchor |-> [session |-> 0, ordinal |-> 0, ack |-> 0, pos |-> Spawn, kind |-> "initial"],
   entries |-> <<>>]

Current(h) == IF h.entries = <<>> THEN h.anchor.pos ELSE h.entries[Len(h.entries)].post
Newest(h) == IF h.entries = <<>> THEN h.anchor.ack ELSE h.entries[Len(h.entries)].seq

\* The positions from base on under the commands: one function, or none when
\* the kernel fails.
Replays(base, commands) ==
  {states \in [0 .. Len(commands) -> Positions] :
     /\ states[0] = base
     /\ \A i \in 1 .. Len(commands) :
          states[i] = Kernel[<<states[i - 1], commands[i].move>>]}

Replayed(commands, states) ==
  [i \in 1 .. Len(commands) |->
     [seq |-> commands[i].seq, move |-> commands[i].move, jump |-> commands[i].jump,
      pre |-> states[i - 1], post |-> states[i]]]
------------------------------------------------------------------------------
(* append_local_prediction_commands                                        *)

Backpressure(h, batch) == Len(h.entries) + Len(batch) > MaxDelay

\* Sequence and state continue those of the history.
Continues(h, batch) ==
  \A i \in 1 .. Len(batch) :
    /\ batch[i].seq = Newest(h) + i
    /\ batch[i].pre = IF i = 1 THEN Current(h) ELSE batch[i - 1].post

Extended(h, batch) == [anchor |-> h.anchor, entries |-> h.entries \o batch]
------------------------------------------------------------------------------
(* LocalPlayerPredictionReconciler::reconcile                              *)

IsReset(u) == u.kind = "reset"
Accepted(h) == h.anchor.ordinal # 0

Foreign(h, u) == u.session # h.anchor.session /\ ~ IsReset(u)
Duplicate(h, u) == Accepted(h) /\ u = h.anchor
NewGeneration(h, u) == u.session > h.anchor.session /\ u.pos = Spawn

OlderByAck(h, u) ==   \* mutant: only the acknowledgement tells an older update
  Accepted(h) /\ u.ordinal > h.anchor.ordinal /\ u.ack < h.anchor.ack

Older(h, u) ==
  /\ Accepted(h)
  /\ \/ u.ordinal < h.anchor.ordinal
     \/ u.ordinal > h.anchor.ordinal /\ u.ack < h.anchor.ack

Conflicting(h, u) ==
  /\ Accepted(h)
  /\ \/ u.ordinal = h.anchor.ordinal
     \/ u.ack = h.anchor.ack /\ u.ack # 0 /\ u.pos # h.anchor.pos

\* The command the update acknowledges was predicted, or is the anchor's.
Known(h, u) ==
  \/ u.ack = h.anchor.ack /\ h.anchor.ack # 0
  \/ \E i \in 1 .. Len(h.entries) : h.entries[i].seq = u.ack

PredictedAt(h, ack) ==
  IF ack = h.anchor.ack THEN h.anchor.pos
  ELSE h.entries[CHOOSE i \in 1 .. Len(h.entries) : h.entries[i].seq = ack].post

FirstAfter(es, ack) ==
  CHOOSE i \in 1 .. Len(es) + 1 :
    /\ \A j \in 1 .. i - 1 : es[j].seq <= ack
    /\ i <= Len(es) => es[i].seq > ack

Unacknowledged(h, ack) == SubSeq(h.entries, FirstAfter(h.entries, ack), Len(h.entries))

Contiguous(es, ack) == \A i \in 1 .. Len(es) : es[i].seq = ack + i

\* exact_fast_path: the states predicted so far stay.
Exact(h, u) == u.kind = "normal" /\ PredictedAt(h, u.ack) = u.pos

Acceptable(h, u) ==
  /\ Known(h, u)
  /\ u.kind = "normal" => Distance(PredictedAt(h, u.ack), u.pos) <= MaxError
  /\ LET es == Unacknowledged(h, u.ack) IN
       /\ Contiguous(es, u.ack)
       /\ IF Exact(h, u)
          THEN \A i \in 1 .. Len(es) : es[i].pre = IF i = 1 THEN u.pos ELSE es[i - 1].post
          ELSE Len(es) <= MaxReplay

ReplayFails(h, u) == ~ Exact(h, u) /\ Replays(u.pos, Unacknowledged(h, u.ack)) = {}

\* The first check of reconcile that decides.
Verdict(h, u) ==
  IF Foreign(h, u) THEN "foreign"
  ELSE IF Duplicate(h, u) THEN "duplicate"
  ELSE IF IsReset(u) THEN
         IF u.session = h.anchor.session /\ u.ordinal = h.anchor.ordinal THEN "conflict"
         ELSE IF NewGeneration(h, u) THEN "reset" ELSE "old_generation"
  ELSE IF Older(h, u) THEN "stale"
  ELSE IF Conflicting(h, u) THEN "conflict"
  ELSE IF ~ Known(h, u) THEN "unknown_command"
  ELSE IF ~ Acceptable(h, u) THEN "refused"
  ELSE IF ReplayFails(h, u) THEN "replay_failed"
  ELSE "accepted"

Accepts(h, u) == Verdict(h, u) \in {"accepted", "reset"}

ReconciledUnreplayed(h, u) ==   \* mutant: the replay's states are not kept
  IF IsReset(u) THEN {[anchor |-> u, entries |-> <<>>]}
  ELSE {[anchor |-> u, entries |-> Unacknowledged(h, u.ack)]}

\* The history that replaces h when it accepts u; there is one, unless the
\* replay fails.
Reconciled(h, u) ==
  LET es == Unacknowledged(h, u.ack)
  IN  IF IsReset(u) THEN {[anchor |-> u, entries |-> <<>>]}
      ELSE IF Exact(h, u) THEN {[anchor |-> u, entries |-> es]}
      ELSE {[anchor |-> u, entries |-> Replayed(es, states)] : states \in Replays(u.pos, es)}

\* classify_correction, by how far the current state moved from h to new.
CorrectionClass(h, u, new) ==
  LET moved == Distance(Current(h), Current(new))
  IN  CASE IsReset(u) -> "hard_reset"
        [] ~ IsReset(u) /\ Exact(h, u) -> "exact"
        [] u.kind = "teleport" -> "teleport_snap"
        [] u.kind = "normal" /\ ~ Exact(h, u) ->
             IF moved >= LargeError THEN "large_snap"
             ELSE IF moved <= Epsilon THEN "replay_without_visual_offset"
             ELSE IF moved <= SmallError THEN "small_visual_correction"
             ELSE "large_snap"
=============================================================================
