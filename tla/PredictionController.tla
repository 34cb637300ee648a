------------------------- MODULE PredictionController -------------------------
(***************************************************************************)
(* LocalPlayerPredictionController: the player's simulation and its camera  *)
(* (LocalPlayerMovementController), the history of predicted commands and   *)
(* the smoothing of corrections.  Every call ends with current_result,      *)
(* which publishes the camera the caller shows.  A call is synchronous, so  *)
(* the plan it prepares and commits is never stale; the caller passes the   *)
(* collision world of the session.  Time is counted in command intervals;   *)
(* the scheduler fails closed when it is late.                             *)
(***************************************************************************)
EXTENDS PredictionHistory, PredictionCamera

CONSTANTS
  Still,         \* the move of a player without focus
  Intents,       \* what the input can ask for in an update
  MaxBatch,      \* scheduler.maximum_commands_per_update
  MaxSequence    \* scheduler.maximum_command_sequence

ASSUME ControllerAssumption ==
  /\ Still \in Moves
  /\ Intents \subseteq [focused : BOOLEAN, pressed : BOOLEAN, move : Moves, look : Looks]
  /\ MaxBatch \in Nat \ {0} /\ MaxSequence \in Nat \ {0}

VARIABLES
  history,     \* history_
  player,      \* player_state_: where it is and the command that led there
  camera,      \* camera_, the physical camera
  pending,     \* pending_one_shots_: a press no command carries yet
  due,         \* intervals not sampled yet, None before the scheduler starts
  next,        \* next_command_sequence_
  visual,      \* visual_correction_
  unsampled,   \* time since its last sample
  shown,       \* the camera of the last result
  status,      \* status_
  cancelled    \* cancelled_

simulation == <<history, player, camera, due, next, unsampled>>
controllerVars ==
  <<history, player, camera, pending, due, next, visual, unsampled, shown, status, cancelled>>

InitialCamera(look) == [eye |-> EyeScale * Spawn, look |-> look, revision |-> 1]

ControllerInit ==
  /\ history = InitialHistory
  /\ player = [pos |-> Spawn, seq |-> 0]
  /\ \E look \in Looks : camera = InitialCamera(look)
  /\ pending = FALSE /\ due = None /\ next = 1
  /\ visual = Inactive /\ unsampled = 0 /\ shown = camera
  /\ status = "ready" /\ cancelled = FALSE

\* The smaller of the two.
Least(a, b) == IF a < b THEN a ELSE b

ReturnedAsPublished(c, physical, reported) ==   \* mutant: nothing is published
  /\ visual' = c
  /\ shown' = IF c.published = None THEN physical ELSE c.published
  /\ status' = reported

\* current_result: an inactive correction publishes the physical camera; one
\* that is active, or cannot publish, leaves what was published last.
Returned(c, physical, reported) ==
  LET publishes == ~ Active(c) /\ ~ SampleFails(c, physical, 0)
      after == IF publishes THEN Sampled(c, physical, 0, 0) ELSE c
  IN  /\ visual' = after
      /\ shown' = IF after.published = None THEN physical ELSE after.published
      /\ status' = IF Active(c) \/ publishes THEN reported ELSE "failed"
------------------------------------------------------------------------------
(* update_local_input                                                      *)

Captured(intent) == intent.focused /\ (pending \/ intent.pressed)
LookOf(intent) == IF intent.focused THEN intent.look ELSE camera.look

\* The commands of the intervals due, the first with the press.
Commands(intent, n) ==
  [i \in 1 .. n |->
     [seq |-> next + i - 1, move |-> IF intent.focused THEN intent.move ELSE Still,
      jump |-> i = 1 /\ Captured(intent)]]

Due(elapsed) == IF due = None THEN 0 ELSE due + elapsed

\* The batches prepare_update can end with: one, or none when the look, the
\* scheduler, the movement or the camera refuses.
Prepared(intent, elapsed) ==
  LET n == Due(elapsed)
      commands == Commands(intent, n)
      look == LookOf(intent)
      allowed == /\ ~ PlayerCameraFails(camera, player.pos, look)
                 /\ n <= MaxBatch /\ (n > 0 => next + n - 1 <= MaxSequence)
  IN  {Replayed(commands, states) : states \in
         IF allowed
         THEN {s \in Replays(player.pos, commands) : ~ PlayerCameraFails(camera, s[n], look)}
         ELSE {}}

Final(batch) == IF batch = <<>> THEN player.pos ELSE batch[Len(batch)].post

\* The correction must be able to publish the camera of the plan.
Publishable(batch, intent) ==
  LET physical == PlayerCamera(camera, Final(batch), LookOf(intent))
  IN  ~ PreflightFails(visual, physical) /\ (Active(visual) \/ ~ SampleFails(visual, physical, 0))

Elapses(elapsed) ==
  unsampled' = IF Active(visual) THEN Least(unsampled + elapsed, visual.left) ELSE 0

\* A call that fails keeps the press it captured, and the intervals stay due.
UpdateFails(intent, elapsed, reported) ==
  /\ pending' = Captured(intent)
  /\ due' = IF due = None THEN None ELSE Least(due + elapsed, MaxBatch + 1)
  /\ Elapses(elapsed)
  /\ Returned(visual, camera, reported)
  /\ UNCHANGED <<history, player, camera, next, cancelled>>

\* append_local_prediction_commands refuses the batch.
UpdateRefused(intent, elapsed, batch) ==
  /\ batch # <<>>
  /\ Backpressure(history, batch) \/ ~ Continues(history, batch)
  /\ UpdateFails(intent, elapsed,
                 IF Backpressure(history, batch) THEN "history_backpressure" ELSE "failed")

\* commit_prepared_update, and the history that holds the batch.
Predicts(intent, elapsed, batch) ==
  /\ batch # <<>> => ~ Backpressure(history, batch) /\ Continues(history, batch)
  /\ history' = Extended(history, batch)
  /\ player' = [pos |-> Final(batch), seq |-> player.seq + Len(batch)]
  /\ camera' = PlayerCamera(camera, Final(batch), LookOf(intent))
  /\ pending' = (Captured(intent) /\ batch = <<>>)
  /\ due' = 0
  /\ next' = next + Len(batch)
  /\ Elapses(elapsed)
  /\ Returned(visual, camera', "awaiting_authority")
  /\ UNCHANGED cancelled

UpdateLocalInput(intent, elapsed) ==
  /\ ~ cancelled
  /\ LET batches == {b \in Prepared(intent, elapsed) : Publishable(b, intent)}
     IN  \/ batches = {} /\ UpdateFails(intent, elapsed, "failed")
         \/ \E batch \in batches :
              \/ UpdateRefused(intent, elapsed, batch)
              \/ Predicts(intent, elapsed, batch)
------------------------------------------------------------------------------
(* apply_authoritative_state                                               *)

Reported(verdict) ==
  CASE verdict = "conflict" -> "authority_conflict"
    [] verdict = "replay_failed" -> "replay_failed"
    [] verdict = "stale" -> "authority_stale"
    [] verdict = "duplicate" -> "awaiting_authority"
    [] OTHER -> "failed"

\* replace_simulation_state refuses a state of another command, and a camera
\* it has no revision for.
Replaceable(u, new) ==
  /\ IsReset(u) \/ Newest(new) = player.seq
  /\ ~ PlayerCameraFails(camera, Current(new), camera.look)

CommandStreamGoesOn(u) ==   \* mutant: the scheduler counts on after a reset
  IF IsReset(u) THEN pending' = FALSE /\ due' = None /\ UNCHANGED next
  ELSE UNCHANGED <<pending, due, next>>

\* A reset restarts the scheduler and drops the press.
CommandStream(u) ==
  IF IsReset(u) THEN pending' = FALSE /\ due' = None /\ next' = 1
  ELSE UNCHANGED <<pending, due, next>>

AuthorityIgnored(u, verdict) ==
  /\ verdict \notin {"accepted", "reset"}
  /\ Returned(visual, camera, Reported(verdict))
  /\ UNCHANGED <<simulation, pending, cancelled>>

AuthorityRefused(u, new) ==
  /\ ~ Replaceable(u, new)
  /\ Returned(visual, camera, "failed")
  /\ UNCHANGED <<simulation, pending, cancelled>>

Reconciles(u, new) ==
  LET begun == Begun(visual, camera.eye, EyeScale * Current(new),
                     CorrectionClass(history, u, new), unsampled)
  IN  /\ Replaceable(u, new)
      /\ history' = new
      /\ player' = [pos |-> Current(new), seq |-> Newest(new)]
      /\ camera' = PlayerCamera(camera, Current(new), camera.look)
      /\ CommandStream(u)
      /\ unsampled' = 0
      /\ Returned(begun, camera',
                  IF IsReset(u) THEN "hard_reset"
                  ELSE IF Active(begun) THEN "visual_correction_active" ELSE "replay_complete")
      /\ UNCHANGED cancelled

ApplyAuthoritativeState(u) ==
  /\ ~ cancelled
  /\ \/ AuthorityIgnored(u, Verdict(history, u))
     \/ /\ Accepts(history, u)
        /\ \E new \in Reconciled(history, u) : AuthorityRefused(u, new) \/ Reconciles(u, new)
------------------------------------------------------------------------------
(* sample_camera and cancel                                                *)

\* The trace towards the displaced eye may stop short of it.
Samples ==
  LET wanted == ResidualAt(visual, unsampled)
  IN  /\ \E r \in Traced(wanted) :
           /\ ~ SampleFails(visual, camera, r)
           /\ visual' = Sampled(visual, camera, r, unsampled)
      /\ shown' = visual'.published
      /\ status' = IF Active(visual) /\ wanted = 0 THEN "awaiting_authority" ELSE status
      /\ unsampled' = 0
      /\ UNCHANGED <<history, player, camera, pending, due, next, cancelled>>

\* The trace fails or begins inside a wall, or there is no revision left.
SampleRefused ==
  /\ LET wanted == ResidualAt(visual, unsampled)
     IN  wanted # 0 \/ SampleFails(visual, camera, wanted)
  /\ Returned(visual, camera, "failed")
  /\ UNCHANGED <<simulation, pending, cancelled>>

SampleCamera == Samples \/ SampleRefused

Cancel ==
  /\ ~ cancelled
  /\ cancelled' = TRUE /\ pending' = FALSE /\ visual' = Inactive /\ status' = "cancelled"
  /\ UNCHANGED <<simulation, shown>>

\* An update or an authoritative state after cancel.
AfterCancel ==
  /\ cancelled
  /\ Returned(visual, camera, "cancelled")
  /\ UNCHANGED <<simulation, pending, cancelled>>
=============================================================================
