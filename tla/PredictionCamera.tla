--------------------------- MODULE PredictionCamera ---------------------------
(***************************************************************************)
(* What the player sees while a correction is smoothed: the camera of the   *)
(* player's state, displaced by a residual that decays to nothing over a    *)
(* duration, and a publication revision of its own.  An eye and a residual  *)
(* are integers and decay is rounded towards zero; a call is given the time *)
(* that has passed since the last sample.                                  *)
(***************************************************************************)
EXTENDS Integers

CONSTANTS
  EyeScale,            \* the eye's units in one of a position
  Looks,               \* yaw and pitch
  Duration,            \* config.duration_seconds
  MaxOffset,           \* config.maximum_offset_magnitude
  MaxCameraRevision,   \* maximum_camera_revisions
  None

ASSUME CameraAssumption ==
  /\ EyeScale \in Nat \ {0} /\ Duration \in Nat \ {0} /\ MaxOffset \in Nat \ {0}
  /\ MaxCameraRevision \in Nat \ {0}
  /\ None \notin [eye : Int, look : Looks, revision : Nat]

Camera == [eye : Int, look : Looks, revision : 0 .. MaxCameraRevision]

Content(camera) == <<camera.eye, camera.look>>

\* GameplayCameraState of a position, whose revision is one more when its
\* content is new.
PlayerCamera(camera, pos, look) ==
  LET content == <<EyeScale * pos, look>>
  IN  [eye |-> EyeScale * pos, look |-> look,
       revision |-> IF content = Content(camera) THEN camera.revision ELSE camera.revision + 1]

PlayerCameraFails(camera, pos, look) ==
  PlayerCamera(camera, pos, look).revision > MaxCameraRevision
------------------------------------------------------------------------------
(* PredictionVisualCorrectionState: the residual, the time it has left and  *)
(* the last camera published.                                              *)

Inactive == [residual |-> 0, left |-> 0, published |-> None]

Active(c) == c.residual # 0
Magnitude(r) == IF r < 0 THEN -r ELSE r

Left(c, elapsed) == IF elapsed < c.left THEN c.left - elapsed ELSE 0

\* residual_at
ResidualAt(c, elapsed) ==
  IF ~ Active(c) \/ c.left = 0 THEN 0
  ELSE LET decayed == (Magnitude(c.residual) * Left(c, elapsed)) \div c.left
       IN  IF c.residual < 0 THEN - decayed ELSE decayed

PublishedRevision(c) == IF c.published = None THEN 0 ELSE c.published.revision

Settled(c) == [c EXCEPT !.residual = 0, !.left = 0]

Displaced(c, residual, left) ==
  IF residual = 0 THEN Settled(c) ELSE [c EXCEPT !.residual = residual, !.left = left]

\* begin_prediction_visual_correction
Begun(c, oldEye, newEye, class, elapsed) ==
  LET combined == oldEye - newEye + ResidualAt(c, elapsed)
  IN  IF class = "small_visual_correction"
      THEN IF Magnitude(combined) > MaxOffset THEN Settled(c)
           ELSE Displaced(c, combined, Duration)
      ELSE IF class \in {"exact", "replay_without_visual_offset"}
      THEN Displaced(c, ResidualAt(c, elapsed), Left(c, elapsed))
      ELSE Settled(c)

\* sample_prediction_visual_correction, when the trace leaves the residual r.
ContentChanged(c, camera, r) ==
  LET content == <<camera.eye + r, camera.look>>
  IN  IF c.published = None THEN r # 0 ELSE content # Content(c.published)

PhysicalBase(c, camera) == camera.revision   \* mutant: not what was published

PublicationBase(c, camera) ==
  IF camera.revision < PublishedRevision(c) THEN PublishedRevision(c) ELSE camera.revision

\* An unchanged content keeps its revision, that of a newer physical camera
\* is its own, and any other takes the next one.
NextRevision(c, camera, r) ==
  IF ~ ContentChanged(c, camera, r)
  THEN IF c.published = None THEN camera.revision ELSE c.published.revision
  ELSE IF r = 0 /\ camera.revision > PublishedRevision(c) THEN camera.revision
  ELSE PublicationBase(c, camera) + 1

SampleFails(c, camera, r) == NextRevision(c, camera, r) > MaxCameraRevision

Sampled(c, camera, r, elapsed) ==
  [Displaced(c, r, Left(c, elapsed)) EXCEPT
     !.published = [eye |-> camera.eye + r, look |-> camera.look,
                    revision |-> NextRevision(c, camera, r)]]

\* What a trace from the corrected eye can leave of the residual.
Traced(r) == IF r < 0 THEN r .. 0 ELSE 0 .. r

\* preflight_active_visual_publication
PreflightFails(c, camera) == Active(c) /\ PublicationBase(c, camera) >= MaxCameraRevision
=============================================================================
