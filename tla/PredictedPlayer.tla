---------------------------- MODULE PredictedPlayer ----------------------------
(***************************************************************************)
(* A player predicted against the synthetic authority: its commands are     *)
(* submitted in order, simulated again, sometimes corrected, and their      *)
(* states come back late through two queues, one of them repeated on        *)
(* purpose.  The owner's loop (the prediction check and the world viewer)   *)
(* calls the controller and the authority in turns; here the calls come in  *)
(* any order.  A reset replaces the session and its authority, and a state  *)
(* of the old one may still arrive.                                        *)
(***************************************************************************)
EXTENDS PredictionController

CONSTANTS
  AuthorityDelay,   \* config.command_delay
  MaxQueue,         \* config.maximum_pending_updates
  Scenarios,        \* config.scenario
  Trigger,          \* config.correction_command_sequence
  SmallDelta,       \* config.small_position_delta
  LargeDelta,       \* config.large_position_delta
  Destination,      \* config.teleport_origin
  MaxSession        \* bound: the resets of a behaviour

ASSUME AuthorityAssumption ==
  /\ AuthorityDelay \in Nat /\ MaxQueue \in Nat \ {0} /\ Trigger \in Nat \ {0}
  /\ Scenarios \subseteq {"delayed_authority", "small_position_correction",
                          "large_position_correction", "teleport",
                          "stale_and_duplicate_updates", "mixed"}
  /\ SmallDelta \in Int /\ LargeDelta \in Int /\ Destination \in Positions
  /\ MaxSession \in Nat

VARIABLES
  scenario,    \* the one the authority was configured with
  server,      \* current_state_, its last command, config.session, next_update_ordinal_
  delayed,     \* delayed_updates_
  output,      \* output_updates_
  previous,    \* previous_base_update_
  repeated,    \* stale_duplicate_injected_
  late         \* a state of an ended session that is still on its way

authorityVars == <<scenario, server, delayed, output, previous, repeated, late>>
vars == <<controllerVars, authorityVars>>

\* The first authority counts from 1; the one after a reset from 2, as the
\* reset was 1.
Authority(session) ==
  [session |-> session, pos |-> Spawn, seq |-> 0, ordinal |-> IF session = 0 THEN 1 ELSE 2]

Init ==
  /\ ControllerInit
  /\ scenario \in Scenarios
  /\ server = Authority(0)
  /\ delayed = <<>> /\ output = <<>> /\ previous = None /\ repeated = FALSE /\ late = None
------------------------------------------------------------------------------
(* SyntheticAuthoritativePlayerStateSource                                 *)

\* apply_scenario_correction: the position a simulated one becomes.  A change
\* of velocity alone moves nothing.
Correction(seq) ==
  CASE scenario = "small_position_correction" /\ seq = Trigger -> "small"
    [] scenario = "large_position_correction" /\ seq = Trigger -> "large"
    [] scenario = "teleport" /\ seq = Trigger -> "teleport"
    [] scenario = "mixed" /\ seq = Trigger -> "small"
    [] scenario = "mixed" /\ seq = Trigger + 2 -> "large"
    [] scenario = "mixed" /\ seq = Trigger + 3 -> "teleport"
    [] OTHER -> "none"

Outcome(simulated, seq) ==
  CASE Correction(seq) = "none" -> simulated
    [] Correction(seq) = "small" -> simulated + SmallDelta
    [] Correction(seq) = "large" -> simulated + LargeDelta
    [] Correction(seq) = "teleport" -> Destination

\* stale_duplicate_injection_due
RepeatDue(u) ==
  /\ scenario = "stale_and_duplicate_updates"
  /\ ~ repeated /\ previous # None /\ u.ack >= Trigger

\* queue_released_update: with the repeat, the state twice and the one before.
Queued(u) == IF RepeatDue(u) THEN <<u, u, previous>> ELSE <<u>>

HasRoom(u) == Len(output) + Len(Queued(u)) <= MaxQueue

Releases(u) ==
  /\ output' = output \o Queued(u)
  /\ previous' = u
  /\ repeated' = (repeated \/ RepeatDue(u))

\* submit_command of the first command it has not got; one it cannot simulate
\* or place, or has no room for, changes nothing.
Submit ==
  /\ history.anchor.session = server.session
  /\ \E i \in 1 .. Len(history.entries) :
       LET seq == server.seq + 1
           simulated == Kernel[<<server.pos, history.entries[i].move>>]
           made == [session |-> server.session, ordinal |-> server.ordinal, ack |-> seq,
                    pos |-> Outcome(simulated, seq),
                    kind |-> IF Correction(seq) = "teleport" THEN "teleport" ELSE "normal"]
           line == Append(delayed, made)
       IN  /\ history.entries[i].seq = seq
           /\ simulated \in Positions /\ made.pos \in Positions
           /\ server' = [server EXCEPT !.pos = made.pos, !.seq = seq, !.ordinal = @ + 1]
           /\ IF Len(delayed) = AuthorityDelay
              THEN HasRoom(Head(line)) /\ Releases(Head(line)) /\ delayed' = Tail(line)
              ELSE delayed' = line /\ UNCHANGED <<output, previous, repeated>>
  /\ UNCHANGED <<controllerVars, scenario, late>>

\* flush_next_delayed
Flush ==
  /\ delayed # <<>> /\ HasRoom(Head(delayed))
  /\ Releases(Head(delayed)) /\ delayed' = Tail(delayed)
  /\ UNCHANGED <<controllerVars, scenario, server, late>>

\* poll_next, and the controller is given the state.
Poll ==
  /\ output # <<>>
  /\ IF cancelled THEN AfterCancel ELSE ApplyAuthoritativeState(Head(output))
  /\ output' = Tail(output)
  /\ UNCHANGED <<scenario, server, delayed, previous, repeated, late>>
------------------------------------------------------------------------------
(* The owner                                                               *)

ResetUpdate ==
  [session |-> server.session + 1, ordinal |-> 1, ack |-> 0, pos |-> Spawn, kind |-> "reset"]

\* The reset is given to the controller, then the authority is replaced.
Reset ==
  /\ server.session < MaxSession /\ ~ cancelled
  /\ ApplyAuthoritativeState(ResetUpdate)
  /\ IF history'.anchor = ResetUpdate
     THEN /\ server' = Authority(server.session + 1) /\ UNCHANGED scenario
          /\ delayed' = <<>> /\ output' = <<>> /\ previous' = None /\ repeated' = FALSE
          /\ late' \in {None} \cup {output[i] : i \in 1 .. Len(output)} \cup {previous}
     ELSE UNCHANGED authorityVars

\* A state of the session before arrives after the reset.
ArrivesLate ==
  /\ late # None /\ ~ cancelled
  /\ ApplyAuthoritativeState(late)
  /\ late' = None
  /\ UNCHANGED <<scenario, server, delayed, output, previous, repeated>>

Play(intent, elapsed) ==
  /\ IF cancelled THEN AfterCancel ELSE UpdateLocalInput(intent, elapsed)
  /\ UNCHANGED authorityVars

Show == SampleCamera /\ UNCHANGED authorityVars

Stop == Cancel /\ UNCHANGED authorityVars

Next ==
  \/ \E intent \in Intents, elapsed \in {0, 1, MaxBatch + 1} : Play(intent, elapsed)
  \/ Submit \/ Flush \/ Poll \/ Reset \/ ArrivesLate \/ Show \/ Stop

Spec == Init /\ [][Next]_vars
------------------------------------------------------------------------------
(* Properties                                                              *)

\* The abstract specification, of the controller's own simulation.
Promise == INSTANCE ReplayedCommands WITH
  session <- history.anchor.session, ordinal <- history.anchor.ordinal,
  acked <- history.anchor.ack, base <- history.anchor.pos, view <- player.pos,
  unacked <- [i \in 1 .. Len(history.entries) |->
                [seq |-> history.entries[i].seq, move |-> history.entries[i].move]]

\* The player is always where the newest authoritative state accepted leads
\* under the commands it does not acknowledge: no command is lost, applied
\* twice or out of order by a delayed, repeated, stale or foreign state, by a
\* correction, a refused update or a reset.
KeepsPromise == Promise!Spec

\* The simulation, the scheduler and the history, three objects that keep the
\* number of the newest command apart, agree after every call, so that a
\* corrected state is never refused as one of another command and the next
\* batch always continues the history.
InStep ==
  /\ player = [pos |-> Current(history), seq |-> Newest(history)]
  /\ next = Newest(history) + 1
  /\ Contiguous(history.entries, history.anchor.ack)

\* Whatever was refused before, and with the repeats the authority makes, a
\* state it sends in this session is never taken for a conflict or for one
\* that acknowledges a command the player never made.
AuthorityIsUnderstood ==
  output # <<>> /\ Head(output).session = history.anchor.session =>
    Verdict(history, Head(output)) \notin {"conflict", "unknown_command"}

\* The cameras given to the caller have a revision that grows exactly when
\* their content changes, through corrections, their completion, the updates
\* between and the failures, until the controller is cancelled.
CameraNeverGoesBack ==
  [][cancelled \/ IF Content(shown') = Content(shown) THEN shown' = shown
                  ELSE shown'.revision > shown.revision]_shown

\* Once no correction is left to smooth and no call has failed, the camera
\* shown is the player's.
ShowsThePlayer ==
  ~ Active(visual) /\ status \notin {"failed", "cancelled"} => Content(shown) = Content(camera)
==============================================================================
