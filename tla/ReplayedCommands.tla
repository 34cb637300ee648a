--------------------------- MODULE ReplayedCommands ---------------------------
(***************************************************************************)
(* What prediction promises: the player is where the last state accepted    *)
(* from the authority leads, under every command it has not acknowledged,   *)
(* in order, each once.  An accepted state is newer than the one before it, *)
(* acknowledges no fewer commands, and drops those it acknowledges; only a  *)
(* new session drops the others.                                           *)
(***************************************************************************)
EXTENDS Integers, Sequences

CONSTANTS Positions, Kernel, Spawn, MaxDelay

VARIABLES
  session,      \* the generation of the session
  ordinal,      \* the newest state accepted in it, 0 for none
  acked,        \* the last command that state acknowledges
  base,         \* the position it gives
  unacked,      \* the commands after it
  view          \* where the player is

vars == <<session, ordinal, acked, base, unacked, view>>

\* Where the commands lead from a position.
Leads(from, commands, to) ==
  \E states \in [0 .. Len(commands) -> Positions] :
    /\ states[0] = from /\ states[Len(commands)] = to
    /\ \A i \in 1 .. Len(commands) :
         states[i] = Kernel[<<states[i - 1], commands[i].move>>]

Init ==
  /\ session = 0 /\ ordinal = 0 /\ acked = 0
  /\ base = Spawn /\ unacked = <<>> /\ view = Spawn

\* Commands follow the newest, while the authority is not too far behind.
Predict ==
  /\ Len(unacked') > Len(unacked) /\ Len(unacked') <= MaxDelay
  /\ SubSeq(unacked', 1, Len(unacked)) = unacked
  /\ \A i \in 1 .. Len(unacked') : unacked'[i].seq = acked + i
  /\ Leads(base, unacked', view')
  /\ UNCHANGED <<session, ordinal, acked, base>>

Rebase ==
  /\ session' = session /\ ordinal' > ordinal
  /\ acked' \in acked .. acked + Len(unacked)
  /\ base' \in Positions
  /\ unacked' = SubSeq(unacked, acked' - acked + 1, Len(unacked))
  /\ Leads(base', unacked', view')

Restart ==
  /\ session' > session /\ ordinal' > 0 /\ acked' = 0
  /\ base' = Spawn /\ unacked' = <<>> /\ view' = Spawn

Next == Predict \/ Rebase \/ Restart

Spec == Init /\ [][Next]_vars
=============================================================================
