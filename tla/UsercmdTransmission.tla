------------------------- MODULE UsercmdTransmission -------------------------
(***************************************************************************)
(* The client's movement commands on their way out: the history that owns   *)
(* them, the planner that picks which a packet carries, and the stage that  *)
(* binds a packet to the driver's next datagram and accounts it once the    *)
(* driver says that it was sent.  Of the driver there is here only what the *)
(* stage sees of it; its own module shows that a bound context stays good   *)
(* until it is sent.  A call is single-threaded and runs in steps: pc says  *)
(* where it is, and nobody else moves until it is "outside" again.          *)
(* The room of a datagram is counted in commands.  There is no graceful     *)
(* close: once one is asked for, the live client calls the stage no more.   *)
(***************************************************************************)
EXTENDS Integers, FiniteSets, SequencesExt

CONSTANTS
  Configurations,   \* the stages to consider: [reference, external, ready, phases, ring]
  MaxEntries,       \* history.maximum_entries
  Protected,        \* history.protected_backup_window
  DesiredBackups,   \* planner.desired_backup_commands
  MaxNew,           \* planner.maximum_new_commands
  MaxPerUpdate,     \* scheduler.maximum_commands_per_update
  MaxSequence,      \* scheduler.maximum_command_sequence
  Timeout,          \* config.timeout, in sampling intervals
  Capacities,       \* bound: how many commands the driver's datagram may have room for
  MaxImpulses,      \* bound: the impulses the owner asks for
  None

PacketEvents == 6   \* kMaximumMovePacketEventCount

\* The room asked of a stage's ring of events: a packet's, and if it samples by
\* itself a batch's, each command with the entry it evicts.
SufficientEventCapacity(c) ==
  c.ring >= PacketEvents + (IF c.reference THEN 0 ELSE 3 * MaxPerUpdate)

\* stage_components_within_limits, sufficient_event_capacity.
ASSUME StageAssumption ==
  /\ Configurations \subseteq
       [reference : BOOLEAN, external : BOOLEAN, ready : BOOLEAN, phases : 1 .. 2, ring : Nat]
  /\ \A c \in Configurations : SufficientEventCapacity(c)
  /\ MaxEntries \in Nat \ {0} /\ Protected \in 0 .. MaxEntries - 1
  /\ DesiredBackups \in 0 .. Protected
  /\ MaxNew \in Nat \ {0} /\ MaxPerUpdate \in Nat \ {0} /\ MaxSequence \in Nat \ {0}
  /\ Timeout \in Nat \ {0}
  /\ Capacities \subseteq Nat /\ MaxImpulses \in Nat

Entry == [id : Nat, sent : Nat]
Packet == [ids : Seq(Nat), backups : Nat, revision : Nat, owned : BOOLEAN]
ASSUME NoneAssumption == None \notin Packet

VARIABLES
  config,           \* the stage's configuration, fixed
  pc,               \* where the running call is
  stage,            \* "running" or how the stage ended
  \* history and planner
  history,          \* entries_, oldest first: [id, sent]
  revision,         \* of the history
  prepared,         \* prepared_move_: None or [ids, backups, revision, owned]
  \* sampling
  next,             \* next_command_sequence
  due,              \* sampling intervals that have passed and are not sampled
  started,          \* the scheduler is initialized
  idle,             \* ticks since last_progress_at_, None before the first update
  impulse,          \* pending_impulse_
  focused,          \* intent.focused() of the running call, FALSE when it is not sampling
  events,           \* events not polled
  \* the driver as the stage sees it
  active,           \* it is active
  busy,             \* another payload or the reliable data leave no room for a context
  stale,            \* the prepared context is no longer the next datagram
  bound,            \* it owns the prepared context
  receipt,          \* last_sent_unreliable_context_identity is the prepared one's
  \* what has happened
  wire,             \* history variable: new commands in the order they left
  asked,            \* history variable: impulses accepted
  issued,           \* history variable: impulses put into a command
  lost              \* history variable: an event of a running stage found no room

historyVars == <<history, revision>>
inputVars == <<next, due, started, impulse, asked, issued>>
driverVars == <<active, busy, stale, bound, receipt, wire>>
eventVars == <<events, lost>>
vars == <<config, pc, stage, history, revision, prepared, next, due, started, idle,
          impulse, focused, events, active, busy, stale, bound, receipt,
          wire, asked, issued, lost>>

MaxEvents == config.ring   \* config.maximum_events

Init ==
  /\ config \in Configurations
  /\ pc = "outside" /\ stage = "running"
  /\ history = <<>> /\ revision = 0 /\ prepared = None
  /\ next = 1 /\ due = 0 /\ started = FALSE /\ idle = None
  /\ impulse = FALSE /\ focused = FALSE
  /\ events = 0 /\ lost = FALSE
  /\ active = TRUE /\ busy = FALSE /\ stale = FALSE /\ bound = FALSE /\ receipt = FALSE
  /\ wire = <<>> /\ asked = 0 /\ issued = 0

-----------------------------------------------------------------------------
(***************************************************************************)
(* The history                                                             *)
(***************************************************************************)

Smaller(a, b) == IF a < b THEN a ELSE b

IsUnsent(entry) == entry.sent = 0
FirstUnsent(h) == SelectInSeq(h, IsUnsent)      \* 0 if all were sent
HasUnsent(h) == FirstUnsent(h) # 0

\* The oldest entry that was sent and is not among the last Protected ones.
VictimLatest(h) ==   \* mutant: the search runs from the other end
  SelectLastInSubSeq(h, 1, Len(h) - Protected, LAMBDA entry : entry.sent # 0)
Victim(h) ==
  SelectInSubSeq(h, 1, Len(h) - Protected, LAMBDA entry : entry.sent # 0)

IsFull(h) == Len(h) = MaxEntries
Accepting(h) == ~IsFull(h) \/ Victim(h) # 0
Inserted(h, id) ==
  Append(IF IsFull(h) THEN RemoveAt(h, Victim(h)) ELSE h, [id |-> id, sent |-> 0])

\* The commands of one update, all or none: their history and evictions, or None.
InsertNext(staged, id) ==
  IF staged = None THEN None
  ELSE IF ~Accepting(staged.history) THEN None
  ELSE [history |-> Inserted(staged.history, id),
        evicted |-> staged.evicted + (IF IsFull(staged.history) THEN 1 ELSE 0)]
InsertAll(h, ids) ==
  LET staged[n \in 0 .. Len(ids)] ==
        IF n = 0 THEN [history |-> h, evicted |-> 0] ELSE InsertNext(staged[n - 1], ids[n])
  IN staged[Len(ids)]

\* commit_submission.
Submitted(h, ids) ==
  [i \in DOMAIN h |-> IF h[i].id \in ids THEN [h[i] EXCEPT !.sent = @ + 1] ELSE h[i]]

(***************************************************************************)
(* The planner: new commands from the oldest unsent on, and before them as  *)
(* many of those sent last as are wanted.                                  *)
(***************************************************************************)

NewWanted(h) == Smaller(Len(h) - FirstUnsent(h) + 1, MaxNew)
BackupsWanted(h) == Smaller(FirstUnsent(h) - 1, DesiredBackups)

\* The reference planner drops the oldest backups first, then the latest commands.
NewThatFit(h, capacity) == Smaller(NewWanted(h), capacity)
BackupsThatFit(h, capacity) == Smaller(BackupsWanted(h), capacity - NewThatFit(h, capacity))

PacketOf(h, news, backups) ==
  [ids |-> [i \in 1 .. news + backups |-> h[FirstUnsent(h) - backups + i - 1].id],
   backups |-> backups, revision |-> revision, owned |-> FALSE]

NewIds(packet) == SubSeq(packet.ids, packet.backups + 1, Len(packet.ids))

\* preflight_submission: what commit_submission would refuse.
Submittable(packet) ==
  /\ packet.revision = revision
  /\ \A i \in DOMAIN packet.ids :
       \E entry \in ToSet(history) :
         entry.id = packet.ids[i] /\ (entry.sent # 0) = (i <= packet.backups)

(***************************************************************************)
(* Events, failure and the driver's update                                 *)
(***************************************************************************)

\* push_event does nothing when there is no room.
Push(n) ==
  /\ events' = Smaller(events + n, MaxEvents)
  /\ lost' = (lost \/ events + n > MaxEvents)

\* fail: the move is abandoned, the inputs dropped, the driver closed. A prepared
\* packet has kept a slot for this event; without one it is dropped when the ring is full.
FailAfter(reason, n) ==
  /\ stage' = reason /\ pc' = "outside"
  /\ prepared' = None /\ impulse' = FALSE
  /\ events' = Smaller(events + n + 1, MaxEvents)
  /\ lost' = (lost \/ events + n + (IF prepared # None THEN 1 ELSE 0) > MaxEvents)
  /\ active' = FALSE /\ bound' = FALSE /\ stale' = FALSE /\ receipt' = FALSE
  /\ UNCHANGED <<busy, wire, next, due, started, asked, issued>>

Fail(reason) == FailAfter(reason, 0)

Leave == pc' = "outside" /\ UNCHANGED stage

\* An update of the driver: a bound context is sent, blocked, or lost with the
\* driver, which may also end after it has sent; one that is only prepared may
\* become stale; other work comes and goes. A driver that is over does nothing.
DriverUpdate ==
  IF ~active THEN UNCHANGED driverVars
  ELSE /\ active' \in BOOLEAN
       /\ \/ ~bound /\ UNCHANGED <<bound, receipt, wire>>
          \/ bound /\ bound' = active' /\ UNCHANGED <<receipt, wire>>
          \/ bound /\ bound' = FALSE /\ receipt' = TRUE /\ wire' = wire \o NewIds(prepared)
       /\ IF bound THEN UNCHANGED busy ELSE busy' \in BOOLEAN
       /\ IF prepared # None /\ ~prepared.owned THEN stale' \in {stale, TRUE} ELSE UNCHANGED stale

Outside == pc = "outside"
Running == Outside /\ stage = "running"
BeginningAgain == 0   \* mutant: every update counts as progress
Beginning == IF idle = None THEN 0 ELSE idle      \* last_progress_at_ is set once

-----------------------------------------------------------------------------
(***************************************************************************)
(* update: the synthetic stage samples its own commands                    *)
(***************************************************************************)

\* Refused before anything else: a clock that moves back, a stage without progress,
\* a session that is not ready, a driver that is over.
UpdateFails ==
  /\ Running /\ ~config.reference
  /\ \/ idle # None /\ Fail("protocol_error")
     \/ Beginning >= Timeout /\ Fail("timed_out")
     \/ Beginning < Timeout /\ ~config.ready /\ Fail("signon_evidence_pending")
     \/ Beginning < Timeout /\ config.ready /\ ~active /\ Fail("network_error")
  /\ UNCHANGED <<config, historyVars, idle, focused>>

\* A retained move is committed before sampling can revise the history.
Update(isFocused) ==
  /\ Running /\ ~config.reference
  /\ Beginning < Timeout /\ config.ready /\ active
  /\ idle' = Beginning
  /\ IF prepared # None THEN pc' = "commit" /\ UNCHANGED focused
     ELSE pc' = "sample" /\ focused' = isFocused
  /\ UNCHANGED <<config, stage, historyVars, prepared, next, due, started, impulse,
                 asked, issued, eventVars, driverVars>>

\* The scheduler's policy is to fail closed; the one that discards time is only
\* used by the live client, which samples outside of this stage.
Lagging == due > MaxPerUpdate
Batch == [i \in 1 .. due |-> next + i - 1]
Exhausted == due > 0 /\ next + due - 1 > MaxSequence
Refused == InsertAll(history, Batch) = None

SampleFails ==
  /\ pc = "sample"
  /\ \/ Lagging /\ Fail("history_backpressure")
     \/ ~Lagging /\ Exhausted /\ Fail("protocol_error")
     \/ ~Lagging /\ ~Exhausted /\ Refused /\ Fail("history_backpressure")
  /\ focused' = FALSE
  /\ UNCHANGED <<config, historyVars, idle>>

SampleEvents(staged) == 2 * due + staged.evicted
ReserveNothing(h) == 0   \* mutant
Reserve(h) == IF HasUnsent(h) THEN PacketEvents ELSE 0

\* A pending impulse goes into the first command of a batch, if the window has the
\* focus; it is consumed when the batch is.
CarriesImpulse == impulse /\ focused /\ due > 0
ConsumesUnfocused == impulse /\ due > 0   \* mutant: whether carried or not
ConsumesImpulse == impulse /\ focused /\ due > 0

\* The batch, its one-shots and its events become visible together or not at all.
Sample ==
  /\ pc = "sample" /\ ~Lagging /\ ~Exhausted /\ ~Refused
  /\ LET staged == InsertAll(history, Batch)
     IN IF SampleEvents(staged) + Reserve(staged.history) > MaxEvents - events
        THEN /\ Leave
             /\ UNCHANGED <<historyVars, inputVars, idle, eventVars>>
        ELSE /\ history' = staged.history /\ revision' = revision + due
             /\ next' = next + due /\ due' = 0 /\ started' = TRUE
             /\ impulse' = (impulse /\ ~ConsumesImpulse)
             /\ issued' = issued + (IF CarriesImpulse THEN 1 ELSE 0)
             /\ UNCHANGED asked
             /\ idle' = IF due > 0 THEN 0 ELSE idle
             /\ Push(SampleEvents(staged))
             /\ pc' = "transmit" /\ UNCHANGED stage
  /\ focused' = FALSE
  /\ UNCHANGED <<config, prepared, driverVars>>

(***************************************************************************)
(* update_reference: the owner queues commands it has sampled itself       *)
(***************************************************************************)

Ready == config.ready /\ active

QueueReferenceAnyTime ==   \* mutant: also while a packet is prepared
  /\ Running /\ config.reference /\ Ready
  /\ next <= MaxSequence /\ Accepting(history)
  /\ history' = Inserted(history, next) /\ revision' = revision + 1
  /\ next' = next + 1
  /\ UNCHANGED <<config, pc, stage, prepared, due, started, idle, impulse, focused,
                 asked, issued, eventVars, driverVars>>
QueueReferenceCommand ==
  /\ Running /\ config.reference /\ Ready
  /\ prepared = None /\ next <= MaxSequence /\ Accepting(history)
  /\ history' = Inserted(history, next) /\ revision' = revision + 1
  /\ next' = next + 1
  /\ UNCHANGED <<config, pc, stage, prepared, due, started, idle, impulse, focused,
                 asked, issued, eventVars, driverVars>>

\* A packet that was sent is accounted whatever has become of the driver since.
SentAlready == prepared # None /\ prepared.owned /\ receipt

AccountSentFirst ==
  /\ Running /\ config.reference /\ SentAlready
  /\ pc' = "commit"
  /\ UNCHANGED <<config, stage, historyVars, prepared, inputVars, idle, focused, eventVars,
                 driverVars>>

UpdateReferenceFails ==
  /\ Running /\ config.reference /\ ~SentAlready /\ Ready
  /\ \/ idle # None /\ Fail("protocol_error")
     \/ Beginning >= Timeout /\ Fail("timed_out")
  /\ UNCHANGED <<config, historyVars, idle, focused>>

UpdateReference ==
  /\ Running /\ config.reference /\ ~SentAlready /\ Ready /\ Beginning < Timeout
  /\ idle' = Beginning
  /\ pc' = IF prepared # None THEN "commit"
           ELSE IF MaxEvents - events < PacketEvents THEN "outside" ELSE "transmit"
  /\ UNCHANGED <<config, stage, historyVars, prepared, inputVars, focused, eventVars, driverVars>>

-----------------------------------------------------------------------------
(***************************************************************************)
(* transmit_pending                                                        *)
(***************************************************************************)

NothingUnsent ==
  /\ pc = "transmit" /\ ~HasUnsent(history)
  /\ Leave
  /\ UNCHANGED <<config, historyVars, prepared, inputVars, idle, focused, eventVars, driverVars>>

Drain(where) == pc' = (IF config.external THEN "outside" ELSE where) /\ UNCHANGED stage

ContextUnavailable ==
  /\ pc = "transmit" /\ HasUnsent(history) /\ busy
  /\ Drain("drain") /\ Push(1)
  /\ UNCHANGED <<config, historyVars, prepared, inputVars, idle, focused, driverVars>>

\* Not even one command fits, or not the whole selection of the synthetic planner.
NoRoom(capacity) ==
  IF config.reference THEN capacity = 0
  ELSE NewWanted(history) + BackupsWanted(history) > capacity

TooNarrow(capacity) ==
  /\ pc = "transmit" /\ HasUnsent(history) /\ ~busy /\ NoRoom(capacity)
  /\ IF config.reference
     THEN Drain("drain_unplanned") /\ UNCHANGED eventVars
     ELSE Drain("drain") /\ Push(1)
  /\ UNCHANGED <<config, historyVars, prepared, inputVars, idle, focused, driverVars>>

\* The driver cannot say what its next datagram will be, or the packet cannot be
\* encoded; the synthetic planner has a budget of its own too.
TransmitFails ==
  /\ pc = "transmit" /\ HasUnsent(history) /\ ~busy
  /\ Fail("network_error") \/ Fail("protocol_error")
  /\ UNCHANGED <<config, historyVars, idle, focused>>

\* The driver makes one step of its own; a stage whose driver is over is over.
DrainDriver ==
  /\ pc \in {"drain", "drain_unplanned"}
  /\ \/ DriverUpdate /\ active' /\ Leave
        /\ UNCHANGED <<prepared, inputVars, eventVars>>
     \/ Fail(IF pc = "drain" THEN "network_error" ELSE "protocol_error")
  /\ UNCHANGED <<config, historyVars, idle, focused>>

Plan(capacity) ==
  IF config.reference
  THEN PacketOf(history, NewThatFit(history, capacity), BackupsThatFit(history, capacity))
  ELSE PacketOf(history, NewWanted(history), BackupsWanted(history))

PrepareMove(capacity) ==
  /\ pc = "transmit" /\ HasUnsent(history) /\ ~busy /\ ~NoRoom(capacity)
  /\ IF (IF Plan(capacity).backups # 0 THEN 6 ELSE 5) > MaxEvents - events
     THEN Fail("protocol_error")
     ELSE /\ prepared' = Plan(capacity) /\ stale' = FALSE /\ receipt' = FALSE
          /\ Push(2)
          /\ pc' = (IF config.phases = 1 THEN "outside" ELSE "commit") /\ UNCHANGED stage
          /\ UNCHANGED <<inputVars, active, busy, bound, wire>>
  /\ UNCHANGED <<config, historyVars, idle, focused>>

-----------------------------------------------------------------------------
(***************************************************************************)
(* commit_prepared_move                                                    *)
(***************************************************************************)

CommitOwned ==
  /\ pc = "commit" /\ prepared.owned
  /\ IF ~Submittable(prepared) THEN Fail("protocol_error")
     ELSE /\ pc' = IF config.external THEN "account" ELSE "pump"
          /\ UNCHANGED <<stage, prepared, inputVars, eventVars, driverVars>>
  /\ UNCHANGED <<config, historyVars, idle, focused>>

CommitStale ==
  /\ pc = "commit" /\ ~prepared.owned /\ stale
  /\ IF ~Submittable(prepared) THEN Fail("protocol_error")
     ELSE /\ prepared' = None /\ stale' = FALSE
          /\ Push(1) /\ Leave
          /\ UNCHANGED <<inputVars, active, busy, bound, receipt, wire>>
  /\ UNCHANGED <<config, historyVars, idle, focused>>

CommitBinds ==
  /\ pc = "commit" /\ ~prepared.owned /\ ~stale
  /\ IF ~Submittable(prepared) THEN Fail("protocol_error")
     ELSE /\ prepared' = [prepared EXCEPT !.owned = TRUE] /\ bound' = TRUE
          /\ pc' = (IF config.external THEN "outside" ELSE "pump") /\ UNCHANGED stage
          /\ UNCHANGED <<inputVars, eventVars, active, busy, stale, receipt, wire>>
  /\ UNCHANGED <<config, historyVars, idle, focused>>

Pump ==
  /\ pc = "pump" /\ DriverUpdate /\ pc' = "account"
  /\ UNCHANGED <<config, stage, historyVars, prepared, inputVars, idle, focused, eventVars>>

\* The driver keeps what it owns; it is never bound twice.
StillBound ==
  /\ pc = "account" /\ ~receipt /\ active
  /\ Leave
  /\ UNCHANGED <<config, historyVars, prepared, inputVars, idle, focused, eventVars, driverVars>>

NeverSentFirst ==   \* mutant: the driver's state is looked at before the receipt
  /\ pc = "account" /\ ~active
  /\ Fail("network_error")
  /\ UNCHANGED <<config, historyVars, idle, focused>>
NeverSent ==
  /\ pc = "account" /\ ~receipt /\ ~active
  /\ Fail("network_error")
  /\ UNCHANGED <<config, historyVars, idle, focused>>

SentEvents == IF prepared.backups # 0 THEN 3 ELSE 2

Account ==
  /\ pc = "account" /\ receipt
  /\ history' = Submitted(history, ToSet(NewIds(prepared))) /\ revision' = revision + 1
  /\ idle' = 0
  /\ IF active
     THEN /\ prepared' = None /\ receipt' = FALSE
          /\ Push(SentEvents) /\ Leave
          /\ UNCHANGED <<inputVars, active, busy, stale, bound, wire>>
     ELSE FailAfter("network_error", SentEvents)
  /\ UNCHANGED <<config, focused>>

-----------------------------------------------------------------------------
(***************************************************************************)
(* The owner and the world                                                 *)
(***************************************************************************)

QueueImpulse ==
  /\ Running /\ ~config.reference /\ ~impulse /\ asked < MaxImpulses
  /\ impulse' = TRUE /\ asked' = asked + 1
  /\ UNCHANGED <<config, pc, stage, historyVars, prepared, next, due, started, idle,
                 focused, issued, eventVars, driverVars>>

PollEvent ==
  /\ Outside /\ events > 0 /\ events' = events - 1
  /\ UNCHANGED <<config, pc, stage, historyVars, prepared, inputVars, idle, focused, lost,
                 driverVars>>

Cancel ==
  /\ Running /\ Fail("cancelled")
  /\ UNCHANGED <<config, historyVars, idle, focused>>

Close ==
  /\ Outside /\ stage # "closed"
  /\ stage' = "closed" /\ prepared' = None /\ impulse' = FALSE
  /\ active' = FALSE /\ bound' = FALSE /\ stale' = FALSE /\ receipt' = FALSE
  /\ UNCHANGED <<config, pc, historyVars, next, due, started, idle, focused, asked, issued,
                 eventVars, busy, wire>>

\* The driver has other users, and may be updated by them at any time.
DriverUsed ==
  /\ Outside /\ active /\ DriverUpdate
  /\ UNCHANGED <<config, pc, stage, historyVars, prepared, inputVars, idle, focused, eventVars>>

Tick ==
  /\ Running
  /\ due' = IF started THEN Smaller(due + 1, MaxPerUpdate + 1) ELSE due
  /\ idle' = IF idle = None THEN None ELSE Smaller(idle + 1, Timeout)
  /\ UNCHANGED <<config, pc, stage, historyVars, prepared, next, started, impulse,
                 focused, asked, issued, eventVars, driverVars>>

\* The rest of a call.
Step ==
  \/ SampleFails \/ Sample
  \/ NothingUnsent \/ ContextUnavailable \/ TransmitFails \/ DrainDriver
  \/ \E capacity \in Capacities : TooNarrow(capacity) \/ PrepareMove(capacity)
  \/ CommitOwned \/ CommitStale \/ CommitBinds
  \/ Pump \/ StillBound \/ NeverSent \/ Account

Call ==
  \/ UpdateFails \/ UpdateReferenceFails
  \/ \E isFocused \in BOOLEAN : Update(isFocused)
  \/ AccountSentFirst \/ UpdateReference

Next ==
  \/ Step \/ Call
  \/ QueueReferenceCommand \/ QueueImpulse \/ PollEvent \/ Cancel \/ Close
  \/ DriverUsed \/ Tick

Spec == Init /\ [][Next]_vars

(* A call that began ends; the host keeps calling, and time passes.        *)
FairSpec == Spec /\ WF_vars(Step) /\ WF_vars(Call) /\ SF_vars(Tick)

-----------------------------------------------------------------------------
UnsentIds == {entry.id : entry \in {e \in ToSet(history) : IsUnsent(e)}}
Reasons == {"protocol_error", "network_error", "timed_out", "signon_evidence_pending",
            "history_backpressure", "cancelled", "closed"}

(* What the history counts as sent is what left, but for a packet whose     *)
(* receipt the stage has yet to see: each command leaves as new once, in    *)
(* order, none is skipped or evicted unsent. A stage for sampled commands   *)
(* keeps to it also when the driver ends, for sending is not undone.        *)
SentIsAccounted ==
  Outside /\ stage \in {"running"} \cup (IF config.reference THEN Reasons \ {"cancelled", "closed"}
                                                            ELSE {}) =>
    LET seen == IF prepared # None /\ receipt THEN ToSet(NewIds(prepared)) ELSE {}
    IN /\ wire = [i \in 1 .. Len(wire) |-> i]
       /\ ToSet(wire) = ((1 .. next - 1) \ UnsentIds) \cup seen

(* The history does not change under a prepared move, whatever is sampled,  *)
(* queued or retried while the driver cannot send it; and the driver owns,  *)
(* or has sent, exactly the move that the stage still holds.               *)
PreparedIsCurrent ==
  /\ prepared # None => Submittable(prepared)
  /\ bound \/ receipt => prepared # None /\ prepared.owned
  /\ prepared # None /\ prepared.owned /\ active => bound # receipt

(* A packet carries consecutive commands, so that after the loss of one     *)
(* the next closes the gap as far back as it reaches.                      *)
PacketIsARun ==
  prepared # None =>
    \A i \in 2 .. Len(prepared.ids) : prepared.ids[i] = prepared.ids[i - 1] + 1

(* No event of a running stage is dropped for want of room: the reserve     *)
(* taken before a batch or a packet covers everything it can report, and    *)
(* the end of the stage too if that comes while a packet is prepared.      *)
EventsAreReported == ~lost

(* An impulse is put into exactly one command, however often the batch is   *)
(* put off or the window loses the focus.                                  *)
OneShotOnce == stage = "running" => asked = issued + (IF impulse THEN 1 ELSE 0)

(* No command waits for ever in a stage that goes on: it leaves, or the     *)
(* stage or its driver ends, even if the socket never takes a datagram.    *)
CommandsLeave ==
  \A id \in 1 .. MaxSequence :
    (next > id) ~> (id \in ToSet(wire) \/ stage # "running" \/ ~active)
=============================================================================
