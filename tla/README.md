# hl-client-engine: TLA+ specifications

hl-client-engine is a clean-room GoldSrc (Protocol 48) client in C++. Its hardest code is the way a
connection is kept alive over UDP: sequence numbers that wrap at 2^30, a one-bit reliable channel,
fragmented transfers, a single socket that may block, and an owner who calls into all of it once a
frame. Around it stand a handshake that shares an authentication ticket with a second thread, and a
prediction that shows the player moves the server has not answered yet. This directory specifies
these parts, model-checks them with TLC on small instances and proves their central invariants
with TLAPS for all values of the constants.

All paths below are relative to the repository; the code is under `src/src` (315 files, some
200,000 lines) and `src/include/hlclient`. `PROJECT.json` holds the exact correspondence: for every
definition the lines it stands for, for every property a mutation of the code that breaks it.

## 1. Inventory

### 1.1 The network channel

| component | state | operations | what makes it correct |
|---|---|---|---|
| sequence numbers, `netchan_sequence.cpp` | none | compare, distance, encode and decode the wire word | comparison by half the range; a word never mistaken for another kind of datagram |
| session, `netchan_session.cpp` | the sequence numbers and reliable bits of both directions; the pending payload, the one in flight, the outgoing fragment transfer; a revision | `queue_reliable`; prepare, validate, commit and abandon of an outgoing packet; inspect and commit of an incoming header; prepare and commit of the first acknowledgement; `clear_reliable_state` | no unit lost, repeated or reordered; a plan that was overtaken has no effect |
| reassembler, `netchan_reassembly.cpp` | the active transfer with its ranges, image and deadline; a tombstone of the last one; the next identity; a revision | `prepare_insert`, commit, abandon, `expire_if_needed`, `clear` | counters, ranges and image agree; a missing fragment is never refused; a transfer is published whole and once per completion |
| driver, `netchan_driver.cpp` | the state, the event ring, the owed acknowledgement, the one-shot unreliable payload, the committed context, the graceful close, the clocks | `start`, `update`, `close`, `cancel`, `request_graceful_close`, `confirm_server_disconnect`, `queue_reliable`, `submit_unreliable`, prepare, commit and abandon of a context, `prepend_retained_payload`, `poll_event` | every acknowledgement is sent, every completion reported, no deadline passed over, a close that ends with an honest outcome |
| packet codec, `netchan_packet.cpp`, `netchan_payload_transform.cpp` | none | bytes to headers and back, the payload transform | a function of its input |
| split datagrams, in `netchan_driver.cpp` | two slots of a bounded number of parts | a part is stored, a datagram joined | a joined datagram is made of parts of one identity |
| transport, `src/src/network` | a socket | send, receive | non-blocking results |

The driver owns one session and one reassembler and polls a transport. `update` is a sequence: the
committed context, the receive loop (each datagram: classify, inspect, reserve events, commit to the
reassembler and the session, publish, acknowledge), the deadlines, the send loop with the idle poll;
or, once a graceful close was asked for, the close's own attempts. Here nothing runs in parallel. What
makes the code hard is that an update may leave at each of these places with the rest undone, that
any send may succeed, block or fail, and that the owner acts between two updates on state an earlier
update left behind.

### 1.2 User commands

| component | state | operations | what makes it correct |
|---|---|---|---|
| history, `usercmd_history.cpp` | the commands not yet forgotten, oldest first, with how often each was sent; a revision | insert (evicting), preflight and commit of a submission, plan | only sent commands are evicted, and a submission is applied to the revision it was planned for |
| planner and scheduler, `usercmd_packet_planner.cpp`, `usercmd_scheduler.cpp` | the time of the next sample | new and backup commands of a packet; the batch of an update, or none of it | a packet carries a run |
| transmission stage, `usercmd_transmission_stage.cpp`, `usercmd_input_adapter.cpp` | the prepared packet, the impulse, events, the time of the last progress | `update`, `update_reference`, `queue_reference_command`, `account_external_driver_progress`, `queue_impulse`, `poll_event`, `cancel`, `close` | a command leaves once, is accounted exactly when it left, and does not wait for ever |
| codec, `usercmd_delta_codec.cpp`, `usercmd_schema_binding.cpp`, `move_checksum.cpp` | none | bit-level encoding | a function of its input |

The stage prepares a packet, asks the driver to bind it to its next datagram (a *context*, because
the packet's checksum depends on the datagram's number), and learns from the identity the driver
last sent whether it left. Preparing, binding and leaving may be many updates apart.

### 1.3 The handshake and the authentication worker

| component | state | operations | what makes it correct |
|---|---|---|---|
| challenge exchange, `challenge_exchange.cpp` | attempts, time of the last request, deadline | `start`, `update`, `cancel` | at most the configured attempts, an answer after the deadline is late, the socket handed over once |
| coordinator and its stages, `connect_request_stage.cpp`, `connect_response_wait.cpp`, `netchan_bootstrap_stage.cpp` | one state, the deadline of the stage that waits, the guard of the ticket, the outcome of a graceful close | `start`, `update`, `cancel`, `request_graceful_close`, destruction | one connect request; the guard has one owner; every stage ends |
| authentication worker, `console_steam_authentication.cpp` | flags, result and milestones under a mutex | on the host's thread begin, poll, release, destruction; on its own the native operation | the ticket outlives what relies on it and is given back once; milestones arrive before the result they explain |
| native operation, `steam_authentication_provider.cpp` | the platform's interface and its game connection | update, cancel, destruction of the session's lifetime | the interface is shut down after the ticket is given back |

The worker is a real thread: the host only raises flags and reads results, and destroys the worker
by joining it. Everything else of the handshake happens inside the host's `update`.

### 1.4 Prediction

| component | state | operations | what makes it correct |
|---|---|---|---|
| history, `prediction_history.cpp`, `prediction_reconciliation.cpp` | the anchor (last authoritative state accepted) and the commands after it with the states around each | append, reconcile | late authority changes nothing; the state predicted is the replay of what is unacknowledged |
| visual correction, `prediction_visual_correction.cpp` | a decaying residual, the last camera published and its revision | begin, sample, trace, reset | a correction is shown without going back in time |
| controller, `local_player_prediction_controller.cpp`, `local_player_movement_controller.cpp` | both of these with the simulation, the scheduler and a pending press | `update_local_input`, `apply_authoritative_state`, `sample_camera`, `cancel` | simulation, scheduler and history never part, also when a call is refused half-way |
| synthetic authority, `synthetic_authoritative_player.cpp` | the server's player and two bounded queues | submit, flush, poll, reset | a command is simulated once, its state comes back late and in order |

### 1.5 The rest of the client

| component | state and operations | interactions | hard behaviour; what makes it correct | here |
|---|---|---|---|---|
| sign-on stages, `*_signon_stage.cpp`, `delta_description_stage.cpp`, `movement_environment_stage.cpp`, `resource_*_stage.cpp` | a phase, a deadline, retained payloads | each borrows or owns the driver and hands it to the next | payloads that arrive before their stage keep their order; a stage that ends leaves the driver to nobody or to one successor | planned |
| precache and asset dispatch, `precache_*.cpp` | manifest, progress | slices of an update | work limited per update, none skipped | planned after the stages |
| entity snapshots, `entity_snapshot*.cpp`, `packet_entity_decoder.cpp` | baselines, a ring of snapshots by sequence | decode against a base, commit | a delta is applied to the snapshot it names or refused | planned |
| runtime decoder, replay and live stage, `runtime_control_decoder.cpp`, `runtime_replay_session.cpp`, `live_runtime_stage.cpp` | decoder, world and game state under construction; apply a record, reset, finish | the driver's payloads; publishes to the client's world | three parts staged and committed together or not at all | planned (the commit boundary) |
| client world state, `src/src/client` | the published scene | replay session | follows the replay session | planned with it |
| reconnect lifecycle, `stock_runtime_reconnect_lifecycle.cpp` | the phases of two generations | observes captured sessions | phases in order, no evidence of one generation counted for the other | planned |
| process orchestration, `src/src/platform/windows` | stage and failure of a start-up; owned processes | operating system | a failed start is never reported complete; cleanup on every path | planned (the reducer) |
| capture corpus, `stock_runtime_capture*.cpp`, `stock_command_ack_evidence.cpp` | none that outlives a call | offline | analysis of files | no: no behaviour over time |
| research copies and receipts | none | file system | publication through Win32 | no: its hard part is the operating system |
| input, console, bindings | small tables | calls | sequential | no: covered by unit tests |
| Half-Life game module, `src/src/games` | presentation state | decoded messages | data-driven | no: no protocol |
| renderer, visibility, movement, collision | numeric | calls | floating point | no: not a question for TLA+ |
| assets, resources, hashing, audio, applications | decoded data | calls | pure decoding and wiring | no |

## 2. The modules

```
NetchanSequence
  NetchanSession ------------------ NetchanSessionProofs
    NetchanPlans ------------------ NetchanPlansProofs
                                    (prepare and commit apart, revisions) -> NetchanSession
    NetchanChannel ---------------- NetchanChannelProofs
                                    (session + peer + network) -> ReliableDelivery
      NetchanTransfers ------------ NetchanChannelProofs
                                    (+ reassembler, the way down) -> ReliableDelivery
    NetchanDriver ----------------- NetchanDriverProofs
                                    (session + update + owner)
NetchanReassembly ----------------- NetchanReassemblyProofs
  MCNetchanReassembly               -> FragmentAssembly
UsercmdTransmission --------------- UsercmdProofs
  MCUsercmdTransmission
AuthenticationWorker
  Handshake ----------------------- HandshakeProofs
                                    (worker + host + network) -> AuthenticationTicket
PredictionHistory, PredictionCamera
  PredictionController
    PredictedPlayer --------------- PredictionProofs
                                    (controller + authority) -> ReplayedCommands
      MCPredictedPlayer
```
(indentation: EXTENDS; `->`: implements the abstract specification, checked as a property.)

**NetchanSequence.** Numbers modulo `2 * HalfRange` (2^30 in the code), the comparison, the word
with its two flag bits, and the two *classifier words*: the words that would make a fragment look like
a connectionless or a split datagram. The modulus is a constant so that the wrap is reached.

**NetchanSession.** One action per committed operation: `QueueReliable`, `Transmit`, `Receive`,
`SendFirstAck`, `ClearReliable`. A payload is a sequence of *units*, a unit standing for a run of bytes, and the
units are numbered as they are accepted: the numbers are what the properties speak of. `Plan` is the
whole of `prepare_outgoing` and `CommitOutgoing` of `commit_outgoing`, including the change of a
pending payload into a transfer when its first fragment leaves. `accepted` and `retired` are history variables.

**NetchanPlans.** The same operations as callers use them: prepared, held, and committed or
abandoned later, any number of other operations in between. `revision`, `valid` and
`firstAckPrepared` are the session's guards against what was overtaken.

**NetchanReassembly.** `prepare_insert` check by check (`WellFormed`, `Admissible`, `Timely`,
`Present`, ...), `Apply` for the commit, plus expiry and clear. A plan may be held while other operations
happen. A transfer's size is unknown until its last fragment, so the image is sized by the
bound and cut afterwards, as in the code. Only the normal stream is modelled: a
descriptor of the secondary stream ends the driver before it reaches the reassembler
(`RefuseDatagram` in the driver's module).

**NetchanChannel.** A session at one end, a stock peer at the other. The peer and the network are not
in the repository; they are modelled from what the session's rules rely on and are marked external in
the map. The network holds sets of datagrams and loses, repeats and reorders them; a datagram outlives at most `NetLifetime` later
ones of its direction. The driver's rule when to send is here (`ClientSend`): reliable work, the idle
poll, or the first acknowledgement. A payload that waits behind the one in flight counts as work, so
that while it waits every update sends a datagram; the loss of the one in flight is noticed through these.

**NetchanTransfers.** The way down with a peer whose reliable units are fragments. Each datagram goes
through the reassembler, which tells the session whether it is new; both are committed
(`process_fragment_packet`). Which units the peer sends is a constant, and `PiecesAssumption` says what a
correct peer's are: the fragments of a transfer in order with nothing in between, no more than the
reassembler takes. Identities and revisions suffice for the units sent; their ends belong to
`NetchanReassembly`. Time stands still: the deadline of a transfer ends the connection, which
is the driver's business and modelled there.

**NetchanDriver.** An update is a sequence of steps with `phase` as its program counter:
`contextual`, `receive`, `answer`, `finish`, `send`, or `closing`. Between updates (`phase = "outside"`) the owner
acts. Each datagram has a class, and stands for what the codec and the reassembler say of it; any header that the
session's inspection may meet is a possible input, so the peer is arbitrary. Clocks are *ages* capped
at the limits they are compared with. Events are counted, since what matters is whether the ring has
the room asked for. Left out: branches that cannot be reached (a first acknowledgement over the budget
of sends, a committed context that went stale), failures of encoding, overflow of the transmitted
count and of the clock at the time of a graceful request, the refusal of a call from inside the trace
callback, split datagrams.

**UsercmdTransmission.** The history, the planner, the scheduler and the stage in one module, since a
packet is a promise of all four. `pc` is the place of a running call. Of the driver there is what the
stage sees: whether a context is possible, bound, sent or stale, whether the driver is over. Four
configurations are checked together (`MCUsercmdTransmission`): the live stage, whose driver its
owner updates; the loopback one; the one that samples by itself; and that before its session is
ready. The room of a datagram is counted in commands. Left out: pending button presses (they follow the impulse's rule), overflow of
counters other than the command sequence, and a graceful close, after whose request the live client does not call the
stage any more (`live_runtime_stage.cpp`).

**AuthenticationWorker.** The thread that calls the platform. `at` is its place; an action is what
it does between two moments at which the host can see it (the lock is taken and released inside it). The
flags the host raises are a set (`raised`); `terminal`, `result` and `milestones` are what it reads. Of
the native operation the model keeps whether the interface is up and whether the ticket lives; every
native call may fail or run out of time at each of its checks. Of the milestones three are kept,
those that bound the ticket's life. Exceptions of `run_operation` are not modelled, apart from a `begin` that refuses.

**Handshake.** The coordinator with its challenge exchange, authentication, request, response and
first packet of the channel; `hostAt` is the place of the host, which may stand between the two halves
of a poll or wait for the worker to be joined. The way to the server and back are queues; a datagram may be
lost at any time, and once per behaviour be copied or overtaken; at most one foreign and one sequenced
datagram are under way. The server is a correct one and is marked external. Modelled are the four stop
points before the sign-on, and two routes: with a prepared request (no ticket) and with a provider. Preparing the
request may fail; taking the material from the worker does not for this provider. The wait for
the authentication reads no socket and has no deadline of its own: the native time-outs end it. A second
challenge answer or ACCEPT that reaches the channel is a protocol error, as in the code. Once the handshake is over the queues
are forgotten. Left out: time that runs backwards, malformed or truncated datagrams of the server, the providers that read a file or
answer at once, and the first packet's contents (it is taken to carry a payload).

**PredictionHistory, PredictionCamera.** Pure operators: a history is replaced, never changed. The
movement kernel is a constant function of position and movement that may fail; a state is its
position, whose velocity, modes and signature only add ways for two states to differ. `Verdict` is
the order of the checks of `reconcile_local_prediction`. Eyes and residuals are integers, decay
is rounded towards zero, and the revision of the published camera is kept exactly.

**PredictionController.** The four calls of the owner, each with its refusals, and `Returned` for
`current_result`, which every call ends with: it may report `failed` after the history has been
replaced, and the model does too. Time is counted in command intervals. Only the default policy of the
scheduler (a late owner fails closed) is modelled, and the collision world is always the session's.

**PredictedPlayer.** The controller against the synthetic authority: its delay, its two queues, its scenarios (corrections, a
teleport, a state repeated on purpose) and resets, after which a state of the old session may still
arrive. The owner's calls come in any order; the applications call in a fixed one and stop at
the first failure. Revisions and byte counts of the history are out of reach and left out. An authority whose delay is not less than the
history's room would stop the player for good; the applications configure less.

**AuthenticationTicket, ReplayedCommands.** What the last two promise: a ticket is issued once while
the interface is up, relied upon only while it lives, given back once and before the interface goes
down; a player is where the newest state accepted leads under the commands it does not
acknowledge, in order, each once, and an older state changes nothing.

**ReliableDelivery, FragmentAssembly.** What is promised, without the mechanism: units delivered once
each and in order, released only after delivery; parts collected in any order, the first copy of each
counting, the concatenation published when none is missing.

## 3. What is checked

Each run checks the interleavings exhaustively within its bounds. Deadlock is
checked too: for the channel it says that client, peer and network never wait for one another. It is
off only where the system really stops: in the runs of the driver that cannot end by the server's
disconnect and in that of the commands' stage, which do nothing more once they are over; for the
handshake, once the host is gone; and for the player, at the last command sequence and the last camera revision.

| run | what it shows | bounds, and why they are enough |
|---|---|---|
| `plans` | with every operation prepared, held while others overtake it, and committed late or abandoned, a late commit has the effect of an atomic operation or none, up to the last revision | one plan of each kind held; `MaxRevision` 3: what overtakes a plan is one committed operation, before which another may have queued something to send, and the last revision is met by operations that need one and by the one that needs two. No retransmission and no second fragment commits within three revisions: what the session does in the long run is `driver_reliable`'s question |
| `uplink` | the client's units are delivered once each and in order; a correct peer is never refused | modulus 12, a datagram outlived by one later one, copies; three units of which two fit a transfer; windows of two and one. The modulus exceeds what windows and lifetime span, as 2^30 does, but is small enough to wrap |
| `uplink_live` | everything queued is acknowledged | the same with losses, without copies |
| `reassembly` | transfers are published whole, in place, once per completion, with plans held across other operations | up to three fragments of two positions with a limit of five, so the last fragment may be short or refused; two different full chunks, so a misplaced one shows; the clock passes the deadline and reaches its end; the last identity and the last revision are reached |
| `transfers` | fragments are neither lost, repeated nor refused, and flip the acknowledging bit once each | a two-fragment transfer, an unfragmented unit, a single-fragment transfer: the three kinds of unit, and the one that a late copy could start again |
| `driver_reliable` | no header, whatever it acknowledges, makes the session lose, repeat or reorder a unit; a copy in flight is the current fragment; each payload is reported when its last fragment is acknowledged and not before; the events a datagram brings find the room asked for | modulus 4, so that numbers wrap and both classifier numbers are skipped with units waiting; four units in payloads of one or two fragments of two, the last one short, a descriptor that takes room, payloads that wait behind a transfer, fragments repeated whatever their place in it; a ring of five, the least the code accepts, with up to one event not polled, so that a datagram which brings five is put off. These cases are met: each was looked for as a state the run reaches |
| `driver_context` | a committed context stays the datagram the session would make; no acknowledgement is forgotten; deadlines hold on every path; one-shot payloads are not lost | inactivity of two ticks, blocked sends for any number of updates, both kinds of payload of the peer |
| `driver_close` | the outcome of a graceful close is settled once and honest; a support datagram makes room for the disconnect | two attempts and one support datagram, a budget of four ticks, every other way to end; units of payload and of fragments left over when the close is asked for, so that support is a repetition, a fragment or a skipped number |
| `driver_live` | an owed acknowledgement is sent; an idle channel is polled; a graceful close ends, whatever peer and socket do | poll after one tick, inactivity two, one attempt to close and a budget of two |
| `usercmd` | each command leaves once and in order, is accounted when it left, and none waits for ever | histories of three with one protected, packets of one or two new commands, room for 0, 1 or 3, four commands: enough to evict, to reduce and to fill; rings of six events for the live stage and twelve for the one that samples, the least each accepts, and of eight for the loopback one |
| `handshake` | the ticket outlives what relies on it and is given back once; the handshake ends and its destruction is not kept waiting; milestones are in step; a protocol error has a cause | all four stop points and both routes, three attempts one tick apart with a deadline of three, waits of two ticks, two datagrams an update: enough for an answer to a repeated request, for one that arrives at the deadline, and for a queue longer than an update takes |
| `predicted_player` | simulation, scheduler and history agree; late or repeated states change nothing; what is shown is the player and never an older camera | positions 0 to 4 with a wall at 3 and a movement from 4 that fails, so that a teleport to 4 makes the replay fail; four commands in batches of one or two, three unacknowledged at most; authority late by one, queues of three, one reset; camera revisions to four, so their end is met. the scenarios teleport, repeated states and mixed, which hold every kind of correction. The refusal for `MaxReplay` is not reached: a state acknowledges at least one command of three |

A datagram that could stay in the network while the numbers go halfway round would defeat any such
protocol; `NetworkAssumption` bounds lifetime and windows below half the modulus, as 2^29 datagrams of
a connection do in practice. The client's window leaves room for three numbers more: the first
acknowledgement is not held back by it, one datagram is let out when both windows are shut and nothing is
under way (else the bounds alone would stop the system), and a copy that was found lost may wait behind the two
numbers at the wrap that a fragment must not carry.

### Fairness

* `FairChannelSpec`: the driver is updated as long as it is active, so `ClientSend` is weakly fair; the
  peer keeps sending. The newest datagram of a direction is received again and again (strong fairness: a
  network that loses every datagram promises nothing), and so is a reliable one.
* `HostFairness`: the client calls `update` once a frame with the clock it then has, and an update that
  began runs to its end (`WF(BeginUpdate(Latest) \/ UpdateStep)`). `GracefulCloseEnds` needs no more: the
  socket may block for ever.
* `SocketFairness`: a datagram tried again and again leaves in the end (`SF(SendContextual \/
  SendPending)`, the sends of an update; those of a close may block for ever). Without it a blocked
  socket ends the channel by its deadline, which `ActiveIsTimely` shows.
* `FairSpec` of the user commands: a call that began ends, the host keeps calling, time passes. The
  socket may block for ever: the stage then notices by its timeout.

* `Fairness` of the handshake: the host keeps updating, time passes, the destruction of the worker
  runs to its end, and the thread and the native calls it makes get their turn. The network owes nothing.

### What the liveness rests on

A lost reliable datagram is repeated only after a later datagram of the client was acknowledged.
`EverythingIsDelivered` therefore depends on the idle poll: its mutant is a poll that never comes, and a client
that loses its last datagram then waits for ever.

## 4. What is proved

All theorems hold for every value of the constants that satisfies the modules' assumptions, which are
the code's own checks of its limits (`LimitsAssumption`: `valid_limits` of the session;
`ReassemblyLimits`: `valid_limits` of the reassembler), that `None` is none of the values it
stands beside, and for the channel `NetworkAssumption`, which bounds the environment (section 3), with
`PiecesAssumption`, which says what a correct peer sends (section 2).

**NetchanSessionProofs**

* `SessionTypeOK`: the types; in particular no number leaves the range of the wire word.
* `SessionInFlightIsCurrentUnit`: a copy in flight is the current fragment of the transfer, or the
  payload alone, under the generation last used. Not inductive alone: after the acknowledgement of a fragment
  the next one becomes current, and a pending payload becomes a transfer. `CurrentUnitInv` adds the
  types and that a transfer is never empty, from which the count and the index of its fragments follow.
* `SessionHoldsAcceptedInOrder`: what is in flight or in transfer, followed by what is pending, is exactly the accepted units
  from the first not let go of, in order. `Holding` joins it to `CurrentUnitInv` and
  to `retired <= accepted`; the lemmas on runs (`Units`), on the ceiling division (`FragmentCountProperties`)
  and on the offsets of fragments say that letting go of one fragment moves the start by its length.

**NetchanReassemblyProofs**

* `ReassemblyIsConsistent`: received count, covered size, ranges, image and total agree.
* `ReassemblyTakesMissing`: a fragment that is missing, well formed and in time is never refused; the
  overlap, range and bounds errors of `prepare_insert` are unreachable for it.
* `ReassemblyTypeOK`: the types; no deadline passes the end of the clock, no revision its maximum.
* `ReassemblyAssembles`: with plans held, dropped and overtaken, the reassembler implements
  `FragmentAssembly`: the image cut at the ranges is what was collected (`PartsAfterInsert`), and with no
  part missing the image is their concatenation (`PartsMakeTheImage`). `HeldAdds` says of a plan that is
  still current that applying it is one step of collecting. The concatenation is the fold of the community
  modules; what it computes is had from the least place at which it would differ.

  The invariant `IInv` says of the state *and of a plan held by the caller* that they are good
  (`GoodState`, `GoodPlan`): a plan carries the state it will leave, so that an inductive invariant
  which is silent about plans is lost at the commit. `CompleteTiles` is the heart: when as many
  ranges as fragments are held, they tile the image, by cardinality.

  The types of session and reassembler are proved here and are not among the runs' properties.

**NetchanPlansProofs**

* `PlansStayCurrent`: a plan that still carries the session's revision is what the session would
  prepare now (`PlansAgreeWithRevision`).
* `PreparedIsAtomic`: preparing an operation and committing it later implements the atomic session. The
  inductive invariant `PlansInv` says of each of the three things a caller may hold that it is no newer than
  the session, and current or overtaken; a commit that compares no more than the revision
  is then a step of `NetchanSession`.
* `PlansLoseNothing`: the session's theorems hold under late commits, by that refinement.

**NetchanChannelProofs**

* `UplinkImplementsReliableDelivery`: client, network and peer together implement `ReliableDelivery`.
* `ChannelRefusesNothing`: nothing a correct peer sent is ever refused, however late or out of order.
* `ChannelMarksNothing`: no word of the client marks another kind of datagram.

  Numbers wrap, so `ChannelInv` compares no numbers: it speaks of their *ages*, how far each lies behind the
  last one its side sent. `Windows` keeps every age that matters below half the modulus, and there the
  code's comparison is that of the ages (`ComparisonIsOfAges`). `UpOrder` and `DownOrder` say that among
  the datagrams a receiver would still take, acknowledgements advance with the numbers that carry them;
  `Copies` that the only copy of the unit in flight the peer could still admit is the most recent one, and
  that an acknowledgement which covers it tells by its bit whether it was admitted. This is why
  a bit is enough to acknowledge with. It needs that a copy is found lost only by a number that has passed it, and
  that the two numbers a fragment must skip at the wrap are met once while a copy waits (`SkippedOnce`).

* `TransfersImplementReliableDelivery`: the way down with its reassembler implements `ReliableDelivery`
  too, where a unit counts as delivered once it is published or held in the image. Each step is a
  submission, a delivery, a release or none of them (`UnitsMove`).
* `TransfersTakeEveryFragment`: reassembler and session take every newer datagram of a correct peer.

  `TransfersInv` adds two parts. `DownCopies` mirrors `Copies` for the peer's units: the only copy of a
  unit in flight that the client would not ignore is the most recent one, and an acknowledgement past it
  tells by its bit whether the client has it. Of a copy found lost it says nothing about the peer's next
  number, since the peer, unlike the client, may wait with the next copy as long as it likes. `Assembled`
  says where the units are: those of complete transfers published, those of the transfer under way
  at the front of its image, so that the next fragment goes right behind them. Hence the plan for a fragment
  the client has not ignored is always the insertion of the next one (`NextFragmentIsInserted`), never a
  repetition and never a refusal, and the bit flips once for it.

**NetchanDriverProofs**

* `DriverImplementsSession`: every step of the driver is a step of the session or leaves it alone.
  `DriverLosesNothing` follows: whatever path an update takes, the session inside the driver keeps its
  promise.
* `ContextsStayCurrent`, `NoAcknowledgementForgotten`, `EveryReleaseIsReported`, `EventsAlwaysFit`,
  `OutcomesAreHonest`, `OutcomesStaySettled`, `SupportsMakeRoom`, `UpdatesAreTimely` and
  `SubmittedIsNotDropped`: nine properties of the driver's runs, and `TheEndHoldsNothing`, which no run
  checks: every end of the driver clears it. None of their formulas is
  inductive, since an update is cut into steps and the formulas speak of the time between
  updates. `DriverInv` says for each place of an update what is known there: what the receive loop owes
  and has room for (`Owed`, `Room`), that the payloads reported and those let go of differ only by the
  datagram being answered (`Accounted`), that what is prepared depends on nothing an update
  changes before it is sent (`Context`), that no place behind a deadline's check is reached late (`Timely`),
  and how the outcome, the request and the state go together (`Outcomes`, `Over`). That a prepared
  context stays current rests on `PreparedIsAFunctionOfTheSession`. For `EventsAlwaysFit` the room asked for
  (`RequiredEvents`: what the reassembler announces and what the driver adds) is compared with the sequence
  of events pushed (`Pushed`), two definitions as in the code.

**UsercmdProofs**

* `CommandsAreAccounted`, `PreparedStaysCurrent`, `PacketsAreRuns`, `NoEventIsLost` and
  `ImpulsesAreOneShots`: the five safety properties of the run. `UsercmdInv` says that the history is a run
  of consecutive commands, those sent before those not (`HistoryIsARun`); that a packet prepared
  is the one the history admits (`Packed`); what left against what is counted (`Covered`); who owns the move
  at each place of a call (`Owned`); and how many events a place may still report (`Room`), one of them
  the end of the stage. The ring's size is the configuration's, and what is assumed of it is what the code
  checks for that kind of stage (`SufficientEventCapacity`): six for the reference stages.
* Inserting a batch is a recursive function over its length. That it exists (`StagedExists`) and
  what it computes (`InsertAllExtends`) needs induction over numbers, which is had here from the least number at which
  the statement would fail (`LeastNumber`), a consequence of the library's `NatLessThanWellFounded`; the
  induction theorems themselves take an operator as a parameter and cannot be used.

**HandshakeProofs**

* `TicketIsKept`: the handshake with its worker keeps the safety part of `AuthenticationTicket`, at every
  interleaving of the two threads. `IInv` says who holds a live ticket (`Holder`), that the operation
  asks for one ticket only (`OneAttempt`), what flags and results say of the other side
  (`InStepWithOwner`) and what the milestones recorded so far imply (`Recorded`). The guard of
  the host implies that the worker waits with the session retained, hence a live ticket.
* `MilestonesAreInStep`: the same invariant gives what the owner has seen at each point.
* `ErrorsAreExplained`: with a correct server a protocol error has a cause in the network. It says nothing of other ends. As long as nothing was copied,
  overtaken or lost, the queues match the stage: only challenges before the connect is sent (`Asking`),
  the connect as the last request and its answer before any packet (`Asked`), nothing but
  packets after it (`Granted`).

**PredictionProofs**

* `PredictionInStep`: simulation, scheduler and history agree on the newest command, and the commands kept are contiguous.
* `PredictionKeepsPromise`: the controller with its authority implements `ReplayedCommands`, for every
  kernel. `GoodSimulation` says that the history is a chain from its anchor which ends where the player
  is; `GoodQueues` that what is on its way is something an authority sends.
* `AuthorityAlwaysUnderstood`: no state the authority sends in a session is taken for a conflict or an
  unknown command. `GoodStream` adds that ordinals and acknowledged commands of the states made so far
  rise together, so that two of them that agree in one agree in all.
* `TheCameraShowsThePlayer` and `TheCameraGoesForward`: without a correction and without a failure
  the camera shown is the player's, and its revision grows exactly with its content. `CameraInv` says
  that what was shown last is what the correction published, or the player's own camera as long as it
  published nothing; the two counters of revisions are compared in `SampledFollows`.

Every invariant, action property without fairness and refinement of the runs is a theorem above. Only
model-checked are liveness under fairness and what needs ENABLED, which the provers do not reach:
`AcknowledgementIsSent`, `CommandsLeave`, `EverythingIsDelivered`, `GracefulCloseEnds`, `HandshakeEnds`,
`IdleChannelIsPolled`, and of `KeepsTicket` that the ticket is given back in the end. No run uses the real
modulus 2^30; the theorems of session and channel hold for it.

## 5. Plan

In the order of what matters, most important first. Session, reassembler, channel and
driver came first because everything else stands on them; the commands because they are the
driver's hardest client; then the prediction that shows them, and the handshake before them all.

1. *Split datagrams* (`NetchanSplit`): two slots, eviction, a part repeated after its datagram was
   joined; abstract specification: a network that loses, repeats and reorders whole datagrams.
2. *Entity snapshots* (`EntitySnapshots`): baselines, the ring, the reference policy; property: a delta is
   applied to the very snapshot it was made against.
3. *Sign-on* (`SignonStages`, after `Handshake`): one owner of the driver, payloads retained in order.
4. *Replay* (`RuntimeReplay`): three staged parts and one commit; abstract specification: a record is applied whole or not at all.
5. *Reconnect lifecycle and process orchestration*: two phase machines.
6. *Compositions*: driver with reassembler, driver with the commands' stage, commands with prediction, replacing what each assumes of the other today.

## 6. Not modelled

Parts without behaviour over time (codecs, decoders, planners of pictures and of assets, hashing), numeric code (movement,
collision, visibility, rendering) and what is hard only through the operating system (research copies,
receipts, process isolation) have no module: unit tests reach them, and a model would restate them.
Stages, snapshots, replay, reconnecting and the start-up's reducer do have behaviour worth a model; they are in the plan above and
listed as not modelled in `PROJECT.json` until then.

## 7. Running

`tlc -config <run>.cfg <module>` with the modules and configurations of `PROJECT.json`; `tlapm` on each of
`NetchanSessionProofs.tla`, `NetchanPlansProofs.tla`, `NetchanDriverProofs.tla`,
`NetchanChannelProofs.tla`, `NetchanReassemblyProofs.tla`, `UsercmdProofs.tla`,
`HandshakeProofs.tla` and `PredictionProofs.tla` for the proofs. The
community modules are needed. The largest run has some 1.9 million states.
