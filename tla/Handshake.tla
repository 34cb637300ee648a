------------------------------- MODULE Handshake -------------------------------
(***************************************************************************)
(* The way to a connection: GoldSrcHandshakeCoordinator leads the challenge *)
(* exchange, the authentication, the one connect request, the wait for its  *)
(* answer and the first packet of the channel, and hands the guard of the   *)
(* ticket from one to the next.  The host calls update again and again; the *)
(* worker of AuthenticationWorker runs beside it, and everything else       *)
(* happens inside the call.                                                 *)
(*                                                                         *)
(* Requests and answers are queues a datagram may be lost from, or once be  *)
(* copied or overtaken in; an update takes what has arrived of the answers. *)
(* The server is a correct one: it answers what it is asked.                *)
(***************************************************************************)
EXTENDS AuthenticationWorker, Integers

CONSTANTS
  StopPoints,         \* bound: the stop points the owner may ask for
  Routes,             \* bound: with a "prepared" request, or with a "provider"
  Budget,             \* config_.maximum_datagrams_per_update
  MaxAttempts,        \* ChallengeExchangeConfig::maximum_attempts
  RetryInterval,      \* ChallengeExchangeConfig::retry_interval
  ChallengeTimeout,   \* ChallengeExchangeConfig::timeout
  ResponseTimeout,    \* ConnectResponseWaitConfig::timeout
  FirstPacketTimeout  \* NetchanBootstrapConfig::first_packet_timeout

\* The validate_start of each stage, and the stop points modelled here.
ASSUME HandshakeAssumption ==
  /\ StopPoints \subseteq {"challenge", "connect_request", "connect_response",
                           "netchan_bootstrap"}
  /\ Routes \subseteq {"prepared", "provider"}
  /\ Budget \in Nat \ {0} /\ MaxAttempts \in Nat \ {0}
  /\ RetryInterval \in Nat \ {0} /\ ChallengeTimeout \in Nat
  /\ RetryInterval <= ChallengeTimeout
  /\ ResponseTimeout \in Nat \ {0} /\ FirstPacketTimeout \in Nat \ {0}

VARIABLES
  stopPoint,    \* stop_point_
  route,        \* whether there is an authentication_provider_
  state,        \* state_
  hostAt,       \* where the host is: "outside" of every call, in the "polling" of
                \* an operation, having "dismantled" the coordinator, "joining"
                \* the worker, or "gone"
  attempts,     \* attempts_
  age,          \* now - the start of the stage that waits
  sinceRequest, \* now - the last getchallenge, or None
  guard,        \* who owns the lifetime of the session
  close,        \* graceful_close_.outcome, "none" before it is requested
  requests,     \* the way to the server
  answers,      \* the way to the client
  verdict,      \* what the server answers a connect with
  disordered    \* history: a datagram was copied or overtaken, or an ACCEPT lost

hostVars == <<stopPoint, route, state, hostAt, attempts, age, sinceRequest, guard, close>>
networkVars == <<requests, answers, verdict, disordered>>
vars == <<workerVars, hostVars, networkVars>>

Over ==
  \/ state = "challenge_received" /\ stopPoint = "challenge"
  \/ state = "request_sent" /\ stopPoint = "connect_request"
  \/ state = "accepted" /\ stopPoint = "connect_response"
  \/ state \in {"rejected", "authentication_failed", "authentication_timed_out", "timed_out",
                "connect_response_timed_out", "netchan_bootstrap_complete",
                "netchan_timed_out", "cancelled", "network_error", "protocol_error"}

Init ==
  /\ WorkerInit
  /\ stopPoint \in StopPoints /\ route \in Routes
  /\ at = IF route = "provider" THEN "starting" ELSE "exited"
  /\ state = "idle" /\ hostAt = "outside" /\ attempts = 0 /\ age = 0
  /\ sinceRequest = 0 /\ guard = "none" /\ close = "none"
  /\ requests = <<>> /\ answers = <<>> /\ verdict = "undecided"
  /\ disordered = FALSE

-----------------------------------------------------------------------------
\* Pieces of an update.

Forgets == age' = 0 /\ sinceRequest' = 0 /\ requests' = <<>> /\ answers' = <<>>

\* The guard goes with the session, the worker hears of it.
Parts(flags) ==
  /\ guard' = "none"
  /\ Raise(flags \cup (IF guard = "none" THEN {} ELSE {"released"}))

\* A terminal state releases the session, whoever owns it; no deadline is left
\* to wait for, and nobody reads what is still on its way.
Ends(terminalState) ==
  /\ state' = terminalState /\ Parts({}) /\ Forgets
  /\ UNCHANGED <<hostAt, attempts, terminal, result, milestones, delivered>>

\* A socket error ends every stage alike.
SocketFails == Ends("network_error")

\* The datagrams an update takes: some that it overlooks, of those that have
\* arrived ...
Rest(n) == SubSeq(answers, n + 1, Len(answers))

Overlooks(kinds) ==
  \E n \in 0 .. Budget :
    n <= Len(answers) /\ (\A i \in 1 .. n : answers[i] \in kinds) /\ answers' = Rest(n)

\* ... and perhaps one, the first of the others, that it does not.
Decisive(kinds) ==
  {n \in 1 .. Budget :
     /\ n <= Len(answers) /\ answers[n] \notin kinds
     /\ \A i \in 1 .. n - 1 : answers[i] \in kinds}

\* send_request, and the retry it prepares.
SendRequest ==
  /\ state' = "waiting_for_challenge" /\ requests' = Append(requests, "getchallenge")
  /\ attempts' = attempts + 1 /\ sinceRequest' = 0

\* connect_stage_->start, and the wait for the answer when one is wanted; the
\* session stays with the coordinator.
SendConnect(session) ==
  /\ requests' = Append(requests, "connect")
  /\ IF stopPoint = "connect_request"
     THEN /\ state' = "request_sent" /\ guard' = "none"
          /\ raised' = IF session THEN raised \cup {"released"} ELSE raised
          /\ UNCHANGED age
     ELSE /\ state' = "waiting_for_connect_response" /\ age' = 0
          /\ guard' = IF session THEN "coordinator" ELSE "none"
          /\ UNCHANGED raised

-----------------------------------------------------------------------------
\* The calls of the host.

Waits(waiting) == hostAt = "outside" /\ state = waiting

Start ==
  /\ Waits("idle")
  /\ \/ /\ SendRequest /\ age' = 0
        /\ UNCHANGED <<hostAt, guard, answers, raised, terminal, result, milestones, delivered>>
     \/ SocketFails
  /\ UNCHANGED <<stopPoint, route, close>>

\* What follows the answer to the challenge, in the same update: the connect
\* request, or the provider's begin and a first poll of its operation.
Challenged ==
  IF route = "prepared"
  THEN /\ SendConnect(FALSE)
       /\ UNCHANGED <<hostAt, attempts, sinceRequest, terminal, result, milestones, delivered>>
  ELSE /\ state' = "waiting_for_authentication" /\ hostAt' = "polling"
       /\ Raise({"begun"}) /\ Drain
       /\ UNCHANGED <<attempts, age, sinceRequest, guard, requests, terminal, result>>

Due == sinceRequest >= RetryInterval /\ attempts < MaxAttempts

UpdateChallenge ==
  /\ Waits("waiting_for_challenge")
  /\ \/ age >= ChallengeTimeout /\ Ends("timed_out")
     \/ /\ age < ChallengeTimeout
        /\ \/ \E n \in Decisive({"foreign"}) :
                \/ answers[n] # "challenge" /\ Ends("protocol_error")
                \/ /\ answers[n] = "challenge"
                   /\ IF stopPoint = "challenge" THEN Ends("challenge_received")
                                                 ELSE Challenged /\ answers' = Rest(n)
           \/ /\ Overlooks({"foreign"})
              /\ IF Due THEN SendRequest
                        ELSE UNCHANGED <<state, requests, attempts, sinceRequest>>
              /\ UNCHANGED <<hostAt, age, guard, raised, terminal, result, milestones,
                             delivered>>
           \/ SocketFails
  /\ UNCHANGED <<stopPoint, route, close>>

\* synchronize_from_authentication: poll drains the milestones, ...
BeginPoll ==
  /\ Waits("waiting_for_authentication")
  /\ hostAt' = "polling" /\ Drain
  /\ UNCHANGED <<raised, terminal, result, stopPoint, route, state, attempts, age,
                 sinceRequest, guard, close, requests, answers>>

\* ... looks at the result, and drains again before the answer is used.
FinishPoll ==
  /\ hostAt = "polling" /\ hostAt' = "outside"
  /\ \/ Polled = "none" /\ Poll /\ UNCHANGED <<state, age, sinceRequest, guard, requests, answers>>
     \/ /\ Polled \in Errors /\ Poll /\ Forgets
        /\ state' = IF Polled = "failed" THEN "authentication_failed"
                                         ELSE "authentication_timed_out"
        /\ UNCHANGED guard
     \/ /\ Polled = "material" /\ Drain /\ result' = "none" /\ UNCHANGED terminal
        /\ \/ SendConnect(TRUE) /\ UNCHANGED <<sinceRequest, answers>>
           \/ /\ state' \in {"authentication_failed", "network_error"} /\ Forgets
              /\ Raise({"released"}) /\ UNCHANGED guard
  /\ UNCHANGED <<stopPoint, route, attempts, close>>

AcceptedLosingGuard ==   \* mutant: the session is released instead of moved
  /\ state' = "waiting_for_netchan" /\ age' = 0 /\ Parts({})
  /\ UNCHANGED <<hostAt, attempts, sinceRequest, requests, terminal, result, milestones,
                 delivered>>

\* ACCEPT: the session moves into the driver, which starts to wait.
Accepted ==
  /\ state' = "waiting_for_netchan" /\ age' = 0
  /\ guard' = IF guard = "coordinator" THEN "driver" ELSE guard
  /\ UNCHANGED <<hostAt, attempts, sinceRequest, requests, raised, terminal, result,
                 milestones, delivered>>

Unchanging ==
  UNCHANGED <<state, hostAt, attempts, age, sinceRequest, guard, requests, raised, terminal,
              result, milestones, delivered>>

ForeignOnly == {"foreign"}   \* mutant: any datagram of the server must be an answer

\* A late answer to a repeated getchallenge may still be queued: a
\* connectionless datagram that cannot answer a connect is overlooked.
Unrelated == {"foreign", "challenge"}

UpdateResponse ==
  /\ Waits("waiting_for_connect_response")
  /\ \/ age >= ResponseTimeout /\ Ends("connect_response_timed_out")
     \/ /\ age < ResponseTimeout
        /\ \/ \E n \in Decisive(Unrelated) :
                \/ answers[n] = "reject" /\ Ends("rejected")
                \/ answers[n] \notin {"accept", "reject"} /\ Ends("protocol_error")
                \/ /\ answers[n] = "accept"
                   /\ IF stopPoint = "connect_response" THEN Ends("accepted")
                                                        ELSE Accepted /\ answers' = Rest(n)
           \/ Overlooks(Unrelated) /\ Unchanging
           \/ SocketFails
  /\ UNCHANGED <<stopPoint, route, close>>

\* The first packet completes the bootstrap, which then closes its driver.
UpdateNetchan ==
  /\ Waits("waiting_for_netchan")
  /\ \/ age >= FirstPacketTimeout /\ Ends("netchan_timed_out")
     \/ /\ age < FirstPacketTimeout
        /\ \/ \E n \in Decisive({"foreign"}) :
                Ends(IF answers[n] = "sequenced" THEN "netchan_bootstrap_complete"
                                                 ELSE "protocol_error")
           \/ Overlooks({"foreign"}) /\ Unchanging
           \/ SocketFails
  /\ UNCHANGED <<stopPoint, route, close>>

\* cancel ends the stage that waits; an operation still running is cancelled.
LeavesStage == Forgets /\ Parts(IF state = "waiting_for_authentication" THEN {"cancelled"} ELSE {})

Cancel ==
  /\ hostAt = "outside" /\ ~Over /\ state # "idle"
  /\ state' = "cancelled" /\ LeavesStage
  /\ UNCHANGED <<stopPoint, route, hostAt, attempts, close, terminal, result, milestones,
                 delivered>>

\* request_graceful_close also ends a handshake that has not begun.
RequestClose ==
  /\ hostAt = "outside" /\ close = "none"
  /\ close' = IF Over /\ state # "cancelled" THEN "fatal_failure"
                                             ELSE "cancel_without_protocol_disconnect"
  /\ IF Over THEN UNCHANGED <<state, guard, raised, age, sinceRequest, requests, answers>>
             ELSE state' = "cancelled" /\ LeavesStage
  /\ UNCHANGED <<stopPoint, route, hostAt, attempts, terminal, result, milestones, delivered>>

\* The coordinator is destroyed: what it still holds cancels and releases.
Dismantle ==
  /\ hostAt = "outside" /\ hostAt' = IF route = "provider" THEN "dismantled" ELSE "gone"
  /\ LeavesStage
  /\ UNCHANGED <<stopPoint, route, state, attempts, close, terminal, result, milestones,
                 delivered>>

\* The provider's reference was the last: ~Worker stops the thread, ...
StopWorker ==
  /\ hostAt = "dismantled" /\ hostAt' = "joining"
  /\ Raise({"stop"})
  /\ UNCHANGED <<stopPoint, route, state, attempts, age, sinceRequest, guard, close, terminal,
                 result, milestones, delivered, requests, answers>>

\* ... drains while it waits, and once more when the thread is done.
AwaitWorker ==
  /\ hostAt = "joining" /\ milestones # <<>> /\ at # "exited" /\ Drain
  /\ UNCHANGED <<raised, terminal, result, hostVars, requests, answers>>

JoinWorkerUndrained ==   \* mutant: no look at the milestones after the join
  /\ hostAt = "joining" /\ at = "exited" /\ hostAt' = "gone"
  /\ UNCHANGED <<sharedVars, delivered, stopPoint, route, state, attempts, age, sinceRequest,
                 guard, close, requests, answers>>

JoinWorker ==
  /\ hostAt = "joining" /\ at = "exited" /\ hostAt' = "gone" /\ Drain
  /\ UNCHANGED <<raised, terminal, result, stopPoint, route, state, attempts, age,
                 sinceRequest, guard, close, requests, answers>>

Update == UpdateChallenge \/ BeginPoll \/ FinishPoll \/ UpdateResponse \/ UpdateNetchan

Beside == UNCHANGED <<localVars, nativeVars, verdict, disordered>>

Host ==
  /\ \/ Start \/ Update \/ Cancel \/ RequestClose
     \/ Dismantle \/ StopWorker \/ AwaitWorker \/ JoinWorker
  /\ Beside

Worker == WorkerStep /\ UNCHANGED <<hostVars, networkVars>>

-----------------------------------------------------------------------------
\* Time, the server and the network, as long as the handshake lasts.

Lasts == hostAt = "outside" /\ ~Over

Limit == CASE state = "waiting_for_challenge" -> ChallengeTimeout
           [] state = "waiting_for_connect_response" -> ResponseTimeout
           [] state = "waiting_for_netchan" -> FirstPacketTimeout
           [] OTHER -> 0

Tick ==
  /\ Lasts /\ age < Limit /\ age' = age + 1
  /\ sinceRequest' = IF sinceRequest < RetryInterval THEN sinceRequest + 1 ELSE sinceRequest
  /\ UNCHANGED <<workerVars, stopPoint, route, state, hostAt, attempts, guard, close,
                 networkVars>>

\* The server answers a getchallenge with a challenge and a connect with its
\* verdict; packets of the channel follow an ACCEPT.
Answer ==
  /\ requests # <<>> /\ requests' = Tail(requests)
  /\ \/ /\ Head(requests) = "getchallenge" /\ answers' = Append(answers, "challenge")
        /\ UNCHANGED verdict
     \/ /\ Head(requests) = "connect"
        /\ verdict' \in IF verdict = "undecided" THEN {"accept", "reject"} ELSE {verdict}
        /\ answers' = Append(answers, verdict')
  /\ UNCHANGED disordered

UnderWay(kind) == \E i \in DOMAIN answers : answers[i] = kind

SendPacket ==
  /\ verdict = "accept" /\ ~UnderWay("sequenced") /\ answers' = Append(answers, "sequenced")
  /\ UNCHANGED <<requests, verdict, disordered>>

Without(queue, i) == SubSeq(queue, 1, i - 1) \o SubSeq(queue, i + 1, Len(queue))

Lose ==
  /\ \/ /\ \E i \in DOMAIN requests : requests' = Without(requests, i)
        /\ UNCHANGED <<answers, disordered>>
     \/ \E i \in DOMAIN answers :
          /\ answers' = Without(answers, i)
          /\ disordered' = (disordered \/ answers[i] = "accept")
          /\ UNCHANGED requests
  /\ UNCHANGED verdict

\* A copy of a datagram, or the datagram itself, comes after those behind it.
Delayed(queue) ==
  {Append(queue, queue[i]) : i \in DOMAIN queue} \cup
  {Append(Without(queue, i), queue[i]) : i \in DOMAIN queue}

Disorder ==
  /\ ~disordered /\ disordered' = TRUE
  /\ \/ requests' \in Delayed(requests) /\ UNCHANGED answers
     \/ answers' \in Delayed(answers) /\ UNCHANGED requests
  /\ UNCHANGED verdict

Intrude ==
  /\ ~UnderWay("foreign") /\ answers' = Append(answers, "foreign")
  /\ UNCHANGED <<requests, verdict, disordered>>

Network ==
  /\ Lasts
  /\ Answer \/ SendPacket \/ Lose \/ Disorder \/ Intrude
  /\ UNCHANGED <<workerVars, hostVars>>

Next == Host \/ Worker \/ Tick \/ Network

Spec == Init /\ [][Next]_vars

\* The host keeps updating, time passes, ~Worker runs to its end, and the
\* thread and the native calls it makes get their turn.
Fairness ==
  /\ WF_vars(Update /\ Beside) /\ WF_vars(Tick) /\ WF_vars(Worker)
  /\ WF_vars((StopWorker \/ AwaitWorker \/ JoinWorker) /\ Beside)

FairSpec == Spec /\ Fairness

-----------------------------------------------------------------------------

Left == hostAt \in {"dismantled", "joining", "gone"}

\* A handshake that has begun comes to an end however little it is answered:
\* each stage that waits for the network has a deadline, and a poll reaches the
\* worker; and who destroys the worker is not kept waiting for ever.
HandshakeEnds ==
  /\ state # "idle" ~> (Over \/ Left)
  /\ hostAt = "joining" ~> hostAt = "gone"

\* The ticket a connect request carries stays valid from the sending of the
\* request until the handshake is over, and is given back once after that
\* (the comment of AuthenticationSession; docs/STEAM_AUTHENTICATION.md).
Relied ==
  /\ route = "provider" /\ hostAt = "outside"
  /\ state \in {"waiting_for_connect_response", "waiting_for_netchan"}

Ticket == INSTANCE AuthenticationTicket WITH relied <- Relied

KeepsTicket == Ticket!Spec

\* With a correct server a handshake becomes a protocol error only when the
\* network copied or overtook a datagram or lost the ACCEPT: not because the
\* client asked for the challenge twice, nor for datagrams of other endpoints.
ErrorIsExplained == state = "protocol_error" => disordered

\* A milestone of the native operation reaches the owner before the result it
\* explains is used, and none is lost when the worker is destroyed.
Seen(milestone) == \E i \in DOMAIN delivered : delivered[i] = milestone

MilestonesInStep ==
  /\ Relied \/ guard # "none" => Seen("acquired")
  /\ hostAt = "gone" =>
       /\ ticket # "live" /\ (Seen("acquired") => Seen("terminated"))
       /\ api # "on" /\ (api = "down" => Seen("shutdown"))
=============================================================================
