------------------------- MODULE AuthenticationWorker -------------------------
(***************************************************************************)
(* The one thread of the connection: the console asks the platform for an   *)
(* authentication ticket without stopping its window, so every native call  *)
(* is made by a worker (class Worker) on behalf of the thread that polls.   *)
(* The two share flags under a mutex; each step below is what one of them   *)
(* does between two moments at which the other can see it.                  *)
(*                                                                         *)
(* Of the milestones of the native operation the model keeps the three that *)
(* bound the life of the ticket; the native calls return, and fail or run   *)
(* out of time at any of their checks.                                      *)
(***************************************************************************)
EXTENDS Sequences

VARIABLES
  raised,       \* the flags that are set: begun_, poll_, cancelled_, released_, stop_
  terminal,     \* terminal_
  result,       \* material_ or error_
  milestones,   \* traces_
  at,           \* where the worker is; "exited" is done_
  stopping,     \* stop, as captured in the loop
  cancelSeen,   \* cancellation_seen
  operation,    \* the native operation: "none", "fresh", or "ready" (readiness_reported_)
  outcome,      \* result of its last update
  retained,     \* retained_session
  api,          \* State::initialized_, and "down" once shut down
  ticket,       \* the native game connection
  delivered     \* milestones the owner's callback has seen

sharedVars == <<raised, terminal, result, milestones>>
localVars == <<at, stopping, cancelSeen, operation, outcome, retained>>
nativeVars == <<api, ticket>>
workerVars == <<sharedVars, localVars, nativeVars, delivered>>

Flags == {"begun", "poll", "cancelled", "released", "stop"}
Errors == {"failed", "timed_out"}
Milestones == {"acquired", "terminated", "shutdown"}

\* The native game connection ends, and the callback of its guard says so.
Terminates == /\ ticket' = "terminated"
              /\ milestones' = Append(milestones, "terminated")

WorkerInit ==
  /\ raised = {} /\ terminal = FALSE /\ result = "none" /\ milestones = <<>>
  /\ stopping = FALSE /\ cancelSeen = FALSE /\ operation = "none"
  /\ outcome = "pending" /\ retained = FALSE
  /\ api = "off" /\ ticket = "none" /\ delivered = <<>>

-----------------------------------------------------------------------------
\* The worker.

\* run_operation: the wait for a request, or for the end.
AwaitRequest ==
  /\ at = "starting" /\ raised \cap {"begun", "stop"} # {}
  /\ at' = IF "stop" \in raised THEN "leaving" ELSE "beginning"
  /\ UNCHANGED <<sharedVars, stopping, cancelSeen, operation, outcome, retained, nativeVars,
                 delivered>>

\* SteamAuthenticationProvider::begin, and fail when it refuses the request.
BeginOperation ==
  /\ at = "beginning"
  /\ \/ at' = "waiting" /\ operation' = "fresh" /\ UNCHANGED <<result, terminal>>
     \/ at' = "leaving" /\ result' = "failed" /\ terminal' = TRUE /\ UNCHANGED operation
  /\ UNCHANGED <<raised, milestones, stopping, cancelSeen, outcome, retained, nativeVars,
                 delivered>>

Cancelling == "cancelled" \in raised /\ ~cancelSeen

\* The wait of the loop, and what it captures under the lock.
Wake ==
  /\ at = "waiting"
  /\ "stop" \in raised \/ "released" \in raised \/ "poll" \in raised \/ Cancelling
  /\ stopping' = ("stop" \in raised)
  /\ raised' = raised \ {"poll", "released"}
  /\ at' = CASE "stop" \in raised \/ Cancelling -> "dropping"
             [] "released" \in raised -> "releasing"
             [] operation = "none" -> "waiting"
             [] OTHER -> "updating"
  /\ UNCHANGED <<terminal, result, milestones, cancelSeen, operation, outcome, retained,
                 nativeVars, delivered>>

LetGo == IF retained THEN Terminates ELSE UNCHANGED <<ticket, milestones>>

\* A stop or a cancellation: the operation and the session go first, ...
Drop ==
  /\ at = "dropping"
  /\ cancelSeen' = TRUE /\ operation' = "none" /\ retained' = FALSE /\ LetGo
  /\ at' = "concluding"
  /\ UNCHANGED <<raised, terminal, result, stopping, outcome, api, delivered>>

\* ... then the material, under the lock.
Conclude ==
  /\ at = "concluding"
  /\ result' = IF result = "material" THEN "none" ELSE result
  /\ terminal' = TRUE
  /\ at' = IF stopping THEN "leaving" ELSE "waiting"
  /\ UNCHANGED <<raised, milestones, stopping, cancelSeen, operation, outcome, retained,
                 nativeVars, delivered>>

Release ==
  /\ at = "releasing"
  /\ retained' = FALSE /\ LetGo /\ at' = "waiting"
  /\ UNCHANGED <<raised, terminal, result, stopping, cancelSeen, operation, outcome, api,
                 delivered>>

\* SteamAuthenticationOperation::update before it is ready: the interface comes
\* up or does not, and the checks that follow may still fail.
Prepare ==
  /\ at = "updating" /\ operation = "fresh"
  /\ \/ api' = "on" /\ operation' = "ready" /\ outcome' = "pending"
     \/ api' \in {"off", "on"} /\ outcome' \in Errors /\ UNCHANGED operation
  /\ at' = "updated"
  /\ UNCHANGED <<sharedVars, stopping, cancelSeen, retained, ticket, delivered>>

\* The update after it: no ticket, a ticket that comes too late or cannot be
\* used, or a ticket.
Initiate ==
  /\ at = "updating" /\ operation = "ready"
  /\ \/ /\ outcome' \in Errors /\ at' = "updated"
        /\ UNCHANGED <<ticket, milestones>>
     \/ /\ outcome' \in Errors /\ at' = "undoing" /\ ticket' = "live"
        /\ UNCHANGED milestones
     \/ /\ outcome' = "session" /\ at' = "updated" /\ ticket' = "live"
        /\ milestones' = Append(milestones, "acquired")
  /\ UNCHANGED <<raised, terminal, result, stopping, cancelSeen, operation, retained, api,
                 delivered>>

\* A ticket the operation cannot use is given back before the update returns.
Undo ==
  /\ at = "undoing" /\ ticket' = "terminated" /\ at' = "updated"
  /\ UNCHANGED <<sharedVars, stopping, cancelSeen, operation, outcome, retained, api,
                 delivered>>

\* The look at the flags after the update: a result nobody wants any more is
\* discarded, a pending one waits for the next poll.
Examine ==
  /\ at = "updated"
  /\ LET discard == raised \cap {"cancelled", "stop"} # {}
     IN /\ at' = CASE discard /\ outcome = "session" -> "discarding"
                   [] ~discard /\ outcome # "pending" -> "publishing"
                   [] OTHER -> "waiting"
        /\ operation' = IF ~discard /\ outcome # "pending" THEN "none" ELSE operation
  /\ UNCHANGED <<sharedVars, stopping, cancelSeen, outcome, retained, nativeVars, delivered>>

Discard ==
  /\ at = "discarding" /\ Terminates /\ at' = "waiting" /\ outcome' = "pending"
  /\ UNCHANGED <<raised, terminal, result, stopping, cancelSeen, operation, retained, api,
                 delivered>>

PublishWithoutError ==   \* mutant: a failed update leaves no error
  /\ at = "publishing"
  /\ retained' = (outcome = "session")
  /\ result' = IF outcome = "session" THEN "material" ELSE result
  /\ terminal' = TRUE /\ at' = "waiting" /\ outcome' = "pending"
  /\ UNCHANGED <<raised, milestones, stopping, cancelSeen, operation, nativeVars, delivered>>

\* The session stays with the worker, its material or the error is published.
Publish ==
  /\ at = "publishing"
  /\ retained' = (outcome = "session")
  /\ result' = IF outcome = "session" THEN "material" ELSE outcome
  /\ terminal' = TRUE /\ at' = "waiting" /\ outcome' = "pending"
  /\ UNCHANGED <<raised, milestones, stopping, cancelSeen, operation, nativeVars, delivered>>

\* The end of run_operation destroys the provider, and with it the interface.
Leave ==
  /\ at = "leaving" /\ at' = "exiting"
  /\ IF api = "on"
     THEN api' = "down" /\ milestones' = Append(milestones, "shutdown")
     ELSE UNCHANGED <<api, milestones>>
  /\ UNCHANGED <<raised, terminal, result, stopping, cancelSeen, operation, outcome, retained,
                 ticket, delivered>>

Exit ==
  /\ at = "exiting" /\ at' = "exited"
  /\ UNCHANGED <<sharedVars, stopping, cancelSeen, operation, outcome, retained, nativeVars,
                 delivered>>

WorkerStep ==
  \/ AwaitRequest \/ BeginOperation \/ Wake \/ Drop \/ Conclude \/ Release
  \/ Prepare \/ Initiate \/ Undo \/ Examine \/ Discard \/ Publish \/ Leave \/ Exit

-----------------------------------------------------------------------------
\* The thread that polls.  Each raises flags and leaves the worker where it is.

\* drain_traces.
Drain == delivered' = delivered \o milestones /\ milestones' = <<>>

Raise(flags) == raised' = raised \cup flags

\* What poll answers, and what it leaves behind.
Polled == IF "cancelled" \in raised THEN "failed" ELSE result

Poll ==
  /\ Drain
  /\ result' = IF Polled = "material" THEN "none" ELSE result
  /\ raised' = IF Polled = "none" /\ ~terminal THEN raised \cup {"poll"} ELSE raised
  /\ UNCHANGED terminal

TypeOK ==
  /\ raised \subseteq Flags /\ terminal \in BOOLEAN
  /\ result \in {"none", "material"} \cup Errors
  /\ milestones \in Seq(Milestones) /\ delivered \in Seq(Milestones)
  /\ at \in {"starting", "beginning", "waiting", "dropping", "concluding", "releasing",
             "updating", "updated", "undoing", "discarding", "publishing", "leaving",
             "exiting", "exited"}
  /\ stopping \in BOOLEAN /\ cancelSeen \in BOOLEAN
  /\ operation \in {"none", "fresh", "ready"}
  /\ outcome \in {"pending", "session"} \cup Errors
  /\ retained \in BOOLEAN
  /\ api \in {"off", "on", "down"} /\ ticket \in {"none", "live", "terminated"}
=============================================================================
