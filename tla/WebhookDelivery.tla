-------------------------- MODULE WebhookDelivery --------------------------
(***************************************************************************)
(* Delivery of webhook events to the subscribed endpoints                  *)
(* (core/controllers/webhook_delivery_controller.py).  Creating an event   *)
(* starts a thread that delivers it; an operator may run the management    *)
(* command process_webhook_deliveries, several times and at any moment,    *)
(* which delivers every event that is not yet a success.  Threads and      *)
(* commands share nothing but the database, in which every statement is    *)
(* its own transaction: a step of a run below is one statement, or the     *)
(* HTTP request.                                                           *)
(*                                                                         *)
(* Events and endpoints are numbered in the order in which the code visits *)
(* them (occurred_at, pk).  Every endpoint subscribes to every event here: *)
(* for one event an endpoint that does not is as good as absent.           *)
(***************************************************************************)
EXTENDS Integers, Sequences, FiniteSets, FiniteSetsExt

CONSTANTS
  Events, Endpoints,  \* numbers
  Commands,           \* the runs of the command that may be active at a time
  MaxRetries,         \* WebhookEndpoint.max_retries of each endpoint
  Breaking,           \* endpoints whose answer may raise outside the try block
  None,
  MaxCrashes,         \* bound: runs that die with their process
  MaxToggles          \* bound: administrators enabling or disabling an endpoint

ASSUME ConstantsAssumption ==
  /\ Events \subseteq Nat /\ IsFiniteSet(Events)
  /\ Endpoints \subseteq Nat /\ IsFiniteSet(Endpoints)
  /\ IsFiniteSet(Commands) /\ Commands \cap Events = {}
  /\ MaxRetries \in [Endpoints -> Nat]
  /\ Breaking \subseteq Endpoints
  /\ None \notin Events /\ \A T \in SUBSET Endpoints : T # None
  /\ MaxCrashes \in Nat /\ MaxToggles \in Nat

\* The thread of an event goes by the event's name.
Runs == Events \cup Commands

Statuses == {"pending", "partial_failure", "failed", "success"}

Steps == {"idle", "load", "decide", "number", "post", "record", "endpoint",
          "successes", "judge", "save"}

\* The local state of a run: what it has read and not yet used.
Run == [pc        : Steps,
        queue     : SUBSET Events,     \* events it has still to deliver
        event     : Events \cup {None},
        todo      : SUBSET Endpoints,  \* endpoints it has read and still visits
        number    : Nat,               \* attempt_number
        ok        : BOOLEAN,
        delivered : SUBSET Endpoints,  \* successful_endpoint_ids
        verdict   : Statuses]

VARIABLES
  enabled,     \* WebhookEndpoint.enabled
  lastStatus,  \* WebhookEndpoint.last_delivery_status
  targets,     \* WebhookEvent.target_endpoint_ids, None before the event exists
  status,      \* WebhookEvent.delivery_status
  attempts,    \* the success flags of the attempts at an event and endpoint, by number
  due,         \* the backoff of the latest of these has elapsed
  run, crashes, toggles,
  off          \* history: the targets that were disabled since the event exists

vars == <<enabled, lastStatus, targets, status, attempts, due, run, crashes, toggles, off>>
-----------------------------------------------------------------------------
Created(v) == targets[v] # None

EnabledTargets(v) == {e \in targets[v] : enabled[e]}

Latest(v, e) == attempts[v][e][Len(attempts[v][e])]

Succeeded(v, e) == \E k \in DOMAIN attempts[v][e] : attempts[v][e][k]

\* _is_endpoint_exhausted
Exhausted(v, e) ==
  /\ attempts[v][e] # << >>
  /\ ~Latest(v, e)
  /\ Len(attempts[v][e]) >= MaxRetries[e] + 1

\* Mutant: allows one attempt too many.
ShouldAttemptOnceMore(v, e) ==
  \/ attempts[v][e] = << >>
  \/ /\ ~Latest(v, e)
     /\ Len(attempts[v][e]) <= MaxRetries[e] + 1
     /\ due[v][e]

\* _should_attempt_delivery
ShouldAttempt(v, e) ==
  \/ attempts[v][e] = << >>
  \/ /\ ~Latest(v, e)
     /\ Len(attempts[v][e]) < MaxRetries[e] + 1
     /\ due[v][e]

\* Mutant: one success is enough.
DeliveryStatusOfAny(v, T, D) ==
  IF D # {} THEN "success"
  ELSE IF \A e \in T \ D : Exhausted(v, e) THEN "failed"
  ELSE IF \E e \in T : attempts[v][e] # << >> THEN "partial_failure"
  ELSE "pending"

\* _determine_delivery_status, for the endpoints T of which D had succeeded
DeliveryStatus(v, T, D) ==
  IF D = T THEN "success"
  ELSE IF \A e \in T \ D : Exhausted(v, e) THEN "failed"
  ELSE IF \E e \in T : attempts[v][e] # << >> THEN "partial_failure"
  ELSE "pending"

Idle == [pc |-> "idle", queue |-> {}, event |-> None, todo |-> {}, number |-> 0,
         ok |-> FALSE, delivered |-> {}, verdict |-> "pending"]

Started(Q) == [Idle EXCEPT !.pc = "load", !.queue = Q]

At(r, pc) == run[r].pc = pc

Event(r) == run[r].event

Endpoint(r) == Min(run[r].todo)

\* Run r, and nothing else in memory, moves on to state s.
Becomes(r, s) == run' = [run EXCEPT ![r] = s]

Dies(r) == Becomes(r, Idle)
-----------------------------------------------------------------------------
Init ==
  /\ enabled \in [Endpoints -> BOOLEAN]
  /\ lastStatus = [e \in Endpoints |-> ""]
  /\ targets = [v \in Events |-> None]
  /\ status = [v \in Events |-> "pending"]
  /\ attempts = [v \in Events |-> [e \in Endpoints |-> << >>]]
  /\ due = [v \in Events |-> [e \in Endpoints |-> FALSE]]
  /\ run = [r \in Runs |-> Idle]
  /\ crashes = 0
  /\ toggles = 0
  /\ off = [v \in Events |-> {}]

\* _create_event and, when its transaction commits, dispatch_event_async.
CreateEvent(v) ==
  LET T == {e \in Endpoints : enabled[e]}
  IN /\ ~Created(v)
     /\ targets' = [targets EXCEPT ![v] = T]
     /\ status' = [status EXCEPT ![v] = IF T = {} THEN "success" ELSE "pending"]
     /\ IF T = {} THEN UNCHANGED run ELSE Becomes(v, Started({v}))
     /\ UNCHANGED <<enabled, lastStatus, attempts, due, crashes, toggles, off>>

\* Mutant: takes only the events without an attempt.
StartCommandForPending(c) ==
  LET Q == {v \in Events : Created(v) /\ status[v] = "pending"}
  IN /\ At(c, "idle")
     /\ Q # {}
     /\ Becomes(c, Started(Q))
     /\ UNCHANGED <<enabled, lastStatus, targets, status, attempts, due, crashes, toggles, off>>

\* The operator runs the command; process_pending_events reads its events.
StartCommand(c) ==
  LET Q == {v \in Events : Created(v) /\ status[v] # "success"}
  IN /\ At(c, "idle")
     /\ Q # {}
     /\ Becomes(c, Started(Q))
     /\ UNCHANGED <<enabled, lastStatus, targets, status, attempts, due, crashes, toggles, off>>

\* deliver_event reads the event and its enabled target endpoints.
Load(r) ==
  LET v == Min(run[r].queue)
  IN /\ At(r, "load")
     /\ Becomes(r, [Idle EXCEPT !.pc = "decide", !.event = v, !.todo = EnabledTargets(v),
                                !.queue = run[r].queue \ {v}])
     /\ UNCHANGED <<enabled, lastStatus, targets, status, attempts, due, crashes, toggles, off>>

\* The first read of the latest attempt.
Decide(r) ==
  /\ At(r, "decide")
  /\ run[r].todo # {}
  /\ Becomes(r, IF ShouldAttempt(Event(r), Endpoint(r))
                THEN [run[r] EXCEPT !.pc = "number"]
                ELSE [run[r] EXCEPT !.todo = @ \ {Endpoint(r)}])
  /\ UNCHANGED <<enabled, lastStatus, targets, status, attempts, due, crashes, toggles, off>>

\* Mutant: there is no number after no attempt.
NumberOfLatest(r) ==
  LET made == Len(attempts[Event(r)][Endpoint(r)])
  IN /\ At(r, "number")
     /\ Becomes(r, [run[r] EXCEPT !.pc = "post", !.number = IF made = 0 THEN None ELSE made + 1])
     /\ UNCHANGED <<enabled, lastStatus, targets, status, attempts, due, crashes, toggles, off>>

\* The second read of the latest attempt, for attempt_number.
Number(r) ==
  /\ At(r, "number")
  /\ Becomes(r, [run[r] EXCEPT !.pc = "post", !.number = Len(attempts[Event(r)][Endpoint(r)]) + 1])
  /\ UNCHANGED <<enabled, lastStatus, targets, status, attempts, due, crashes, toggles, off>>

\* The request; any answer but a 2xx, and none, is a failure.
Post(r) ==
  /\ At(r, "post")
  /\ \E ok \in BOOLEAN : Becomes(r, [run[r] EXCEPT !.pc = "record", !.ok = ok])
  /\ UNCHANGED <<enabled, lastStatus, targets, status, attempts, due, crashes, toggles, off>>

\* The endpoint has the event, but reading the body of its error answer fails
\* in the exception handler, or the database refuses the text of the answer.
PostBreaks(r) ==
  /\ At(r, "post")
  /\ Endpoint(r) \in Breaking
  /\ Dies(r)
  /\ UNCHANGED <<enabled, lastStatus, targets, status, attempts, due, crashes, toggles, off>>

\* A number that is taken raises IntegrityError, which ends the thread and
\* the command alike.
Record(r) ==
  LET v == Event(r)
      e == Endpoint(r)
  IN /\ At(r, "record")
     /\ \/ /\ run[r].number = Len(attempts[v][e]) + 1
           /\ attempts' = [attempts EXCEPT ![v][e] = Append(@, run[r].ok)]
           /\ due' = [due EXCEPT ![v][e] = FALSE]
           /\ Becomes(r, [run[r] EXCEPT !.pc = "endpoint", !.number = 0])
        \/ /\ run[r].number # Len(attempts[v][e]) + 1
           /\ Dies(r)
           /\ UNCHANGED <<attempts, due>>
     /\ UNCHANGED <<enabled, lastStatus, targets, status, crashes, toggles, off>>

\* _update_endpoint_delivery_status
SaveEndpoint(r) ==
  /\ At(r, "endpoint")
  /\ lastStatus' = [lastStatus EXCEPT ![Endpoint(r)] = IF run[r].ok THEN "success" ELSE "failed"]
  /\ Becomes(r, [run[r] EXCEPT !.pc = "decide", !.ok = FALSE, !.todo = @ \ {Endpoint(r)}])
  /\ UNCHANGED <<enabled, targets, status, attempts, due, crashes, toggles, off>>

\* _refresh_event_delivery_status reads the enabled targets again, ...
Refresh(r) ==
  LET T == EnabledTargets(Event(r))
  IN /\ At(r, "decide")
     /\ run[r].todo = {}
     /\ Becomes(r, IF T = {} THEN [run[r] EXCEPT !.pc = "save", !.verdict = "success"]
                   ELSE [run[r] EXCEPT !.pc = "successes", !.todo = T])
     /\ UNCHANGED <<enabled, lastStatus, targets, status, attempts, due, crashes, toggles, off>>

\* ... which of them have succeeded, ...
ReadSuccesses(r) ==
  /\ At(r, "successes")
  /\ Becomes(r, [run[r] EXCEPT !.pc = "judge",
                               !.delivered = {e \in run[r].todo : Succeeded(Event(r), e)}])
  /\ UNCHANGED <<enabled, lastStatus, targets, status, attempts, due, crashes, toggles, off>>

\* ... and what the others still have; ...
Judge(r) ==
  /\ At(r, "judge")
  /\ Becomes(r, [run[r] EXCEPT !.pc = "save", !.todo = {}, !.delivered = {},
                               !.verdict = DeliveryStatus(Event(r), run[r].todo, run[r].delivered)])
  /\ UNCHANGED <<enabled, lastStatus, targets, status, attempts, due, crashes, toggles, off>>

\* ... and writes its conclusion over whatever status the row has by then.
SaveStatus(r) ==
  /\ At(r, "save")
  /\ status' = [status EXCEPT ![Event(r)] = run[r].verdict]
  /\ Becomes(r, IF run[r].queue = {} THEN Idle ELSE Started(run[r].queue))
  /\ UNCHANGED <<enabled, lastStatus, targets, attempts, due, crashes, toggles, off>>

\* The worker process ends: daemon threads end with it.
Crash(r) ==
  /\ ~At(r, "idle")
  /\ crashes < MaxCrashes
  /\ crashes' = crashes + 1
  /\ Dies(r)
  /\ UNCHANGED <<enabled, lastStatus, targets, status, attempts, due, toggles, off>>

\* WebhookEndpointAdmin
Toggle(e) ==
  /\ toggles < MaxToggles
  /\ toggles' = toggles + 1
  /\ enabled' = [enabled EXCEPT ![e] = ~@]
  /\ off' = [v \in Events |-> IF Created(v) /\ e \in EnabledTargets(v) THEN off[v] \cup {e} ELSE off[v]]
  /\ UNCHANGED <<lastStatus, targets, status, attempts, due, run, crashes>>

\* Time passes: retry_backoff_seconds after the latest attempt.
BackoffElapses(v, e) ==
  /\ attempts[v][e] # << >>
  /\ ~Latest(v, e)
  /\ ~due[v][e]
  /\ due' = [due EXCEPT ![v][e] = TRUE]
  /\ UNCHANGED <<enabled, lastStatus, targets, status, attempts, run, crashes, toggles, off>>

Step(r) ==
  \/ Load(r) \/ Decide(r) \/ Number(r) \/ Post(r) \/ PostBreaks(r) \/ Record(r)
  \/ SaveEndpoint(r) \/ Refresh(r) \/ ReadSuccesses(r) \/ Judge(r) \/ SaveStatus(r)

Next ==
  \/ \E v \in Events : CreateEvent(v)
  \/ \E c \in Commands : StartCommand(c)
  \/ \E r \in Runs : Step(r) \/ Crash(r)
  \/ \E e \in Endpoints : Toggle(e)
  \/ \E v \in Events, e \in Endpoints : BackoffElapses(v, e)

Spec == Init /\ [][Next]_vars

\* Runs go on, time passes, and the operator always runs the command again.
Fairness ==
  /\ \A r \in Runs : WF_vars(Step(r))
  /\ \A v \in Events, e \in Endpoints : WF_vars(BackoffElapses(v, e))
  /\ \A c \in Commands : WF_vars(StartCommand(c))

FairSpec == Spec /\ Fairness
-----------------------------------------------------------------------------
(* Correctness.                                                            *)

\* The shape of the rows and of what a run has in memory.
TypeOK ==
  /\ enabled \in [Endpoints -> BOOLEAN]
  /\ lastStatus \in [Endpoints -> {"", "success", "failed"}]
  /\ targets \in [Events -> (SUBSET Endpoints) \cup {None}]
  /\ status \in [Events -> Statuses]
  /\ attempts \in [Events -> [Endpoints -> Seq(BOOLEAN)]]
  /\ due \in [Events -> [Endpoints -> BOOLEAN]]
  /\ run \in [Runs -> Run]
  /\ crashes \in 0..MaxCrashes
  /\ toggles \in 0..MaxToggles
  /\ off \in [Events -> SUBSET Endpoints]

\* The runs that may deliver event v.
Deliverers(v) == {v} \cup Commands

\* However the runs interleave, an endpoint is attempted at most once more than
\* max_retries + 1 times for each run besides one that may overlap: every run
\* looks at the limit before it looks for a number (_should_attempt_delivery
\* and _deliver_to_endpoint read the latest attempt separately).
AttemptsBounded ==
  \A v \in Events, e \in Endpoints :
    Len(attempts[v][e]) <= MaxRetries[e] + Cardinality(Deliverers(v))

\* The targets of event v that have been enabled all the time.
Steady(v) == targets[v] \ off[v]

\* An event that is marked a success has been accepted by each of its targets
\* that nobody has disabled meanwhile, although runs write statuses they
\* computed from older reads (_refresh_event_delivery_status).
SuccessMeansDelivered ==
  \A v \in Events : Created(v) /\ status[v] = "success" =>
    \A e \in Steady(v) : Succeeded(v, e)

\* An event that is marked failed has been accepted by, or attempted
\* max_retries + 1 times at, each of these targets (_is_endpoint_exhausted),
\* also when the verdict was drawn from reads that other runs have overtaken.
FailedMeansExhausted ==
  \A v \in Events : Created(v) /\ status[v] = "failed" =>
    \A e \in Steady(v) : Succeeded(v, e) \/ Len(attempts[v][e]) > MaxRetries[e]

\* A final status is true: "success" and "failed" say what became of the
\* deliveries, whichever run wrote the status, whatever it had read and
\* whoever was disabled or enabled again in between.
FinalStatusIsTrue == SuccessMeansDelivered /\ FailedMeansExhausted

\* The status that a refresh alone in the system would write.
TrueStatus(v) ==
  LET T == EnabledTargets(v)
  IN IF T = {} THEN "success" ELSE DeliveryStatus(v, T, {e \in T : Succeeded(v, e)})

\* A success that was concluded while an endpoint that is enabled again, and
\* has not accepted the event, was disabled: no command comes back to it
\* (process_pending_events leaves out what is marked a success).
Forgotten(v) ==
  status[v] = "success" /\ \E e \in EnabledTargets(v) \cap off[v] : ~Succeeded(v, e)

\* From some time on nobody enables or disables an endpoint, and no answer
\* breaks a run.
ComesToRest == <>[][UNCHANGED enabled /\ \A r \in Runs : ~PostBreaks(r)]_vars

\* If the operator keeps running the command, stale statuses, aborted runs and
\* crashes heal: each event's status ends up final (delivered to all, or given
\* up on), stays so, and is what its attempts say, unless a target was disabled
\* when the event became a success and is enabled again.
EventuallySettled ==
  ComesToRest => \A v \in Events :
    <>[](Created(v) => /\ status[v] \in {"success", "failed"}
                       /\ status[v] = TrueStatus(v) \/ Forgotten(v))

\* docs/development/webhook-delivery.md:133: the command "scans non-success
\* webhook events and attempts only the deliveries that are currently due"; an
\* answer that cannot be recorded ends every run before it comes to the next
\* endpoint, or the next event.
DueDeliveriesAttempted ==
  \A v \in Events, e \in Endpoints :
    Created(v) /\ e \in EnabledTargets(v) /\ e \notin Breaking ~> attempts[v][e] # << >>
=============================================================================
