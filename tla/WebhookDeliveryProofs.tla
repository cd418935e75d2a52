----------------------- MODULE WebhookDeliveryProofs -----------------------
(***************************************************************************)
(* Theorems about WebhookDelivery for any number of events, endpoints and  *)
(* overlapping commands, any retry limits, and any number of crashes.      *)
(***************************************************************************)
EXTENDS WebhookDelivery, FiniteSetTheorems, TLAPS

\* From the decision to attempt until the attempt is in the database.
Attempting == {"number", "post", "record"}

\* A run whose local state is s is about to make an attempt at v and e.
Making(s, v, e) == s.pc \in Attempting /\ s.event = v /\ Min(s.todo) = e

Makers(v, e) == {r \in Runs : Making(run[r], v, e)}

\* What run r, in local state s, works on.
RunOK(r, s) ==
  /\ \A v \in s.queue : Created(v) /\ r \in Deliverers(v)
  /\ s.pc = "load" => s.queue # {}
  /\ s.pc \notin {"idle", "load"} => s.event \in Events /\ Created(s.event) /\ r \in Deliverers(s.event)
  /\ s.pc \in Attempting \cup {"endpoint"} => s.todo # {}

\* What a status says about the targets of an event that stay enabled.
Truth(v, st) ==
  /\ st = "success" => \A e \in Steady(v) : Succeeded(v, e)
  /\ st = "failed" => \A e \in Steady(v) : Succeeded(v, e) \/ Len(attempts[v][e]) > MaxRetries[e]

\* What a run in local state s has read for the refresh is still true.
Informed(s) ==
  /\ s.pc \in {"successes", "judge"} => Steady(s.event) \subseteq s.todo
  /\ s.pc = "judge" => \A e \in s.delivered : Succeeded(s.event, e)
  /\ s.pc = "save" => Truth(s.event, s.verdict)

RunsOK == \A r \in Runs : RunOK(r, run[r])

RunsInformed == \A r \in Runs : Informed(run[r])

TargetsEnabled == \A v \in Events : Created(v) => \A e \in Steady(v) : enabled[e]

StatusesTrue == \A v \in Events : Created(v) => Truth(v, status[v])

\* Beyond the limit, the attempts and those that are on their way share the
\* numbers that overlapping runs may take.
Room ==
  \A v \in Events, e \in Endpoints :
    Len(attempts[v][e]) > MaxRetries[e] =>
      Len(attempts[v][e]) + Cardinality(Makers(v, e)) <= MaxRetries[e] + Cardinality(Deliverers(v))

IInv == TypeOK /\ RunsOK /\ RunsInformed /\ TargetsEnabled /\ StatusesTrue /\ Room

-----------------------------------------------------------------------------
(* Sets of numbers and of runs.                                            *)

\* A non-empty set of numbers has a minimum (the next event or endpoint).
LEMMA MinExists ==
  ASSUME NEW S \in SUBSET Nat, S # {}
  PROVE  Min(S) \in S
<1>1. PICK m \in S : \A k \in S : ~ (<<k, m>> \in OpToRel(<, Nat))
  BY NatLessThanWellFounded, WFMin
<1>2. \A k \in S : ~ (k < m)
  BY <1>1 DEF OpToRel
<1>3. \A k \in S : m =< k
  BY <1>2
<1>4. QED BY <1>3 DEF Min

\* The runs that may deliver an event are finitely many.
LEMMA DeliverersFinite ==
  ASSUME NEW v \in Events
  PROVE  IsFiniteSet(Deliverers(v)) /\ Cardinality(Deliverers(v)) \in Nat
BY ConstantsAssumption, FS_AddElement, FS_CardinalityType DEF Deliverers

\* Those about to make an attempt are among them.
LEMMA MakersFinite ==
  ASSUME RunsOK, NEW v \in Events, NEW e \in Endpoints
  PROVE  /\ Makers(v, e) \in SUBSET Deliverers(v)
         /\ IsFiniteSet(Makers(v, e))
         /\ Cardinality(Makers(v, e)) \in 0..Cardinality(Deliverers(v))
<1>1. Makers(v, e) \in SUBSET Deliverers(v)
  BY DEF RunsOK, RunOK, Makers, Making, Attempting
<1>2. IsFiniteSet(Makers(v, e)) /\ Cardinality(Makers(v, e)) <= Cardinality(Deliverers(v))
  BY <1>1, DeliverersFinite, FS_Subset
<1>3. Cardinality(Makers(v, e)) \in Nat
  BY <1>2, FS_CardinalityType
<1>4. QED BY <1>1, <1>2, <1>3, DeliverersFinite

\* Attempts and limits can be counted.
LEMMA Lengths ==
  ASSUME NEW a \in [Events -> [Endpoints -> Seq(BOOLEAN)]], NEW v \in Events, NEW e \in Endpoints
  PROVE  Len(a[v][e]) \in Nat /\ MaxRetries[e] \in Nat
<1>1. a[v][e] \in Seq(BOOLEAN)
  OBVIOUS
<1>2. Len(a[v][e]) \in Nat
  BY <1>1
<1>3. MaxRetries[e] \in Nat
  BY ConstantsAssumption
<1>4. QED BY <1>2, <1>3

\* A run that visits an endpoint visits one that exists.
LEMMA EndpointExists ==
  ASSUME TypeOK, RunsOK, NEW r \in Runs, run[r].pc \in {"decide", "number", "post", "record", "endpoint"},
         run[r].todo # {}
  PROVE  Endpoint(r) \in run[r].todo /\ Endpoint(r) \in Endpoints /\ Event(r) \in Events
<1>1. run[r].todo \in SUBSET Endpoints
  BY DEF TypeOK, Run
<1>2. Min(run[r].todo) \in run[r].todo
  BY <1>1, MinExists, ConstantsAssumption
<1>3. run[r].event \in Events
  BY DEF RunsOK, RunOK
<1>4. QED BY <1>1, <1>2, <1>3 DEF Endpoint, Event

-----------------------------------------------------------------------------
(* What survives a step.                                                   *)

\* Attempts are only added.
Grows ==
  \A v \in Events, e \in Endpoints :
    /\ Len(attempts[v][e]) <= Len(attempts'[v][e])
    /\ Succeeded(v, e) => Succeeded(v, e)'

\* What a status says remains true when attempts are added and targets are
\* disabled.
LEMMA TruthStable ==
  ASSUME TypeOK, TypeOK', Grows, NEW v \in Events, NEW st,
         targets'[v] = targets[v], targets[v] \in SUBSET Endpoints, off[v] \subseteq off'[v],
         Truth(v, st)
  PROVE  Truth(v, st)'
<1>1. \A e \in Endpoints : /\ Len(attempts[v][e]) \in Nat /\ Len(attempts'[v][e]) \in Nat
                           /\ MaxRetries[e] \in Nat
  BY Lengths DEF TypeOK
<1>2. Steady(v)' \subseteq Steady(v) /\ Steady(v) \subseteq Endpoints
  BY DEF Steady
<1>3. st = "success" => \A e \in Steady(v)' : Succeeded(v, e)'
  BY <1>2 DEF Truth, Grows
<1>4. ASSUME st = "failed", NEW e \in Steady(v)'
      PROVE  Succeeded(v, e)' \/ Len(attempts'[v][e]) > MaxRetries[e]
  <2>1. e \in Endpoints /\ (Succeeded(v, e) \/ Len(attempts[v][e]) > MaxRetries[e])
    BY <1>2, <1>4 DEF Truth
  <2>2. Len(attempts[v][e]) <= Len(attempts'[v][e]) /\ (Succeeded(v, e) => Succeeded(v, e)')
    BY <2>1 DEF Grows
  <2>3. QED BY <1>1, <2>1, <2>2
<1>5. QED BY <1>3, <1>4 DEF Truth

\* What a run has read remains true when attempts are added and targets are
\* disabled.
LEMMA InformedStable ==
  ASSUME TypeOK, TypeOK', Grows, UNCHANGED targets, \A v \in Events : off[v] \subseteq off'[v],
         NEW r \in Runs, NEW s \in Run, RunOK(r, s), Informed(s)
  PROVE  Informed(s)'
<1>1. ASSUME s.pc \in {"successes", "judge", "save"}
      PROVE  s.event \in Events /\ targets[s.event] \in SUBSET Endpoints
  BY <1>1 DEF RunOK, Created, TypeOK
<1>2. s.pc \in {"successes", "judge"} => Steady(s.event)' \subseteq s.todo
  BY <1>1 DEF Informed, Steady
<1>3. ASSUME s.pc = "judge", NEW e \in s.delivered PROVE Succeeded(s.event, e)'
  <2>1. e \in Endpoints /\ s.event \in Events
    BY <1>1, <1>3 DEF Run
  <2>2. Succeeded(s.event, e)
    BY <1>3 DEF Informed
  <2>3. QED BY <2>1, <2>2 DEF Grows
<1>4. ASSUME s.pc = "save" PROVE Truth(s.event, s.verdict)'
  <2>1. Truth(s.event, s.verdict)
    BY <1>4 DEF Informed
  <2>2. QED BY <1>1, <1>4, <2>1, TruthStable
<1>5. QED BY <1>2, <1>3, <1>4 DEF Informed

\* A step that makes no attempt and takes a run to an attempt only within the
\* limit leaves room.
LEMMA RoomStable ==
  ASSUME TypeOK, RunsOK, RunsOK', Room, UNCHANGED attempts,
         \A v \in Events, e \in Endpoints :
           Makers(v, e)' \subseteq Makers(v, e) \/ Len(attempts[v][e]) <= MaxRetries[e]
  PROVE  Room'
<1> SUFFICES ASSUME NEW v \in Events, NEW e \in Endpoints, Len(attempts[v][e]) > MaxRetries[e]
             PROVE  Len(attempts[v][e]) + Cardinality(Makers(v, e)')
                      <= MaxRetries[e] + Cardinality(Deliverers(v))
  BY DEF Room, Deliverers
<1>1. Len(attempts[v][e]) \in Nat /\ MaxRetries[e] \in Nat
  BY Lengths DEF TypeOK
<1>2. Makers(v, e)' \in SUBSET Makers(v, e)
  BY <1>1
<1>3. IsFiniteSet(Makers(v, e)) /\ Cardinality(Makers(v, e)) \in Nat
  BY MakersFinite, FS_CardinalityType
<1>4. Cardinality(Makers(v, e)') <= Cardinality(Makers(v, e)) /\ IsFiniteSet(Makers(v, e)')
  BY <1>2, <1>3, FS_Subset
<1>5. Cardinality(Makers(v, e)') \in Nat
  BY <1>4, FS_CardinalityType
<1>6. Len(attempts[v][e]) + Cardinality(Makers(v, e)) <= MaxRetries[e] + Cardinality(Deliverers(v))
  BY DEF Room
<1>7. Cardinality(Deliverers(v)) \in Nat
  BY DeliverersFinite
<1>8. QED BY <1>1, <1>3, <1>4, <1>5, <1>6, <1>7

-----------------------------------------------------------------------------
(* One lemma per action.                                                   *)

\* Run r, going on to s, starts an attempt within the limit only.
Within(r, s) ==
  \A v \in Events, e \in Endpoints :
    Making(s, v, e) => Making(run[r], v, e) \/ Len(attempts[v][e]) <= MaxRetries[e]

\* A run that goes on to a local state that is in order.
LEMMA RunsStep ==
  ASSUME IInv, TypeOK', NEW r \in Runs, NEW s \in Run, Becomes(r, s),
         RunOK(r, s), Informed(s), Within(r, s), UNCHANGED <<enabled, targets, attempts, off>>
  PROVE  RunsOK' /\ RunsInformed' /\ TargetsEnabled' /\ Room'
<1>1. run' = [run EXCEPT ![r] = s] /\ run \in [Runs -> Run]
  BY DEF Becomes, IInv, TypeOK
<1>2. \A q \in Runs : run'[q] = IF q = r THEN s ELSE run[q]
  BY <1>1
<1>3. RunsOK'
  <2>1. \A q \in Runs : RunOK(q, run'[q])
    BY <1>2 DEF IInv, RunsOK
  <2>2. QED BY <2>1 DEF RunsOK, RunOK, Created, Deliverers
<1>4. RunsInformed'
  <2>1. ASSUME NEW q \in Runs PROVE Informed(run'[q])
    BY <1>2 DEF IInv, RunsInformed
  <2>2. QED BY <2>1 DEF RunsInformed, Informed, Truth, Succeeded, Steady
<1>5. TargetsEnabled'
  BY DEF IInv, TargetsEnabled, Created, Steady
<1>6. Room'
  <2>1. ASSUME NEW v \in Events, NEW e \in Endpoints, ~ Len(attempts[v][e]) <= MaxRetries[e]
        PROVE  Makers(v, e)' \subseteq Makers(v, e)
    <3>1. ASSUME NEW q \in Runs, Making(run'[q], v, e) PROVE Making(run[q], v, e)
      BY <1>2, <2>1, <3>1 DEF Within
    <3>2. QED BY <3>1 DEF Makers, Making
  <2>2. QED BY <1>3, <2>1, RoomStable DEF IInv
<1>7. QED BY <1>3, <1>4, <1>5, <1>6

\* ... and changes nothing else that the invariant is about.
LEMMA QuietStep ==
  ASSUME IInv, NEW r \in Runs, NEW s \in Run, Becomes(r, s), RunOK(r, s), Informed(s), Within(r, s),
         UNCHANGED <<enabled, targets, status, attempts, due, toggles, off>>,
         lastStatus' \in [Endpoints -> {"", "success", "failed"}], crashes' \in 0..MaxCrashes
  PROVE  IInv'
<1>1. TypeOK'
  BY DEF IInv, TypeOK, Becomes
<1>2. RunsOK' /\ RunsInformed' /\ TargetsEnabled' /\ Room'
  BY <1>1, RunsStep
<1>3. StatusesTrue'
  BY DEF IInv, StatusesTrue, Created, Truth, Succeeded, Steady
<1>4. QED BY <1>1, <1>2, <1>3 DEF IInv

\* An idle run is in order.
LEMMA IdleOK ==
  ASSUME NEW r \in Runs
  PROVE  Idle \in Run /\ RunOK(r, Idle) /\ Informed(Idle) /\ Within(r, Idle)
BY DEF Idle, Run, Steps, Statuses, RunOK, Informed, Within, Making, Attempting

\* So is one that has events to deliver.
LEMMA StartedOK ==
  ASSUME NEW r \in Runs, NEW Q \in SUBSET Events, Q # {}, \A v \in Q : Created(v) /\ r \in Deliverers(v)
  PROVE  Started(Q) \in Run /\ RunOK(r, Started(Q)) /\ Informed(Started(Q)) /\ Within(r, Started(Q))
BY DEF Started, Idle, Run, Steps, Statuses, RunOK, Informed, Within, Making, Attempting

LEMMA InitInv == Init => IInv
<1> SUFFICES ASSUME Init PROVE IInv
  OBVIOUS
<1>1. \A r \in Runs : run[r] = Idle
  BY DEF Init
<1>2. TypeOK
  <2>1. << >> \in Seq(BOOLEAN)
    OBVIOUS
  <2>2. Idle \in Run
    BY DEF Idle, Run, Steps, Statuses
  <2>3. 0 \in 0..MaxCrashes /\ 0 \in 0..MaxToggles
    BY ConstantsAssumption
  <2>4. QED BY <2>1, <2>2, <2>3 DEF Init, TypeOK, Statuses
<1>3. RunsOK /\ RunsInformed
  BY <1>1, IdleOK DEF RunsOK, RunsInformed
<1>4. TargetsEnabled /\ StatusesTrue
  BY DEF Init, TargetsEnabled, StatusesTrue, Created
<1>5. Room
  <2>1. \A v \in Events, e \in Endpoints : attempts[v][e] = << >> /\ MaxRetries[e] \in Nat
    BY ConstantsAssumption DEF Init
  <2>2. \A v \in Events, e \in Endpoints : ~ Len(attempts[v][e]) > MaxRetries[e]
    BY <2>1
  <2>3. QED BY <2>2 DEF Room
<1>6. QED BY <1>2, <1>3, <1>4, <1>5 DEF IInv

LEMMA StartCommandStep ==
  ASSUME IInv, NEW c \in Commands, StartCommand(c)
  PROVE  IInv'
<1> DEFINE Q == {v \in Events : Created(v) /\ status[v] # "success"}
<1>1. c \in Runs /\ Q \in SUBSET Events /\ Q # {} /\ Becomes(c, Started(Q))
  BY DEF StartCommand, Runs
<1>2. \A v \in Q : Created(v) /\ c \in Deliverers(v)
  BY DEF Deliverers
<1>3. Started(Q) \in Run /\ RunOK(c, Started(Q)) /\ Informed(Started(Q)) /\ Within(c, Started(Q))
  BY <1>1, <1>2, StartedOK
<1> HIDE DEF Q
<1>4. UNCHANGED <<enabled, targets, status, attempts, due, toggles, off, lastStatus, crashes>>
  BY DEF StartCommand
<1>5. QED BY <1>1, <1>3, <1>4, QuietStep DEF IInv, TypeOK

LEMMA LoadStep ==
  ASSUME IInv, NEW r \in Runs, Load(r)
  PROVE  IInv'
<1> DEFINE v == Min(run[r].queue)
           s == [Idle EXCEPT !.pc = "decide", !.event = v, !.todo = EnabledTargets(v),
                             !.queue = run[r].queue \ {v}]
<1>1. run[r].queue \in SUBSET Events /\ run[r].queue # {}
  BY DEF IInv, TypeOK, Run, Load, At, RunsOK, RunOK
<1>2. v \in run[r].queue /\ v \in Events
  BY <1>1, MinExists, ConstantsAssumption
<1>3. Created(v) /\ r \in Deliverers(v)
  BY <1>2 DEF IInv, RunsOK, RunOK
<1>4. EnabledTargets(v) \in SUBSET Endpoints
  BY <1>2, <1>3 DEF IInv, TypeOK, Created, EnabledTargets
<1>5. Becomes(r, s) /\ UNCHANGED <<enabled, targets, status, attempts, due, toggles, off, lastStatus, crashes>>
  BY DEF Load
<1>6. \A w \in run[r].queue : Created(w) /\ r \in Deliverers(w)
  BY DEF IInv, RunsOK, RunOK
<1> HIDE DEF v
<1>7. s \in Run
  BY <1>1, <1>2, <1>4 DEF Idle, Run, Steps, Statuses
<1>8. RunOK(r, s) /\ Informed(s) /\ Within(r, s)
  BY <1>2, <1>3, <1>6 DEF RunOK, Informed, Within, Making, Attempting, Idle
<1> HIDE DEF s
<1>9. QED BY <1>5, <1>7, <1>8, QuietStep DEF IInv, TypeOK

LEMMA DecideStep ==
  ASSUME IInv, NEW r \in Runs, Decide(r)
  PROVE  IInv'
<1> DEFINE v == Event(r)
           e == Endpoint(r)
           go == [run[r] EXCEPT !.pc = "number"]
           skip == [run[r] EXCEPT !.todo = @ \ {e}]
<1>1. run[r].pc = "decide" /\ run[r].todo # {} /\ run[r] \in Run /\ RunOK(r, run[r])
  BY DEF Decide, At, IInv, TypeOK, RunsOK
<1>2. e \in run[r].todo /\ e \in Endpoints /\ v \in Events
  BY <1>1, EndpointExists DEF IInv
<1>3. UNCHANGED <<enabled, targets, status, attempts, due, toggles, off, lastStatus, crashes>>
  BY DEF Decide
<1>4. CASE ShouldAttempt(v, e)
  <2>1. Becomes(r, go)
    BY <1>4 DEF Decide
  <2>2. go \in Run /\ RunOK(r, go) /\ Informed(go)
    BY <1>1 DEF Run, Steps, RunOK, Informed
  <2>3. Len(attempts[v][e]) <= MaxRetries[e]
    <3>1. Len(attempts[v][e]) \in Nat /\ MaxRetries[e] \in Nat
      BY <1>2, Lengths DEF IInv, TypeOK
    <3>2. attempts[v][e] = << >> => Len(attempts[v][e]) = 0
      OBVIOUS
    <3>3. attempts[v][e] = << >> \/ Len(attempts[v][e]) < MaxRetries[e] + 1
      BY <1>4 DEF ShouldAttempt
    <3>4. QED BY <3>1, <3>2, <3>3
  <2>4. Within(r, go)
    BY <2>3 DEF Within, Making, Event, Endpoint, Run
  <2>5. QED BY <1>3, <2>1, <2>2, <2>4, QuietStep DEF IInv, TypeOK
<1>5. CASE ~ ShouldAttempt(v, e)
  <2>1. Becomes(r, skip)
    BY <1>5 DEF Decide
  <2>2. skip \in Run /\ RunOK(r, skip) /\ Informed(skip) /\ Within(r, skip)
    BY <1>1 DEF Run, RunOK, Informed, Within, Making, Attempting
  <2>3. QED BY <1>3, <2>1, <2>2, QuietStep DEF IInv, TypeOK
<1>6. QED BY <1>4, <1>5

\* The steps that only move an attempt on: the number, the request.
LEMMA AttemptStep ==
  ASSUME IInv, NEW r \in Runs, Number(r) \/ Post(r)
  PROVE  IInv'
<1>1. run[r] \in Run /\ RunOK(r, run[r])
  BY DEF IInv, TypeOK, RunsOK
<1>2. UNCHANGED <<enabled, targets, status, attempts, due, toggles, off, lastStatus, crashes>>
  BY DEF Number, Post
<1>3. CASE Number(r)
  <2> DEFINE n == Len(attempts[Event(r)][Endpoint(r)]) + 1
             s == [run[r] EXCEPT !.pc = "post", !.number = n]
  <2>1. run[r].pc = "number" /\ Becomes(r, s)
    BY <1>3 DEF Number, At
  <2>2. Endpoint(r) \in Endpoints /\ Event(r) \in Events
    BY <1>1, <2>1, EndpointExists DEF IInv, RunOK, Attempting
  <2>3. n \in Nat
    <3>1. Len(attempts[Event(r)][Endpoint(r)]) \in Nat
      BY <2>2, Lengths DEF IInv, TypeOK
    <3>2. QED BY <3>1
  <2> HIDE DEF n
  <2>4. s \in Run /\ RunOK(r, s) /\ Informed(s) /\ Within(r, s)
    BY <1>1, <2>1, <2>3 DEF Run, Steps, RunOK, Informed, Within, Making, Attempting
  <2> HIDE DEF s
  <2>5. QED BY <1>2, <2>1, <2>4, QuietStep DEF IInv, TypeOK
<1>4. CASE Post(r)
  <2>1. PICK ok \in BOOLEAN : Becomes(r, [run[r] EXCEPT !.pc = "record", !.ok = ok])
    BY <1>4 DEF Post
  <2> DEFINE s == [run[r] EXCEPT !.pc = "record", !.ok = ok]
  <2>2. run[r].pc = "post"
    BY <1>4 DEF Post, At
  <2>3. s \in Run /\ RunOK(r, s) /\ Informed(s) /\ Within(r, s)
    BY <1>1, <2>2 DEF Run, Steps, RunOK, Informed, Within, Making, Attempting
  <2>4. Becomes(r, s)
    BY <2>1
  <2> HIDE DEF s
  <2>5. QED BY <1>2, <2>3, <2>4, QuietStep DEF IInv, TypeOK
<1>5. QED BY <1>3, <1>4

\* A run that ends, whatever it was doing.
LEMMA DeathStep ==
  ASSUME IInv, NEW r \in Runs, Dies(r),
         UNCHANGED <<enabled, targets, status, attempts, due, toggles, off, lastStatus>>,
         crashes' \in 0..MaxCrashes
  PROVE  IInv'
<1>1. Becomes(r, Idle)
  BY DEF Dies
<1>2. lastStatus' \in [Endpoints -> {"", "success", "failed"}]
  BY DEF IInv, TypeOK
<1>3. QED BY <1>1, <1>2, IdleOK, QuietStep

LEMMA CrashStep ==
  ASSUME IInv, NEW r \in Runs, Crash(r) \/ PostBreaks(r)
  PROVE  IInv'
<1>1. crashes \in 0..MaxCrashes /\ MaxCrashes \in Nat
  BY ConstantsAssumption DEF IInv, TypeOK
<1>2. crashes' = crashes \/ (crashes < MaxCrashes /\ crashes' = crashes + 1)
  BY DEF Crash, PostBreaks
<1>3. crashes' \in 0..MaxCrashes
  BY <1>1, <1>2
<1>4. QED BY <1>3, DeathStep DEF Crash, PostBreaks

LEMMA SaveEndpointStep ==
  ASSUME IInv, NEW r \in Runs, SaveEndpoint(r)
  PROVE  IInv'
<1> DEFINE s == [run[r] EXCEPT !.pc = "decide", !.ok = FALSE, !.todo = @ \ {Endpoint(r)}]
<1>1. run[r] \in Run /\ RunOK(r, run[r]) /\ run[r].pc = "endpoint" /\ Becomes(r, s)
  BY DEF IInv, TypeOK, RunsOK, SaveEndpoint, At
<1>2. s \in Run /\ RunOK(r, s) /\ Informed(s) /\ Within(r, s)
  BY <1>1 DEF Run, Steps, RunOK, Informed, Within, Making, Attempting
<1>3. lastStatus' \in [Endpoints -> {"", "success", "failed"}]
  BY DEF SaveEndpoint, IInv, TypeOK
<1>4. UNCHANGED <<enabled, targets, status, attempts, due, toggles, off, crashes>>
  BY DEF SaveEndpoint
<1> HIDE DEF s
<1>5. QED BY <1>1, <1>2, <1>3, <1>4, QuietStep DEF IInv, TypeOK

LEMMA RefreshStep ==
  ASSUME IInv, NEW r \in Runs, Refresh(r)
  PROVE  IInv'
<1> DEFINE v == run[r].event
           T == EnabledTargets(v)
           save == [run[r] EXCEPT !.pc = "save", !.verdict = "success"]
           read == [run[r] EXCEPT !.pc = "successes", !.todo = T]
<1>1. run[r] \in Run /\ RunOK(r, run[r]) /\ run[r].pc = "decide"
  BY DEF IInv, TypeOK, RunsOK, Refresh, At
<1>2. v \in Events /\ Created(v) /\ targets[v] \in SUBSET Endpoints
  BY <1>1 DEF RunOK, Created, IInv, TypeOK
<1>3. Steady(v) \subseteq T
  BY <1>2 DEF EnabledTargets, IInv, TargetsEnabled, Steady
<1>4. UNCHANGED <<enabled, targets, status, attempts, due, toggles, off, lastStatus, crashes>>
  BY DEF Refresh
<1>5. T \in SUBSET Endpoints
  BY <1>2 DEF EnabledTargets
<1> HIDE DEF T
<1>6. CASE T = {}
  <2>1. Becomes(r, save)
    BY <1>6 DEF Refresh, T, Event
  <2>2. save \in Run /\ RunOK(r, save) /\ Within(r, save)
    BY <1>1 DEF Run, Steps, Statuses, RunOK, Within, Making, Attempting
  <2>3. Truth(v, "success")
    BY <1>3, <1>6 DEF Truth
  <2>4. Informed(save)
    BY <1>1, <2>3 DEF Informed, Run
  <2> HIDE DEF save
  <2>5. QED BY <1>4, <2>1, <2>2, <2>4, QuietStep DEF IInv, TypeOK
<1>7. CASE T # {}
  <2>1. Becomes(r, read)
    BY <1>7 DEF Refresh, T, Event
  <2>2. read \in Run /\ RunOK(r, read) /\ Within(r, read) /\ Informed(read)
    BY <1>1, <1>3, <1>5 DEF Run, Steps, RunOK, Within, Making, Attempting, Informed
  <2> HIDE DEF read
  <2>3. QED BY <1>4, <2>1, <2>2, QuietStep DEF IInv, TypeOK
<1>8. QED BY <1>6, <1>7

LEMMA ReadSuccessesStep ==
  ASSUME IInv, NEW r \in Runs, ReadSuccesses(r)
  PROVE  IInv'
<1> DEFINE v == run[r].event
           D == {e \in run[r].todo : Succeeded(v, e)}
           s == [run[r] EXCEPT !.pc = "judge", !.delivered = D]
<1>1. run[r] \in Run /\ RunOK(r, run[r]) /\ Informed(run[r]) /\ run[r].pc = "successes" /\ Becomes(r, s)
  BY DEF IInv, TypeOK, RunsOK, RunsInformed, ReadSuccesses, At, Event
<1>2. D \in SUBSET Endpoints /\ \A e \in D : Succeeded(v, e)
  BY <1>1 DEF Run
<1>3. UNCHANGED <<enabled, targets, status, attempts, due, toggles, off, lastStatus, crashes>>
  BY DEF ReadSuccesses
<1> HIDE DEF D
<1>4. s \in Run /\ RunOK(r, s) /\ Within(r, s)
  BY <1>1, <1>2 DEF Run, Steps, RunOK, Within, Making, Attempting
<1>5. Informed(s)
  BY <1>1, <1>2 DEF Informed, Run
<1> HIDE DEF s
<1>6. QED BY <1>1, <1>3, <1>4, <1>5, QuietStep DEF IInv, TypeOK

LEMMA JudgeStep ==
  ASSUME IInv, NEW r \in Runs, Judge(r)
  PROVE  IInv'
<1> DEFINE v == run[r].event
           st == DeliveryStatus(v, run[r].todo, run[r].delivered)
           s == [run[r] EXCEPT !.pc = "save", !.todo = {}, !.delivered = {}, !.verdict = st]
<1>1. run[r] \in Run /\ RunOK(r, run[r]) /\ Informed(run[r]) /\ run[r].pc = "judge" /\ Becomes(r, s)
  BY DEF IInv, TypeOK, RunsOK, RunsInformed, Judge, At, Event
<1>2. v \in Events /\ targets[v] \in SUBSET Endpoints
  BY <1>1 DEF RunOK, Created, IInv, TypeOK
<1>3. st \in Statuses
  BY DEF DeliveryStatus, Statuses
<1>4. Truth(v, st)
  <2>1. Steady(v) \subseteq run[r].todo /\ \A e \in run[r].delivered : Succeeded(v, e)
    BY <1>1 DEF Informed
  <2>2. st = "success" => run[r].delivered = run[r].todo
    BY DEF DeliveryStatus
  <2>3. st = "failed" => \A e \in run[r].todo \ run[r].delivered : Exhausted(v, e)
    BY DEF DeliveryStatus
  <2>4. \A e \in targets[v] : Exhausted(v, e) => Len(attempts[v][e]) > MaxRetries[e]
    <3>1. ASSUME NEW e \in targets[v], Exhausted(v, e) PROVE Len(attempts[v][e]) > MaxRetries[e]
      <4>1. Len(attempts[v][e]) >= MaxRetries[e] + 1
        BY <3>1 DEF Exhausted
      <4>2. Len(attempts[v][e]) \in Nat /\ MaxRetries[e] \in Nat
        BY <1>2, Lengths DEF IInv, TypeOK
      <4>3. QED BY <4>1, <4>2
    <3>2. QED BY <3>1
  <2> HIDE DEF st
  <2>5. QED BY <2>1, <2>2, <2>3, <2>4 DEF Truth, Steady
<1>5. UNCHANGED <<enabled, targets, status, attempts, due, toggles, off, lastStatus, crashes>>
  BY DEF Judge
<1> HIDE DEF st
<1>6. s \in Run /\ RunOK(r, s) /\ Within(r, s)
  BY <1>1, <1>3 DEF Run, Steps, RunOK, Within, Making, Attempting
<1>7. Informed(s)
  BY <1>1, <1>4 DEF Informed, Run
<1> HIDE DEF s
<1>8. QED BY <1>1, <1>5, <1>6, <1>7, QuietStep DEF IInv, TypeOK

LEMMA SaveStatusStep ==
  ASSUME IInv, NEW r \in Runs, SaveStatus(r)
  PROVE  IInv'
<1> DEFINE s == IF run[r].queue = {} THEN Idle ELSE Started(run[r].queue)
<1>1. run[r] \in Run /\ RunOK(r, run[r]) /\ Informed(run[r]) /\ run[r].pc = "save" /\ Becomes(r, s)
  BY DEF IInv, TypeOK, RunsOK, RunsInformed, SaveStatus, At
<1>2. s \in Run /\ RunOK(r, s) /\ Informed(s) /\ Within(r, s)
  <2>1. run[r].queue \in SUBSET Events /\ \A v \in run[r].queue : Created(v) /\ r \in Deliverers(v)
    BY <1>1 DEF Run, RunOK
  <2>2. QED BY <2>1, IdleOK, StartedOK
<1> HIDE DEF s
<1>3. UNCHANGED <<enabled, targets, attempts, due, toggles, off, lastStatus, crashes>>
      /\ status' = [status EXCEPT ![run[r].event] = run[r].verdict]
  BY DEF SaveStatus, Event
<1>4. run[r].event \in Events /\ run[r].verdict \in Statuses
  BY <1>1 DEF RunOK, Run
<1>5. TypeOK'
  BY <1>1, <1>2, <1>3, <1>4 DEF IInv, TypeOK, Becomes
<1>6. RunsOK' /\ RunsInformed' /\ TargetsEnabled' /\ Room'
  BY <1>1, <1>2, <1>3, <1>5, RunsStep
<1>7. StatusesTrue'
  <2>1. ASSUME NEW v \in Events, Created(v) PROVE Truth(v, status'[v])
    <3>1. Truth(v, status[v])
      BY <2>1 DEF IInv, StatusesTrue
    <3>2. run[r].event = v => Truth(v, run[r].verdict)
      BY <1>1, <2>1 DEF Informed
    <3>3. QED BY <1>3, <3>1, <3>2 DEF IInv, TypeOK
  <2>2. QED BY <1>3, <2>1 DEF StatusesTrue, Created, Truth, Succeeded, Steady
<1>8. QED BY <1>5, <1>6, <1>7 DEF IInv

\* What the append of one attempt does to the attempts.
LEMMA AppendGrows ==
  ASSUME IInv, NEW v \in Events, NEW e \in Endpoints, NEW ok \in BOOLEAN,
         attempts' = [attempts EXCEPT ![v][e] = Append(@, ok)]
  PROVE  /\ attempts' \in [Events -> [Endpoints -> Seq(BOOLEAN)]]
         /\ Grows
         /\ \A w \in Events, f \in Endpoints :
              Len(attempts'[w][f]) = IF w = v /\ f = e THEN Len(attempts[w][f]) + 1 ELSE Len(attempts[w][f])
<1>1. attempts \in [Events -> [Endpoints -> Seq(BOOLEAN)]]
  BY DEF IInv, TypeOK
<1>2. \A w \in Events, f \in Endpoints :
        attempts'[w][f] = IF w = v /\ f = e THEN Append(attempts[w][f], ok) ELSE attempts[w][f]
  BY <1>1
<1>3. attempts[v][e] \in Seq(BOOLEAN)
  BY <1>1
<1>4. /\ Append(attempts[v][e], ok) \in Seq(BOOLEAN)
      /\ Len(Append(attempts[v][e], ok)) = Len(attempts[v][e]) + 1
      /\ Len(attempts[v][e]) \in Nat
      /\ \A k \in DOMAIN attempts[v][e] :
           k \in DOMAIN Append(attempts[v][e], ok) /\ Append(attempts[v][e], ok)[k] = attempts[v][e][k]
  BY <1>3
<1>5. attempts' \in [Events -> [Endpoints -> Seq(BOOLEAN)]]
  BY <1>1, <1>4
<1>6. Grows
  <2>1. ASSUME NEW w \in Events, NEW f \in Endpoints
        PROVE  Len(attempts[w][f]) <= Len(attempts'[w][f]) /\ (Succeeded(w, f) => Succeeded(w, f)')
    <3>1. CASE w = v /\ f = e
      <4>1. attempts'[v][e] = Append(attempts[v][e], ok)
        BY <1>2
      <4>2. Len(attempts[v][e]) <= Len(attempts'[v][e])
        BY <1>4, <4>1
      <4>3. Succeeded(v, e) => Succeeded(v, e)'
        BY <1>4, <4>1 DEF Succeeded
      <4>4. QED BY <3>1, <4>2, <4>3
    <3>2. CASE ~ (w = v /\ f = e)
      <4>1. attempts'[w][f] = attempts[w][f] /\ Len(attempts[w][f]) \in Nat
        BY <1>1, <1>2, <3>2, Lengths
      <4>2. QED BY <4>1 DEF Succeeded
    <3>3. QED BY <3>1, <3>2
  <2>2. QED BY <2>1 DEF Grows
<1>7. QED BY <1>2, <1>4, <1>5, <1>6

\* The attempt that a run records takes the place the run had among the makers.
LEMMA RecordRoom ==
  ASSUME IInv, RunsOK', NEW r \in Runs, NEW s \in Run, s.pc = "endpoint", Becomes(r, s),
         NEW v \in Events, NEW e \in Endpoints, Making(run[r], v, e),
         \A w \in Events, f \in Endpoints :
           Len(attempts'[w][f]) = IF w = v /\ f = e THEN Len(attempts[w][f]) + 1 ELSE Len(attempts[w][f])
  PROVE  Room'
<1> SUFFICES ASSUME NEW w \in Events, NEW f \in Endpoints, Len(attempts'[w][f]) > MaxRetries[f]
             PROVE  Len(attempts'[w][f]) + Cardinality(Makers(w, f)')
                      <= MaxRetries[f] + Cardinality(Deliverers(w))
  BY DEF Room, Deliverers
<1>1. Len(attempts[w][f]) \in Nat /\ MaxRetries[f] \in Nat
  BY Lengths DEF IInv, TypeOK
<1>2. Cardinality(Deliverers(w)) \in Nat /\ IsFiniteSet(Makers(w, f))
      /\ Cardinality(Makers(w, f)) \in 0..Cardinality(Deliverers(w))
  BY DeliverersFinite, MakersFinite DEF IInv
<1>3. Len(attempts[w][f]) > MaxRetries[f] =>
        Len(attempts[w][f]) + Cardinality(Makers(w, f)) <= MaxRetries[f] + Cardinality(Deliverers(w))
  BY DEF IInv, Room
<1>4. Makers(w, f)' \in SUBSET (Makers(w, f) \ {r})
  <2>1. \A q \in Runs : run'[q] = IF q = r THEN s ELSE run[q]
    BY DEF Becomes, IInv, TypeOK
  <2>2. ASSUME NEW q \in Runs, Making(run'[q], w, f) PROVE q # r /\ Making(run[q], w, f)
    BY <2>1, <2>2 DEF Making, Attempting
  <2>3. QED BY <2>2 DEF Makers, Making
<1>5. IsFiniteSet(Makers(w, f) \ {r})
      /\ Cardinality(Makers(w, f) \ {r}) =
           IF r \in Makers(w, f) THEN Cardinality(Makers(w, f)) - 1 ELSE Cardinality(Makers(w, f))
  BY <1>2, FS_RemoveElement
<1>6. IsFiniteSet(Makers(w, f)') /\ Cardinality(Makers(w, f)') <= Cardinality(Makers(w, f) \ {r})
  BY <1>4, <1>5, FS_Subset
<1>7. Cardinality(Makers(w, f)') \in Nat
  BY <1>6, FS_CardinalityType
<1>8. CASE w = v /\ f = e
  <2>1. r \in Makers(w, f)
    BY <1>8 DEF Makers
  <2>2. Len(attempts'[w][f]) = Len(attempts[w][f]) + 1
    BY <1>8
  <2>3. Cardinality(Makers(w, f)') <= Cardinality(Makers(w, f)) - 1
    BY <1>5, <1>6, <2>1
  <2> HIDE DEF Becomes, Making
  <2>4. CASE Len(attempts[w][f]) > MaxRetries[f]
    BY <1>1, <1>2, <1>3, <1>7, <2>2, <2>3, <2>4
  <2>5. CASE ~ Len(attempts[w][f]) > MaxRetries[f]
    BY <1>1, <1>2, <1>7, <2>2, <2>3, <2>5
  <2>6. QED BY <2>4, <2>5
<1>9. CASE ~ (w = v /\ f = e)
  <2>1. Len(attempts'[w][f]) = Len(attempts[w][f])
    BY <1>9
  <2>2. Cardinality(Makers(w, f)') <= Cardinality(Makers(w, f))
    BY <1>2, <1>5, <1>6, <1>7
  <2>3. Len(attempts[w][f]) > MaxRetries[f]
    BY <2>1
  <2>4. QED BY <1>1, <1>2, <1>3, <1>7, <2>1, <2>2, <2>3
<1>10. QED BY <1>8, <1>9

LEMMA RecordStep ==
  ASSUME IInv, NEW r \in Runs, Record(r)
  PROVE  IInv'
<1> DEFINE v == Event(r)
           e == Endpoint(r)
           s == [run[r] EXCEPT !.pc = "endpoint", !.number = 0]
<1>1. run[r] \in Run /\ RunOK(r, run[r]) /\ run[r].pc = "record"
  BY DEF IInv, TypeOK, RunsOK, Record, At
<1>2. e \in Endpoints /\ v \in Events
  BY <1>1, EndpointExists DEF IInv, RunOK, Attempting
<1>3. UNCHANGED <<enabled, lastStatus, targets, status, crashes, toggles, off>>
  BY DEF Record
<1>4. CASE run[r].number = Len(attempts[v][e]) + 1
  <2>1. /\ attempts' = [attempts EXCEPT ![v][e] = Append(@, run[r].ok)]
        /\ due' = [due EXCEPT ![v][e] = FALSE]
        /\ Becomes(r, s)
    BY <1>4 DEF Record
  <2>2. run[r].ok \in BOOLEAN
    BY <1>1 DEF Run
  <2>3. Making(run[r], v, e)
    BY <1>1 DEF Making, Attempting, Event, Endpoint
  <2> HIDE DEF v, e
  <2>4. /\ attempts' \in [Events -> [Endpoints -> Seq(BOOLEAN)]]
        /\ Grows
        /\ \A w \in Events, f \in Endpoints :
             Len(attempts'[w][f]) = IF w = v /\ f = e THEN Len(attempts[w][f]) + 1 ELSE Len(attempts[w][f])
    BY <1>2, <2>1, <2>2, AppendGrows
  <2>5. s \in Run /\ RunOK(r, s) /\ Informed(s)
    BY <1>1 DEF Run, Steps, RunOK, Attempting, Informed
  <2>6. run' = [run EXCEPT ![r] = s] /\ \A q \in Runs : run'[q] = IF q = r THEN s ELSE run[q]
    BY <2>1 DEF Becomes, IInv, TypeOK
  <2>7. due' \in [Events -> [Endpoints -> BOOLEAN]]
    BY <2>1 DEF IInv, TypeOK
  <2>8. TypeOK'
    BY <1>3, <2>4, <2>5, <2>6, <2>7 DEF IInv, TypeOK
  <2>9. s.pc = "endpoint"
    BY <1>1 DEF Run
  <2> HIDE DEF s
  <2>10. RunsOK'
    <3>1. \A q \in Runs : RunOK(q, run'[q])
      BY <2>5, <2>6 DEF IInv, RunsOK
    <3>2. QED BY <1>3, <3>1 DEF RunsOK, RunOK, Created, Deliverers
  <2>11. RunsInformed'
    <3>1. \A q \in Runs : run'[q] \in Run /\ RunOK(q, run'[q]) /\ Informed(run'[q])
      BY <2>5, <2>6 DEF IInv, RunsOK, RunsInformed, TypeOK
    <3>2. ASSUME NEW q \in Runs, NEW x \in Run, RunOK(q, x), Informed(x) PROVE Informed(x)'
      BY <1>3, <2>4, <2>8, <3>2, InformedStable DEF IInv
    <3>3. QED BY <3>1, <3>2 DEF RunsInformed, Informed, Truth, Succeeded, Steady
  <2>12. TargetsEnabled'
    BY <1>3 DEF IInv, TargetsEnabled, Created, Steady
  <2>13. StatusesTrue'
    <3>1. ASSUME NEW w \in Events, Created(w) PROVE Truth(w, status[w])'
      <4>1. targets[w] \in SUBSET Endpoints /\ Truth(w, status[w]) /\ targets'[w] = targets[w]
        BY <1>3, <3>1 DEF Created, IInv, TypeOK, StatusesTrue
      <4>2. ASSUME NEW st, Truth(w, st) PROVE Truth(w, st)'
        BY <1>3, <2>4, <2>8, <4>1, <4>2, TruthStable DEF IInv
      <4>3. QED BY <1>3, <4>1, <4>2 DEF Truth
    <3>2. QED BY <1>3, <3>1 DEF StatusesTrue, Created
  <2>14. Room'
    BY <1>2, <2>1, <2>3, <2>4, <2>5, <2>9, <2>10, RecordRoom
  <2>15. QED BY <2>8, <2>10, <2>11, <2>12, <2>13, <2>14 DEF IInv
<1>5. CASE run[r].number # Len(attempts[v][e]) + 1
  <2>1. Dies(r) /\ UNCHANGED <<attempts, due>>
    BY <1>5 DEF Record
  <2>2. crashes' \in 0..MaxCrashes
    BY <1>3 DEF IInv, TypeOK
  <2>3. QED BY <1>3, <2>1, <2>2, DeathStep
<1>6. QED BY <1>4, <1>5

LEMMA CreateEventStep ==
  ASSUME IInv, NEW v \in Events, CreateEvent(v)
  PROVE  IInv'
<1> DEFINE T == {e \in Endpoints : enabled[e]}
<1>1. /\ ~Created(v) /\ v \in Runs
      /\ targets' = [targets EXCEPT ![v] = T]
      /\ status' = [status EXCEPT ![v] = IF T = {} THEN "success" ELSE "pending"]
      /\ UNCHANGED <<enabled, lastStatus, attempts, due, crashes, toggles, off>>
  BY DEF CreateEvent, Runs
<1>2. run' = run \/ run' = [run EXCEPT ![v] = Started({v})]
  BY DEF CreateEvent, Becomes
<1>3. T \in SUBSET Endpoints /\ T # None /\ \A e \in T : enabled[e]
  BY ConstantsAssumption
<1>4. \A w \in Events : targets'[w] = IF w = v THEN T ELSE targets[w]
  BY <1>1 DEF IInv, TypeOK
<1>5. \A w \in Events : Created(w) => w # v /\ targets'[w] = targets[w] /\ targets'[w] # None
  BY <1>1, <1>4 DEF Created
<1>6. targets'[v] # None /\ v \in Deliverers(v)
  BY <1>3, <1>4 DEF Deliverers
<1> HIDE DEF T
<1>7. Started({v}) \in Run
  BY DEF Started, Idle, Run, Steps, Statuses
<1>8. \A r \in Runs : run'[r] = run[r] \/ (r = v /\ run'[r] = Started({v}))
  BY <1>2 DEF IInv, TypeOK
<1>9. Started({v}).pc = "load" /\ Started({v}).queue = {v}
  BY DEF Started, Idle
<1>10. TypeOK'
  BY <1>1, <1>2, <1>3, <1>7 DEF IInv, TypeOK, Statuses
<1>11. \A r \in Runs : run[r] \in Run /\ RunOK(r, run[r]) /\ Informed(run[r])
  BY DEF IInv, TypeOK, RunsOK, RunsInformed
<1>12. RunsOK'
  <2>1. ASSUME NEW r \in Runs PROVE RunOK(r, run[r])'
    <3>1. CASE run'[r] = run[r]
      <4>1. run[r].queue \in SUBSET Events
        BY <1>11 DEF Run
      <4>2. QED BY <1>5, <1>11, <3>1, <4>1 DEF RunOK, Created, Deliverers
    <3>2. CASE r = v /\ run'[r] = Started({v})
      BY <1>6, <1>9, <3>2 DEF RunOK, Created, Deliverers, Attempting
    <3>3. QED BY <1>8, <3>1, <3>2
  <2>2. QED BY <2>1 DEF RunsOK
<1>13. RunsInformed'
  <2>1. ASSUME NEW r \in Runs PROVE Informed(run[r])'
    <3>1. CASE run'[r] = run[r]
      <4>1. run[r].pc \in {"successes", "judge", "save"} =>
              run[r].event \in Events /\ targets'[run[r].event] = targets[run[r].event]
        BY <1>5, <1>11 DEF RunOK
      <4>2. QED BY <1>1, <1>11, <3>1, <4>1 DEF Informed, Truth, Succeeded, Steady
    <3>2. CASE r = v /\ run'[r] = Started({v})
      BY <1>9, <3>2 DEF Informed
    <3>3. QED BY <1>8, <3>1, <3>2
  <2>2. QED BY <2>1 DEF RunsInformed
<1>14. TargetsEnabled'
  <2>1. ASSUME NEW w \in Events, targets'[w] # None, NEW e \in targets'[w] \ off[w] PROVE enabled[e]
    BY <1>3, <1>4, <2>1 DEF IInv, TargetsEnabled, Created, Steady
  <2>2. QED BY <1>1, <2>1 DEF TargetsEnabled, Created, Steady
<1>15. StatusesTrue'
  <2>1. ASSUME NEW w \in Events, targets'[w] # None PROVE Truth(w, status[w])'
    <3>1. CASE w = v
      <4>1. status'[v] = IF T = {} THEN "success" ELSE "pending"
        BY <1>1 DEF IInv, TypeOK
      <4>2. targets'[v] = T
        BY <1>4
      <4>3. QED BY <3>1, <4>1, <4>2 DEF Truth, Steady
    <3>2. CASE w # v
      <4>1. status'[w] = status[w] /\ targets'[w] = targets[w]
        BY <1>1, <1>4, <3>2 DEF IInv, TypeOK
      <4>2. Truth(w, status[w])
        BY <2>1, <4>1 DEF IInv, StatusesTrue, Created
      <4>3. QED BY <1>1, <4>1, <4>2 DEF Truth, Succeeded, Steady
    <3>3. QED BY <3>1, <3>2
  <2>2. QED BY <1>1, <2>1 DEF StatusesTrue, Created
<1>16. Room'
  <2>1. \A w \in Events, e \in Endpoints : Makers(w, e)' \subseteq Makers(w, e)
    BY <1>8, <1>9 DEF Makers, Making, Attempting
  <2>2. QED BY <1>1, <1>12, <2>1, RoomStable DEF IInv
<1>17. QED BY <1>10, <1>12, <1>13, <1>14, <1>15, <1>16 DEF IInv

\* Steps that no run takes: the administrator, the clock, and none at all.
LEMMA OutsideStep ==
  ASSUME IInv,
         \/ \E e \in Endpoints : Toggle(e)
         \/ \E v \in Events, e \in Endpoints : BackoffElapses(v, e)
         \/ UNCHANGED vars
  PROVE  IInv'
<1>1. UNCHANGED <<lastStatus, targets, status, attempts, run, crashes>>
  BY DEF Toggle, BackoffElapses, vars
<1>2. (toggles' = toggles /\ enabled' = enabled) \/ (toggles < MaxToggles /\ toggles' = toggles + 1)
  BY DEF Toggle, BackoffElapses, vars
<1>3. toggles \in 0..MaxToggles /\ MaxToggles \in Nat
  BY ConstantsAssumption DEF IInv, TypeOK
<1>4. toggles' \in 0..MaxToggles
  BY <1>2, <1>3
<1>5. enabled' \in [Endpoints -> BOOLEAN] /\ due' \in [Events -> [Endpoints -> BOOLEAN]]
  <2>1. enabled \in [Endpoints -> BOOLEAN] /\ due \in [Events -> [Endpoints -> BOOLEAN]]
    BY DEF IInv, TypeOK
  <2>2. ASSUME NEW e \in Endpoints, Toggle(e)
        PROVE  enabled' \in [Endpoints -> BOOLEAN] /\ due' = due
    <3>1. enabled' = [enabled EXCEPT ![e] = ~@] /\ due' = due
      BY <2>2, Zenon DEF Toggle
    <3>2. [enabled EXCEPT ![e] = ~@] \in [Endpoints -> BOOLEAN]
      <4>1. (~enabled[e]) = TRUE \/ (~enabled[e]) = FALSE
        BY Zenon
      <4>2. [enabled EXCEPT ![e] = ~enabled[e]] \in [Endpoints -> BOOLEAN]
        BY <2>1, <4>1
      <4>3. QED BY <4>2
    <3>3. QED BY <3>1, <3>2
  <2>3. ASSUME NEW v \in Events, NEW e \in Endpoints, BackoffElapses(v, e)
        PROVE  enabled' = enabled /\ due' \in [Events -> [Endpoints -> BOOLEAN]]
    BY <2>1, <2>3 DEF BackoffElapses
  <2>4. QED BY <2>1, <2>2, <2>3 DEF vars
<1>6. /\ off' \in [Events -> SUBSET Endpoints]
      /\ \A v \in Events : off[v] \subseteq off'[v]
      /\ \A v \in Events : Created(v) => \A e \in Steady(v)' : enabled'[e]
  <2>1. off \in [Events -> SUBSET Endpoints] /\ TargetsEnabled
    BY DEF IInv, TypeOK
  <2>2. ASSUME NEW e \in Endpoints, Toggle(e)
        PROVE  /\ off' \in [Events -> SUBSET Endpoints]
               /\ \A v \in Events : off[v] \subseteq off'[v]
               /\ \A v \in Events : Created(v) => \A f \in Steady(v)' : enabled'[f]
    <3>1. off' = [v \in Events |-> IF Created(v) /\ e \in EnabledTargets(v) THEN off[v] \cup {e} ELSE off[v]]
      BY <2>2, Zenon DEF Toggle
    <3>2. off' \in [Events -> SUBSET Endpoints] /\ \A v \in Events : off[v] \subseteq off'[v]
      BY <2>1, <3>1
    <3>3. enabled' = [enabled EXCEPT ![e] = ~enabled[e]] /\ enabled \in [Endpoints -> BOOLEAN]
      BY <2>2, Zenon DEF Toggle, IInv, TypeOK
    <3>4. \A f \in Endpoints : f # e => enabled'[f] = enabled[f]
      BY <3>3
    <3>5. ~enabled[e] => enabled'[e]
      BY <3>3, Zenon
    <3>6. ASSUME NEW v \in Events, Created(v), NEW f \in Steady(v)' PROVE enabled'[f]
      <4>1. targets[v] \in SUBSET Endpoints /\ f \in targets[v] /\ f \notin off'[v]
        BY <1>1, <3>6 DEF IInv, TypeOK, Created, Steady
      <4>2. f \in Steady(v) /\ enabled[f]
        BY <2>1, <3>2, <3>6, <4>1 DEF TargetsEnabled, Steady
      <4>3. f = e => ~enabled[e]
        BY <3>1, <3>6, <4>1 DEF EnabledTargets
      <4>4. QED BY <3>4, <4>1, <4>2, <4>3
    <3>7. QED BY <3>2, <3>6
  <2>3. ASSUME UNCHANGED <<off, enabled>>
        PROVE  /\ off' \in [Events -> SUBSET Endpoints]
               /\ \A v \in Events : off[v] \subseteq off'[v]
               /\ \A v \in Events : Created(v) => \A f \in Steady(v)' : enabled'[f]
    BY <1>1, <2>1, <2>3 DEF TargetsEnabled, Steady
  <2>4. (\E e \in Endpoints : Toggle(e)) \/ UNCHANGED <<off, enabled>>
    BY DEF BackoffElapses, vars
  <2>5. QED BY <2>2, <2>3, <2>4
<1>7. TypeOK'
  BY <1>1, <1>4, <1>5, <1>6 DEF IInv, TypeOK
<1>8. RunsOK'
  BY <1>1 DEF IInv, RunsOK, RunOK, Created, Deliverers
<1>9. Grows
  <2>1. \A v \in Events, e \in Endpoints : Len(attempts[v][e]) \in Nat
    BY Lengths DEF IInv, TypeOK
  <2>2. QED BY <1>1, <2>1 DEF Grows, Succeeded
<1>10. RunsInformed'
  <2>1. ASSUME NEW r \in Runs PROVE Informed(run[r])'
    <3>1. run[r] \in Run /\ RunOK(r, run[r]) /\ Informed(run[r])
      BY DEF IInv, TypeOK, RunsOK, RunsInformed
    <3>2. ASSUME NEW s \in Run, RunOK(r, s), Informed(s) PROVE Informed(s)'
      BY <1>1, <1>6, <1>7, <1>9, <3>2, InformedStable DEF IInv
    <3>3. QED BY <1>1, <3>1, <3>2 DEF Informed, Truth, Succeeded, Steady
  <2>2. QED BY <2>1 DEF RunsInformed
<1>11. TargetsEnabled'
  BY <1>1, <1>6 DEF TargetsEnabled, Created
<1>12. StatusesTrue'
  <2>1. ASSUME NEW w \in Events, Created(w) PROVE Truth(w, status[w])'
    <3>1. targets[w] \in SUBSET Endpoints /\ Truth(w, status[w]) /\ targets'[w] = targets[w]
      BY <1>1, <2>1 DEF Created, IInv, TypeOK, StatusesTrue
    <3>2. ASSUME NEW st, Truth(w, st) PROVE Truth(w, st)'
      BY <1>6, <1>7, <1>9, <3>1, <3>2, TruthStable DEF IInv
    <3>3. QED BY <1>1, <3>1, <3>2 DEF Truth
  <2>2. QED BY <1>1, <2>1 DEF StatusesTrue, Created
<1>13. Room'
  <2>1. \A w \in Events, e \in Endpoints : Makers(w, e)' \subseteq Makers(w, e)
    BY <1>1 DEF Makers, Making
  <2>2. QED BY <1>1, <1>8, <2>1, RoomStable DEF IInv
<1>14. QED BY <1>7, <1>8, <1>10, <1>11, <1>12, <1>13 DEF IInv

LEMMA NextStep ==
  ASSUME IInv, [Next]_vars
  PROVE  IInv'
<1>1. CASE \E v \in Events : CreateEvent(v)
  BY <1>1, CreateEventStep
<1>2. CASE \E c \in Commands : StartCommand(c)
  BY <1>2, StartCommandStep
<1>3. ASSUME NEW r \in Runs, Step(r) PROVE IInv'
  BY <1>3, LoadStep, DecideStep, AttemptStep, CrashStep, RecordStep, SaveEndpointStep, RefreshStep,
     ReadSuccessesStep, JudgeStep, SaveStatusStep DEF Step
<1>4. ASSUME NEW r \in Runs, Crash(r) PROVE IInv'
  BY <1>4, CrashStep
<1>5. CASE \/ \E e \in Endpoints : Toggle(e)
           \/ \E v \in Events, e \in Endpoints : BackoffElapses(v, e)
           \/ UNCHANGED vars
  BY <1>5, OutsideStep
<1>6. QED BY <1>1, <1>2, <1>3, <1>4, <1>5 DEF Next

LEMMA Invariance == Spec => []IInv
<1>1. Init => IInv
  BY InitInv
<1>2. IInv /\ [Next]_vars => IInv'
  BY NextStep
<1>3. QED BY <1>1, <1>2, PTL DEF Spec
-----------------------------------------------------------------------------
(* The theorems.                                                           *)

\* Rows and what a run has in memory keep their shape, whatever runs, crashes
\* and administrators do in between the statements of deliver_event.
THEOREM TypeCorrect == Spec => []TypeOK
  BY Invariance, PTL DEF IInv

\* Each run that overlaps makes at most one attempt beyond the limit, for it
\* looks at the limit before each (_should_attempt_delivery).
THEOREM AttemptsStayBounded == Spec => []AttemptsBounded
<1>1. IInv => AttemptsBounded
  <2> SUFFICES ASSUME IInv, NEW v \in Events, NEW e \in Endpoints
               PROVE  Len(attempts[v][e]) <= MaxRetries[e] + Cardinality(Deliverers(v))
    BY DEF AttemptsBounded
  <2>1. Len(attempts[v][e]) \in Nat /\ MaxRetries[e] \in Nat
    BY Lengths DEF IInv, TypeOK
  <2>2. Cardinality(Makers(v, e)) \in Nat /\ Cardinality(Deliverers(v)) \in Nat
    BY DeliverersFinite, MakersFinite DEF IInv
  <2>3. Len(attempts[v][e]) > MaxRetries[e] =>
          Len(attempts[v][e]) + Cardinality(Makers(v, e)) <= MaxRetries[e] + Cardinality(Deliverers(v))
    BY DEF IInv, Room
  <2>4. QED BY <2>1, <2>2, <2>3
<1>2. QED BY <1>1, Invariance, PTL

\* A success has been accepted by each target that stays enabled, although
\* _refresh_event_delivery_status writes what it computed earlier.
LEMMA SuccessIsDelivered == IInv => SuccessMeansDelivered
<1> SUFFICES ASSUME IInv, NEW v \in Events, Created(v), status[v] = "success"
             PROVE  \A e \in Steady(v) : Succeeded(v, e)
  BY DEF SuccessMeansDelivered
<1>1. Truth(v, status[v])
  BY DEF IInv, StatusesTrue
<1>2. QED BY <1>1 DEF Truth

\* ... and a failure has used up the attempts of every such target not reached.
LEMMA FailureIsExhausted == IInv => FailedMeansExhausted
<1> SUFFICES ASSUME IInv, NEW v \in Events, Created(v), status[v] = "failed"
             PROVE  \A e \in Steady(v) : Succeeded(v, e) \/ Len(attempts[v][e]) > MaxRetries[e]
  BY DEF FailedMeansExhausted
<1>1. Truth(v, status[v])
  BY DEF IInv, StatusesTrue
<1>2. QED BY <1>1 DEF Truth

\* However runs of the command and threads of requests overtake each other
\* between reading attempts and writing the status, and whichever endpoints
\* are disabled and enabled again in between, what is final is true of the
\* targets that were not.
THEOREM FinalStatusTrue == Spec => []FinalStatusIsTrue
<1>1. IInv => FinalStatusIsTrue
  BY SuccessIsDelivered, FailureIsExhausted DEF FinalStatusIsTrue
<1>2. QED BY <1>1, Invariance, PTL

-----------------------------------------------------------------------------
(* Runs come to an end.                                                    *)

\* The steps that an event takes at most: five for each endpoint, five more.
StepsPerEvent == 5 * Cardinality(Endpoints) + 5

\* The steps that the event at hand takes still.
StepsAtHand(s) ==
  LET visits == 5 * Cardinality(s.todo)
  IN CASE s.pc = "decide" -> visits + 4
       [] s.pc = "number" -> visits + 3
       [] s.pc = "post" -> visits + 2
       [] s.pc = "record" -> visits + 1
       [] s.pc = "endpoint" -> visits
       [] s.pc = "successes" -> 3
       [] s.pc = "judge" -> 2
       [] s.pc = "save" -> 1
       [] OTHER -> 0

\* The steps that a run in local state s takes at most.
StepsLeft(s) == StepsPerEvent * Cardinality(s.queue) + StepsAtHand(s)

\* Each step of a run, and its death, brings it nearer to its end, which other
\* runs do not put off; and only a run that has ended starts again.
Ending ==
  \A r \in Runs :
    /\ Step(r) \/ Crash(r) => StepsLeft(run'[r]) < StepsLeft(run[r])
    /\ \/ run'[r] = run[r]
       \/ StepsLeft(run'[r]) < StepsLeft(run[r])
       \/ At(r, "idle") /\ StepsLeft(run'[r]) <= StepsPerEvent * Cardinality(Events)

\* Sets of events and endpoints can be counted, and lose one by one.
LEMMA Counts ==
  ASSUME NEW s \in Run
  PROVE  /\ Cardinality(s.queue) \in 0..Cardinality(Events) /\ Cardinality(s.todo) \in 0..Cardinality(Endpoints)
         /\ s.queue # {} => Cardinality(s.queue) >= 1
         /\ \A v \in s.queue : Cardinality(s.queue \ {v}) = Cardinality(s.queue) - 1
         /\ \A e \in s.todo : Cardinality(s.todo \ {e}) = Cardinality(s.todo) - 1
         /\ Cardinality(Events) \in Nat /\ Cardinality(Endpoints) \in Nat
<1>1. s.queue \in SUBSET Events /\ s.todo \in SUBSET Endpoints
  BY DEF Run
<1>2. IsFiniteSet(s.queue) /\ IsFiniteSet(s.todo)
  BY <1>1, FS_Subset, ConstantsAssumption
<1>3. Cardinality(s.queue) <= Cardinality(Events) /\ Cardinality(s.todo) <= Cardinality(Endpoints)
  BY <1>1, FS_Subset, ConstantsAssumption
<1>4. /\ Cardinality(s.queue) \in Nat /\ Cardinality(s.todo) \in Nat
      /\ Cardinality(Events) \in Nat /\ Cardinality(Endpoints) \in Nat
  BY <1>2, FS_CardinalityType, ConstantsAssumption
<1>5. s.queue # {} => Cardinality(s.queue) # 0
  BY <1>2, FS_EmptySet
<1>6. \A v \in s.queue : Cardinality(s.queue \ {v}) = Cardinality(s.queue) - 1
  BY <1>2, FS_RemoveElement
<1>7. \A e \in s.todo : Cardinality(s.todo \ {e}) = Cardinality(s.todo) - 1
  BY <1>2, FS_RemoveElement
<1>8. QED BY <1>3, <1>4, <1>5, <1>6, <1>7

\* What is left of the event at hand is less than an event takes.
LEMMA AtHandBounded ==
  ASSUME NEW s \in Run
  PROVE  StepsPerEvent \in Nat /\ StepsAtHand(s) \in Nat /\ StepsAtHand(s) < StepsPerEvent
<1>1. PICK t \in Nat : t = Cardinality(s.todo)
  BY Counts
<1>2. PICK n \in Nat : n = Cardinality(Endpoints)
  BY Counts
<1>3. t <= n
  BY <1>1, <1>2, Counts
<1>4. StepsPerEvent = 5 * n + 5
  BY <1>2 DEF StepsPerEvent
<1>5. StepsAtHand(s) \in {5 * t + 4, 5 * t + 3, 5 * t + 2, 5 * t + 1, 5 * t, 3, 2, 1, 0}
  BY <1>1 DEF StepsAtHand
<1>6. QED BY <1>3, <1>4, <1>5

\* A step within an event.
LEMMA NearerAtHand ==
  ASSUME NEW s \in Run, NEW t \in Run, t.queue = s.queue, StepsAtHand(t) < StepsAtHand(s)
  PROVE  StepsLeft(t) < StepsLeft(s)
<1>1. PICK m \in Int : m = StepsPerEvent * Cardinality(s.queue)
  BY AtHandBounded, Counts
<1>2. StepsAtHand(s) \in Nat /\ StepsAtHand(t) \in Nat
  BY AtHandBounded
<1>3. StepsLeft(s) = m + StepsAtHand(s) /\ StepsLeft(t) = m + StepsAtHand(t)
  BY <1>1 DEF StepsLeft
<1>4. QED BY <1>2, <1>3

\* The step to the next event.
LEMMA NearerByEvent ==
  ASSUME NEW s \in Run, NEW t \in Run, NEW v \in s.queue, t.queue = s.queue \ {v}
  PROVE  StepsLeft(t) < StepsLeft(s)
<1>1. PICK q \in Nat : q = Cardinality(t.queue)
  BY Counts
<1>2. Cardinality(s.queue) = q + 1
  BY <1>1, Counts
<1>3. PICK k \in Nat : k = StepsPerEvent
  BY AtHandBounded
<1>4. k * (q + 1) = k * q + k
  BY <1>1, <1>3
<1>5. PICK m \in Int : m = k * q
  BY <1>1, <1>3
<1>6. StepsLeft(s) = m + k + StepsAtHand(s) /\ StepsLeft(t) = m + StepsAtHand(t)
  BY <1>1, <1>2, <1>3, <1>4, <1>5 DEF StepsLeft
<1>7. StepsAtHand(s) \in Nat /\ StepsAtHand(t) \in Nat /\ StepsAtHand(t) < k
  BY <1>3, AtHandBounded
<1>8. QED BY <1>6, <1>7

\* A run that is going has a step to take at least.
LEMMA EndsBelow ==
  ASSUME NEW s \in Run, s.pc # "idle", s.pc = "load" => s.queue # {},
         s.pc = "endpoint" => s.todo # {}
  PROVE  StepsLeft(Idle) < StepsLeft(s)
<1>1. StepsLeft(Idle) = 0
  <2>1. Cardinality(Idle.queue) = 0 /\ StepsAtHand(Idle) = 0
    BY FS_EmptySet DEF Idle, StepsAtHand
  <2>2. PICK k \in Nat : k = StepsPerEvent
    BY AtHandBounded
  <2>3. k * 0 + 0 = 0
    BY <2>2
  <2>4. QED BY <2>1, <2>2, <2>3 DEF StepsLeft
<1>2. PICK q \in Nat : q = Cardinality(s.queue)
  BY Counts
<1>3. PICK k \in Nat : k = StepsPerEvent
  BY AtHandBounded
<1>4. k * q >= 0 /\ k * q \in Int
  BY <1>2, <1>3
<1>5. PICK m \in Nat : m = k * q
  BY <1>4
<1>6. StepsLeft(s) = m + StepsAtHand(s) /\ StepsAtHand(s) \in Nat
  BY <1>2, <1>3, <1>5, AtHandBounded DEF StepsLeft
<1>7. CASE s.pc = "load"
  <2>1. q >= 1 /\ k >= 1
    BY <1>2, <1>3, <1>7, Counts, AtHandBounded
  <2>2. k * q >= k * 1
    BY <1>2, <1>3, <2>1
  <2>3. QED BY <1>1, <1>5, <1>6, <2>1, <2>2
<1>8. CASE s.pc # "load"
  <2>1. PICK t \in Nat : t = Cardinality(s.todo)
    BY Counts
  <2>2. s.pc = "endpoint" => t >= 1
    <3>1. s.todo \in SUBSET Endpoints
      BY DEF Run
    <3>2. IsFiniteSet(s.todo)
      BY <3>1, FS_Subset, ConstantsAssumption
    <3>3. s.pc = "endpoint" => t # 0
      BY <2>1, <3>2, FS_EmptySet
    <3>4. QED BY <3>3
  <2>3. StepsAtHand(s) >= 1
    <3>1. s.pc \in {"decide", "number", "post", "record", "endpoint", "successes", "judge", "save"}
      BY <1>8 DEF Run, Steps
    <3>2. QED BY <2>1, <2>2, <3>1 DEF StepsAtHand
  <2>4. QED BY <1>1, <1>6, <2>3
<1>9. QED BY <1>7, <1>8

\* Every step of a run, and its death.
LEMMA StepsLower ==
  ASSUME IInv, NEW r \in Runs, Step(r) \/ Crash(r)
  PROVE  \E t : Becomes(r, t) /\ StepsLeft(t) < StepsLeft(run[r])
<1>1. PICK s \in Run : s = run[r]
  BY DEF IInv, TypeOK
<1>2. RunOK(r, s)
  BY <1>1 DEF IInv, RunsOK
<1>3. ASSUME s.pc # "idle" PROVE StepsLeft(Idle) < StepsLeft(s)
  BY <1>2, <1>3, EndsBelow DEF RunOK
<1>4. ASSUME Dies(r), s.pc # "idle" PROVE \E t : Becomes(r, t) /\ StepsLeft(t) < StepsLeft(s)
  BY <1>3, <1>4 DEF Dies
<1>5. PICK n \in Nat : n = Cardinality(s.todo)
  BY Counts
<1>6. ASSUME s.todo # {}, s.pc \in {"decide", "number", "post", "record", "endpoint"}
      PROVE  Cardinality(s.todo \ {Endpoint(r)}) = n - 1 /\ Endpoint(r) \in Endpoints /\ n >= 1
  <2>1. Endpoint(r) \in s.todo /\ Endpoint(r) \in Endpoints
    BY <1>1, <1>6, EndpointExists DEF IInv
  <2>2. Cardinality(s.todo \ {Endpoint(r)}) = n - 1
    BY <1>5, <2>1, Counts
  <2>3. IsFiniteSet(s.todo)
    <3>1. s.todo \in SUBSET Endpoints
      BY DEF Run
    <3>2. QED BY <3>1, FS_Subset, ConstantsAssumption
  <2>4. n # 0
    BY <1>5, <1>6, <2>3, FS_EmptySet
  <2>5. n >= 1
    BY <2>4
  <2>6. QED BY <2>1, <2>2, <2>5
<1>7. ASSUME NEW t \in Run, Becomes(r, t), t.queue = s.queue, StepsAtHand(t) < StepsAtHand(s)
      PROVE  \E u : Becomes(r, u) /\ StepsLeft(u) < StepsLeft(s)
  BY <1>7, NearerAtHand
<1>8. CASE Load(r)
  <2>1. PICK v : v = Min(s.queue)
    OBVIOUS
  <2>2. PICK t : t = [Idle EXCEPT !.pc = "decide", !.event = v, !.todo = EnabledTargets(v), !.queue = s.queue \ {v}]
    OBVIOUS
  <2>3. s.pc = "load" /\ Becomes(r, t)
    BY <1>1, <1>8, <2>1, <2>2 DEF Load, At
  <2>4. v \in s.queue /\ v \in Events
    <3>1. s.queue \in SUBSET Events /\ s.queue # {}
      BY <1>2, <2>3 DEF Run, RunOK
    <3>2. QED BY <2>1, <3>1, MinExists, ConstantsAssumption
  <2>5. t \in Run /\ t.queue = s.queue \ {v}
    <3>1. EnabledTargets(v) \in SUBSET Endpoints
      BY <1>2, <2>4 DEF IInv, TypeOK, RunOK, Created, EnabledTargets
    <3>2. QED BY <2>2, <2>4, <3>1 DEF Idle, Run, Steps, Statuses
  <2>6. QED BY <1>1, <2>3, <2>4, <2>5, NearerByEvent
<1>9. CASE Decide(r)
  <2>1. s.pc = "decide" /\ s.todo # {} /\ (Becomes(r, [s EXCEPT !.pc = "number"]) \/ Becomes(r, [s EXCEPT !.todo = s.todo \ {Endpoint(r)}]))
    BY <1>1, <1>9 DEF Decide, At
  <2>2. CASE Becomes(r, [s EXCEPT !.pc = "number"])
    <3>1. PICK t : t = [s EXCEPT !.pc = "number"]
      OBVIOUS
    <3>2. t \in Run /\ t.pc = "number" /\ t.queue = s.queue /\ t.todo = s.todo
      BY <3>1 DEF Run, Steps
    <3>3. StepsAtHand(t) < StepsAtHand(s)
      BY <1>5, <2>1, <3>2 DEF StepsAtHand
    <3>4. QED BY <1>1, <1>7, <2>2, <3>1, <3>2, <3>3
  <2>3. CASE Becomes(r, [s EXCEPT !.todo = s.todo \ {Endpoint(r)}])
    <3>1. PICK t : t = [s EXCEPT !.todo = s.todo \ {Endpoint(r)}]
      OBVIOUS
    <3>2. t \in Run /\ t.pc = "decide" /\ t.queue = s.queue /\ t.todo = s.todo \ {Endpoint(r)}
      BY <2>1, <3>1 DEF Run
    <3>3. Cardinality(t.todo) = n - 1
      BY <1>6, <2>1, <3>2
    <3>4. StepsAtHand(t) < StepsAtHand(s)
      BY <1>5, <2>1, <3>2, <3>3 DEF StepsAtHand
    <3>5. QED BY <1>1, <1>7, <2>3, <3>1, <3>2, <3>4
  <2>4. QED BY <2>1, <2>2, <2>3
<1>10. CASE Number(r)
  <2>1. PICK t : t = [s EXCEPT !.pc = "post", !.number = Len(attempts[Event(r)][Endpoint(r)]) + 1]
    OBVIOUS
  <2>2. s.pc = "number" /\ Becomes(r, t)
    BY <1>1, <1>10, <2>1 DEF Number, At
  <2>3. Event(r) \in Events /\ Endpoint(r) \in Endpoints
    BY <1>1, <1>2, <2>2, EndpointExists DEF IInv, RunOK, Attempting
  <2>4. Len(attempts[Event(r)][Endpoint(r)]) + 1 \in Nat
    <3>1. attempts \in [Events -> [Endpoints -> Seq(BOOLEAN)]]
      BY DEF IInv, TypeOK
    <3>2. attempts[Event(r)][Endpoint(r)] \in Seq(BOOLEAN)
      BY <2>3, <3>1
    <3>3. PICK l \in Nat : l = Len(attempts[Event(r)][Endpoint(r)])
      BY <3>2
    <3>4. QED BY <3>3
  <2>5. t \in Run /\ t.pc = "post" /\ t.queue = s.queue /\ t.todo = s.todo
    BY <2>1, <2>4 DEF Run, Steps
  <2>6. StepsAtHand(t) < StepsAtHand(s)
    BY <1>5, <2>2, <2>5 DEF StepsAtHand
  <2>7. QED BY <1>1, <1>7, <2>2, <2>5, <2>6
<1>11. CASE Post(r)
  <2>1. PICK ok \in BOOLEAN : Becomes(r, [s EXCEPT !.pc = "record", !.ok = ok])
    BY <1>1, <1>11 DEF Post
  <2>2. s.pc = "post"
    BY <1>1, <1>11 DEF Post, At
  <2>3. PICK t : t = [s EXCEPT !.pc = "record", !.ok = ok]
    OBVIOUS
  <2>4. t \in Run /\ t.pc = "record" /\ t.queue = s.queue /\ t.todo = s.todo
    BY <2>3 DEF Run, Steps
  <2>5. StepsAtHand(t) < StepsAtHand(s)
    BY <1>5, <2>2, <2>4 DEF StepsAtHand
  <2>6. QED BY <1>1, <1>7, <2>1, <2>3, <2>4, <2>5
<1>12. CASE PostBreaks(r) \/ Crash(r)
  BY <1>1, <1>4, <1>12 DEF PostBreaks, Crash, At
<1>13. CASE Record(r)
  <2>1. s.pc = "record" /\ (Dies(r) \/ Becomes(r, [s EXCEPT !.pc = "endpoint", !.number = 0]))
    BY <1>1, <1>13 DEF Record, At
  <2>2. CASE Dies(r)
    BY <1>1, <1>4, <2>1, <2>2
  <2>3. CASE Becomes(r, [s EXCEPT !.pc = "endpoint", !.number = 0])
    <3>1. PICK t : t = [s EXCEPT !.pc = "endpoint", !.number = 0]
      OBVIOUS
    <3>2. t \in Run /\ t.pc = "endpoint" /\ t.queue = s.queue /\ t.todo = s.todo
      BY <3>1 DEF Run, Steps
    <3>3. StepsAtHand(t) < StepsAtHand(s)
      BY <1>5, <2>1, <3>2 DEF StepsAtHand
    <3>4. QED BY <1>1, <1>7, <2>3, <3>1, <3>2, <3>3
  <2>4. QED BY <2>1, <2>2, <2>3
<1>14. CASE SaveEndpoint(r)
  <2>1. PICK t : t = [s EXCEPT !.pc = "decide", !.ok = FALSE, !.todo = s.todo \ {Endpoint(r)}]
    OBVIOUS
  <2>2. s.pc = "endpoint" /\ Becomes(r, t) /\ s.todo # {}
    BY <1>1, <1>2, <1>14, <2>1 DEF SaveEndpoint, At, RunOK
  <2>3. t \in Run /\ t.pc = "decide" /\ t.queue = s.queue /\ t.todo = s.todo \ {Endpoint(r)}
    BY <2>1 DEF Run, Steps
  <2>4. Cardinality(t.todo) = n - 1 /\ n >= 1
    BY <1>6, <2>2, <2>3
  <2>5. StepsAtHand(t) < StepsAtHand(s)
    BY <1>5, <2>2, <2>3, <2>4 DEF StepsAtHand
  <2>6. QED BY <1>1, <1>7, <2>2, <2>3, <2>5
<1>15. CASE Refresh(r)
  <2>1. PICK T : T = EnabledTargets(Event(r))
    OBVIOUS
  <2>2. s.pc = "decide" /\ Becomes(r, IF T = {} THEN [s EXCEPT !.pc = "save", !.verdict = "success"]
                                      ELSE [s EXCEPT !.pc = "successes", !.todo = T])
    BY <1>1, <1>15, <2>1 DEF Refresh, At
  <2>3. T \in SUBSET Endpoints
    BY <1>1, <1>2, <2>1, <2>2 DEF IInv, TypeOK, RunOK, Created, EnabledTargets, Event
  <2>4. PICK t : t = IF T = {} THEN [s EXCEPT !.pc = "save", !.verdict = "success"]
                     ELSE [s EXCEPT !.pc = "successes", !.todo = T]
    OBVIOUS
  <2>5. t \in Run /\ t.pc \in {"save", "successes"} /\ t.queue = s.queue
    BY <2>3, <2>4 DEF Run, Steps, Statuses
  <2>6. StepsAtHand(t) < StepsAtHand(s)
    BY <1>5, <2>2, <2>5 DEF StepsAtHand
  <2>7. QED BY <1>1, <1>7, <2>2, <2>4, <2>5, <2>6
<1>16. CASE ReadSuccesses(r)
  <2>1. PICK D : D = {e \in s.todo : Succeeded(Event(r), e)}
    OBVIOUS
  <2>2. PICK t : t = [s EXCEPT !.pc = "judge", !.delivered = D]
    OBVIOUS
  <2>3. s.pc = "successes" /\ Becomes(r, t)
    BY <1>1, <1>16, <2>1, <2>2 DEF ReadSuccesses, At
  <2>4. D \in SUBSET Endpoints
    BY <2>1 DEF Run
  <2>5. t \in Run /\ t.pc = "judge" /\ t.queue = s.queue
    BY <2>2, <2>4 DEF Run, Steps
  <2>6. StepsAtHand(t) < StepsAtHand(s)
    BY <2>3, <2>5 DEF StepsAtHand
  <2>7. QED BY <1>1, <1>7, <2>3, <2>5, <2>6
<1>17. CASE Judge(r)
  <2>1. PICK st : st = DeliveryStatus(Event(r), s.todo, s.delivered)
    OBVIOUS
  <2>2. PICK t : t = [s EXCEPT !.pc = "save", !.todo = {}, !.delivered = {}, !.verdict = st]
    OBVIOUS
  <2>3. s.pc = "judge" /\ Becomes(r, t)
    BY <1>1, <1>17, <2>1, <2>2 DEF Judge, At
  <2>4. st \in Statuses
    BY <2>1 DEF DeliveryStatus, Statuses
  <2>5. t \in Run /\ t.pc = "save" /\ t.queue = s.queue
    BY <2>2, <2>4 DEF Run, Steps
  <2>6. StepsAtHand(t) < StepsAtHand(s)
    BY <2>3, <2>5 DEF StepsAtHand
  <2>7. QED BY <1>1, <1>7, <2>3, <2>5, <2>6
<1>18. CASE SaveStatus(r)
  <2>1. s.pc = "save" /\ Becomes(r, IF s.queue = {} THEN Idle ELSE Started(s.queue))
    BY <1>1, <1>18 DEF SaveStatus, At
  <2>2. CASE s.queue = {}
    BY <1>1, <1>3, <2>1, <2>2
  <2>3. CASE s.queue # {}
    <3>1. PICK t : t = Started(s.queue)
      OBVIOUS
    <3>2. t \in Run /\ t.pc = "load" /\ t.queue = s.queue
      BY <3>1 DEF Started, Idle, Run, Steps, Statuses
    <3>3. StepsAtHand(t) < StepsAtHand(s)
      BY <2>1, <3>2 DEF StepsAtHand
    <3>4. QED BY <1>1, <1>7, <2>1, <2>3, <3>1, <3>2, <3>3
  <2>4. QED BY <2>2, <2>3
<1>19. QED
  BY <1>1, <1>8, <1>9, <1>10, <1>11, <1>12, <1>13, <1>14, <1>15, <1>16, <1>17, <1>18 DEF Step

\* A run that starts has no more to do than all events.
LEMMA StartsBounded ==
  ASSUME IInv, NEW r \in Runs, NEW Q \in SUBSET Events
  PROVE  StepsLeft(Started(Q)) <= StepsPerEvent * Cardinality(Events)
<1>1. Started(Q) \in Run /\ Started(Q).queue = Q /\ Started(Q).pc = "load"
  BY DEF Started, Idle, Run, Steps, Statuses
<1>2. PICK q \in Nat : q = Cardinality(Q)
  BY <1>1, Counts
<1>3. PICK n \in Nat : n = Cardinality(Events)
  BY <1>1, Counts
<1>4. PICK k \in Nat : k = StepsPerEvent
  BY <1>1, AtHandBounded
<1>5. q <= n
  BY <1>1, <1>2, <1>3, Counts
<1>6. k * q <= k * n /\ k * q \in Int
  BY <1>2, <1>3, <1>4, <1>5
<1>7. StepsAtHand(Started(Q)) = 0
  BY <1>1 DEF StepsAtHand
<1>8. StepsLeft(Started(Q)) = k * q + 0
  BY <1>1, <1>2, <1>4, <1>7 DEF StepsLeft
<1>9. QED BY <1>3, <1>4, <1>6, <1>8

\* The thread of an event that does not exist yet is not there either.
LEMMA ThreadIsNew ==
  ASSUME IInv, NEW v \in Events, ~Created(v)
  PROVE  At(v, "idle")
<1>1. v \in Runs /\ RunOK(v, run[v]) /\ run[v] \in Run
  BY DEF Runs, IInv, TypeOK, RunsOK
<1>2. ASSUME NEW w \in Events, v \in Deliverers(w) PROVE w = v
  BY <1>2, ConstantsAssumption DEF Deliverers
<1>3. run[v].queue \subseteq Events
  BY <1>1 DEF Run
<1>4. QED BY <1>1, <1>2, <1>3 DEF RunOK, At

\* A run that is going ends after finitely many steps of its own, whatever
\* other runs, crashes and administrators do: each step brings it nearer to
\* its end, nobody puts that off, and only a run that has ended starts again,
\* with no more to do than all events take.
THEOREM RunsEnd == Spec => [][Ending]_vars
<1>1. ASSUME IInv, [Next]_vars PROVE [Ending]_vars
  <2>1. ASSUME NEW r \in Runs, Step(r) \/ Crash(r) PROVE StepsLeft(run'[r]) < StepsLeft(run[r])
    BY <1>1, <2>1, StepsLower DEF Becomes, IInv, TypeOK
  <2>2. ASSUME NEW r \in Runs, NEW t, Becomes(r, t),
               \/ StepsLeft(t) < StepsLeft(run[r])
               \/ At(r, "idle") /\ StepsLeft(t) <= StepsPerEvent * Cardinality(Events)
        PROVE  Ending
    <3>1. run'[r] = t /\ \A q \in Runs \ {r} : run'[q] = run[q]
      BY <1>1, <2>2 DEF Becomes, IInv, TypeOK
    <3>2. QED BY <2>1, <2>2, <3>1 DEF Ending
  <2>3. ASSUME UNCHANGED run PROVE Ending
    BY <2>1, <2>3 DEF Ending
  <2>4. ASSUME NEW r \in Runs, Step(r) \/ Crash(r) PROVE Ending
    BY <1>1, <2>2, <2>4, StepsLower
  <2>5. ASSUME NEW v \in Events, CreateEvent(v) PROVE Ending
    <3>1. CASE UNCHANGED run
      BY <2>3, <3>1
    <3>2. CASE Becomes(v, Started({v}))
      <4>1. v \in Runs /\ At(v, "idle")
        BY <1>1, <2>5, ThreadIsNew DEF CreateEvent, Runs
      <4>2. StepsLeft(Started({v})) <= StepsPerEvent * Cardinality(Events)
        BY <1>1, <4>1, StartsBounded
      <4>3. QED BY <2>2, <3>2, <4>1, <4>2
    <3>3. QED BY <2>5, <3>1, <3>2 DEF CreateEvent
  <2>6. ASSUME NEW c \in Commands, StartCommand(c) PROVE Ending
    <3>1. PICK Q : Q = {v \in Events : Created(v) /\ status[v] # "success"}
      OBVIOUS
    <3>2. c \in Runs /\ Q \in SUBSET Events /\ Becomes(c, Started(Q)) /\ At(c, "idle")
      BY <2>6, <3>1 DEF StartCommand, Runs
    <3>3. QED BY <1>1, <2>2, <3>2, StartsBounded
  <2>7. CASE \/ \E e \in Endpoints : Toggle(e)
             \/ \E v \in Events, e \in Endpoints : BackoffElapses(v, e)
    BY <2>3, <2>7 DEF Toggle, BackoffElapses
  <2>8. QED BY <1>1, <2>4, <2>5, <2>6, <2>7 DEF Next
<1>2. QED BY <1>1, Invariance, PTL DEF Spec
=============================================================================
