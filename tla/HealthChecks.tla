--------------------------- MODULE HealthChecks ----------------------------
(***************************************************************************)
(* The health checks of the web application: the public endpoint, which    *)
(* runs all checks and answers 200 or 503, and the status page, whose      *)
(* cards are loaded one after another, each answer triggering the next     *)
(* request and the last one the summary.  A check takes time: what it      *)
(* looks at changes while others run, and the webhook check sends one      *)
(* request after another to the endpoints it read at its start.            *)
(***************************************************************************)
EXTENDS Integers, Sequences, FiniteSets

CONSTANTS
  Endpoints,  \* names of webhook endpoints
  Probers,    \* monitoring clients and open status pages
  MaxShifts   \* bound on changes of what is checked

\* HealthcheckService.CHECK_NAMES, and CHECK_SEQUENCE of the page
CheckNames == <<"database", "migrations", "cache", "webhooks">>
Checks == {CheckNames[k] : k \in DOMAIN CheckNames}
Statuses == {"healthy", "warning", "unhealthy"}
\* What can be wrong: a component, or one enabled endpoint that gives no answer.
Troubles == {"database", "migrations", "cache"} \cup Endpoints

ASSUME HealthAssumption ==
  MaxShifts \in Nat /\ Endpoints \cap {"database", "migrations", "cache"} = {}

VARIABLES
  world,   \* database, migrations, cache and endpoints
  probe,   \* the request every prober has at the server
  shown,   \* the cards and the summary on every status page
  trouble, \* what was wrong during a request: always, at some time
  shifts   \* changes of the world so far

healthVars == <<world, probe, shown, trouble, shifts>>

World == [database : BOOLEAN, migrated : BOOLEAN, cache : {"ok", "down", "loses"},
          endpoint : [Endpoints -> {"off", "answers", "silent"}]]
\* `what` is what was asked for, `at` the check that runs; `left` are the
\* endpoints the webhook check has to ask yet, `silent` says one did not answer.
ProbeRequest == [what : {"nothing", "api", "summary"} \cup Checks, at : 0..5,
                 found : [Checks -> Statuses \cup {"none"}], left : SUBSET Endpoints,
                 silent : BOOLEAN, answer : {"none", "ok", "failing", "broken"}]
NoRequest == [what |-> "nothing", at |-> 0, found |-> [c \in Checks |-> "none"],
              left |-> {}, silent |-> FALSE, answer |-> "none"]
Waiting == [c \in Checks \cup {"summary"} |-> "checking"]

HealthTypeOK ==
  /\ world \in World
  /\ probe \in [Probers -> ProbeRequest]
  /\ shown \in [Probers -> [Checks \cup {"summary"} -> Statuses \cup {"checking"}]]
  /\ trouble \in [Probers -> [always : SUBSET Troubles, ever : SUBSET Troubles]]
  /\ shifts \in 0..MaxShifts

HealthInit ==
  /\ world \in [database : {TRUE}, migrated : {TRUE}, cache : {"ok"},
                endpoint : [Endpoints -> {"off", "answers"}]]
  /\ probe = [p \in Probers |-> NoRequest]
  /\ shown = [p \in Probers |-> Waiting]
  /\ trouble = [p \in Probers |-> [always |-> {}, ever |-> {}]]
  /\ shifts = 0

Troubled(w) ==
  (IF w.database THEN {} ELSE {"database"}) \cup (IF w.migrated THEN {} ELSE {"migrations"})
    \cup (IF w.cache = "ok" THEN {} ELSE {"cache"})
    \cup {e \in Endpoints : w.endpoint[e] = "silent"}

\* Something breaks, recovers or is configured otherwise.
Shift(w) ==
  /\ shifts < MaxShifts /\ shifts' = shifts + 1
  /\ w # world /\ world' = w
  /\ trouble' = [p \in Probers |-> [always |-> trouble[p].always \cap Troubled(w),
                                    ever |-> trouble[p].ever \cup Troubled(w)]]
  /\ UNCHANGED <<probe, shown>>
WorldShifts ==
  \/ \E up \in BOOLEAN : Shift([world EXCEPT !.database = up])
  \/ \E done \in BOOLEAN : Shift([world EXCEPT !.migrated = done])
  \/ \E c \in {"ok", "down", "loses"} : Shift([world EXCEPT !.cache = c])
  \/ \E e \in Endpoints, s \in {"off", "answers", "silent"} :
       Shift([world EXCEPT !.endpoint[e] = s])
-----------------------------------------------------------------------------
(* Requests. *)

\* Every request but the public one looks the session up in the database first
\* and breaks without it.
Ask(p, what) ==
  /\ trouble' = [trouble EXCEPT ![p] = [always |-> Troubled(world), ever |-> Troubled(world)]]
  /\ probe' = [probe EXCEPT ![p] =
       [NoRequest EXCEPT
          !.what = what,
          !.at = IF what \in Checks THEN CHOOSE k \in 1..4 : CheckNames[k] = what ELSE 1,
          !.answer = IF what # "api" /\ ~world.database THEN "broken" ELSE "none"]]
  /\ UNCHANGED <<world, shifts>>

Idling(p) == probe[p].what = "nothing" \/ probe[p].answer # "none"
AskApi(p) == Idling(p) /\ Ask(p, "api") /\ UNCHANGED shown
\* The status page is loaded: its first card asks at once.
OpenPage(p) == Idling(p) /\ Ask(p, "database") /\ shown' = [shown EXCEPT ![p] = Waiting]

\* The checks still to be run, and the one that runs now.
Running(p) == probe[p].what # "nothing" /\ probe[p].answer = "none" /\ probe[p].at <= 4
Now(p) == CheckNames[probe[p].at]
\* A request for one check ends after it.
After(p) == IF probe[p].what \in Checks THEN 5 ELSE probe[p].at + 1
Finds(p, status) ==
  /\ probe' = [probe EXCEPT ![p] = [@ EXCEPT !.found[Now(p)] = status, !.at = After(p),
                                             !.left = {}, !.silent = FALSE]]
  /\ UNCHANGED <<world, shown, trouble, shifts>>

CheckDatabase(p) ==
  /\ Running(p) /\ Now(p) = "database"
  /\ Finds(p, IF world.database THEN "healthy" ELSE "unhealthy")
CheckMigrations(p) ==
  /\ Running(p) /\ Now(p) = "migrations"
  /\ Finds(p, IF world.database /\ world.migrated THEN "healthy" ELSE "unhealthy")
CheckCache(p) ==
  /\ Running(p) /\ Now(p) = "cache"
  /\ Finds(p, IF world.cache = "ok" THEN "healthy" ELSE "unhealthy")

\* run_webhook_check reads the enabled endpoints, outside of any try.
ReadEndpoints(p) ==
  LET enabled == {e \in Endpoints : world.endpoint[e] # "off"} IN
  /\ Running(p) /\ Now(p) = "webhooks" /\ probe[p].left = {}
  /\ \/ /\ ~world.database
        /\ probe' = [probe EXCEPT ![p].answer = "broken"]
        /\ UNCHANGED <<world, shown, trouble, shifts>>
     \/ world.database /\ enabled = {} /\ Finds(p, "warning")
     \/ /\ world.database /\ enabled # {}
        /\ probe' = [probe EXCEPT ![p].left = enabled]
        /\ UNCHANGED <<world, shown, trouble, shifts>>
\* _is_webhook_endpoint_reachable: an answer of any status will do.
AskEndpoint(p, e) ==
  LET silent == probe[p].silent \/ world.endpoint[e] = "silent" IN
  /\ Running(p) /\ e \in probe[p].left
  /\ \/ /\ probe[p].left = {e}
        /\ Finds(p, IF silent THEN "unhealthy" ELSE "healthy")
     \/ /\ probe[p].left # {e}
        /\ probe' = [probe EXCEPT ![p].left = @ \ {e}, ![p].silent = silent]
        /\ UNCHANGED <<world, shown, trouble, shifts>>

\* Mutant: a warning hides what is worse.
OverallOfWarnings(found) ==
  IF \E c \in Checks : found[c] = "warning" THEN "warning"
  ELSE IF \E c \in Checks : found[c] = "unhealthy" THEN "unhealthy" ELSE "healthy"

\* _overall_status, and the status code the public endpoint makes of it
Overall(found) ==
  IF \E c \in Checks : found[c] = "unhealthy" THEN "unhealthy"
  ELSE IF \E c \in Checks : found[c] = "warning" THEN "warning" ELSE "healthy"
ResponseStatus(status) == IF status = "unhealthy" THEN "failing" ELSE "ok"

Complete(p) == probe[p].what # "nothing" /\ probe[p].answer = "none" /\ probe[p].at = 5
AnswerApi(p) ==
  /\ Complete(p) /\ probe[p].what = "api"
  /\ probe' = [probe EXCEPT ![p].answer = ResponseStatus(Overall(probe[p].found))]
  /\ UNCHANGED <<world, shown, trouble, shifts>>
AnswerSummary(p) ==
  /\ Complete(p) /\ probe[p].what = "summary"
  /\ probe' = [probe EXCEPT ![p].answer = "ok"]
  /\ shown' = [shown EXCEPT ![p]["summary"] = Overall(probe[p].found)]
  /\ UNCHANGED <<world, trouble, shifts>>
\* A card is shown, and the event its answer carries asks for the next one or,
\* after the last, for the summary (_next_check_event).
NextEvent(c) ==
  IF c = CheckNames[4] THEN "summary" ELSE CheckNames[(CHOOSE k \in 1..3 : CheckNames[k] = c) + 1]
AnswerCheck(p) ==
  /\ Complete(p) /\ probe[p].what \in Checks
  /\ shown' = [shown EXCEPT ![p][probe[p].what] = probe[p].found[probe[p].what]]
  /\ Ask(p, NextEvent(probe[p].what))

HealthNext ==
  \/ WorldShifts
  \/ \E p \in Probers :
       \/ AskApi(p) \/ OpenPage(p) \/ CheckDatabase(p) \/ CheckMigrations(p) \/ CheckCache(p)
       \/ ReadEndpoints(p) \/ \E e \in Endpoints : AskEndpoint(p, e)
       \/ AnswerApi(p) \/ AnswerSummary(p) \/ AnswerCheck(p)

HealthSpec == HealthInit /\ [][HealthNext]_healthVars
-----------------------------------------------------------------------------
(* Properties. *)

\* The public endpoint answers 200 only if nothing was wrong all the time its
\* checks ran, an endpoint that fails among others included; 503 only if
\* something was wrong at some time; it breaks without an answer only if the
\* database was away.
ApiAnswersTruly ==
  \A p \in Probers : probe[p].what = "api" =>
    /\ probe[p].answer = "ok" => trouble[p].always = {}
    /\ probe[p].answer = "failing" => trouble[p].ever # {}
    /\ probe[p].answer = "broken" => "database" \in trouble[p].ever

\* A status page fills its cards in their order and the summary last, and it
\* stops half-way only at a request during which the database was away.
PageFillsInOrder ==
  \A p \in Probers :
    /\ \A k \in 1..3 : shown[p][CheckNames[k + 1]] # "checking" => shown[p][CheckNames[k]] # "checking"
    /\ shown[p]["summary"] # "checking" => shown[p]["webhooks"] # "checking"
    /\ probe[p].what \in Checks \cup {"summary"} /\ probe[p].answer = "broken"
         => "database" \in trouble[p].ever

\* What monitoring clients and status pages are told of the server is true of
\* the time their checks ran, whatever fails or recovers between two checks.
HealthAnswersAreTrue == ApiAnswersTruly /\ PageFillsInOrder
=============================================================================
