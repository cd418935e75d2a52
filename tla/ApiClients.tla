------------------------------ MODULE ApiClients ------------------------------
(***************************************************************************)
(* The action nodes of the n8n package: an execution takes the items of    *)
(* its input one by one, looks up the records they name, sends a request   *)
(* and waits for the answer.  Other clients change the records meanwhile,  *)
(* requests and answers get lost, and a workflow that stops on an error    *)
(* may be retried: the node then starts again with its first item.         *)
(***************************************************************************)
EXTENDS Naturals, Sequences, FiniteSets

CONSTANTS
  Fields,      \* the references of an issue under study
  Ids,         \* records of each kind that exist
  Names,
  Inputs,      \* the items an execution may be given
  Unset,       \* a reference the item leaves alone
  Null,        \* a reference the request clears
  Untold,      \* a name the item does not give
  Pending,     \* a reference being looked up
  Refused,     \* a reference that cannot be resolved
  MaxItems,    \* bound: items of the input
  MaxRuns,     \* bound: executions, the retries included
  MaxRenames,  \* bound: records renamed or deleted
  MaxLosses    \* bound: requests and answers that get lost

Deleted == Untold  \* what a record is named that no longer exists

\* An item: an operation and, for each reference, an id (0 for the field's
\* default) and a name.  "plain" is an operation without references,
\* "upload" one with a file, which the item may lack.
Reference == [id : {Unset, 0} \cup Ids, name : {Untold} \cup Names]
Item == [op : {"create", "update", "plain", "read", "upload"}, file : BOOLEAN,
         refs : [Fields -> Reference]]
FieldOrder == SelectSeq(<<"collection", "category", "group", "user">>, LAMBDA f : f \in Fields)

ASSUME ClientAssumption ==
  /\ Fields \subseteq {"collection", "category", "group", "user"}
  /\ Ids \subseteq Nat \ {0} /\ IsFiniteSet(Ids) /\ Ids \cap {Unset, Null, Pending, Refused} = {}
  /\ Inputs \subseteq Item
  /\ {MaxItems, MaxRuns, MaxRenames, MaxLosses} \subseteq Nat /\ MaxItems # 0

VARIABLES
  directory,  \* the name of each record of each kind
  renamed,    \* the kinds changed since the execution took up its item; with `renames`
  renames,
  input,      \* the items met so far: a retry meets them again
  run,        \* the execution: [number, goesOn, item, at]
  resolved,   \* the references of the item at hand
  outputs,    \* the results of the items done, in their order
  effects,    \* how often each item has changed something on the server
  now,        \* the items that have, in this execution
  stops,      \* [item, known]: where executions stopped, and if the answer was known
  straying,   \* requests given up by the node and still on their way
  losses

clientVars == <<directory, renamed, renames, input, run, resolved, outputs, effects, now,
                stops, straying, losses>>

Outcome == {"none", "changed", "partly"}
Resolution == {Unset, Null, Pending, Refused} \cup Ids

ClientTypeOK ==
  /\ directory \in [Fields -> [Ids -> Names \cup {Deleted}]]
  /\ renamed \subseteq Fields /\ renames \in 0..MaxRenames /\ losses \in 0..MaxLosses
  /\ input \in Seq(Inputs) /\ Len(input) <= MaxItems
  /\ run \in [number : 0..MaxRuns, goesOn : BOOLEAN, item : 1..(MaxItems + 1),
              at : {"idle", "next", "resolving", "sent", "answered", "done"},
              outcome : Outcome, fails : BOOLEAN]
  /\ resolved \in [Fields -> Resolution]
  /\ outputs \in Seq([error : BOOLEAN, known : BOOLEAN, outcome : Outcome])
  /\ effects \in [1..MaxItems -> Nat] /\ now \subseteq 1..MaxItems
  /\ stops \in Seq([item : 1..MaxItems, known : BOOLEAN])
  /\ straying \subseteq [item : 1..MaxItems, run : 1..MaxRuns]

Blank == [f \in Fields |-> Unset]

ClientInit ==
  /\ directory \in [Fields -> [Ids -> Names]]
  /\ renamed = {} /\ renames = 0 /\ losses = 0 /\ input = <<>>
  /\ run = [number |-> 0, goesOn |-> FALSE, item |-> 1, at |-> "idle",
            outcome |-> "none", fails |-> FALSE]
  /\ resolved = Blank /\ outputs = <<>> /\ effects = [i \in 1..MaxItems |-> 0] /\ now = {}
  /\ stops = <<>> /\ straying = {}

----------------------------------------------------------------------------
\* The request of an item.

Matches(f, name) == {i \in Ids : directory[f][i] = name}

\* resolveRequiredReferenceId, without the lookup
Required(ref) ==
  IF ref.name # Untold THEN IF ref.id \in Ids THEN Refused ELSE Pending
  ELSE IF ref.id \in Ids THEN ref.id ELSE Refused

\* resolveOptionalReferenceValue, without the lookup
Optional(ref, nullWhenUnset) ==
  IF ref.name # Untold \/ ref.id \in Ids THEN Required(ref)
  ELSE IF ref.id = 0 \/ nullWhenUnset THEN Null ELSE Unset

\* buildIssueMutationBody
CreateBody(refs) ==
  [f \in Fields |-> IF f = "collection" THEN Required(refs[f]) ELSE Optional(refs[f], TRUE)]

\* buildIssueUpdateBody: only the references the item gives.
UpdateBody(refs) ==
  [f \in Fields |->
     IF refs[f] = [id |-> Unset, name |-> Untold] THEN Unset
     ELSE IF f \in {"collection", "category"} THEN Required(refs[f]) ELSE Optional(refs[f], FALSE)]

\* buildIssueRequestConfig
Body(item) == CASE item.op = "create" -> CreateBody(item.refs)
                [] item.op = "update" -> UpdateBody(item.refs)
                [] OTHER -> Blank

\* buildIssueAttachmentFormData: a file to add must be there.
MissesFile(item) == item.op = "upload" /\ ~item.file

----------------------------------------------------------------------------
\* An execution.

\* The workflow runs the node, or retries it after an execution that stopped.
Execute(goesOn) ==
  /\ run.at = "idle" /\ run.number < MaxRuns
  /\ run' = [run EXCEPT !.number = @ + 1, !.item = 1, !.at = "next",
                        !.goesOn = IF run.number = 0 THEN goesOn ELSE @]
  /\ outputs' = <<>> /\ now' = {}
  /\ UNCHANGED <<directory, renamed, renames, input, resolved, effects, stops, straying, losses>>

\* Mutant: an item that failed is taken up again.
ConcludeRepeating(fails, known, outcome) ==
  /\ resolved' = Blank
  /\ IF fails /\ ~run.goesOn
     THEN /\ stops' = Append(stops, [item |-> run.item, known |-> known])
          /\ run' = [run EXCEPT !.at = "idle", !.outcome = "none", !.fails = FALSE]
          /\ UNCHANGED outputs
     ELSE /\ outputs' = IF fails THEN outputs
                        ELSE Append(outputs, [error |-> fails, known |-> known, outcome |-> outcome])
          /\ run' = [run EXCEPT !.item = IF fails THEN @ ELSE @ + 1, !.outcome = "none", !.fails = FALSE,
                                !.at = IF run.item = MaxItems THEN "done" ELSE "next"]
          /\ UNCHANGED stops

\* The end of an item: its output, an error output if the node goes on after
\* errors, or the end of the execution.
Conclude(fails, known, outcome) ==
  /\ resolved' = Blank
  /\ IF fails /\ ~run.goesOn
     THEN /\ stops' = Append(stops, [item |-> run.item, known |-> known])
          /\ run' = [run EXCEPT !.at = "idle", !.outcome = "none", !.fails = FALSE]
          /\ UNCHANGED outputs
     ELSE /\ outputs' = Append(outputs, [error |-> fails, known |-> known, outcome |-> outcome])
          /\ run' = [run EXCEPT !.item = @ + 1, !.outcome = "none", !.fails = FALSE,
                                !.at = IF run.item = MaxItems THEN "done" ELSE "next"]
          /\ UNCHANGED stops

\* The next item.  References that need no lookup are resolved at once, and
\* one that cannot be fails the item; an update may have looked up the
\* references before it, for nothing.
TakeItem ==
  /\ run.at = "next"
  /\ \E item \in IF run.item \in DOMAIN input THEN {input[run.item]} ELSE Inputs :
       /\ input' = IF run.item \in DOMAIN input THEN input ELSE Append(input, item)
       /\ IF MissesFile(item) \/ \E f \in Fields : Body(item)[f] = Refused
          THEN Conclude(TRUE, TRUE, "none")
          ELSE /\ resolved' = Body(item) /\ run' = [run EXCEPT !.at = "resolving"]
               /\ UNCHANGED <<outputs, stops>>
  /\ renamed' = {}
  /\ UNCHANGED <<directory, renames, effects, now, straying, losses>>

Unresolved == {f \in Fields : resolved[f] = Pending}

\* The lookups an item has open: all of a create, the first of an update.
LookedUp ==
  IF input[run.item].op = "create" THEN Unresolved
  ELSE {f \in Unresolved : \E n \in DOMAIN FieldOrder :
          FieldOrder[n] = f /\ \A k \in 1..(n - 1) : FieldOrder[k] \notin Unresolved}

\* resolveReferenceIdByName: the one record of that name.
Resolve(f) ==
  /\ run.at = "resolving" /\ f \in LookedUp
  /\ LET found == Matches(f, input[run.item].refs[f].name)
     IN IF Cardinality(found) = 1
        THEN /\ resolved' = [resolved EXCEPT ![f] = CHOOSE i \in found : TRUE]
             /\ UNCHANGED <<run, outputs, stops>>
        ELSE Conclude(TRUE, TRUE, "none")
  /\ UNCHANGED <<directory, renamed, renames, input, effects, now, straying, losses>>

Loses == losses < MaxLosses /\ losses' = losses + 1

\* A lookup that fails.
MissLookup(f) ==
  /\ run.at = "resolving" /\ f \in LookedUp
  /\ Loses /\ Conclude(TRUE, TRUE, "none")
  /\ UNCHANGED <<directory, renamed, renames, input, effects, now, straying>>

\* ticketingApiRequest
Send ==
  /\ run.at = "resolving" /\ Unresolved = {}
  /\ run' = [run EXCEPT !.at = "sent"]
  /\ UNCHANGED <<directory, renamed, renames, input, resolved, outputs, effects, now, stops,
                 straying, losses>>

\* The server changes something for an item.
Change(i) == effects' = [effects EXCEPT ![i] = @ + 1]

\* The server's answer.  A form refuses references to what does not exist; an
\* update, a series of saves, may fail after some of them.
Serve(outcome, fails) ==
  /\ run.at = "sent"
  /\ LET item == input[run.item]
         dangling == \E f \in Fields : resolved[f] \in Ids /\ directory[f][resolved[f]] = Deleted
     IN CASE outcome = "none" -> fails \/ item.op = "read"
          [] outcome = "partly" -> fails /\ item.op = "update" /\ ~dangling
          [] outcome = "changed" -> ~fails /\ item.op # "read" /\ ~dangling
  /\ IF outcome = "none" THEN UNCHANGED <<effects, now>>
     ELSE Change(run.item) /\ now' = now \cup {run.item}
  /\ run' = [run EXCEPT !.at = "answered", !.outcome = outcome, !.fails = fails]
  /\ UNCHANGED <<directory, renamed, renames, input, resolved, outputs, stops, straying, losses>>

Answer ==
  /\ run.at = "answered"
  /\ Conclude(run.fails, TRUE, run.outcome)
  /\ UNCHANGED <<directory, renamed, renames, input, effects, now, straying, losses>>

\* The answer does not arrive.
LoseAnswer ==
  /\ run.at = "answered"
  /\ Loses /\ Conclude(TRUE, FALSE, run.outcome)
  /\ UNCHANGED <<directory, renamed, renames, input, effects, now, straying>>

\* The node gives up on a request that may still arrive.
GiveUp ==
  /\ run.at = "sent"
  /\ Loses /\ Conclude(TRUE, FALSE, "none")
  /\ \/ UNCHANGED straying
     \/ input[run.item].op # "read"
        /\ straying' = straying \cup {[item |-> run.item, run |-> run.number]}
  /\ UNCHANGED <<directory, renamed, renames, input, effects, now>>

ServeLate(s) ==
  /\ straying' = straying \ {s}
  /\ Change(s.item) /\ now' = IF s.run = run.number THEN now \cup {s.item} ELSE now
  /\ UNCHANGED <<directory, renamed, renames, input, run, resolved, outputs, stops, losses>>

\* Another client renames or deletes a record.
Rename(f, i, name) ==
  /\ renames < MaxRenames /\ renames' = renames + 1
  /\ directory[f][i] \notin {Deleted, name}
  /\ directory' = [directory EXCEPT ![f][i] = name]
  /\ renamed' = renamed \cup {f}
  /\ UNCHANGED <<input, run, resolved, outputs, effects, now, stops, straying, losses>>

ClientNext ==
  \/ \E goesOn \in BOOLEAN : Execute(goesOn)
  \/ TakeItem \/ Send \/ Answer \/ LoseAnswer \/ GiveUp
  \/ \E f \in Fields : Resolve(f) \/ MissLookup(f)
  \/ \E outcome \in Outcome, fails \in BOOLEAN : Serve(outcome, fails)
  \/ \E s \in straying : ServeLate(s)
  \/ \E f \in Fields, i \in Ids, name \in Names \cup {Deleted} : Rename(f, i, name)

ClientSpec == ClientInit /\ [][ClientNext]_clientVars

----------------------------------------------------------------------------
\* Properties.

(* What the node puts out is what became of the item: the k-th output is of
   the k-th item, a result means that the server has done what it was
   asked to, and an error whose answer arrived that it has not, except for
   part of an update (Issue.node.ts:773-806, controllers.py:236-257). *)
OutputsTellWhatHappened ==
  /\ run.at \in {"next", "done"} => Len(outputs) = run.item - 1
  /\ \A k \in DOMAIN outputs :
       /\ ~outputs[k].error /\ input[k].op # "read" => k \in now
       /\ outputs[k].error /\ outputs[k].known /\ input[k].op # "update" => k \notin now

(* An item changes the server more than once only for an execution that
   stopped later, or at that item without knowing what had become of it;
   a node that goes on after errors never repeats one
   (Issue.node.ts:789-804).  An update that fails halfway is repeated too. *)
OnlyRetriesRepeat ==
  \A i \in 1..MaxItems :
    effects[i] <= 1 + Cardinality({n \in DOMAIN stops :
      \/ stops[n].item > i
      \/ stops[n].item = i /\ (~stops[n].known \/ input[i].op = "update")})

(* A request names the record the item did: unless records of that kind have
   been changed since, the id it carries is that of the only record so named
   (Issue.node.ts:481-514). *)
IdsAreOfTheNames ==
  run.at \in {"resolving", "sent"} =>
    \A f \in Fields \ renamed :
      input[run.item].refs[f].name # Untold /\ resolved[f] \in Ids =>
        Matches(f, input[run.item].refs[f].name) = {resolved[f]}

(* The node tells the workflow what it did, to the records the items named, and
   does it once. *)
ExecutionsAreTrue == OutputsTellWhatHappened /\ OnlyRetriesRepeat /\ IdsAreOfTheNames
=============================================================================
