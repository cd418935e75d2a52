# Verification of the ticket system

TLA+ modules that model the ticket system's own logic, configurations that
model-check them with TLC, and theorems about them that the TLA+ proof system
checks. Paths below are relative to the repository; `D` stands for
`src/webapp/djangoapp`.

| file | what it is |
|---|---|
| `IssueTable.tla` | reading and renumbering the issue table: the queries and helpers the next two share |
| `IssueBoard.tla` | the issue table and every handler that writes it, one request at a time |
| `IssueRequests.tla` | the requests of several workers on the issue table, statement by statement |
| `IssueRequestsAlone.tla` | that requests which follow one another implement `IssueBoard` |
| `BoardOrder.tla` | what the board promises, without numbers: one ordered list per band |
| `IssueTableProofs.tla` | lemmas about ranks and renumberings, for the next two |
| `IssueBoardProofs.tla` | theorems of `IssueBoard` |
| `IssueRequestsProofs.tla` | theorems of `IssueRequests` and `IssueRequestsAlone` |
| `BoardOrderProofs.tla` | the theorem of `BoardOrder` |
| `WebhookDelivery.tla` | threads and commands that deliver webhook events, statement by statement |
| `WebhookDeliveryProofs.tla` | theorems of `WebhookDelivery` |
| `IssuePollTrigger.tla` | the polling trigger of the n8n node and the rows it lists |
| `IssueNumbering.tla` | collections, categories and the numbers of issues |
| `Directory.tla` | users, groups, memberships, rules and the instance reset |
| `ProfileAvatar.tla` | a user's profile and its avatar file |
| `IssueQueries.tla` | the filters, columns and order of the board and the issue list |
| `DraftAttachments.tla` | uploads in the create form, and their way into the issue |
| `AttachmentFiles.tla` | attachments, their files and their history |
| `IssueHistory.tla` | the history of an issue's fields, and its transitions |
| `CommentMentions.tla` | comments, mentions and the event of a comment |
| `MarkdownRendering.tla` | blocks and references of a markdown text, in several threads |
| `BoardPages.tla` | board events, and the pages that follow them |
| `IssueEditor.tla` | the markdown editor: previews, suggestions, uploads |
| `ApiClients.tla` | executions of the n8n action nodes |
| `DataMigrations.tla` | the data migrations of the app core, with the board in use between them |
| `HealthChecks.tla` | the public health endpoint and the status page |
| `InstanceProofs.tla` | theorems of `IssueNumbering`, `Directory`, `ProfileAvatar`, `IssueQueries`, `DataMigrations`, `HealthChecks` |
| `IssueRecordsProofs.tla` | theorems of `CommentMentions`, `IssueHistory`, `AttachmentFiles`, `DraftAttachments`, `MarkdownRendering`, and of the composition `MCRecords` |
| `ClientsProofs.tla` | theorems of `IssuePollTrigger`, `BoardPages`, `IssueEditor`, `ApiClients`, and of the composition `MCClients` |
| `MCRecords.tla`, `MCClients.tla` | one instance each for the eleven modules around the table, and for the four clients |
| other `MC*.tla`, `*.cfg` | the instances TLC checks |
| `PROJECT.json` | components, runs, mutants, the map from definitions to source lines, findings, hazards, theorems |

Run `tlc -config IssueBoard_order.cfg MCIssueBoard` (likewise the others) and
`tlapm IssueBoardProofs.tla`.

## 1. The system

The product is a Django application over PostgreSQL, served by several gunicorn
workers with several threads each (`deploy/containers/webapp`), with a REST API,
a browser frontend, a Python SDK and an n8n node package around it. There is no
`ATOMIC_REQUESTS`: outside an explicit `transaction.atomic` each statement is its
own transaction, at isolation level READ COMMITTED.

| component | state | operations | interacts with |
|---|---|---|---|
| issue board (`D/core/models/issue.py`, `D/core/controllers/issue_controller.py`, `D/user_interface/controllers.py`) | rows of `core_issue`: workflow state, priority, board position, archive fields, group, user | create, update, describe, comment, archive, move, and the admin's edit and delete; `_normalize_band`, `_insert_into_band`, `_get_next_board_position` | assignment rules, history, webhook events, the board event broker |
| assignment (`auth_user_groups`, `WorkflowStateAutoAssignmentRule`) | memberships; one active rule per state | group and user administration, rule administration | read by `Issue.clean` on every save and by every transition |
| webhook events (`D/core/controllers/webhook_controller.py`) | `WebhookEvent`: type, payload, target endpoints, delivery status | created by the handlers above, inside a transaction; on commit starts a thread | webhook delivery |
| webhook delivery (`D/core/controllers/webhook_delivery_controller.py`) | `WebhookEndpoint`, `WebhookEvent.delivery_status`, `WebhookDeliveryAttempt` | a daemon thread per event; the management command `process_webhook_deliveries` | receivers, through HTTP; nothing else retries |
| n8n poll trigger (`src/n8n_node/nodes/IssuePollTrigger`) | watermark and the ids at it, in the workflow's static data | one poll: list, filter, sort, move the watermark, load details, emit | the REST API's issue list |
| n8n action nodes and transport | the items of an execution | look up references, send one request per item, go on or stop on an error | REST API; n8n retries |
| n8n webhook trigger; Python SDK | none | filter or make requests | REST API |
| users, groups and rules (`D/rest_api/api.py`, `user_controller.py`, `group_controller.py`) | `User`, `Group`, memberships, rules | management requests of superusers | read by the issue board |
| board queries (`build_board_context`) | none | filter, order, build columns | read by pages and the poll trigger |
| markdown (`issue_markdown.py`) | attributes of a function, shared by threads | cut into blocks, resolve references | drafts, attachments, users |
| markdown editor (`static/js/issue-markdown-editor.js`) | text, cursor, timers, requests on their way | previews, suggestions, uploads, templates | the frontend's JSON views |
| profiles (`D/user_interface/models.py`) | `UserProfile`, its avatar file | save settings, language | file storage |
| issue history (`issue_history_controller.py`) | `IssueHistoryEvent`, `IssueStateTransition` | snapshots before and after a change are compared | called by the update, archive, move and attachment handlers |
| comments and mentions (`issue_comment_controller.py`, `core/signals.py`) | `IssueComment`, `IssueCommentMention` | create and update a comment; mentions are re-derived on save | webhook event `issue.commented` |
| attachments and drafts (`issue_attachment_controller.py`, `_materialize_draft_attachments`) | rows and files of attachments and of drafts | upload, update, delete; drafts become attachments when the issue is created | file storage, which takes no part in transactions |
| issue numbers (`Issue.save`, `collection_controller.py`) | `Collection.prefix`, `next_issue_sequence`, `Issue.issue_number` | number an issue under a row lock; edit a collection | REST API, admin |
| board events (`D/user_interface/board_events.py`, `static/js/kanban-dnd.js`) | subscriber queues of one process; the HTML a browser shows | publish, stream, refresh, drag and drop | the frontend's views publish, most REST handlers do not |
| instance reset (`instance_reset_controller.py`) | everything | delete all but one user | file storage |
| data migrations (`D/core/migrations`) | the schema, issues, transitions, rules | number issues, fill in positions, merge states | run by `manage.py migrate` before the web server starts |
| health checks (`D/healthchecks`) | none; the cards a status page shows | run one check or all, one after the other | database, cache, webhook endpoints; monitoring clients and status pages |
| REST API, frontend views and forms, admin, branding, scripts | | routes and forms in front of the above | |

What is hard in this code:

* *Sequences of legal requests.* Positions are renumbered lazily. Create takes a
  maximum over archived rows too, archiving closes gaps, the admin changes a
  band without a position. Every renumbering starts from what the others left.
* *Checks that are repeated later.* `Issue.save` runs `full_clean`, so a
  membership that was revoked makes saves fail that have nothing to do with it:
  a sibling that is renumbered, a comment that touches the issue.
* *Several transactions in one handler.* `update_issue` commits the fields, the
  transition and the position separately, and tells history and webhooks last.
* *Concurrency without locks.* Delivery threads and commands read the latest
  attempt, post, insert, and refresh a status from older reads. Requests save
  whole rows that they loaded earlier, and renumber bands from rows they read
  before others have committed.
* *Two clocks, two orders.* Rows are stamped when they are saved and seen when
  they are committed; a client compares both milliseconds and microseconds.
* *Files beside the database.* They are moved and deleted inside transactions
  that may still roll back, or after the row that names them was read.
* *Answers out of order.* Pages, editors and workflows have several requests on their
  way, and use an answer in a state that is not the one it was asked in.

`PROJECT.json` lists each hazard at its line with the properties that watch it.

## 2. What is modelled, and how

The modules fall into three groups. The *issue table* (`IssueTable`, `IssueBoard`,
`IssueRequests`, `IssueRequestsAlone`, `BoardOrder`) and *webhook delivery* are the
core. The *records* around the table
(eleven modules, composed in `MCRecords`) share no state with one another beyond what a
foreign key says, so each models the neighbours it needs by the little it sees of
them. The *clients* (four modules, composed in `MCClients`) talk to the server and
model it by what it answers.

### IssueBoard

State: `issues` is the table by primary key (only the fields that the board and
the assignment read), `nextPk` the sequence, `members` and `rules` the
configuration, `last` the answer of the last request with the webhook events it
committed. Each handler is one action: `CreateIssue`, `UpdateIssue`,
`AddIssueComment`, `ArchiveIssue`, `MoveIssue` (frontend and REST API share
them), `AdminEditIssue`, `AdminDeleteIssue`, and `SetMembership` and `SetRule`
for the administration of what they depend on. A request that fails keeps what it
had committed: an update may have saved its fields and its transition (three
disjuncts), a comment stays although `touch` fails, and move, archive and the
admin roll back. `NormalizeBand`, `InsertIntoBand` and `NextPosition` (in
`IssueTable`) and `Rehome` are the controller's own helpers, as functions from
tables to tables; `Saveable` is `Issue.clean`, and `Renumberable` says that every
row a renumbering saves passes it.

Abstractions: titles, texts, categories, collections, escalation and timestamps
are left out, creation time is the primary key (the tie-break
`created_at, pk`), and the request's user plays no role. A request may index
beyond the end; a negative index does not occur, since the views replace it by 0
(`views.py:53`, `rest_api/api.py:1261`).

`BoardOrder` is the abstract specification: bands hold ordered lists, and a step
appends, places or removes one issue. `IssueBoard!ImplementsBoardOrder` maps
`board_position, created_at, pk` of the live rows to that order.

### IssueRequests

The same table and the same helpers, but a request is a sequence of statements,
and several `Workers` execute theirs at once. `rows` is what is committed,
`pending[w]` the rows that the transaction of worker `w` has written, which it
also locks, and `run[w]` what its request remembers: the instance `mem` as it was
loaded (`Loaded`, `get_issue`), the row `orig` that the handler compares with, and
`todo`, the positions a renumbering has computed and not saved yet. An update is
`StartUpdate` (the form writes into the instance), `ReadOriginal`, `SaveFields`
(all columns, committed at once), `Transit` (a transaction of its own), and then
the transaction of `sync_board_position`: `Vacate`, `SavePosition`..., `Occupy`,
`SavePosition`..., `Commit`. A move is one transaction from `Transit` to `Commit`,
an archive from `SaveArchived` to `Commit`; a create reads the next position before
it inserts. A whole-row save replaces the row; `save(update_fields=...)` sets its
column in the row as it is by then. `Write` waits for the lock; `BreakDeadlock`
aborts a worker of a circle (`Circle`: however a set of workers is cut in two, each
side waits for the other; who merely waits behind one is not aborted), `Crash` ends a
request anywhere, and both roll back what is not committed.

Abstractions: only state, priority, position and the archive flag; assignments,
and so `full_clean`, are left to `IssueBoard`; history and webhook events, which
follow the last transaction, are part of the step that ends it; the collection's
row lock, which orders the inserts of creates, is held within `Insert` alone.

`IssueRequestsAlone` adds a history variable `settled`, the table as it was when
the last request ended, and maps it to `IssueBoard`: as long as each request is alone
(`Alone`: the next one, of whichever worker, begins when the last has ended), the
statements of each handler amount to the handler's action. The run checks it on two
workers, three issues and five requests; `AloneImplementsBoard` proves it for any number.

### WebhookDelivery

One step is one statement or one HTTP request. A *run* is the thread of an event
or an execution of the command: `Load` reads event and enabled targets, `Decide`
and `Number` read the latest attempt twice, `Post` is the request, `Record`
inserts the attempt (and dies on a number that is taken: unique constraint),
`SaveEndpoint`, and then `Refresh`, `ReadSuccesses`, `Judge` and `SaveStatus` are
the four statements of `_refresh_event_delivery_status`. `run[r]` holds what the
run has read and not used yet. `Crash` ends a run anywhere (daemon threads end
with their worker), `PostBreaks` is an answer that raises outside the handler's
`try`, `Toggle` is the admin, `BackoffElapses` the passing of
`retry_backoff_seconds`.

Abstractions: an endpoint that is not subscribed is as good as absent; payloads,
headers, signatures and durations are left out; endpoints are not deleted and keep
their `max_retries` while an event is on its way.

### IssuePollTrigger

`Save` stamps an issue and `Commit` makes it visible, possibly out of order.
`Fetch` is the trigger's request; `RecordOnly` and `Emit` are the rest of a poll,
which moves the watermark and then loads details, where it may fail. A time
counts microseconds; `Date.parse` keeps `TIME div TicksPerMs`. `profile` is the
node's configuration and whether commits may be late. `seen` and `output` record
what was emitted, for the properties.

### IssueNumbering

`collections` and `categories` are rows, `issues` every issue ever created with its
collection, category and number. A creation loads and validates its collection in
the form (`StartIssue`) and numbers the issue in the transaction of `Issue.save`,
which locks the collection and reads it again (`NumberIssue`, or `RefuseIssue` if the
number is taken). `StartCollectionEdit` and `SaveCollectionEdit` are the
`ModelForm` of the API: a whole row, `next_issue_sequence` included, loaded before
and saved later, so it may be stale. `rewound` remembers the prefixes whose next
number such a save has set back.

### Directory

A management request is `BeginRequest` (authentication, form), then the save of the
row, then the save of the memberships, each its own transaction; requests of several
workers interleave, and a save inserts a row that has been deleted meanwhile again,
as `Model.save` does. `DeleteGroup` respects `PROTECT`; `ResetDirectory` is the one
transaction of `InstanceResetController.reset`. The issue is the pair `holder`.

### ProfileAvatar, AttachmentFiles, DraftAttachments

Rows beside files. Files are numbered as they are stored, because the storage never
gives a name twice. `UserProfile.save` is three steps: look up the previous file, save
the row, delete the file looked up. An attachment request loads a row, stores a file,
saves the row, touches the issue and records the change, each a step; the reset is one
transaction whose files are deleted after the rows, before it commits. A creation
copies each draft of its token and deletes it, row and file, in one transaction: a
failure brings the rows back, not the files. `left` is the set of drafts still to do,
of which the oldest comes first (`Works`). Tabs of one session share the token, and a
creation that commits takes it from the session, so that the forms still open upload
under another one than they submit; either way the token is `shared`. In all three
modules a request may end between any two steps.

### IssueHistory

A handler is `ReadOriginal` (its snapshot), `SaveRecord` (all columns), `Transit` (the
move's or update's transition, with what a rule changes) and `Tell` (the history).
The description form has written into the instance before the snapshot is taken
(`BeginDescribe`). Values 0 and 2 differ in white space only, which the history
strips; `told` is the value the history of a field ends with.

### CommentMentions

`AddComment` commits the comment; the `post_save` handler is `Prune` and
`AddMentions` (one transaction, from a set of rows and users that was read before)
and, for a new comment, `Announce`; `TouchAndAnswer` or `TouchRefuses` end the
request. Users are renamed at any time. A dashboard lists comments by mention rows.

### IssueQueries

The table is filled in any order, a query gives up to two parameters, each absent,
parseable or not, and `AskBoard` is `build_board_context`: the filters in their order,
`Sorted` by priority, position and primary key, and the columns. `Sorted` is chosen as
a function that has the rows in order, which any correct sort returns. `Listed` is the
flat list the API reads off the columns. `Matches` is the reference definition,
written from the parameters' meaning alone.

### MarkdownRendering

A thread consumes a text line by line (`ConsumeLine` builds the blocks by
`InBlock`), hands the draft token and the user over as attributes of a function
(`GiveDraftToken`, `GiveUser`: two assignments, which other threads may come
between), reads them back (`LookAtToken`) and resolves the reference.

### BoardPages

The server commits a change (`CommitChange`), copies the subscribers of its process
(`CopySubscribers`) and puts an event into each queue (`PutEvent`). `loud` says
whether the handler publishes at all. A page refreshes for each event: it looks up
the board on display, asks, and replaces that element if it is still on display
(`attached`); in any case it binds the listeners again (`bound`), so one drop may be
posted several times. A rejected move finds no card and ends in a `TypeError`.
Processes die with their queues, streams break, refreshes fail.

### IssueEditor

The text is a sequence of pieces and a cursor. Previews are debounced on input and
asked at once after an insertion; answers are shown as they come. Suggestions carry
the range that was measured when they were asked for; choosing one replaces that
range in the text as it is by then, with JavaScript's `slice`, which clamps.

### ApiClients

An execution takes items one by one: references by id or name are looked up one
after the other (`Resolve`), the body is built (`CreateBody`, `UpdateBody`: absent, null
and a number are three things), the request is served or lost (`Serve`, `LoseAnswer`,
`GiveUp`; a request given up may still be served, `ServeLate`), and `Conclude` puts an
output out, goes on after an error or stops. `Execute` is n8n starting the node, again
after a stop (external).

### DataMigrations

Each migration with data is an action that sets `schema` to its number; what is
between two of them is the board in use, by a version of the program that the
repository no longer holds: `MoveTask`, `ArchiveTask` and `SetTeam` may leave anything
that the columns of the time can hold. `PlaceIn` is the `enumerate(..., start=1)` of a
query's order, `Renamed` and `RulesRenamed` are the updates that take a state out of
issues, transitions and rules.

### HealthChecks

A request of a prober runs its checks one after another (`CheckDatabase`,
`CheckMigrations`, `CheckCache`, `ReadEndpoints` and one `AskEndpoint` for each), while
`WorldShifts` changes what they look at. The status page asks for one card at a time:
each answer asks for the next (`AnswerCheck`), the last for the summary. `trouble` is a
history variable: what was wrong all the time, and at some time, since the request.

## 3. What TLC checks

| run | shows | size |
|---|---|---|
| `board_order` | whatever requests and admin edits came before, positions stay bounded, bystanders keep their order, moves land at their index and leave dense bands, newcomers go last (`SubjectLandsInPlace`), successful requests make no ties, and the numbering implements `BoardOrder` | 3 issues, 2 states, 2 priorities (symmetric); 72,047 states |
| `board_assign` | types; only a revoked membership leaves a user outside the group; a failed request writes at most its own issue; `issue.closed` comes with exactly the transitions into CLOSED, and a success announces its changes (`EventsTellChanges`) | 2 issues, 2 states, 1 group, 1 user |
| `requests_overlap` | types; however requests overlap, no position exceeds the number of issues and an issue is only in states it was created in or a stored transition took it to (`StaleWritesStayInBounds`), renumbering changes nothing but positions, and nothing is undone but by the whole-row save of a request that was overtaken; a deadlock aborts only renumberings, after fields and transition are stored, and leaves nobody waiting for ever (`DeadlocksCostPositionsOnly`) | 2 workers, 3 requests, 1 crash, 3 issues, 2 states; 1,628,268 states |
| `requests_alone` | the statements of requests that follow one another implement `IssueBoard` | 2 workers (symmetric), 5 requests, 3 issues, 2 states, 2 priorities; 400,000 states |
| `requests_lifecycle` | *violated*: with two workers a whole-row save takes a transition back, and nothing is stored | |
| `delivery` | types; at most `max_retries` plus the number of runs attempts; success and failed mean what they say, although statuses are written from old reads (`FinalStatusIsTrue`); under fairness each status becomes true and final, but for a success that was concluded while a target was disabled (`EventuallySettled`) | 1 event, 2 endpoints with 0 and 1 retries, 1 command, 1 crash, 2 toggles, 1 breaking endpoint; 2,129,100 states |
| `delivery_starve` | *violated*: an answer that cannot be recorded keeps every run from the next endpoint | |
| `records` | see below | sum of the eleven components; 2,440,742 states |
| `clients` | see below | sum of the four components, the poll with two ticks in a millisecond; 2,240,378 states |
| `poll_again` | *violated*: two issues of one millisecond, and one of them is emitted for ever | |
| `attachment_rename` | *violated*: describing an attachment anew replaces its file name by the storage path | |
| `draft_references` | *violated*: a creation ends the session's draft token while another tab's form has it; what that tab uploads next gets another token than it submits, so its issue keeps a reference to a draft that stays staged | |

`records` and `clients` check one component in each behaviour: the variable `part`,
chosen initially, says which, and the others stay as they were. Their properties,
each the conjunction of the parts its module names:

| property | says |
|---|---|
| `NumbersAreFresh` | a number is never given twice and no creation is refused for its number, unless somebody has set the next number of that prefix back |
| `DirectoryIsConsistent` | memberships, rules and the issue refer to rows that exist, through deletions, revivals and resets; a rule names a member, or somebody who was one |
| `AccountsFollowRequests` | users and groups appear only by a creation or a save that was overtaken; the last active superuser is lost only by a request about an account, or by a reset that was overtaken |
| `AvatarFollowsProfile` | the profile's file exists, also after a crash, and is the only one, if saves do not overlap |
| `ListIsOfMatches` | the filters in their order amount to the conjunction of what the parameters mean; the list is ordered, with each match once |
| `IssuesInheritDrafts` | attachments keep their files whatever other creations do; references are rewritten and no file stays behind, if the token was neither shared by two forms nor taken from the session while one had it |
| `FilesFollowRows` | a row that nobody deletes has its file; only replaced files remain; each upload is in the history |
| `HistoryIsTrue` | the history of each field ends with its value and has no gaps, the transitions with the state |
| `CommentsReachReaders` | mention rows follow the last text; a comment is announced once and before its request is answered |
| `RenderingIsFaithful` | blocks are the longest runs of lines that belong together; drafts are linked for their session only, unless threads interfere |
| `MigrationsKeepTheBoard` | migrations number and place issues in the order they had, merge two columns without reordering either, keep each issue's chain of transitions, and leave no state that is gone |
| `HealthAnswersAreTrue` | 200 only if nothing was wrong all the time, 503 only if something was at some time; cards and summary come in order, and stop only for want of the database |
| `PagesComeToAgree`, `PagesNeverGoBack` | a page at rest lacks only the changes that it can have missed, each way of missing named, and only cards of rejected moves are astray; no reordering of answers takes it back |
| `PreviewShowsText`, `ChoiceKeepsText` | the newest answered preview is of the text; a suggestion replaces only the reference it completes |
| `ExecutionsAreTrue` | outputs tell what happened to their item; an item is done again only by a retry; an id is that of the record named |
| `RepeatsWithinMillisecond`, `EmitsEveryOrderlyChange` | the poll trigger emits a version again only while the watermark is below it within one millisecond, whatever commits late or fails; with orderly commits and no failures it emits every change |

The exceptions in these properties (`rewound`, `overtaken`, `overlap`, `shared`,
`crossed`, `mixed`, `raced`, `renamed`, `missed`) are history variables set by the
interleavings that the code does not guard against: without them the properties fail,
and each says exactly what the code relies on.

Why the bounds are enough. Renumbering compares pairs of issues and treats the
request's issue apart: three issues make two bystanders and one subject, in one
band or in two, with gaps from a deleted or moved third issue, and two bands meet
in every way a handler relates them (the old and the new). Failures need one
stranded sibling. Two workers overlap in every order, a third request can build on
what the first two left (a tie, an undone archive), and one request may die in the
middle. A delivery has one thread and any number of commands; one
command that may start again overlaps the thread in every order, two endpoints
are enough for one to succeed while the other does not, and one crash may come
anywhere. The poll compares two issues; the next poll is the second that may lose
one. In `records` two requests overlap (two creators and an editor, two savers, two
tabs, two handlers, two threads), with as many writes as let a third party build
on their outcome: two numbers under one prefix and a collection that is renamed,
three management requests, three avatars, two drafts of two tokens, three stored
files of one attachment, two writes of one issue, two handles and two persons that
exchange them, three lines (a run, and what ends it), two rows under two
parameters, three tasks in one priority (two that merge and one between them) with two
uses of the board, one prober with two endpoints of which one fails and two changes
while its checks run. Two creations of a session and a third token show what becomes of
the forms that one of them leaves behind. In `clients` two processes, two handlers and one page have two changes
and two moves, so that two refreshes overlap while a card is dragged and one of them
fails; the editor has three edits and two previews; an execution has two items and
one retry.

Deadlock is not checked: the system stops by itself when the bounded counters
(every constant named `Max...`) are used up or all events are delivered.

Fairness (`delivery`, `delivery_starve` only). Weak fairness of a run's
steps: a thread is scheduled. Of `BackoffElapses`: time passes. Of `StartCommand`:
nothing in the code retries, so a delivery heals only when the operator runs the
documented command again and again; the assumption says so. `Crash`, `Toggle` and
`CreateEvent` are not fair. `EventuallySettled` speaks of the behaviours in which, from
some time on, nobody switches an endpoint and no answer breaks a run (`ComesToRest`):
`delivery_starve` shows what happens if answers break runs for ever. Before that,
endpoints may be switched in any order. What a refresh concludes while a target is
disabled is the one thing that does not heal: if it is a success, no command comes back
to the event when the target is enabled again. The property exempts these successes, and
no others (`Forgotten`: an enabled target that was disabled once has not accepted what
is marked a success); the bound of two toggles lets one endpoint be disabled and
enabled again, or both be disabled, at any two steps of the runs.

What the violated runs say is in `PROJECT.json`, each with the sentence of the
documentation that the code does not keep.

Known divergences that no run shows, because the modules have them as the code does:

* An endpoint that is disabled while a status is refreshed counts as served, and stays
  so when it is enabled again: `docs/development/webhook-delivery.md:118` wants all
  target endpoints (`webhook_delivery_controller.py:31, 68, 229`). `FinalStatusIsTrue`
  speaks of the targets that were not disabled since the event exists, and
  `EventuallySettled` says that this is the only way to a status that stays untrue.
* A first poll of an empty list leaves the watermark unset, so the next one swallows
  the first issues (`IssuePollTrigger.node.ts:126`; `docs/user/n8n-node-reference.md:403`).
  A poll also loses a row that commits late, and changes whose details failed to load.
* Rejected issues have no column, and so are not in the list either, whatever is asked
  for (`controllers.py:31-39`; `docs/user/n8n-node-reference.md:181-182`).
* The drafts of a creation that failed are kept as rows, but those already copied have
  lost their files (`controllers.py:734-736`;
  `docs/development/issue-lifecycle-and-attachments.md:91`).
* An endpoint list that cannot be read breaks the webhook check outside of any `try`
  (`checks.py:142`), so that a lasting outage of the database makes the public endpoint
  answer 500 and not 503, and ends the status page's chain of cards although
  `status.html:30` says that one failure does not block the remaining checks.
* Migration 0012 turns DUPLICATE into REJECTED without numbering the band anew, unlike
  0010, so that positions may tie until something renumbers the band.
* A rejected move leaves the card where it was dropped until the next refresh
  (`kanban-dnd.js:324`).

## 4. What is proved

Each theorem holds for all values of the constants that the module's
assumption on them allows (TLC evaluates it in every run), and for behaviours
of any length. The assumptions say that bounds are numbers, that what is drawn from
a set of shapes has that shape, and that the constants which stand for "nothing" are
none of the values they are told apart from; where one says more, it is named below.

### IssueTable, IssueBoard, BoardOrder

| theorem | of |
|---|---|
| `TypeCorrect`, `PositionsStayBounded` | `TypeOK`, `PositionsBounded` |
| `OrderPreserved` | `BystandersKeepOrder` |
| `AssignmentsStayValid` | `OnlyRevocationStrandsUser` |
| `FailuresSpareOthers`, `EventsAreTrue` | `FailureTouchesOnlySubject`, `EventsTellChanges` |
| `NoTiesFromRequests`, `SubjectsLand` | `RequestsKeepDistinct`, `SubjectLandsInPlace` |
| `BoardImplementsOrder` | `ImplementsBoardOrder`, the refinement of `BoardOrder` |
| `BoardIsOrdered` (`BoardOrderProofs`) | each band of the abstract board is a strict total order |

`PositionsBounded` alone is not inductive: that a renumbered position is at most
the number of rows needs that the rows are among `1..nextPk-1`, which is in
`TypeOK`; the invariant is `IInv == TypeOK /\ PositionsBounded`. The argument goes
through tables and not through handlers. `Table` says that a table is well formed,
and bounded by `nextPk-1`; lemmas show that `NormalizeBand`, `InsertIntoBand` and
`Rehome` map such tables to such tables, from two facts about `Rank`: it is at most
the number of siblings, and it is strictly monotone in `Precedes`. `Renumbers`,
`KeepsOrder` and `Rewrites` say that a helper changes positions only, but in the
subject's row, and swaps no two other rows; they compose, which is how `UpdateIssue`
and `MoveIssue`, which renumber two bands in turn, are done. For assignments the same
composition has `Validated`: each row of the new table is assigned as in the old one,
or in a way that `Issue.clean` has accepted.

That an issue lands at its index, and leaves no gaps, counts: the ranks of a band are
a bijection onto `1..n`, because they are distinct and at most `n` (`Dense`), so the
number of issues displayed above the one at position `k` is `k - 1`
(`DisplayIndex`). The answers are a case analysis over handlers: `Tells` is the
conjunction of what the action properties say of one step, proved for each.

For the refinement, `OneMoves` says that a step changes one issue's place at most, and
`Follows` that whatever does so is a step of `BoardOrder`: the issue goes, or comes at
the end, or has as many of its band above it as the abstract action places it below
(`AboveIt`). With `BoardIsOrdered` it says what viewers may rely on.

### IssueRequests

`RequestsTypeCorrect`, `StaleWritesAreBounded`, `OnlySubjectsChange`,
`UndoingTakesOverlap` and `DeadlocksEnd` (of `TypeOK`, `StaleWritesStayInBounds`,
`OnlySubjectChanges`, `UndoingNeedsOverlap`, `DeadlocksCostPositionsOnly`), and
`RequestsEnd`, for any number of workers.

The invariant is `RequestsInv`. A position can be written long after it was computed,
so the bound is about everything that will be written: positions that a request
remembers, has still to save (`PositionsFit`) or has saved without committing
(`WritesFit`) are at most the number of rows, which never shrinks. What a transaction
has written differs from the table in positions only, except in the request's own
issue. `Knows` is what an update or a move that nobody has overtaken may assume when it
overwrites a row: the archive flag is the one it has loaded, and so is the state. It
holds because the step that publishes another request's rows marks those that have
read them (`overtaken`). The two action properties follow from it by `Honest`, which says of each
committed row by whom it was changed and why.

The deadlock has two parts. Who waits in a circle holds a lock that another wants, so its
transaction has written, and `Stores` says for each statement what is committed by then:
a request that has written without committing is past its fields and its transition, and
an update that nobody has overtaken finds them in the table. That somebody goes on
is about graphs: of requests that wait for nobody but each other there is a least closed
set (`LeastClosed`; workers are finitely many), which is a circle and no single worker,
as nobody waits for itself (`OwnersWrote`). `RequestsEnd` adds that going on leads
somewhere: a request has six stages at most, and in each of them the positions it has
still to save are of different issues (`SavedOnce`), so that `StepsLeft` falls with each
of its statements, from `6 * (MaxIssues + 1)` at the start, and no other request raises
it. So no set of requests waits for itself for ever, and none that may run is endless.

`AloneImplementsBoard`, of `ImplementsIssueBoard`: while no request dies, and from an
empty table, every behaviour in which requests follow one another is one of `IssueBoard`
under the mapping of `IssueRequestsAlone`, for any number of workers. The hypotheses are
what the claim is about: a second request meanwhile, or a death between two transactions
of an update, makes the claim false, and `IssueBoard` begins with no issue. `SerialInv`
has `AloneInv` of each worker whose request is, or would be, alone; who steps next is then
no matter, since a worker that has ended its request remembers nothing. The steps of a
request are stutters until the one that ends it, so `AloneInv` has to say at each of them
what will have come of the table as it was `settled` before. It names the tables on the way: the one with the subject's row
as the request leaves it (`Left`), then with the band it was in closed up (`ClosedUp`),
then with room for it where it goes (`Goal`). While a renumbering is under way, `Reaches`
says that what the worker sees and what it has still to save amount to the next of them;
each saved position is one less to save (`ReachesOn`), and with none left it is reached
(`ReachesEnd`). That the position of the subject does not count when a band makes room
for it (`InsertMoves`) is why it does not matter that `sync_board_position` sets it to 0.
The last step is then the handler's action, operation by operation (`BoardCreates`,
`BoardUpdates`, `BoardArchives`, `BoardMoves`), since the helpers of `IssueBoard` on the
mapped table are those of `IssueTable` on the table (`SameHelpers`, `MappedNormalize`,
`MappedInsert`).

### WebhookDelivery

`TypeCorrect`, `AttemptsStayBounded`, `FinalStatusTrue` (of `TypeOK`,
`AttemptsBounded`, `FinalStatusIsTrue`), and `RunsEnd`.

The bound is not inductive, for it says nothing of the runs that have decided to
attempt and have not inserted yet. `Room` does: once there are more attempts than
`max_retries`, the attempts and the runs on their way to one (`Makers`) together
are at most the limit plus the deliverers of the event. A run joins the `Makers`
only while the latest attempt allows it, and then the deliverers themselves are
the room; afterwards each insertion turns a maker into an attempt. `RunsOK` says
what each run works on, so that makers are deliverers. For the statuses,
`RunsInformed` says that what a run has read for the refresh is still true when it
is used: its targets are those of the event, the successes it has counted are
there, its verdict holds. Other runs cannot spoil that, because attempts are only
added and `Truth` only grows with them (`Grows`). Endpoints may be switched at any
time: `FinalStatusIsTrue`, and these invariants, speak of the targets that have been
enabled since the event exists (`Steady`). The history variable `off` remembers the
others; it only grows, so that a target which is steady when a status is written was
among those of every read before.

`RunsEnd` is the part of `EventuallySettled` that needs no fairness: no run goes on for
ever. `StepsLeft` counts the statements that a run takes at most: five for each target
still to do, those after the last target, and as many again for each event in its queue.
Each of its steps makes the count smaller, one that skips a target and its death
included; no step of another run or of the administrator changes it; and a run that has
ended starts again with at most all events. So neither new events nor switched endpoints
keep a command busy, whose queue is the list it has read at the start.

### The clients (`ClientsProofs`)

*IssuePollTrigger.* `RepeatsAreHidden` and `OrderlyChangesEmitted`, of
`RepeatsWithinMillisecond` and `EmitsEveryOrderlyChange`, for any number of ticks in a
millisecond. `sortIssues` orders by id what `Date.parse` cannot tell apart, and
`updateWatermark` takes the text of the last one, with which `isNewIssue` compares texts;
so the watermark may be below a version of its own millisecond that was emitted, which
`poll_again` shows to be emitted again. That nothing else is, is the theorem. The
invariant says that whatever was seen and is still listed is covered by the watermark,
or later in its millisecond, before a poll and while it waits for its answer
(`Covered`), and that a version that was replaced does not come back (`NoNewer`,
`StagedIsLast`), which makes it harmless that the watermark follows the list back. For the second theorem `OrderlyInv` says the
reverse: what was not seen is later than the watermark, and later than everything that
a poll under way was sent.

*BoardPages.* `PagesGoForward` and `PagesAgree`, of `PagesNeverGoBack` and
`PagesComeToAgree`. `ReadsInv`: a refresh has read a board that is at least the one it
was asked about, and at least the one on display as long as its element is attached.
`KnownInv`: for each change that a page does not show, somebody still carries it (a
request that will publish, a queue, a refresh under way) or one of the named ways of
missing it has happened. `StraysInv`: a card astray is of a move that waits for its
answer. These three are about each page and change by themselves, which is why they
hold for any number of them.

*IssueEditor.* `PreviewsShowText` and `ChoicesKeepText`. `PreviewInv`: unless a timer is
set, the newest request asks for the text as it is. `ChoiceInv`: pieces have names of
their own, and a range that was measured for a text is a trigger and what follows it in
that text (`RangeFits`), whatever the text has become. The bound
on requests leaves room for the one of `initializeEditor` (`MaxAsked` is not 0).

*ApiClients.* `ExecutionsTellTheTruth`, of `ExecutionsAreTrue`. `ClientTypes` has one
output per item that is done; `OutputsInv` relates each output to what the server has
done in this execution, lost and late answers included; `EffectsInv` counts: what an
item has changed, and may still change late, is at most once, and once more for each
time an execution stopped at it.

*The composition.* `ClientsTyped`, of `ClientsTypeOK`, and `ClientsCompose`: each behaviour
of `MCClients` is one of each of its four modules, as for the records below.

### The instance (`InstanceProofs`)

*IssueNumbering.* `NumberingTyped` (the type invariant) and `NumbersFresh`, of
`NumbersAreFresh`. What makes the next number new is that every existing collection is
ahead of all numbers its prefix has had, those of deleted issues and of renamed or
deleted collections included (`Ahead`), and that no other collection gives numbers of
the same prefix (`PrefixesDiffer`). A stored row is ahead or its prefix becomes
`rewound` (`StoresAhead`); a creation uses the row it has just locked, so its number is
above the others and it leaves the row one further (`NumbersAhead`); whatever else is
written touches neither numbers nor rows (`KeepsRows`).

*Directory.* `DirectoryConsistent` and `AccountsFollow`, of `DirectoryIsConsistent` and
`AccountsFollowRequests`. `RequestsFit`: what a request brings along is of its kind.
`PendingNameMembers`: a rule about to be saved names a member, or somebody withdrawn.
`ReadsHold`: what a request has found is still there, unless it was overtaken; so rows
come back only by requests that were, and the reset's own superuser stays.

*ProfileAvatar.* `AvatarFollows`, of `AvatarFollowsProfile`. While saves have not
overlapped, one is under way at most (`Alone`), and the file its instance names is the
row's or none until it writes the row, and the row's afterwards (`KnowsRow`); the file
it may delete is thus never the row's. Without deaths the files are the row's and,
before the deletion, the one looked up (`Tidy`).

*IssueQueries.* `ListsMatches`, of `ListIsOfMatches`. The invariant `QueryInv` only says
what an answer is computed from; the work is in the operators. A finite set with a
strict total order has a place `1..n` for each element (`OrderPlaces`, the same as for
the migrations), so a sorted sequence exists and `Sorted` is one (`SortedColumn`). The
flattened columns are what a function that joins them one by one ends with
(`FlatJoins`); that it lists the first `k` columns for each `k` goes by the least `k`
for which it did not (`LeastElement`, itself from `OrderPlaces`), since the library's
induction theorems cannot be instantiated. The filters amount to `Matches`
(`FilteredMatches`). Assumed of the columns: they are in a sequence of different states.

*DataMigrations.* `MigrationsKeep`, of `MigrationsKeepTheBoard`. `MigrationInv` has the
chains of transitions and the absence of states that are gone after every step, and
that issues are numbered by creation once they are. That a numbering preserves an order
is `OrderPlaces` again, for the order of creation and for that of the board.

*HealthChecks.* `HealthAnswersTrue`, of `HealthAnswersAreTrue`. `HealthInv` says of each
prober separately that its request is `Sound`: what was wrong all the time is wrong now,
a check that has found nothing rules out that its subject was wrong all the time, one
that has found something found it, and cards are shown in their order.

### The records (`IssueRecordsProofs`)

*CommentMentions.* `CommentsReach`, of `CommentsReachReaders`. A comment is announced by
the request that has created it and by no other, before its last step (`Announcing`). A
comment that no two requests have worked on at a time has the mention rows of its body,
except between the save of a new body and the rows' commit, when its one request still
holds that body (`Keeps`, `Followed`). A rename leaves this alone because it exempts
both names.

*IssueHistory.* `HistoryTrue`, of `HistoryIsTrue`. While handlers have not been mixed
there is one, which knows the row, and the snapshot it took is what the history of each
field ends with (`Shown`), the description excepted between the form's write into the
instance and the comparison.

*AttachmentFiles.* `FilesFollow`, of `FilesFollowRows`. A file belongs to one attachment,
and to one request until its row is inserted (`FilesHaveOneOwner`); a reset lists files
of attachments that it deletes (`ListedAreDoomed`); a file is there unless its attachment is
doomed (`FilesAreThere`). While no two requests work on one attachment, the one that
does knows its row (`SoleRequestsKnow`), and each file is somebody's (`FilesAreNamed`).

*DraftAttachments.* `DraftsInherited`, of `IssuesInheritDrafts`. A form whose token was
not shared has the session's, alone, and its text names live drafts of it (`OwnTokens`);
a creation under way has each of them still to do or done. Files are each of one draft,
one creation or one attachment (`FilesApart`, `FilesOwned`).

*MarkdownRendering.* `RenderingFaithful`, of `RenderingIsFaithful`. `Cut` says of the
first `k` lines what the property says of a finished text: each block is a run, no two
of them belong together, no line is lost. It is kept by a line that goes on with the
last block and by one that begins another. `Given`: an unspoilt rendering finds the
attributes it has set. Its assumption bounds the texts that two threads share by those
that one renders (`MaxShared <= MaxLines`).

*The composition.* `RecordsTyped`, of `RecordsTypeOK`, and `RecordsCompose`: each
behaviour of `MCRecords` is one of each of its eleven modules. A step is one module's and
leaves the variables of the others alone, so it is a step of that one and a stutter of
the others (`RecordsSteps`, `RecordsStep`); the invariants of the modules hold side by
side for the same reason, and their conjunction has `RecordsTypeOK`. So the run checks no
behaviour that a module on its own could not have, and the theorems of the modules hold
of it.

### Only model-checked

* `EventuallySettled` and `DueDeliveriesAttempted`: liveness under fairness. `RunsEnd`
  proves of the first that no run is endless; that runs are started until all is
  settled takes the operator, and is left to the model checker. That a statement which
  waits for no lock can be executed is ENABLED, so `RequestsEnd` does not say it.
* What the violated runs show, naturally, and that bounds let the interesting cases
  happen.
* What recursive definitions compute: there are none in these modules but the library's
  `FlattenSeq`, for which see `IssueQueries`.


## 5. Not modelled

* Routing, permissions of the single routes, parsing, schemas and serialisation of the
  REST API; sessions, pages and redirects of the frontend; branding, locale, templates;
  deployment and demonstration scripts; the Python SDK and the n8n
  webhook trigger. They hold no state that the rest depends on, or are one call each.
* Contents: titles, texts beyond the references in them, payloads of webhooks, inline
  markdown, HTML.
* Text search and ranges of dates in the board's filters: two more conjuncts of the
  kind that `IssueQueries` has.
* Collapsed columns and animations of the board, keyboard and drag handling of the
  editor.
* Endpoints that are deleted, or get another `max_retries`, while an event is on its way.
* The composition of the records with one another: each module has the neighbours it
  reads, so a hazard that needs three components at once is not reached.
