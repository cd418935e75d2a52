-------------------------- MODULE DraftAttachments --------------------------
(***************************************************************************)
(* Files uploaded in the create form before the issue exists               *)
(* (user_interface/views.py, user_interface/controllers.py).  Uploads are  *)
(* filed under the draft token of the session; the form carries the token  *)
(* it was rendered with.  Creating the issue copies every draft of that    *)
(* token to an attachment and deletes it, all in one database transaction, *)
(* which files take no part in.                                            *)
(*                                                                         *)
(* One user and one session, with several tabs.  Files are numbered as     *)
(* they are stored; the storage never gives a name twice.                  *)
(***************************************************************************)
EXTENDS Naturals, Sequences, FiniteSets

CONSTANTS
  Tabs,          \* pages of the create form that may be open at a time
  NoForm,        \* a tab without a create form
  MaxTokens,     \* bound: draft tokens
  MaxDrafts,     \* bound: uploads
  MaxFiles,      \* bound: files
  MaxMade,       \* bound: issues created
  MaxFailures    \* bound: creations that fail halfway

VARIABLES
  token,        \* of the session, 0 before it has one
  tokens,       \* tokens ever given
  form,         \* [token, text] of each tab: its token, the drafts its text refers to
  drafts,       \* DraftIssueAttachment rows ever inserted: [token, file, live]
  storage,      \* the files that exist
  stored,       \* files ever stored
  job,          \* the creation under way for each tab, or NoForm
  made,         \* issues created: [text, attachments, token]
  failures,
  shared        \* history: tokens that two open forms have had, or one whose session has lost it

draftVars == <<token, tokens, form, drafts, storage, stored, job, made, failures, shared>>

Form == [token : 1..MaxTokens, text : SUBSET (1..MaxDrafts)]
Job == [left : SUBSET (1..MaxDrafts), \* staged attachments still to materialise
        copied : BOOLEAN,             \* the first of them is copied
        done : SUBSET (1..MaxDrafts), \* rows deleted by the transaction
        files : SUBSET (1..MaxFiles)] \* attachments inserted by it

ASSUME DraftAssumption ==
  /\ {MaxTokens, MaxDrafts, MaxFiles, MaxMade, MaxFailures} \subseteq Nat
  /\ NoForm \notin Form \cup Job

Open(t) == form[t] # NoForm

Staged(k) == {d \in DOMAIN drafts : drafts[d].live /\ drafts[d].token = k}

\* _get_issue_create_draft_token
Token == IF token # 0 THEN token ELSE tokens + 1
GiveToken ==
  /\ Token <= MaxTokens
  /\ token' = Token
  /\ tokens' = IF token # 0 THEN tokens ELSE Token
-----------------------------------------------------------------------------
DraftInit ==
  /\ token = 0 /\ tokens = 0
  /\ form = [t \in Tabs |-> NoForm]
  /\ drafts = << >>
  /\ storage = {} /\ stored = 0
  /\ job = [t \in Tabs |-> NoForm]
  /\ made = << >>
  /\ failures = 0
  /\ shared = {}

\* GET of the create form: the token goes into a hidden field.
OpenForm(t) ==
  /\ ~Open(t)
  /\ GiveToken
  /\ form' = [form EXCEPT ![t] = [token |-> Token, text |-> {}]]
  /\ shared' = IF \E s \in Tabs : Open(s) /\ form[s].token = Token THEN shared \cup {Token} ELSE shared
  /\ UNCHANGED <<drafts, storage, stored, job, made, failures>>

\* DraftAttachmentUploadView: filed under the token of the session, whichever
\* the form has; the editor puts a reference into the text.
Upload(t) ==
  /\ Open(t) /\ job[t] = NoForm
  /\ Len(drafts) < MaxDrafts /\ stored < MaxFiles
  /\ GiveToken
  /\ stored' = stored + 1
  /\ storage' = storage \cup {stored'}
  /\ drafts' = Append(drafts, [token |-> Token, file |-> stored', live |-> TRUE])
  /\ form' = [form EXCEPT ![t].text = @ \cup {Len(drafts) + 1}]
  /\ UNCHANGED <<job, made, failures, shared>>

\* The user leaves the page; the session keeps its token.
CloseForm(t) ==
  /\ Open(t) /\ job[t] = NoForm
  /\ form' = [form EXCEPT ![t] = NoForm]
  /\ UNCHANGED <<token, tokens, drafts, storage, stored, job, made, failures, shared>>

\* create_issue: the issue is saved, the staged attachments are listed.
Submit(t) ==
  /\ Open(t) /\ job[t] = NoForm
  /\ Len(made) < MaxMade
  /\ job' = [job EXCEPT ![t] = [left |-> Staged(form[t].token), copied |-> FALSE,
                                done |-> {}, files |-> {}]]
  /\ UNCHANGED <<token, tokens, form, drafts, storage, stored, made, failures, shared>>

\* The oldest comes first.
Works(t, d) == job[t] # NoForm /\ d \in job[t].left /\ \A e \in job[t].left : d <= e

StagedFile(d) == drafts[d].file

\* Mutant: the attachment names the file of the draft.
CopyStagedName(t, d) ==
  /\ Works(t, d) /\ ~job[t].copied
  /\ StagedFile(d) \in storage
  /\ stored < MaxFiles
  /\ job' = [job EXCEPT ![t].copied = TRUE, ![t].files = @ \cup {StagedFile(d)}]
  /\ UNCHANGED <<token, tokens, form, drafts, storage, stored, made, failures, shared>>

\* _create_issue_attachment_from_draft
CopyStaged(t, d) ==
  /\ Works(t, d) /\ ~job[t].copied
  /\ StagedFile(d) \in storage
  /\ stored < MaxFiles
  /\ stored' = stored + 1
  /\ storage' = storage \cup {stored'}
  /\ job' = [job EXCEPT ![t].copied = TRUE, ![t].files = @ \cup {stored'}]
  /\ UNCHANGED <<token, tokens, form, drafts, made, failures, shared>>

\* _delete_staged_attachment: the file is gone at once, the row when the
\* transaction commits.
DropStaged(t, d) ==
  /\ Works(t, d) /\ job[t].copied
  /\ storage' = storage \ {StagedFile(d)}
  /\ job' = [job EXCEPT ![t].copied = FALSE, ![t].left = @ \ {d}, ![t].done = @ \cup {d}]
  /\ UNCHANGED <<token, tokens, form, drafts, stored, made, failures, shared>>

\* The references to the drafts it has materialised are rewritten, the
\* transaction commits, and form_valid clears the token of the session.
CommitIssue(t) ==
  /\ job[t] # NoForm /\ job[t].left = {}
  /\ made' = Append(made, [text |-> form[t].text \ job[t].done, attachments |-> job[t].files,
                           token |-> form[t].token])
  /\ drafts' = [d \in DOMAIN drafts |->
                  IF d \in job[t].done THEN [drafts[d] EXCEPT !.live = FALSE] ELSE drafts[d]]
  /\ form' = [form EXCEPT ![t] = NoForm]
  /\ job' = [job EXCEPT ![t] = NoForm]
  /\ token' = 0
  /\ shared' = shared \cup {form[s].token : s \in {r \in Tabs \ {t} : Open(r)}}
  /\ UNCHANGED <<tokens, storage, stored, failures>>

RollBackJob(t) ==
  /\ job' = [job EXCEPT ![t] = NoForm]
  /\ UNCHANGED <<token, tokens, form, drafts, storage, stored, made, shared>>

\* A staged file that is not there ends the creation; rows come back, and the
\* form and the session keep their tokens.
MissStaged(t, d) ==
  /\ Works(t, d) /\ ~job[t].copied
  /\ StagedFile(d) \notin storage
  /\ RollBackJob(t)
  /\ UNCHANGED failures

\* The worker dies, or a later statement of the transaction fails.
FailCreation(t) ==
  /\ job[t] # NoForm
  /\ failures < MaxFailures /\ failures' = failures + 1
  /\ RollBackJob(t)

DraftNext ==
  \E t \in Tabs :
    \/ OpenForm(t) \/ Upload(t) \/ CloseForm(t) \/ Submit(t)
    \/ \E d \in DOMAIN drafts : CopyStaged(t, d) \/ DropStaged(t, d) \/ MissStaged(t, d)
    \/ CommitIssue(t) \/ FailCreation(t)

DraftSpec == DraftInit /\ [][DraftNext]_draftVars
-----------------------------------------------------------------------------
(* Correctness.                                                            *)

DraftTypeOK ==
  /\ token \in 0..tokens /\ tokens \in 0..MaxTokens
  /\ form \in [Tabs -> Form \cup {NoForm}]
  /\ drafts \in Seq([token : 1..MaxTokens, file : 1..MaxFiles, live : BOOLEAN])
  /\ storage \subseteq 1..stored /\ stored \in 0..MaxFiles
  /\ job \in [Tabs -> Job \cup {NoForm}]
  /\ made \in Seq([text : SUBSET (1..MaxDrafts), attachments : SUBSET (1..MaxFiles),
                   token : 1..MaxTokens])
  /\ failures \in 0..MaxFailures
  /\ shared \subseteq 1..MaxTokens

\* Attachments of a created issue keep their files, whatever other creations
\* do with drafts of the same token.
AttachmentsKeepFiles ==
  \A i \in DOMAIN made : made[i].attachments \subseteq storage

\* docs/development/issue-lifecycle-and-attachments.md:87-88: when the issue is
\* created, its draft references "are rewritten to the final attachment
\* references" - if its form was the only one with its token, and no other
\* creation took that token from the session, so that uploads got another one.
ReferencesRewritten ==
  \A i \in DOMAIN made : made[i].token \notin shared => made[i].text = {}

\* Once no creation is under way, every file belongs to a draft or to an
\* attachment, unless a creation has failed or its token was shared.
NoFilesLeftBehind ==
  (\A t \in Tabs : job[t] = NoForm) /\ failures = 0 /\ shared = {} =>
    storage = {drafts[d].file : d \in {e \in DOMAIN drafts : drafts[e].live}}
              \cup UNION {made[i].attachments : i \in DOMAIN made}

\* docs/development/issue-lifecycle-and-attachments.md:87-88, as it stands: the
\* draft references of every issue created have been rewritten.
DraftReferencesGone ==
  \A i \in DOMAIN made : made[i].text = {}

\* Files and references follow the drafts into the issue (create_issue).
IssuesInheritDrafts == AttachmentsKeepFiles /\ ReferencesRewritten /\ NoFilesLeftBehind
=============================================================================
