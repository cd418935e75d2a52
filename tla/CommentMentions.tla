-------------------------- MODULE CommentMentions --------------------------
(***************************************************************************)
(* Comments, the mentions derived from them, and the events that announce  *)
(* them (core/signals.py, issue_comment_controller.py, the comment         *)
(* handlers).  The comment is saved first; the signal handler then brings  *)
(* the mention rows in line with the instance in a transaction of its own  *)
(* and, for a new comment, creates the webhook event; the handler touches  *)
(* the issue last.  Dashboards list comments by mention rows alone.        *)
(***************************************************************************)
EXTENDS Naturals, Sequences, FiniteSets

CONSTANTS
  Authors,       \* requests that may be under way at a time
  Away,
  People,        \* user rows
  Handles,       \* user names
  MaxComments,   \* bound: comments
  MaxChanges,    \* bound: requests and changes of users
  MaxBreaks      \* bound: workers that die

VARIABLES
  comments,     \* body of each comment: the handles in it
  mentions,     \* rows: [comment, person, as]
  people,       \* the user name of each person, Away before the row exists
  posts,        \* [comment, body, new, step, prune] of each author, or Away
  announced,    \* comments with a webhook event, a sequence
  answered,     \* comments whose creation has been answered with success
  changes, breaks,
  renamed,      \* history: handles given to or taken from a person
  raced         \* history: comments that two requests have saved at a time

mentionVars == <<comments, mentions, people, posts, announced, answered, changes, breaks, renamed, raced>>

Post == [comment : 1..MaxComments, body : SUBSET Handles, new : BOOLEAN,
         step : {"save", "prune", "add", "announce", "touch"},
         prune : SUBSET [comment : 1..MaxComments, person : People, as : Handles]]

ASSUME MentionAssumption ==
  /\ {MaxComments, MaxChanges, MaxBreaks} \subseteq Nat
  /\ Away \notin Handles /\ Away \notin Post

Busy(a, step) == posts[a] # Away /\ posts[a].step = step
GoOn(a, step) == posts' = [posts EXCEPT ![a].step = step]
Changes == changes < MaxChanges /\ changes' = changes + 1

Of(c) == {m \in mentions : m.comment = c}

Mention(c, p) == [comment |-> c, person |-> p, as |-> people[p]]
-----------------------------------------------------------------------------
MentionInit ==
  /\ comments = << >> /\ mentions = {}
  /\ people \in [People -> Handles \cup {Away}]
  /\ \A p, q \in People : people[p] = people[q] => p = q \/ people[p] = Away
  /\ posts = [a \in Authors |-> Away]
  /\ announced = << >> /\ answered = {}
  /\ changes = 0 /\ breaks = 0
  /\ renamed = {} /\ raced = {}

\* add_issue_comment: the row is inserted.
AddComment(a, body) ==
  /\ posts[a] = Away
  /\ Len(comments) < MaxComments /\ Changes
  /\ comments' = Append(comments, body)
  /\ posts' = [posts EXCEPT ![a] = [comment |-> Len(comments'), body |-> body, new |-> TRUE,
                                    step |-> "prune", prune |-> {}]]
  /\ UNCHANGED <<mentions, people, announced, answered, breaks, renamed, raced>>

\* update_issue_comment has loaded the comment; the admin's inline, too.
EditComment(a, c, body) ==
  /\ posts[a] = Away /\ Changes
  /\ posts' = [posts EXCEPT ![a] = [comment |-> c, body |-> body, new |-> FALSE,
                                    step |-> "save", prune |-> {}]]
  /\ raced' = IF \E b \in Authors : posts[b] # Away /\ posts[b].comment = c
                THEN raced \cup {c} ELSE raced
  /\ UNCHANGED <<comments, mentions, people, announced, answered, breaks, renamed>>

\* IssueCommentController.update
SaveComment(a) ==
  /\ Busy(a, "save")
  /\ comments' = [comments EXCEPT ![posts[a].comment] = posts[a].body]
  /\ GoOn(a, "prune")
  /\ UNCHANGED <<mentions, people, announced, answered, changes, breaks, renamed, raced>>

\* sync_mentions deletes the rows that the body of its instance does not give,
Prune(a) ==
  /\ Busy(a, "prune")
  /\ posts' = [posts EXCEPT ![a].step = "add",
       ![a].prune = {m \in Of(posts[a].comment) : m.as \notin posts[a].body}]
  /\ UNCHANGED <<comments, mentions, people, announced, answered, changes, breaks, renamed, raced>>

\* and inserts one for each user it finds, unless it is there (ignore_conflicts);
\* both become visible with the commit.
AddMentions(a) ==
  LET p == posts[a]
  IN /\ Busy(a, "add")
     /\ mentions' = (mentions \ p.prune)
                    \cup {Mention(p.comment, q) : q \in {q \in People : people[q] \in p.body}}
     /\ posts' = [posts EXCEPT ![a].prune = {}, ![a].step = IF p.new THEN "announce" ELSE "touch"]
     /\ UNCHANGED <<comments, people, announced, answered, changes, breaks, renamed, raced>>

\* create_issue_commented_event
Announce(a) ==
  /\ Busy(a, "announce")
  /\ announced' = Append(announced, posts[a].comment)
  /\ GoOn(a, "touch")
  /\ UNCHANGED <<comments, mentions, people, answered, changes, breaks, renamed, raced>>

\* Mutant: the signal handler takes every save for a new comment.
AnnounceEdits(a) ==
  /\ Busy(a, "touch")
  /\ announced' = IF posts[a].new THEN announced ELSE Append(announced, posts[a].comment)
  /\ answered' = IF posts[a].new THEN answered \cup {posts[a].comment} ELSE answered
  /\ posts' = [posts EXCEPT ![a] = Away]
  /\ UNCHANGED <<comments, mentions, people, changes, breaks, renamed, raced>>

\* touch saves the issue; the answer is a success.
TouchAndAnswer(a) ==
  /\ Busy(a, "touch")
  /\ answered' = IF posts[a].new THEN answered \cup {posts[a].comment} ELSE answered
  /\ posts' = [posts EXCEPT ![a] = Away]
  /\ UNCHANGED <<comments, mentions, people, announced, changes, breaks, renamed, raced>>

\* touch refuses: the assigned user has left the group.  The answer is an error.
TouchRefuses(a) ==
  /\ Busy(a, "touch")
  /\ posts' = [posts EXCEPT ![a] = Away]
  /\ UNCHANGED <<comments, mentions, people, announced, answered, changes, breaks, renamed, raced>>

BreakPost(a) ==
  /\ posts[a] # Away
  /\ breaks < MaxBreaks /\ breaks' = breaks + 1
  /\ posts' = [posts EXCEPT ![a] = Away]
  /\ UNCHANGED <<comments, mentions, people, announced, answered, changes, renamed, raced>>

\* PUT or POST /users: user names are unique.  Mentions stay.
RenamePerson(p, name) ==
  /\ name # people[p] /\ \A q \in People : people[q] # name
  /\ Changes
  /\ people' = [people EXCEPT ![p] = name]
  /\ renamed' = renamed \cup ({name, people[p]} \ {Away})
  /\ UNCHANGED <<comments, mentions, posts, announced, answered, breaks, raced>>

MentionNext ==
  \/ \E a \in Authors :
       \/ \E body \in SUBSET Handles :
            AddComment(a, body) \/ \E c \in DOMAIN comments : EditComment(a, c, body)
       \/ SaveComment(a) \/ Prune(a) \/ AddMentions(a) \/ Announce(a)
       \/ TouchAndAnswer(a) \/ TouchRefuses(a) \/ BreakPost(a)
  \/ \E p \in People, name \in Handles : RenamePerson(p, name)

MentionSpec == MentionInit /\ [][MentionNext]_mentionVars
-----------------------------------------------------------------------------
(* Correctness.                                                            *)

InWork(c) == \E a \in Authors : posts[a] # Away /\ posts[a].comment = c

MentionTypeOK ==
  /\ comments \in Seq(SUBSET Handles)
  /\ mentions \subseteq [comment : DOMAIN comments, person : People, as : Handles]
  /\ people \in [People -> Handles \cup {Away}]
  /\ posts \in [Authors -> Post \cup {Away}]
  /\ announced \in Seq(1..MaxComments) /\ answered \subseteq DOMAIN comments
  /\ changes \in 0..MaxChanges /\ breaks \in 0..MaxBreaks
  /\ renamed \subseteq Handles /\ raced \subseteq DOMAIN comments

\* Also when touch has refused, and for every order of edits one after the
\* other, a comment is on the dashboards of exactly those it mentions, except
\* for user names that have changed hands, concurrent edits, and a worker's
\* death (sync_mentions).
MentionsFollowBody ==
  \A c \in DOMAIN comments : ~InWork(c) /\ c \notin raced /\ breaks = 0 =>
    /\ \A m \in Of(c) : m.as \in comments[c]
    /\ \A p \in People : people[p] \in comments[c] \ renamed => Mention(c, p) \in mentions

\* A comment is announced at most once, never by an edit, and is announced
\* before its request is answered; a request that fails with the comment in
\* place has announced it, too, unless its worker has died (core/signals.py).
AnnouncedOnce ==
  /\ \A i, j \in DOMAIN announced : announced[i] = announced[j] => i = j
  /\ answered \subseteq {announced[i] : i \in DOMAIN announced}
  /\ breaks = 0 => \A c \in DOMAIN comments :
       InWork(c) \/ c \in {announced[i] : i \in DOMAIN announced}

\* Comments reach those they mention, and the subscribers, once.
CommentsReachReaders == MentionsFollowBody /\ AnnouncedOnce
=============================================================================
