------------------------- MODULE IssueRecordsProofs -------------------------
(***************************************************************************)
(* Theorems about what hangs on an issue: comments and mentions            *)
(* (CommentMentions), the history (IssueHistory), attachments and their    *)
(* files (AttachmentFiles), drafts (DraftAttachments) and the rendering of *)
(* its texts (MarkdownRendering), for any number of comments, writes,      *)
(* files, requests, tabs, users, lines and attachments; and about these    *)
(* and the components of InstanceProofs together (MCRecords).              *)
(***************************************************************************)
EXTENDS MCRecords, InstanceProofs

-----------------------------------------------------------------------------
(* Comments and mentions.                                                  *)

\* The mention rows of a comment are those of its body.
InSync(c) ==
  /\ \A m \in Of(c) : m.as \in comments[c]
  /\ \A p \in People : people[p] \in comments[c] \ renamed => Mention(c, p) \in mentions

On(a, c) == posts[a] # Away /\ posts[a].comment = c

\* What a request holds against the comment it works on.
Keeps(a) ==
  LET c == posts[a].comment
  IN \/ Busy(a, "save") /\ InSync(c)
     \/ Busy(a, "prune") /\ posts[a].body = comments[c]
     \/ /\ Busy(a, "add") /\ posts[a].body = comments[c]
        /\ posts[a].prune = {m \in Of(c) : m.as \notin posts[a].body}
     \/ (Busy(a, "announce") \/ Busy(a, "touch")) /\ InSync(c)

\* A comment that no two requests have worked on at a time.
Followed(c) ==
  /\ \A a, b \in Authors : On(a, c) /\ On(b, c) => a = b
  /\ \A a \in Authors : On(a, c) => Keeps(a)
  /\ ~InWork(c) => InSync(c)

Said == {announced[i] : i \in DOMAIN announced}

Creating(a, c) == On(a, c) /\ posts[a].new

PostsOfComments ==
  \A a \in Authors : posts[a] # Away =>
    /\ posts[a].comment \in DOMAIN comments
    /\ \A m \in posts[a].prune : m.comment = posts[a].comment
    /\ posts[a].step = "announce" => posts[a].new

\* A comment is announced by the request that has created it, before its last step.
Announcing ==
  /\ Said \subseteq DOMAIN comments
  /\ \A i, j \in DOMAIN announced : announced[i] = announced[j] => i = j
  /\ answered \subseteq Said
  /\ \A a, b \in Authors, c \in DOMAIN comments : Creating(a, c) /\ Creating(b, c) => a = b
  /\ \A a \in Authors, c \in DOMAIN comments : Creating(a, c) =>
       posts[a].step # "save" /\ (c \in Said <=> posts[a].step = "touch")
  /\ breaks = 0 => \A c \in DOMAIN comments : c \in Said \/ \E a \in Authors : Creating(a, c)

MentionInv ==
  /\ MentionTypeOK
  /\ Len(comments) <= MaxComments
  /\ PostsOfComments
  /\ Announcing
  /\ breaks = 0 => \A c \in DOMAIN comments \ raced : Followed(c)
-----------------------------------------------------------------------------
(* Types.                                                                  *)

\* What appending does to a sequence.
LEMMA Appended ==
  ASSUME NEW S, NEW s \in Seq(S), NEW e \in S, NEW t, t = Append(s, e)
  PROVE  /\ t \in Seq(S) /\ Len(t) = Len(s) + 1 /\ Len(s) \in Nat
         /\ DOMAIN s = 1..Len(s) /\ DOMAIN t = 1..Len(t)
         /\ t[Len(t)] = e /\ \A i \in DOMAIN s : t[i] = s[i]
  OBVIOUS

\* The bounds are numbers.
LEMMA BoundsNatural ==
  ASSUME MentionAssumption
  PROVE  MaxComments \in Nat /\ MaxChanges \in Nat /\ MaxBreaks \in Nat
  BY MentionAssumption DEF MentionAssumption

\* A step of a request changes its own record only.
LEMMA OwnPost ==
  ASSUME MentionAssumption, MentionTypeOK, NEW a \in Authors, NEW q, posts' = [posts EXCEPT ![a] = q]
  PROVE  /\ posts'[a] = q /\ \A b \in Authors \ {a} : posts'[b] = posts[b]
         /\ q \in Post \cup {Away} => posts' \in [Authors -> Post \cup {Away}]
         /\ q \in Post => q # Away
         /\ posts[a] # Away => posts[a] \in Post
  BY MentionAssumption DEF MentionAssumption, MentionTypeOK

\* There is nothing yet.
LEMMA InitialMentions == ASSUME MentionAssumption, MentionInit PROVE MentionInv
<1>1. MentionTypeOK
  BY BoundsNatural DEF MentionInit, MentionTypeOK
<1>2. DOMAIN comments = {} /\ Len(comments) = 0 /\ DOMAIN announced = {}
  BY DEF MentionInit
<1>3. \A a \in Authors : posts[a] = Away BY DEF MentionInit
<1>4. PostsOfComments BY <1>3 DEF PostsOfComments
<1>5. Announcing BY <1>2, <1>3 DEF MentionInit, Announcing, Said, Creating, On
<1> QED BY <1>1, <1>2, <1>4, <1>5, BoundsNatural DEF MentionInv

\* The shape of the record that a request goes on with.
LEMMA PostFields ==
  ASSUME NEW q \in Post
  PROVE  /\ \A s \in {"save", "prune", "add", "announce", "touch"} :
              /\ [q EXCEPT !.step = s] \in Post /\ [q EXCEPT !.step = s].step = s
              /\ [q EXCEPT !.step = s].comment = q.comment /\ [q EXCEPT !.step = s].new = q.new
              /\ [q EXCEPT !.step = s].body = q.body /\ [q EXCEPT !.step = s].prune = q.prune
         /\ q.comment \in 1..MaxComments /\ q.body \in SUBSET Handles /\ q.new \in BOOLEAN
         /\ \A m \in q.prune : m \in [comment : 1..MaxComments, person : People, as : Handles]
         /\ q.step \in {"save", "prune", "add", "announce", "touch"}
<1>1. ASSUME NEW s \in {"save", "prune", "add", "announce", "touch"}
      PROVE  /\ [q EXCEPT !.step = s] \in Post /\ [q EXCEPT !.step = s].step = s
             /\ [q EXCEPT !.step = s].comment = q.comment /\ [q EXCEPT !.step = s].new = q.new
             /\ [q EXCEPT !.step = s].body = q.body /\ [q EXCEPT !.step = s].prune = q.prune
  BY DEF Post
<1>2. /\ q.comment \in 1..MaxComments /\ q.body \in SUBSET Handles /\ q.new \in BOOLEAN
      /\ \A m \in q.prune : m \in [comment : 1..MaxComments, person : People, as : Handles]
      /\ q.step \in {"save", "prune", "add", "announce", "touch"}
  BY DEF Post
<1> QED BY <1>1, <1>2

\* The parts of the invariant that every step needs of every other.
Shape == MentionTypeOK /\ Len(comments) <= MaxComments /\ PostsOfComments

\* AddComment appends a comment that only its request works on.
LEMMA AddCommentShape ==
  ASSUME MentionAssumption, Shape, NEW a \in Authors, NEW body \in SUBSET Handles,
         AddComment(a, body)
  PROVE  /\ Shape'
         /\ posts[a] = Away /\ \A b \in Authors \ {a} : posts'[b] = posts[b]
         /\ posts'[a] # Away /\ posts'[a].comment = Len(comments) + 1 /\ posts'[a].new = TRUE
         /\ posts'[a].step = "prune" /\ posts'[a].body = body
         /\ DOMAIN comments' = DOMAIN comments \cup {Len(comments) + 1}
         /\ Len(comments) + 1 \notin DOMAIN comments
         /\ comments'[Len(comments) + 1] = body
         /\ \A c \in DOMAIN comments : comments'[c] = comments[c]
<1>1. comments \in Seq(SUBSET Handles) BY DEF Shape, MentionTypeOK
<1>2. comments' = Append(comments, body) BY DEF AddComment
<1>3. /\ comments' \in Seq(SUBSET Handles) /\ Len(comments') = Len(comments) + 1
      /\ Len(comments) \in Nat /\ comments'[Len(comments) + 1] = body
      /\ DOMAIN comments = 1..Len(comments) /\ DOMAIN comments' = 1..Len(comments')
      /\ \A c \in DOMAIN comments : comments'[c] = comments[c]
  BY <1>1, <1>2, Appended
<1>4. /\ DOMAIN comments' = DOMAIN comments \cup {Len(comments) + 1}
      /\ Len(comments) + 1 \notin DOMAIN comments
  BY <1>3
<1>5. Len(comments) + 1 \in 1..MaxComments /\ Len(comments') <= MaxComments
  BY <1>3, BoundsNatural DEF AddComment
<1> DEFINE q == [comment |-> Len(comments'), body |-> body, new |-> TRUE,
                 step |-> "prune", prune |-> {}]
<1>6. q \in Post BY <1>3, <1>5 DEF Post
<1>7. posts' = [posts EXCEPT ![a] = q] BY DEF AddComment
<1>8. /\ q.comment = Len(comments) + 1 /\ q.new = TRUE /\ q.step = "prune" /\ q.body = body
      /\ q.prune = {}
  BY <1>3
<1> HIDE DEF q
<1>9. /\ posts'[a] = q /\ \A b \in Authors \ {a} : posts'[b] = posts[b]
      /\ posts' \in [Authors -> Post \cup {Away}] /\ q # Away
  BY <1>6, <1>7, OwnPost DEF Shape
<1>10. MentionTypeOK'
  <2>1. mentions' \subseteq [comment : DOMAIN comments', person : People, as : Handles]
    BY <1>4 DEF AddComment, Shape, MentionTypeOK
  <2>2. changes' \in 0..MaxChanges
    BY BoundsNatural DEF AddComment, Changes, Shape, MentionTypeOK
  <2> QED BY <2>1, <2>2, <1>3, <1>4, <1>9 DEF AddComment, Shape, MentionTypeOK
<1>11. PostsOfComments'
  BY <1>4, <1>8, <1>9 DEF Shape, PostsOfComments
<1> QED BY <1>3, <1>4, <1>5, <1>8, <1>9, <1>10, <1>11 DEF Shape, AddComment

\* EditComment adds a request to a comment that exists.
LEMMA EditCommentShape ==
  ASSUME MentionAssumption, Shape, NEW a \in Authors, NEW body \in SUBSET Handles,
         NEW c \in DOMAIN comments, EditComment(a, c, body)
  PROVE  /\ Shape'
         /\ posts[a] = Away /\ \A b \in Authors \ {a} : posts'[b] = posts[b]
         /\ posts'[a] # Away /\ posts'[a].comment = c /\ posts'[a].new = FALSE
         /\ posts'[a].step = "save"
<1> DEFINE q == [comment |-> c, body |-> body, new |-> FALSE, step |-> "save", prune |-> {}]
<1>1. comments \in Seq(SUBSET Handles) /\ Len(comments) <= MaxComments
  BY DEF Shape, MentionTypeOK
<1>2. c \in 1..MaxComments
  BY <1>1, BoundsNatural
<1>3. q \in Post BY <1>2 DEF Post
<1>4. posts' = [posts EXCEPT ![a] = q] BY DEF EditComment
<1>5. q.comment = c /\ q.new = FALSE /\ q.step = "save" /\ q.prune = {} OBVIOUS
<1> HIDE DEF q
<1>6. /\ posts'[a] = q /\ \A b \in Authors \ {a} : posts'[b] = posts[b]
      /\ posts' \in [Authors -> Post \cup {Away}] /\ q # Away
  BY <1>3, <1>4, OwnPost DEF Shape
<1>7. raced' \subseteq DOMAIN comments BY DEF EditComment, Shape, MentionTypeOK
<1>8. changes' \in 0..MaxChanges
  BY BoundsNatural DEF EditComment, Changes, Shape, MentionTypeOK
<1>9. MentionTypeOK' BY <1>6, <1>7, <1>8 DEF EditComment, Shape, MentionTypeOK
<1>10. PostsOfComments' BY <1>5, <1>6 DEF EditComment, Shape, PostsOfComments
<1> QED BY <1>1, <1>5, <1>6, <1>9, <1>10 DEF Shape, EditComment

\* SaveComment stores the body of its instance, and goes on to the mentions.
LEMMA SaveCommentShape ==
  ASSUME MentionAssumption, Shape, NEW a \in Authors, SaveComment(a)
  PROVE  /\ Shape'
         /\ posts[a] # Away /\ \A b \in Authors \ {a} : posts'[b] = posts[b]
         /\ posts[a].step = "save" /\ posts'[a] # Away /\ posts'[a].step = "prune"
         /\ posts'[a].comment = posts[a].comment /\ posts'[a].new = posts[a].new
         /\ posts'[a].body = posts[a].body
         /\ DOMAIN comments' = DOMAIN comments
         /\ comments'[posts[a].comment] = posts[a].body
         /\ \A c \in DOMAIN comments \ {posts[a].comment} : comments'[c] = comments[c]
<1> DEFINE q == [posts[a] EXCEPT !.step = "prune"]
<1>1. posts[a] \in Post /\ posts[a] # Away /\ posts[a].step = "save"
  BY DEF SaveComment, Busy, Shape, MentionTypeOK
<1>2. /\ q \in Post /\ q.step = "prune" /\ q.comment = posts[a].comment
      /\ q.new = posts[a].new /\ q.body = posts[a].body /\ q.prune = posts[a].prune
      /\ posts[a].body \in SUBSET Handles
  BY <1>1, PostFields
<1>3. posts' = [posts EXCEPT ![a] = q] BY DEF SaveComment, GoOn
<1> HIDE DEF q
<1>4. /\ posts'[a] = q /\ \A b \in Authors \ {a} : posts'[b] = posts[b]
      /\ posts' \in [Authors -> Post \cup {Away}] /\ q # Away
  BY <1>2, <1>3, OwnPost DEF Shape
<1>5. posts[a].comment \in DOMAIN comments BY <1>1 DEF Shape, PostsOfComments
<1>6. comments \in Seq(SUBSET Handles) BY DEF Shape, MentionTypeOK
<1>7. comments' = [comments EXCEPT ![posts[a].comment] = posts[a].body]
  BY DEF SaveComment
<1>8. /\ DOMAIN comments' = DOMAIN comments /\ Len(comments') = Len(comments)
      /\ comments' \in Seq(SUBSET Handles)
      /\ comments'[posts[a].comment] = posts[a].body
      /\ \A c \in DOMAIN comments \ {posts[a].comment} : comments'[c] = comments[c]
  BY <1>2, <1>5, <1>6, <1>7
<1>9. MentionTypeOK' BY <1>4, <1>8 DEF SaveComment, Shape, MentionTypeOK
<1>10. PostsOfComments' BY <1>1, <1>2, <1>4, <1>8 DEF Shape, PostsOfComments
<1> QED BY <1>1, <1>2, <1>4, <1>8, <1>9, <1>10 DEF Shape

\* Prune remembers the rows that the body does not give.
LEMMA PruneShape ==
  ASSUME MentionAssumption, Shape, NEW a \in Authors, Prune(a)
  PROVE  /\ Shape'
         /\ posts[a] # Away /\ \A b \in Authors \ {a} : posts'[b] = posts[b]
         /\ posts[a].step = "prune" /\ posts'[a] # Away /\ posts'[a].step = "add"
         /\ posts'[a].comment = posts[a].comment /\ posts'[a].new = posts[a].new
         /\ posts'[a].body = posts[a].body
         /\ posts'[a].prune = {m \in Of(posts[a].comment) : m.as \notin posts[a].body}
<1> DEFINE P == {m \in Of(posts[a].comment) : m.as \notin posts[a].body}
           q == [posts[a] EXCEPT !.step = "add", !.prune = P]
<1>1. posts[a] \in Post /\ posts[a] # Away /\ posts[a].step = "prune"
  BY DEF Prune, Busy, Shape, MentionTypeOK
<1>2. P \in SUBSET [comment : 1..MaxComments, person : People, as : Handles]
  <2>1. DOMAIN comments \subseteq 1..MaxComments
    BY BoundsNatural DEF Shape, MentionTypeOK
  <2>2. mentions \subseteq [comment : DOMAIN comments, person : People, as : Handles]
    BY DEF Shape, MentionTypeOK
  <2> QED BY <2>1, <2>2 DEF Of
<1>3. \A m \in P : m.comment = posts[a].comment BY DEF Of
<1>4. posts' = [posts EXCEPT ![a] = q] BY DEF Prune
<1>5. /\ q \in Post /\ q.step = "add" /\ q.comment = posts[a].comment
      /\ q.new = posts[a].new /\ q.body = posts[a].body /\ q.prune = P
  <2> HIDE DEF P
  <2> QED BY <1>1, <1>2 DEF Post
<1> HIDE DEF q
<1>6. /\ posts'[a] = q /\ \A b \in Authors \ {a} : posts'[b] = posts[b]
      /\ posts' \in [Authors -> Post \cup {Away}] /\ q # Away
  BY <1>4, <1>5, OwnPost DEF Shape
<1>7. MentionTypeOK' BY <1>6 DEF Prune, Shape, MentionTypeOK
<1>8. PostsOfComments' BY <1>1, <1>3, <1>5, <1>6, ZenonT(60) DEF Prune, Shape, PostsOfComments
<1> QED BY <1>1, <1>5, <1>6, <1>7, <1>8 DEF Shape, Prune

\* AddMentions leaves rows of existing comments.
LEMMA AddMentionsShape ==
  ASSUME MentionAssumption, Shape, NEW a \in Authors, AddMentions(a)
  PROVE  /\ Shape'
         /\ posts[a] # Away /\ \A b \in Authors \ {a} : posts'[b] = posts[b]
         /\ posts[a].step = "add" /\ posts'[a] # Away
         /\ posts'[a].step = IF posts[a].new THEN "announce" ELSE "touch"
         /\ posts'[a].comment = posts[a].comment /\ posts'[a].new = posts[a].new
<1> DEFINE s == IF posts[a].new THEN "announce" ELSE "touch"
           q == [posts[a] EXCEPT !.prune = {}, !.step = s]
<1>1. posts[a] \in Post /\ posts[a] # Away /\ posts[a].step = "add"
  BY DEF AddMentions, Busy, Shape, MentionTypeOK
<1>2. posts' = [posts EXCEPT ![a] = q] BY DEF AddMentions
<1>3. /\ q \in Post /\ q.step = s /\ q.comment = posts[a].comment
      /\ q.new = posts[a].new /\ q.prune = {}
  <2>1. s \in {"announce", "touch"} OBVIOUS
  <2> HIDE DEF s
  <2> QED BY <1>1, <2>1 DEF Post
<1> HIDE DEF q
<1>4. /\ posts'[a] = q /\ \A b \in Authors \ {a} : posts'[b] = posts[b]
      /\ posts' \in [Authors -> Post \cup {Away}] /\ q # Away
  BY <1>2, <1>3, OwnPost DEF Shape
<1>5. posts[a].comment \in DOMAIN comments /\ posts[a].body \in SUBSET Handles
  BY <1>1, PostFields DEF Shape, PostsOfComments
<1>6. mentions' \subseteq [comment : DOMAIN comments', person : People, as : Handles]
  <2>1. ASSUME NEW r \in People, people[r] \in posts[a].body
        PROVE  Mention(posts[a].comment, r) \in [comment : DOMAIN comments, person : People, as : Handles]
    BY <1>5, <2>1 DEF Mention
  <2>2. mentions \subseteq [comment : DOMAIN comments, person : People, as : Handles]
    BY DEF Shape, MentionTypeOK
  <2> QED BY <2>1, <2>2 DEF AddMentions
<1>7. MentionTypeOK' BY <1>4, <1>6 DEF AddMentions, Shape, MentionTypeOK
<1>8. PostsOfComments' BY <1>1, <1>3, <1>4 DEF AddMentions, Shape, PostsOfComments
<1> QED BY <1>1, <1>3, <1>4, <1>7, <1>8 DEF Shape, AddMentions

\* Announce appends the comment of its request.
LEMMA AnnounceShape ==
  ASSUME MentionAssumption, Shape, NEW a \in Authors, Announce(a)
  PROVE  /\ Shape'
         /\ posts[a] # Away /\ \A b \in Authors \ {a} : posts'[b] = posts[b]
         /\ posts[a].step = "announce" /\ posts'[a] # Away /\ posts'[a].step = "touch"
         /\ posts'[a].comment = posts[a].comment /\ posts'[a].new = posts[a].new
         /\ DOMAIN announced' = DOMAIN announced \cup {Len(announced) + 1}
         /\ Len(announced) + 1 \notin DOMAIN announced
         /\ announced'[Len(announced) + 1] = posts[a].comment
         /\ \A i \in DOMAIN announced : announced'[i] = announced[i]
<1> DEFINE q == [posts[a] EXCEPT !.step = "touch"]
<1>1. posts[a] \in Post /\ posts[a] # Away /\ posts[a].step = "announce"
  BY DEF Announce, Busy, Shape, MentionTypeOK
<1>2. /\ q \in Post /\ q.step = "touch" /\ q.comment = posts[a].comment
      /\ q.new = posts[a].new /\ q.prune = posts[a].prune
      /\ posts[a].comment \in 1..MaxComments
  BY <1>1, PostFields, ZenonT(60)
<1>3. posts' = [posts EXCEPT ![a] = q] BY DEF Announce, GoOn
<1> HIDE DEF q
<1>4. /\ posts'[a] = q /\ \A b \in Authors \ {a} : posts'[b] = posts[b]
      /\ posts' \in [Authors -> Post \cup {Away}] /\ q # Away
  BY <1>2, <1>3, OwnPost DEF Shape
<1>5. announced \in Seq(1..MaxComments) /\ announced' = Append(announced, posts[a].comment)
  BY DEF Announce, Shape, MentionTypeOK
<1>6. /\ announced' \in Seq(1..MaxComments) /\ Len(announced') = Len(announced) + 1
      /\ Len(announced) \in Nat /\ announced'[Len(announced) + 1] = posts[a].comment
      /\ DOMAIN announced = 1..Len(announced) /\ DOMAIN announced' = 1..Len(announced')
      /\ \A i \in DOMAIN announced : announced'[i] = announced[i]
  BY <1>2, <1>5, Appended
<1>7. /\ DOMAIN announced' = DOMAIN announced \cup {Len(announced) + 1}
      /\ Len(announced) + 1 \notin DOMAIN announced
  BY <1>6
<1>8. MentionTypeOK' BY <1>4, <1>6 DEF Announce, Shape, MentionTypeOK
<1>9. PostsOfComments' BY <1>1, <1>2, <1>4 DEF Announce, Shape, PostsOfComments
<1> QED BY <1>1, <1>2, <1>4, <1>6, <1>7, <1>8, <1>9 DEF Shape, Announce

\* A request that ends or dies changes nothing but its answer.
LEMMA LeavingShape ==
  ASSUME MentionAssumption, Shape, NEW a \in Authors,
         TouchAndAnswer(a) \/ TouchRefuses(a) \/ BreakPost(a)
  PROVE  /\ Shape'
         /\ posts[a] # Away /\ posts'[a] = Away /\ \A b \in Authors \ {a} : posts'[b] = posts[b]
         /\ UNCHANGED <<comments, mentions, people, announced, renamed, raced>>
<1>1. /\ posts[a] # Away /\ posts' = [posts EXCEPT ![a] = Away]
      /\ UNCHANGED <<comments, mentions, people, announced, changes, renamed, raced>>
  BY DEF TouchAndAnswer, TouchRefuses, BreakPost, Busy
<1>2. /\ posts'[a] = Away /\ \A b \in Authors \ {a} : posts'[b] = posts[b]
      /\ posts' \in [Authors -> Post \cup {Away}]
  BY <1>1, OwnPost DEF Shape
<1>3. posts[a].comment \in DOMAIN comments BY <1>1 DEF Shape, PostsOfComments
<1>4. answered' \subseteq DOMAIN comments
  BY <1>3 DEF TouchAndAnswer, TouchRefuses, BreakPost, Shape, MentionTypeOK
<1>5. breaks' \in 0..MaxBreaks
  BY BoundsNatural DEF TouchAndAnswer, TouchRefuses, BreakPost, Shape, MentionTypeOK
<1>6. MentionTypeOK' BY <1>1, <1>2, <1>4, <1>5 DEF Shape, MentionTypeOK
<1>7. PostsOfComments' BY <1>1, <1>2 DEF Shape, PostsOfComments
<1> QED BY <1>1, <1>2, <1>6, <1>7 DEF Shape

\* Only names that changed hands differ afterwards.
LEMMA RenameShape ==
  ASSUME MentionAssumption, Shape, NEW p \in People, NEW name \in Handles, RenamePerson(p, name)
  PROVE  /\ Shape'
         /\ renamed \subseteq renamed'
         /\ \A q \in People : people'[q] # people[q] => people'[q] \in renamed'
<1>1. /\ people' \in [People -> Handles \cup {Away}]
      /\ people'[p] = name /\ \A q \in People \ {p} : people'[q] = people[q]
  BY DEF RenamePerson, Shape, MentionTypeOK
<1>2. renamed' = renamed \cup ({name, people[p]} \ {Away}) BY DEF RenamePerson
<1>3. people[p] \in Handles \cup {Away} BY DEF Shape, MentionTypeOK
<1>4. name # Away BY MentionAssumption DEF MentionAssumption
<1>5. renamed' \subseteq Handles /\ renamed \subseteq renamed' /\ name \in renamed'
  BY <1>2, <1>3, <1>4 DEF Shape, MentionTypeOK
<1>6. changes' \in 0..MaxChanges
  BY BoundsNatural DEF RenamePerson, Changes, Shape, MentionTypeOK
<1>7. MentionTypeOK' BY <1>1, <1>5, <1>6 DEF RenamePerson, Shape, MentionTypeOK
<1>8. PostsOfComments' BY DEF RenamePerson, Shape, PostsOfComments
<1> QED BY <1>1, <1>5, <1>7, <1>8 DEF RenamePerson, Shape
-----------------------------------------------------------------------------
(* Announcements.                                                          *)

\* A request that goes on with its comment, before its announcement or after it.
LEMMA GoingKeepsAnnouncing ==
  ASSUME Announcing, NEW a \in Authors,
         posts[a] # Away, posts'[a] # Away, \A b \in Authors \ {a} : posts'[b] = posts[b],
         posts'[a].comment = posts[a].comment, posts'[a].new = posts[a].new,
         posts[a].new => posts'[a].step # "save" /\ (posts'[a].step = "touch" <=> posts[a].step = "touch"),
         DOMAIN comments' = DOMAIN comments, UNCHANGED <<announced, answered, breaks>>
  PROVE  Announcing'
<1>1. Said' = Said BY DEF Said
<1>2. \A b \in Authors, c \in DOMAIN comments : Creating(b, c)' <=> Creating(b, c)
  BY DEF Creating, On
<1>3. \A b \in Authors, c \in DOMAIN comments : Creating(b, c)' =>
        posts'[b].step # "save" /\ (c \in Said' <=> posts'[b].step = "touch")
  BY <1>1, <1>2 DEF Announcing, Creating, On
<1> QED BY <1>1, <1>2, <1>3 DEF Announcing

\* A request that leaves has announced the comment it created, or it has died.
LEMMA LeavingKeepsAnnouncing ==
  ASSUME MentionAssumption, Shape, Announcing, NEW a \in Authors,
         TouchAndAnswer(a) \/ TouchRefuses(a) \/ BreakPost(a)
  PROVE  Announcing'
<1>1. /\ posts[a] # Away /\ posts'[a] = Away /\ \A b \in Authors \ {a} : posts'[b] = posts[b]
      /\ UNCHANGED <<comments, announced>>
  BY LeavingShape
<1>2. Said' = Said BY <1>1 DEF Said
<1>3. \A b \in Authors, c \in DOMAIN comments :
        Creating(b, c)' <=> b # a /\ Creating(b, c)
  BY <1>1 DEF Creating, On
<1>4. posts[a].comment \in DOMAIN comments BY <1>1 DEF Shape, PostsOfComments
<1>5. answered' \subseteq Said
  <2>1. CASE TouchAndAnswer(a) /\ posts[a].new
    <3>1. posts[a].step = "touch" /\ Creating(a, posts[a].comment)
      BY <2>1, <1>1 DEF TouchAndAnswer, Busy, Creating, On
    <3>2. posts[a].comment \in Said BY <3>1, <1>4 DEF Announcing
    <3> QED BY <3>2, <2>1 DEF TouchAndAnswer, Announcing
  <2>2. CASE ~(TouchAndAnswer(a) /\ posts[a].new)
    BY <2>2 DEF TouchAndAnswer, TouchRefuses, BreakPost, Announcing
  <2> QED BY <2>1, <2>2
<1>6. breaks' = 0 => breaks = 0 /\ posts[a].step = "touch"
  BY DEF TouchAndAnswer, TouchRefuses, BreakPost, Busy, Shape, MentionTypeOK
<1>7. ASSUME breaks' = 0, NEW c \in DOMAIN comments
      PROVE  c \in Said \/ \E b \in Authors : Creating(b, c)'
  <2>1. c \in Said \/ \E b \in Authors : Creating(b, c) BY <1>6, <1>7 DEF Announcing
  <2>2. CASE Creating(a, c) BY <2>2, <1>6, <1>7 DEF Announcing
  <2> QED BY <2>1, <2>2, <1>3
<1>8. \A b \in Authors, c \in DOMAIN comments : Creating(b, c)' =>
        posts'[b].step # "save" /\ (c \in Said <=> posts'[b].step = "touch")
  BY <1>1, <1>3 DEF Announcing
<1> QED BY <1>1, <1>2, <1>3, <1>5, <1>7, <1>8 DEF Announcing

\* Every step keeps the announcements as they should be.
LEMMA AnnouncingStep ==
  ASSUME MentionAssumption, Shape, Announcing, [MentionNext]_mentionVars
  PROVE  Announcing'
<1>1. ASSUME NEW a \in Authors, NEW body \in SUBSET Handles, AddComment(a, body)
      PROVE  Announcing'
  <2>0. PICK n : n = Len(comments) + 1 OBVIOUS
  <2>1. /\ posts[a] = Away /\ \A b \in Authors \ {a} : posts'[b] = posts[b]
        /\ posts'[a] # Away /\ posts'[a].comment = n /\ posts'[a].new = TRUE
        /\ posts'[a].step = "prune"
        /\ DOMAIN comments' = DOMAIN comments \cup {n} /\ n \notin DOMAIN comments
    BY <1>1, <2>0, AddCommentShape
  <2>2. Said' = Said /\ UNCHANGED <<announced, answered, breaks>>
    BY <1>1 DEF AddComment, Said
  <2>3. n \notin Said BY <2>1 DEF Announcing
  <2>4. /\ \A b \in Authors, c \in DOMAIN comments : Creating(b, c)' <=> Creating(b, c)
        /\ \A b \in Authors : Creating(b, n)' <=> b = a
    <3>1. \A b \in Authors \ {a} : ~On(b, n)
      BY <2>1 DEF On, Shape, PostsOfComments
    <3> QED BY <2>1, <3>1 DEF Creating, On
  <2>5. \A b \in Authors, c \in DOMAIN comments' : Creating(b, c)' =>
          posts'[b].step # "save" /\ (c \in Said <=> posts'[b].step = "touch")
    <3>1. ASSUME NEW b \in Authors, NEW c \in DOMAIN comments, Creating(b, c)'
          PROVE  posts'[b].step # "save" /\ (c \in Said <=> posts'[b].step = "touch")
      <4>1. Creating(b, c) /\ b # a BY <2>1, <2>4, <3>1 DEF Creating, On
      <4> QED BY <4>1, <2>1 DEF Announcing
    <3>2. ASSUME NEW b \in Authors, Creating(b, n)'
          PROVE  posts'[b].step # "save" /\ (n \in Said <=> posts'[b].step = "touch")
      BY <2>1, <2>3, <2>4, <3>2
    <3> QED BY <2>1, <3>1, <3>2
  <2>6. \A b, d \in Authors, c \in DOMAIN comments' : Creating(b, c)' /\ Creating(d, c)' => b = d
    BY <2>1, <2>4 DEF Announcing
  <2>7. breaks = 0 => \A c \in DOMAIN comments' : c \in Said \/ \E b \in Authors : Creating(b, c)'
    BY <2>1, <2>4 DEF Announcing
  <2>8. Said \subseteq DOMAIN comments' BY <2>1 DEF Announcing
  <2> QED BY <2>2, <2>5, <2>6, <2>7, <2>8 DEF Announcing
<1>2. ASSUME NEW a \in Authors, NEW body \in SUBSET Handles, NEW d \in DOMAIN comments,
             EditComment(a, d, body)
      PROVE  Announcing'
  <2>1. /\ posts[a] = Away /\ \A b \in Authors \ {a} : posts'[b] = posts[b]
        /\ posts'[a] # Away /\ posts'[a].new = FALSE
    BY <1>2, EditCommentShape
  <2>2. Said' = Said /\ UNCHANGED <<comments, announced, answered, breaks>>
    BY <1>2 DEF EditComment, Said
  <2>3. \A b \in Authors, c \in DOMAIN comments : Creating(b, c)' <=> Creating(b, c)
    BY <2>1 DEF Creating, On
  <2>4. \A b \in Authors, c \in DOMAIN comments : Creating(b, c)' =>
          posts'[b].step # "save" /\ (c \in Said <=> posts'[b].step = "touch")
    <3>1. ASSUME NEW b \in Authors, NEW c \in DOMAIN comments, Creating(b, c)'
          PROVE  posts'[b].step # "save" /\ (c \in Said <=> posts'[b].step = "touch")
      <4>1. Creating(b, c) /\ b # a BY <2>1, <2>3, <3>1 DEF Creating, On
      <4> QED BY <4>1, <2>1 DEF Announcing
    <3> QED BY <3>1
  <2> QED BY <2>2, <2>3, <2>4 DEF Announcing
<1>3. ASSUME NEW a \in Authors, SaveComment(a) PROVE Announcing'
  <2>1. posts[a].new => FALSE
    <3>1. posts[a] # Away /\ posts[a].step = "save" /\ posts[a].comment \in DOMAIN comments
      BY <1>3 DEF SaveComment, Busy, Shape, PostsOfComments
    <3> QED BY <3>1 DEF Announcing, Creating, On
  <2>2. UNCHANGED <<announced, answered, breaks>> BY <1>3 DEF SaveComment
  <2> QED BY <1>3, <2>1, <2>2, SaveCommentShape, GoingKeepsAnnouncing
<1>4. ASSUME NEW a \in Authors, Prune(a) PROVE Announcing'
  <2>1. UNCHANGED <<comments, announced, answered, breaks>> BY <1>4 DEF Prune
  <2>2. /\ posts[a] # Away /\ \A b \in Authors \ {a} : posts'[b] = posts[b]
        /\ posts[a].step = "prune" /\ posts'[a] # Away /\ posts'[a].step = "add"
        /\ posts'[a].comment = posts[a].comment /\ posts'[a].new = posts[a].new
    BY <1>4, PruneShape
  <2> QED BY <2>1, <2>2, GoingKeepsAnnouncing
<1>5. ASSUME NEW a \in Authors, AddMentions(a) PROVE Announcing'
  <2>1. UNCHANGED <<comments, announced, answered, breaks>> BY <1>5 DEF AddMentions
  <2>2. /\ posts[a] # Away /\ \A b \in Authors \ {a} : posts'[b] = posts[b]
        /\ posts[a].step = "add" /\ posts'[a] # Away
        /\ posts'[a].step = IF posts[a].new THEN "announce" ELSE "touch"
        /\ posts'[a].comment = posts[a].comment /\ posts'[a].new = posts[a].new
    BY <1>5, AddMentionsShape
  <2> QED BY <2>1, <2>2, GoingKeepsAnnouncing
<1>6. ASSUME NEW a \in Authors, Announce(a) PROVE Announcing'
  <2> DEFINE c == posts[a].comment
             n == Len(announced) + 1
  <2>1. /\ posts[a] # Away /\ \A b \in Authors \ {a} : posts'[b] = posts[b]
        /\ posts[a].step = "announce" /\ posts'[a] # Away /\ posts'[a].step = "touch"
        /\ posts'[a].comment = c /\ posts'[a].new = posts[a].new
        /\ DOMAIN announced' = DOMAIN announced \cup {n} /\ n \notin DOMAIN announced
        /\ announced'[n] = c
        /\ \A i \in DOMAIN announced : announced'[i] = announced[i]
    BY <1>6, AnnounceShape
  <2>2. c \in DOMAIN comments BY <2>1 DEF Shape, PostsOfComments
  <2> HIDE DEF c, n
  <2>3. UNCHANGED <<comments, answered, breaks>> BY <1>6 DEF Announce
  <2>4. Said' = Said \cup {c} BY <2>1 DEF Said
  <2>5. \A b \in Authors, d \in DOMAIN comments : Creating(b, d)' <=> Creating(b, d)
    BY <2>1 DEF Creating, On, c
  <2>6. Creating(a, c) /\ c \notin Said
    <3>1. posts[a].new BY <2>1 DEF Shape, PostsOfComments
    <3>2. Creating(a, c) BY <3>1, <2>1 DEF Creating, On, c
    <3> QED BY <3>2, <2>1, <2>2 DEF Announcing
  <2>7. \A i, j \in DOMAIN announced' : announced'[i] = announced'[j] => i = j
    <3>1. \A i \in DOMAIN announced : announced[i] # c BY <2>6 DEF Said
    <3> QED BY <2>1, <3>1 DEF Announcing
  <2>8. \A b \in Authors, d \in DOMAIN comments : Creating(b, d)' =>
          posts'[b].step # "save" /\ (d \in Said' <=> posts'[b].step = "touch")
    <3> SUFFICES ASSUME NEW b \in Authors, NEW d \in DOMAIN comments, Creating(b, d)
                 PROVE  posts'[b].step # "save" /\ (d \in Said' <=> posts'[b].step = "touch")
      BY <2>5
    <3>1. CASE b = a
      <4>1. d = c BY <3>1 DEF Creating, On, c
      <4> QED BY <4>1, <3>1, <2>1, <2>4
    <3>2. CASE b # a
      <4>1. d # c BY <3>2, <2>2, <2>6 DEF Announcing
      <4> QED BY <4>1, <3>2, <2>1, <2>4 DEF Announcing
    <3> QED BY <3>1, <3>2
  <2> QED BY <2>2, <2>3, <2>4, <2>5, <2>7, <2>8 DEF Announcing
<1>7. ASSUME NEW a \in Authors, TouchAndAnswer(a) \/ TouchRefuses(a) \/ BreakPost(a)
      PROVE  Announcing'
  BY <1>7, LeavingKeepsAnnouncing
<1>8. ASSUME UNCHANGED <<comments, posts, announced, answered, breaks>> PROVE Announcing'
  BY <1>8 DEF Announcing, Said, Creating, On
<1>9. ASSUME NEW p \in People, NEW name \in Handles, RenamePerson(p, name) PROVE Announcing'
  BY <1>9, <1>8 DEF RenamePerson
<1>10. CASE UNCHANGED mentionVars BY <1>10, <1>8 DEF mentionVars
<1> QED BY <1>1, <1>2, <1>3, <1>4, <1>5, <1>6, <1>7, <1>9, <1>10 DEF MentionNext
-----------------------------------------------------------------------------
(* Mentions.                                                               *)

\* A comment that the step is not about.
LEMMA OthersFollowed ==
  ASSUME NEW c, Followed(c), comments'[c] = comments[c], Of(c)' = Of(c),
         UNCHANGED <<people, renamed>>,
         \A b \in Authors : On(b, c)' <=> On(b, c),
         \A b \in Authors : On(b, c) => posts'[b] = posts[b]
  PROVE  Followed(c)'
<1>1. InSync(c) => InSync(c)'
  <2>1. \A p \in People : Mention(c, p) \in mentions => Mention(c, p) \in Of(c)
    BY DEF Of, Mention
  <2>2. \A p \in People : Mention(c, p)' = Mention(c, p) BY DEF Mention
  <2>3. Of(c)' \subseteq mentions' BY DEF Of
  <2> QED BY <2>1, <2>2, <2>3 DEF InSync
<1>2. \A b \in Authors : On(b, c) => Keeps(b)'
  <2> SUFFICES ASSUME NEW b \in Authors, On(b, c) PROVE Keeps(b)'
    OBVIOUS
  <2>1. Keeps(b) /\ posts'[b] = posts[b] /\ posts[b].comment = c BY DEF Followed, On
  <2> QED BY <1>1, <2>1 DEF Keeps, Busy
<1>3. InWork(c)' <=> InWork(c) BY DEF InWork, On
<1> QED BY <1>1, <1>2, <1>3 DEF Followed

\* A request that is alone on its comment, and keeps what it should.
LEMMA OwnFollowed ==
  ASSUME NEW a \in Authors, NEW c, On(a, c), Followed(c),
         \A b \in Authors \ {a} : posts'[b] = posts[b],
         On(a, c)', Keeps(a)'
  PROVE  Followed(c)'
<1>1. \A b \in Authors : On(b, c)' => b = a BY DEF Followed, On
<1>2. InWork(c)' BY DEF InWork, On
<1> QED BY <1>1, <1>2 DEF Followed

\* Steps that touch neither bodies, mentions nor names.
LEMMA SyncKept ==
  ASSUME NEW c, InSync(c), UNCHANGED <<comments, mentions, people, renamed>>
  PROVE  InSync(c)'
  BY DEF InSync, Of, Mention

Following == breaks = 0 => \A c \in DOMAIN comments \ raced : Followed(c)

\* A request that goes on: what it does to other comments, and to its own.
LEMMA GoingKeepsFollowing ==
  ASSUME Shape, Following, NEW a \in Authors,
         posts[a] # Away, posts'[a] # Away, posts'[a].comment = posts[a].comment,
         \A b \in Authors \ {a} : posts'[b] = posts[b],
         DOMAIN comments' = DOMAIN comments,
         \A c \in DOMAIN comments \ {posts[a].comment} :
           comments'[c] = comments[c] /\ Of(c)' = Of(c),
         UNCHANGED <<people, renamed, raced, breaks>>,
         Keeps(a) /\ Followed(posts[a].comment) => Keeps(a)'
  PROVE  Following'
<1> SUFFICES ASSUME breaks = 0, NEW c \in DOMAIN comments \ raced, Followed(c) PROVE Followed(c)'
  BY DEF Following
<1>1. CASE c = posts[a].comment
  <2>1. On(a, c) /\ On(a, c)' BY <1>1 DEF On
  <2>2. Keeps(a)' BY <1>1, <2>1 DEF Followed
  <2> QED BY <2>1, <2>2, OwnFollowed
<1>2. CASE c # posts[a].comment
  <2>1. ~On(a, c) /\ ~On(a, c)' BY <1>2 DEF On
  <2>2. \A b \in Authors : (On(b, c)' <=> On(b, c)) /\ (On(b, c) => posts'[b] = posts[b])
    BY <2>1 DEF On
  <2> QED BY <1>2, <2>2, OthersFollowed
<1> QED BY <1>1, <1>2

\* Every step keeps the mentions as they should be.
LEMMA FollowingStep ==
  ASSUME MentionAssumption, Shape, Following, [MentionNext]_mentionVars
  PROVE  Following'
<1>1. ASSUME NEW a \in Authors, NEW body \in SUBSET Handles, AddComment(a, body)
      PROVE  Following'
  <2>0. PICK n : n = Len(comments) + 1 OBVIOUS
  <2>1. /\ posts[a] = Away /\ \A b \in Authors \ {a} : posts'[b] = posts[b]
        /\ posts'[a] # Away /\ posts'[a].comment = n
        /\ posts'[a].step = "prune" /\ posts'[a].body = body
        /\ DOMAIN comments' = DOMAIN comments \cup {n} /\ n \notin DOMAIN comments
        /\ comments'[n] = body
        /\ \A c \in DOMAIN comments : comments'[c] = comments[c]
    BY <1>1, <2>0, AddCommentShape
  <2>2. UNCHANGED <<mentions, people, renamed, raced, breaks>> BY <1>1 DEF AddComment
  <2>3. Keeps(a)' BY <2>1 DEF Keeps, Busy
  <2>4. \A b \in Authors : On(b, n)' <=> b = a
    BY <2>1 DEF On, Shape, PostsOfComments
  <2>5. Followed(n)'
    <3>1. InWork(n)' BY <2>4 DEF InWork, On
    <3> QED BY <2>3, <2>4, <3>1 DEF Followed
  <2>6. ASSUME NEW c \in DOMAIN comments, Followed(c) PROVE Followed(c)'
    <3>1. c # n BY <2>1
    <3>2. \A b \in Authors : (On(b, c)' <=> On(b, c)) /\ (On(b, c) => posts'[b] = posts[b])
      BY <2>1, <3>1 DEF On
    <3>3. Of(c)' = Of(c) BY <2>2 DEF Of
    <3> QED BY <2>1, <2>2, <2>6, <3>2, <3>3, OthersFollowed
  <2> QED BY <2>1, <2>2, <2>5, <2>6 DEF Following
<1>2. ASSUME NEW a \in Authors, NEW body \in SUBSET Handles, NEW d \in DOMAIN comments,
             EditComment(a, d, body)
      PROVE  Following'
  <2>1. /\ posts[a] = Away /\ \A b \in Authors \ {a} : posts'[b] = posts[b]
        /\ posts'[a] # Away /\ posts'[a].comment = d /\ posts'[a].step = "save"
    BY <1>2, EditCommentShape
  <2>2. UNCHANGED <<comments, mentions, people, renamed, breaks>> /\ raced \subseteq raced'
    BY <1>2 DEF EditComment
  <2> SUFFICES ASSUME breaks = 0, NEW c \in DOMAIN comments \ raced', Followed(c)
               PROVE  Followed(c)'
    BY <2>2 DEF Following
  <2>3. CASE c = d
    <3>1. ~InWork(d) BY <1>2, <2>3 DEF EditComment, InWork
    <3>2. InSync(d)' BY <2>2, <2>3, <3>1, SyncKept DEF Followed
    <3>3. Keeps(a)' BY <2>1, <3>2 DEF Keeps, Busy
    <3>4. \A b \in Authors : On(b, d)' <=> b = a BY <2>1, <3>1 DEF On, InWork
    <3>5. InWork(d)' BY <2>1 DEF InWork
    <3> QED BY <2>3, <3>3, <3>4, <3>5 DEF Followed
  <2>4. CASE c # d
    <3>1. \A b \in Authors : (On(b, c)' <=> On(b, c)) /\ (On(b, c) => posts'[b] = posts[b])
      BY <2>1, <2>4 DEF On
    <3>2. Of(c)' = Of(c) BY <2>2 DEF Of
    <3> QED BY <2>2, <3>1, <3>2, OthersFollowed
  <2> QED BY <2>3, <2>4
<1>3. ASSUME NEW a \in Authors, SaveComment(a) PROVE Following'
  <2>1. UNCHANGED <<mentions, people, renamed, raced, breaks>> BY <1>3 DEF SaveComment
  <2>2. /\ posts[a] # Away /\ \A b \in Authors \ {a} : posts'[b] = posts[b]
        /\ posts'[a] # Away /\ posts'[a].step = "prune"
        /\ posts'[a].comment = posts[a].comment /\ posts'[a].body = posts[a].body
        /\ DOMAIN comments' = DOMAIN comments
        /\ comments'[posts[a].comment] = posts[a].body
        /\ \A c \in DOMAIN comments \ {posts[a].comment} : comments'[c] = comments[c]
    BY <1>3, SaveCommentShape
  <2>3. Keeps(a)' BY <2>2 DEF Keeps, Busy
  <2>4. \A c : Of(c)' = Of(c) BY <2>1 DEF Of
  <2> QED BY <2>1, <2>2, <2>3, <2>4, GoingKeepsFollowing
<1>4. ASSUME NEW a \in Authors, Prune(a) PROVE Following'
  <2>1. UNCHANGED <<comments, mentions, people, renamed, raced, breaks>> BY <1>4 DEF Prune
  <2>2. /\ posts[a] # Away /\ \A b \in Authors \ {a} : posts'[b] = posts[b]
        /\ posts[a].step = "prune" /\ posts'[a] # Away /\ posts'[a].step = "add"
        /\ posts'[a].comment = posts[a].comment /\ posts'[a].body = posts[a].body
        /\ posts'[a].prune = {m \in Of(posts[a].comment) : m.as \notin posts[a].body}
    BY <1>4, PruneShape
  <2>3. \A c : Of(c)' = Of(c) BY <2>1 DEF Of
  <2>4. Keeps(a) => Keeps(a)'
    <3>1. Keeps(a) => posts[a].body = comments[posts[a].comment]
      BY <2>2 DEF Keeps, Busy
    <3> QED BY <2>1, <2>2, <2>3, <3>1 DEF Keeps, Busy
  <2> QED BY <2>1, <2>2, <2>3, <2>4, GoingKeepsFollowing
<1>5. ASSUME NEW a \in Authors, AddMentions(a) PROVE Following'
  <2>0. PICK d : d = posts[a].comment OBVIOUS
  <2>1. UNCHANGED <<comments, people, renamed, raced, breaks>> BY <1>5 DEF AddMentions
  <2>2. /\ posts[a] # Away /\ \A b \in Authors \ {a} : posts'[b] = posts[b]
        /\ posts[a].step = "add" /\ posts'[a] # Away
        /\ posts'[a].step = IF posts[a].new THEN "announce" ELSE "touch"
        /\ posts'[a].comment = d
    BY <1>5, <2>0, AddMentionsShape
  <2>3. mentions' = (mentions \ posts[a].prune)
                    \cup {Mention(d, q) : q \in {q \in People : people[q] \in posts[a].body}}
    BY <1>5, <2>0 DEF AddMentions
  <2>4. \A m \in posts[a].prune : m.comment = d
    BY <2>0, <2>2 DEF Shape, PostsOfComments
  <2>5. \A c \in DOMAIN comments \ {d} : Of(c)' = Of(c)
    <3> SUFFICES ASSUME NEW c \in DOMAIN comments \ {d} PROVE Of(c)' = Of(c)
      OBVIOUS
    <3>1. \A m : m.comment = c => m \notin posts[a].prune BY <2>4
    <3>2. \A q \in People : Mention(d, q).comment = d BY DEF Mention
    <3> QED BY <2>3, <3>1, <3>2 DEF Of
  <2>6. Keeps(a) => Keeps(a)'
    <3> SUFFICES ASSUME Keeps(a) PROVE InSync(d)'
      BY <2>2 DEF Keeps, Busy
    <3>1. /\ posts[a].body = comments[d]
          /\ posts[a].prune = {m \in Of(d) : m.as \notin posts[a].body}
      BY <2>0, <2>2 DEF Keeps, Busy
    <3>2. \A q \in People : Mention(d, q).as = people[q] BY DEF Mention
    <3>3. \A m \in Of(d)' : m.as \in comments[d] BY <2>3, <3>1, <3>2 DEF Of
    <3>4. \A q \in People : people[q] \in comments[d] => Mention(d, q) \in mentions'
      BY <2>3, <3>1
    <3> QED BY <2>1, <3>3, <3>4 DEF InSync, Mention
  <2> QED BY <2>0, <2>1, <2>2, <2>5, <2>6, GoingKeepsFollowing
<1>6. ASSUME NEW a \in Authors, Announce(a) PROVE Following'
  <2>0. PICK d : d = posts[a].comment OBVIOUS
  <2>1. UNCHANGED <<comments, mentions, people, renamed, raced, breaks>> BY <1>6 DEF Announce
  <2>2. /\ posts[a] # Away /\ \A b \in Authors \ {a} : posts'[b] = posts[b]
        /\ posts[a].step = "announce" /\ posts'[a] # Away /\ posts'[a].step = "touch"
        /\ posts'[a].comment = posts[a].comment
    BY <1>6, AnnounceShape
  <2>3. \A c : Of(c)' = Of(c) BY <2>1 DEF Of
  <2>4. Keeps(a) => Keeps(a)'
    <3>1. Keeps(a) => InSync(d) BY <2>0, <2>2 DEF Keeps, Busy
    <3>2. InSync(d) => InSync(d)' BY <2>1, SyncKept
    <3> QED BY <2>0, <2>2, <3>1, <3>2 DEF Keeps, Busy
  <2> QED BY <2>1, <2>2, <2>3, <2>4, GoingKeepsFollowing
<1>7. ASSUME NEW a \in Authors, TouchAndAnswer(a) \/ TouchRefuses(a) \/ BreakPost(a)
      PROVE  Following'
  <2>1. /\ posts[a] # Away /\ posts'[a] = Away /\ \A b \in Authors \ {a} : posts'[b] = posts[b]
        /\ UNCHANGED <<comments, mentions, people, renamed, raced>>
    BY <1>7, LeavingShape
  <2>2. breaks' = 0 => breaks = 0 /\ posts[a].step = "touch"
    BY <1>7 DEF TouchAndAnswer, TouchRefuses, BreakPost, Busy, Shape, MentionTypeOK
  <2> SUFFICES ASSUME breaks' = 0, NEW c \in DOMAIN comments \ raced, Followed(c)
               PROVE  Followed(c)'
    BY <2>1, <2>2 DEF Following
  <2>3. CASE c = posts[a].comment
    <3>1. On(a, c) BY <2>1, <2>3 DEF On
    <3>2. InSync(c) BY <2>2, <2>3, <3>1 DEF Followed, Keeps, Busy
    <3>3. InSync(c)' BY <2>1, <3>2, SyncKept
    <3>4. \A b \in Authors : ~On(b, c)' BY <2>1, <3>1 DEF Followed, On
    <3> QED BY <3>3, <3>4 DEF Followed
  <2>4. CASE c # posts[a].comment
    <3>1. \A b \in Authors : (On(b, c)' <=> On(b, c)) /\ (On(b, c) => posts'[b] = posts[b])
      BY <2>1, <2>4 DEF On
    <3>2. Of(c)' = Of(c) BY <2>1 DEF Of
    <3> QED BY <2>1, <3>1, <3>2, OthersFollowed
  <2> QED BY <2>3, <2>4
<1>8. ASSUME NEW p \in People, NEW name \in Handles, RenamePerson(p, name) PROVE Following'
  <2>1. UNCHANGED <<comments, mentions, posts, raced, breaks>> BY <1>8 DEF RenamePerson
  <2>2. renamed \subseteq renamed' /\ \A q \in People : people'[q] # people[q] => people'[q] \in renamed'
    BY <1>8, RenameShape
  <2>3. ASSUME NEW c, InSync(c) PROVE InSync(c)'
    <3>1. Of(c)' = Of(c) BY <2>1 DEF Of
    <3>2. ASSUME NEW q \in People, people'[q] \in comments[c] \ renamed'
          PROVE  Mention(c, q)' \in mentions
      BY <2>2, <2>3, <3>2 DEF InSync, Mention
    <3> QED BY <2>1, <2>3, <3>1, <3>2 DEF InSync
  <2> SUFFICES ASSUME breaks = 0, NEW c \in DOMAIN comments \ raced, Followed(c)
               PROVE  Followed(c)'
    BY <2>1 DEF Following
  <2>4. \A b \in Authors : On(b, c)' <=> On(b, c) BY <2>1 DEF On
  <2>5. Of(c)' = Of(c) BY <2>1 DEF Of
  <2>6. ASSUME NEW b \in Authors, On(b, c) PROVE Keeps(b)'
    <3>1. Keeps(b) /\ posts[b].comment = c BY <2>6 DEF Followed, On
    <3>2. InSync(c) => InSync(c)' BY <2>3
    <3> QED BY <2>1, <2>5, <3>1, <3>2 DEF Keeps, Busy
  <2>7. InWork(c)' <=> InWork(c) BY <2>1 DEF InWork
  <2> QED BY <2>3, <2>4, <2>6, <2>7 DEF Followed
<1>9. CASE UNCHANGED mentionVars
  BY <1>9 DEF mentionVars, Following, Followed, On, Keeps, Busy, InWork, InSync, Of, Mention
<1> QED BY <1>1, <1>2, <1>3, <1>4, <1>5, <1>6, <1>7, <1>8, <1>9 DEF MentionNext

\* Every step keeps the types.
LEMMA ShapeStep ==
  ASSUME MentionAssumption, Shape, [MentionNext]_mentionVars
  PROVE  Shape'
<1>1. CASE UNCHANGED mentionVars
  BY <1>1 DEF mentionVars, Shape, MentionTypeOK, PostsOfComments
<1>2. CASE MentionNext
  BY <1>2, AddCommentShape, EditCommentShape, SaveCommentShape, PruneShape, AddMentionsShape,
     AnnounceShape, LeavingShape, RenameShape DEF MentionNext
<1> QED BY <1>1, <1>2

\* What the invariant says of comments at rest.
LEMMA InvReaches == ASSUME MentionInv PROVE CommentsReachReaders
<1>1. AnnouncedOnce
  <2>1. \A c \in DOMAIN comments : (\E a \in Authors : Creating(a, c)) => InWork(c)
    BY DEF Creating, On, InWork
  <2> QED BY <2>1 DEF MentionInv, Announcing, AnnouncedOnce, Said
<1>2. MentionsFollowBody
  BY DEF MentionInv, Followed, InSync, MentionsFollowBody
<1> QED BY <1>1, <1>2 DEF CommentsReachReaders

(* A comment is announced once, by the request that creates it, and mentions
   whom its body names, unless a worker has died, two requests have worked on
   it at a time or a name has changed hands (core/signals.py, sync_mentions):
   for any number of comments, of requests at once and of users. *)
THEOREM CommentsReach == ASSUME MentionAssumption PROVE MentionSpec => []CommentsReachReaders
<1>1. MentionInit => MentionInv BY InitialMentions
<1>2. MentionInv /\ [MentionNext]_mentionVars => MentionInv'
  <2> SUFFICES ASSUME MentionInv, [MentionNext]_mentionVars PROVE MentionInv'
    OBVIOUS
  <2>1. Shape /\ Announcing /\ Following BY DEF MentionInv, Shape, Following
  <2>2. Shape' /\ Announcing' /\ Following'
    BY <2>1, ShapeStep, AnnouncingStep, FollowingStep
  <2> QED BY <2>2 DEF MentionInv, Shape, Following
<1>3. MentionInv => CommentsReachReaders BY InvReaches
<1> QED BY <1>1, <1>2, <1>3, PTL DEF MentionSpec

-----------------------------------------------------------------------------
(* The history.                                                            *)

\* The history ends with what this instance shows.
Shown(seen) ==
  \A f \in Tracked : \/ told[f] = Text(seen[f]) /\ f \notin gaps
                     \/ f = "description" /\ silent

\* What a request that nobody interferes with knows about the row.
Knows(a) ==
  /\ a.saved.state = record.state
  /\ a.step = "read" => a.kind \in {"update", "admin"} /\ a.snapshot = record
  /\ a.step = "save" =>
       /\ a.kind = "describe" => /\ silent /\ a.snapshot = a.saved
                                 /\ a.saved.group = record.group
                                 /\ a.saved.archived = record.archived
       /\ a.kind # "describe" => a.snapshot = record
       /\ a.kind = "archive" => /\ a.saved.description = record.description
                                /\ a.saved.group = record.group
       /\ a.kind # "move"
  /\ a.step = "transit" => \/ record = a.saved
                           \/ a.target # a.saved.state
  /\ a.step = "tell" => record = a.saved

\* As long as requests come one after the other: one at a time, which knows
\* the row, and whose snapshot is what the history ends with.
OneAfterTheOther ==
  ~mixed =>
    /\ \A h, k \in Handlers : acts[h] # Free /\ acts[k] # Free => h = k
    /\ \A h \in Handlers : acts[h] # Free =>
         /\ Knows(acts[h])
         /\ lost = 0 => Shown(acts[h].snapshot)
    /\ moved = record.state
    /\ Quiet /\ lost = 0 => Shown(record)

\* The invariant.
HistoryInv == HistoryTypeOK /\ OneAfterTheOther

\* An instance of the issue, and a request with another step.
LEMMA ActShape ==
  ASSUME NEW a \in Act
  PROVE  /\ a.saved \in Issue /\ a.snapshot \in Issue /\ a.target \in States
         /\ a.step \in {"read", "save", "transit", "tell"}
         /\ a.kind \in {"update", "describe", "move", "archive", "admin"}
  BY DEF Act

\* A request starts with a snapshot of the row, or with one that is as good.
LEMMA HistoryBegin ==
  ASSUME HistoryAssumption, HistoryInv, NEW h \in Handlers, NEW a \in Act, Begin(h, a),
         silent' \in BOOLEAN, silent => silent',
         Knows(a)', Shown(record) => Shown(a.snapshot)'
  PROVE  HistoryInv'
<1>1. /\ acts[h] = Free /\ acts' = [acts EXCEPT ![h] = a] /\ a # Free
      /\ mixed' = (mixed \/ \E k \in Handlers : acts[k] # Free)
      /\ begun' = begun + 1 /\ begun < MaxWrites
      /\ UNCHANGED <<record, told, gaps, moved, lost>>
  BY HistoryAssumption DEF Begin
<1>2. HistoryTypeOK' BY <1>1, HistoryAssumption DEF HistoryInv, HistoryTypeOK
<1>3. OneAfterTheOther'
  <2> SUFFICES ASSUME ~mixed' PROVE OneAfterTheOther' BY DEF OneAfterTheOther
  <2>1. ~mixed /\ \A k \in Handlers : acts[k] = Free BY <1>1
  <2>2. acts'[h] = a /\ \A k \in Handlers \ {h} : acts'[k] = Free
    BY <1>1, <2>1 DEF HistoryInv, HistoryTypeOK
  <2>3. moved = record.state /\ (lost = 0 => Shown(record))
    BY <2>1 DEF HistoryInv, OneAfterTheOther, Quiet
  <2>4. \A k \in Handlers : acts'[k] # Free => k = h /\ acts'[k] = a BY <2>2
  <2>5. ~Quiet' BY <1>1, <2>2 DEF Quiet
  <2>6. \A k, l \in Handlers : acts'[k] # Free /\ acts'[l] # Free => k = l BY <2>4
  <2>7. \A k \in Handlers : acts'[k] # Free => Knows(acts[k])'
    <3> SUFFICES ASSUME NEW k \in Handlers, acts'[k] # Free PROVE Knows(acts[k])' OBVIOUS
    <3>1. acts'[k] = a BY <2>4
    <3> QED BY <3>1 DEF Knows
  <2>8. \A k \in Handlers : acts'[k] # Free /\ lost' = 0 => Shown(acts[k].snapshot)'
    <3> SUFFICES ASSUME NEW k \in Handlers, acts'[k] # Free, lost' = 0
                 PROVE Shown(acts[k].snapshot)'
      OBVIOUS
    <3>1. acts'[k] = a BY <2>4
    <3>2. Shown(a.snapshot)' BY <1>1, <2>3
    <3> QED BY <3>1, <3>2 DEF Shown
  <2> QED BY <1>1, <2>3, <2>5, <2>6, <2>7, <2>8 DEF OneAfterTheOther
<1> QED BY <1>2, <1>3 DEF HistoryInv

\* A request goes on.
LEMMA HistoryGoesOn ==
  ASSUME HistoryAssumption, HistoryInv, NEW h \in Handlers, acts[h] # Free, NEW b \in Act,
         acts' = [acts EXCEPT ![h] = b],
         record' \in Issue, moved' \in States,
         UNCHANGED <<told, gaps, begun, lost, silent, mixed>>,
         b.snapshot \in Issue,
         ~mixed => /\ Knows(b)' /\ moved' = record'.state
                   /\ lost = 0 => Shown(b.snapshot)
  PROVE  HistoryInv'
<1>1. HistoryTypeOK' BY HistoryAssumption DEF HistoryInv, HistoryTypeOK
<1>2. OneAfterTheOther'
  <2> SUFFICES ASSUME ~mixed' PROVE OneAfterTheOther' BY DEF OneAfterTheOther
  <2>1. ~mixed OBVIOUS
  <2>2. \A k \in Handlers : k # h => acts[k] = Free
    BY <2>1 DEF HistoryInv, OneAfterTheOther
  <2>3. acts'[h] = b /\ \A k \in Handlers \ {h} : acts'[k] = Free
    BY <2>2 DEF HistoryInv, HistoryTypeOK
  <2>4. b # Free BY HistoryAssumption
  <2>5. ~Quiet' BY <2>3, <2>4 DEF Quiet
  <2>6. \A k \in Handlers : acts'[k] # Free => k = h /\ acts'[k] = b BY <2>3
  <2>7. \A k, l \in Handlers : acts'[k] # Free /\ acts'[l] # Free => k = l BY <2>6
  <2>8. \A k \in Handlers : acts'[k] # Free => Knows(acts[k])'
    <3> SUFFICES ASSUME NEW k \in Handlers, acts'[k] # Free PROVE Knows(acts[k])' OBVIOUS
    <3>1. acts'[k] = b BY <2>6
    <3> QED BY <2>1, <3>1 DEF Knows
  <2>9. \A k \in Handlers : acts'[k] # Free /\ lost' = 0 => Shown(acts[k].snapshot)'
    <3> SUFFICES ASSUME NEW k \in Handlers, acts'[k] # Free, lost' = 0
                 PROVE Shown(acts[k].snapshot)'
      OBVIOUS
    <3>1. acts'[k] = b BY <2>6
    <3>2. Shown(b.snapshot) BY <2>1
    <3> QED BY <3>1, <3>2 DEF Shown
  <2> QED BY <2>1, <2>5, <2>7, <2>8, <2>9 DEF OneAfterTheOther
<1> QED BY <1>1, <1>2 DEF HistoryInv

\* A request ends.
LEMMA HistoryEnds ==
  ASSUME HistoryAssumption, HistoryInv, NEW h \in Handlers, acts[h] # Free,
         acts' = [acts EXCEPT ![h] = Free],
         UNCHANGED <<record, moved, begun, silent, mixed>>,
         told' \in [Tracked -> {0, 1}], gaps' \subseteq Tracked, lost' \in 0..MaxLosses,
         ~mixed /\ lost' = 0 => Shown(record)'
  PROVE  HistoryInv'
<1>1. HistoryTypeOK' BY HistoryAssumption DEF HistoryInv, HistoryTypeOK
<1>2. OneAfterTheOther'
  <2> SUFFICES ASSUME ~mixed' PROVE OneAfterTheOther' BY DEF OneAfterTheOther
  <2>1. ~mixed OBVIOUS
  <2>2. \A k \in Handlers : k # h => acts[k] = Free
    BY <2>1 DEF HistoryInv, OneAfterTheOther
  <2>3. \A k \in Handlers : acts'[k] = Free
    BY <2>2 DEF HistoryInv, HistoryTypeOK
  <2>4. moved = record.state BY <2>1 DEF HistoryInv, OneAfterTheOther
  <2> QED BY <2>1, <2>3, <2>4 DEF OneAfterTheOther
<1> QED BY <1>1, <1>2 DEF HistoryInv
-----------------------------------------------------------------------------
\* What is known of a request that alone is under way.
LEMMA AloneKnows ==
  ASSUME HistoryInv, ~mixed, NEW h \in Handlers, NEW a, a = acts[h], a # Free
  PROVE  /\ Knows(a) /\ moved = record.state
         /\ lost = 0 => Shown(a.snapshot)
  BY DEF HistoryInv, OneAfterTheOther

\* BeginUpdate, and what it has made of the form.
LEMMA BeginUpdateStep ==
  ASSUME HistoryAssumption, HistoryInv, NEW h \in Handlers, NEW d \in Values, NEW g \in Values,
         NEW t \in States, BeginUpdate(h, d, g, t)
  PROVE  HistoryInv'
<1> DEFINE new == [kind |-> "update", step |-> "read", target |-> t, snapshot |-> record,
                   saved |-> [record EXCEPT !.description = d, !.group = g]]
<1>1. PICK a : a = new OBVIOUS
<1>2. record \in Issue BY DEF HistoryInv, HistoryTypeOK
<1>3. a \in Act /\ a.saved.state = record.state /\ a.snapshot = record
      /\ a.kind = "update" /\ a.step = "read"
  BY <1>1, <1>2 DEF Act, Issue
<1>4. Begin(h, a) /\ UNCHANGED silent BY <1>1 DEF BeginUpdate
<1>5. silent \in BOOLEAN BY DEF HistoryInv, HistoryTypeOK
<1>6. Knows(a)' BY <1>3, <1>4 DEF Knows, Begin
<1>7. Shown(record) => Shown(a.snapshot)' BY <1>3, <1>4 DEF Begin, Shown
<1> QED BY <1>3, <1>4, <1>5, <1>6, <1>7, HistoryBegin

\* BeginDescribe: its snapshot already has the new description.
LEMMA BeginDescribeStep ==
  ASSUME HistoryAssumption, HistoryInv, NEW h \in Handlers, NEW d \in Values,
         BeginDescribe(h, d)
  PROVE  HistoryInv'
<1> DEFINE changed == [record EXCEPT !.description = d]
           new == [kind |-> "describe", step |-> "save", target |-> record.state,
                   snapshot |-> changed, saved |-> changed]
<1>1. PICK a : a = new OBVIOUS
<1>2. record \in Issue BY DEF HistoryInv, HistoryTypeOK
<1>3. /\ a \in Act /\ a.saved.state = record.state /\ a.snapshot = a.saved
      /\ a.kind = "describe" /\ a.step = "save"
      /\ a.saved.group = record.group /\ a.saved.archived = record.archived
  BY <1>1, <1>2 DEF Act, Issue
<1>4. Begin(h, a) /\ silent' BY <1>1 DEF BeginDescribe
<1>5. silent' \in BOOLEAN BY DEF BeginDescribe
<1>6. Knows(a)' BY <1>3, <1>4 DEF Knows, Begin
<1>7. Shown(record) => Shown(a.snapshot)'
  BY <1>3, <1>4 DEF Begin, Shown, Tracked
<1> QED BY <1>3, <1>4, <1>5, <1>6, <1>7, HistoryBegin

\* BeginMove
LEMMA BeginMoveStep ==
  ASSUME HistoryAssumption, HistoryInv, NEW h \in Handlers, NEW t \in States, BeginMove(h, t)
  PROVE  HistoryInv'
<1> DEFINE new == [kind |-> "move", step |-> "transit", target |-> t, snapshot |-> record,
                   saved |-> record]
<1>1. PICK a : a = new OBVIOUS
<1>2. record \in Issue BY DEF HistoryInv, HistoryTypeOK
<1>3. /\ a \in Act /\ a.saved = record /\ a.snapshot = record
      /\ a.kind = "move" /\ a.step = "transit"
  BY <1>1, <1>2 DEF Act
<1>4. Begin(h, a) /\ UNCHANGED silent BY <1>1 DEF BeginMove
<1>5. silent \in BOOLEAN BY DEF HistoryInv, HistoryTypeOK
<1>6. Knows(a)' BY <1>3, <1>4 DEF Knows, Begin
<1>7. Shown(record) => Shown(a.snapshot)' BY <1>3, <1>4 DEF Begin, Shown
<1> QED BY <1>3, <1>4, <1>5, <1>6, <1>7, HistoryBegin

\* BeginArchive
LEMMA BeginArchiveStep ==
  ASSUME HistoryAssumption, HistoryInv, NEW h \in Handlers, BeginArchive(h)
  PROVE  HistoryInv'
<1> DEFINE new == [kind |-> "archive", step |-> "save", target |-> record.state,
                   snapshot |-> record, saved |-> [record EXCEPT !.archived = 1]]
<1>1. PICK a : a = new OBVIOUS
<1>2. record \in Issue /\ 1 \in Values BY DEF HistoryInv, HistoryTypeOK, Values
<1>3. /\ a \in Act /\ a.saved.state = record.state /\ a.snapshot = record
      /\ a.kind = "archive" /\ a.step = "save"
      /\ a.saved.description = record.description /\ a.saved.group = record.group
  BY <1>1, <1>2 DEF Act, Issue
<1>4. Begin(h, a) /\ UNCHANGED silent BY <1>1 DEF BeginArchive
<1>5. silent \in BOOLEAN BY DEF HistoryInv, HistoryTypeOK
<1>6. Knows(a)' BY <1>3, <1>4 DEF Knows, Begin
<1>7. Shown(record) => Shown(a.snapshot)' BY <1>3, <1>4 DEF Begin, Shown
<1> QED BY <1>3, <1>4, <1>5, <1>6, <1>7, HistoryBegin

\* BeginAdmin
LEMMA BeginAdminStep ==
  ASSUME HistoryAssumption, HistoryInv, NEW h \in Handlers, NEW d \in Values, NEW g \in Values,
         NEW r \in 0..1, NEW t \in States, BeginAdmin(h, d, g, r, t)
  PROVE  HistoryInv'
<1> DEFINE new == [kind |-> "admin", step |-> "read", target |-> t, snapshot |-> record,
                   saved |-> [record EXCEPT !.description = d, !.group = g, !.archived = r]]
<1>1. PICK a : a = new OBVIOUS
<1>2. record \in Issue /\ r \in Values BY DEF HistoryInv, HistoryTypeOK, Values
<1>3. a \in Act /\ a.saved.state = record.state /\ a.snapshot = record
      /\ a.kind = "admin" /\ a.step = "read"
  BY <1>1, <1>2 DEF Act, Issue
<1>4. Begin(h, a) /\ UNCHANGED silent BY <1>1 DEF BeginAdmin
<1>5. silent \in BOOLEAN BY DEF HistoryInv, HistoryTypeOK
<1>6. Knows(a)' BY <1>3, <1>4 DEF Knows, Begin
<1>7. Shown(record) => Shown(a.snapshot)' BY <1>3, <1>4 DEF Begin, Shown
<1> QED BY <1>3, <1>4, <1>5, <1>6, <1>7, HistoryBegin

\* update_issue and save_model read the row.
LEMMA ReadOriginalStep ==
  ASSUME HistoryAssumption, HistoryInv, NEW h \in Handlers, ReadOriginal(h)
  PROVE  HistoryInv'
<1>1. PICK a : a = acts[h] OBVIOUS
<1> DEFINE differing == a.target # record.state
           new == [a EXCEPT !.snapshot = record,
                      !.saved = IF a.kind = "admin" /\ differing
                                  THEN [a.saved EXCEPT !.state = record.state, !.archived = record.archived]
                                  ELSE [a.saved EXCEPT !.state = record.state],
                      !.step = IF a.kind = "admin" /\ differing THEN "transit" ELSE "save"]
<1>2. PICK b : b = new OBVIOUS
<1>3. /\ a # Free /\ a \in Act /\ a.step = "read" /\ record \in Issue
      /\ moved \in States
  BY <1>1 DEF ReadOriginal, Doing, HistoryInv, HistoryTypeOK
<1>4. /\ acts' = [acts EXCEPT ![h] = b]
      /\ UNCHANGED <<record, told, gaps, moved, begun, lost, silent, mixed>>
  BY <1>1, <1>2 DEF ReadOriginal
<1>5. a.saved \in Issue /\ a.target \in States BY <1>3, ActShape
<1>6. /\ b.kind = a.kind /\ b.target = a.target /\ b.snapshot = record
      /\ b.step = IF a.kind = "admin" /\ differing THEN "transit" ELSE "save"
      /\ b.saved = IF a.kind = "admin" /\ differing
                     THEN [a.saved EXCEPT !.state = record.state, !.archived = record.archived]
                     ELSE [a.saved EXCEPT !.state = record.state]
  BY <1>2, <1>3 DEF Act
<1>7. b.saved \in Issue /\ b.saved.state = record.state
  BY <1>3, <1>5, <1>6 DEF Issue
<1>8. b \in Act BY <1>2, <1>3, <1>6, <1>7 DEF Act
<1>9. ASSUME ~mixed
      PROVE  /\ Knows(b)' /\ moved' = record'.state
             /\ lost = 0 => Shown(b.snapshot)
  <2>1. Knows(a) /\ moved = record.state /\ (lost = 0 => Shown(a.snapshot))
    BY <1>1, <1>3, <1>9, AloneKnows
  <2>2. a.kind \in {"update", "admin"} /\ a.snapshot = record BY <1>3, <2>1 DEF Knows
  <2>3. Knows(b)' BY <1>4, <1>6, <1>7, <2>2 DEF Knows
  <2> QED BY <1>4, <1>6, <2>1, <2>2, <2>3
<1> QED BY <1>1, <1>3, <1>4, <1>6, <1>8, <1>9, HistoryGoesOn

\* Its save
LEMMA SaveRecordStep ==
  ASSUME HistoryAssumption, HistoryInv, NEW h \in Handlers, SaveRecord(h)
  PROVE  HistoryInv'
<1>1. PICK a : a = acts[h] OBVIOUS
<1> DEFINE next == IF a.kind = "update" /\ a.target # a.saved.state THEN "transit" ELSE "tell"
<1>2. PICK b : b = [a EXCEPT !.step = next] OBVIOUS
<1>3. /\ a # Free /\ a \in Act /\ a.step = "save" /\ record \in Issue /\ moved \in States
  BY <1>1 DEF SaveRecord, Doing, HistoryInv, HistoryTypeOK
<1>4. /\ acts' = [acts EXCEPT ![h] = b]
      /\ UNCHANGED <<told, gaps, moved, begun, lost, silent, mixed>>
  BY <1>1, <1>2 DEF SaveRecord
<1>5. a.saved \in Issue /\ a.snapshot \in Issue BY <1>3, ActShape
<1>6. /\ b \in Act /\ b.kind = a.kind /\ b.target = a.target /\ b.step = next
      /\ b.snapshot = a.snapshot /\ b.saved = a.saved
  BY <1>2, <1>3 DEF Act
<1>7. record' = CASE a.kind = "describe" -> [record EXCEPT !.description = a.saved.description]
                  [] a.kind = "archive" -> [record EXCEPT !.archived = a.saved.archived]
                  [] OTHER -> a.saved
  BY <1>1 DEF SaveRecord
<1>8. record' \in Issue BY <1>3, <1>5, <1>7 DEF Issue
<1>9. ASSUME ~mixed
      PROVE  /\ Knows(b)' /\ moved' = record'.state
             /\ lost = 0 => Shown(b.snapshot)
  <2>1. Knows(a) /\ moved = record.state /\ (lost = 0 => Shown(a.snapshot))
    BY <1>1, <1>3, <1>9, AloneKnows
  <2>2. record' = a.saved
    <3>1. CASE a.kind = "describe"
      <4>1. /\ a.saved.group = record.group /\ a.saved.archived = record.archived
            /\ a.saved.state = record.state
        BY <2>1, <1>3, <3>1 DEF Knows
      <4> QED BY <1>3, <1>5, <1>7, <3>1, <4>1 DEF Issue
    <3>2. CASE a.kind = "archive"
      <4>1. /\ a.saved.group = record.group /\ a.saved.description = record.description
            /\ a.saved.state = record.state
        BY <2>1, <1>3, <3>2 DEF Knows
      <4> QED BY <1>3, <1>5, <1>7, <3>2, <4>1 DEF Issue
    <3>3. CASE a.kind \notin {"describe", "archive"} BY <1>7, <3>3
    <3> QED BY <3>1, <3>2, <3>3
  <2>3. record'.state = record.state BY <1>3, <2>1, <2>2 DEF Knows
  <2>4. Knows(b)' BY <1>6, <2>2 DEF Knows
  <2> QED BY <1>4, <1>6, <2>1, <2>3, <2>4
<1> QED BY <1>1, <1>3, <1>4, <1>5, <1>6, <1>8, <1>9, HistoryGoesOn

\* Its transition
LEMMA TransitStep ==
  ASSUME HistoryAssumption, HistoryInv, NEW h \in Handlers, Transit(h)
  PROVE  HistoryInv'
<1>1. PICK a : a = acts[h] OBVIOUS
<1>3. /\ a # Free /\ a \in Act /\ a.step = "transit" /\ record \in Issue /\ moved \in States
      /\ UNCHANGED <<told, gaps, begun, lost, silent, mixed>>
  BY <1>1 DEF Transit, Doing, HistoryInv, HistoryTypeOK
<1>4. a.saved \in Issue /\ a.snapshot \in Issue /\ a.target \in States BY <1>3, ActShape
<1>5. CASE a.target = a.saved.state
  <2>1. PICK b : b = [a EXCEPT !.step = "tell"] OBVIOUS
  <2>2. acts' = [acts EXCEPT ![h] = b] /\ UNCHANGED <<record, moved>>
    BY <1>1, <1>5, <2>1 DEF Transit
  <2>3. /\ b \in Act /\ b.step = "tell" /\ b.snapshot = a.snapshot /\ b.saved = a.saved
    BY <1>3, <2>1 DEF Act
  <2>4. ASSUME ~mixed
        PROVE  /\ Knows(b)' /\ moved' = record'.state
               /\ lost = 0 => Shown(b.snapshot)
    <3>1. Knows(a) /\ moved = record.state /\ (lost = 0 => Shown(a.snapshot))
      BY <1>1, <1>3, <2>4, AloneKnows
    <3>2. record = a.saved BY <1>3, <1>5, <3>1 DEF Knows
    <3>3. Knows(b)' BY <2>2, <2>3, <3>2 DEF Knows
    <3> QED BY <2>2, <2>3, <3>1, <3>3
  <2> QED BY <1>1, <1>3, <1>4, <2>2, <2>3, <2>4, HistoryGoesOn
<1>6. CASE a.target # a.saved.state
  <2>1. PICK g \in {a.saved.group, 1} :
          LET saved == [a.saved EXCEPT !.state = a.target, !.group = g]
          IN record' = saved /\ acts' = [acts EXCEPT ![h].saved = saved, ![h].step = "tell"]
    BY <1>1, <1>6 DEF Transit
  <2>2. PICK s : s = [a.saved EXCEPT !.state = a.target, !.group = g] OBVIOUS
  <2>3. PICK b : b = [a EXCEPT !.saved = s, !.step = "tell"] OBVIOUS
  <2>4. s \in Issue /\ s.state = a.target
    <3>1. a.saved.group \in Values /\ 1 \in Values BY <1>4 DEF Issue, Values
    <3>2. g \in Values BY <3>1
    <3> QED BY <1>4, <2>2, <3>2 DEF Issue
  <2>5. /\ b \in Act /\ b.step = "tell" /\ b.snapshot = a.snapshot /\ b.saved = s
    BY <1>3, <2>3, <2>4 DEF Act
  <2>6. record' = s BY <2>1, <2>2
  <2>7. acts' = [acts EXCEPT ![h] = b]
    <3>1. acts' = [acts EXCEPT ![h].saved = s, ![h].step = "tell"] BY <2>1, <2>2
    <3>2. acts \in [Handlers -> Act \cup {Free}] BY DEF HistoryInv, HistoryTypeOK
    <3>3. acts' = [acts EXCEPT ![h] = [a EXCEPT !.saved = s, !.step = "tell"]]
      BY <1>1, <3>1, <3>2, Zenon
    <3> QED BY <2>3, <3>3
  <2>8. moved' = a.target BY <1>1, <1>6 DEF Transit
  <2>9. ASSUME ~mixed
        PROVE  /\ Knows(b)' /\ moved' = record'.state
               /\ lost = 0 => Shown(b.snapshot)
    <3>1. lost = 0 => Shown(a.snapshot) BY <1>1, <1>3, <2>9, AloneKnows
    <3>2. Knows(b)' BY <2>5, <2>6 DEF Knows
    <3> QED BY <2>4, <2>5, <2>6, <2>8, <3>1, <3>2
  <2> QED BY <1>1, <1>3, <1>4, <2>4, <2>5, <2>6, <2>7, <2>8, <2>9, HistoryGoesOn
<1> QED BY <1>5, <1>6

\* record_snapshot_changes
LEMMA TellStep ==
  ASSUME HistoryAssumption, HistoryInv, NEW h \in Handlers, Tell(h)
  PROVE  HistoryInv'
<1>1. PICK a : a = acts[h] OBVIOUS
<1>2. PICK changed : changed = Differences(a) OBVIOUS
<1>3. /\ a # Free /\ a \in Act /\ a.step = "tell"
      /\ acts' = [acts EXCEPT ![h] = Free]
      /\ told' = [f \in Tracked |-> IF f \in changed THEN Text(a.saved[f]) ELSE told[f]]
      /\ gaps' = gaps \cup {f \in changed : Text(a.snapshot[f]) # told[f]}
      /\ UNCHANGED <<record, moved, begun, lost, silent, mixed>>
  BY <1>1, <1>2 DEF Tell, Doing, HistoryInv, HistoryTypeOK
<1>4. a.saved \in Issue BY <1>3, ActShape
<1>5. \A f \in Tracked : a.saved[f] \in Values BY <1>4 DEF Issue, Tracked
<1>6. \A v \in Values : Text(v) \in {0, 1} BY DEF Values, Text
<1>7. changed \subseteq Tracked /\ told \in [Tracked -> {0, 1}] /\ gaps \subseteq Tracked
      /\ lost \in 0..MaxLosses
  BY <1>2 DEF Differences, HistoryInv, HistoryTypeOK
<1>8. told' \in [Tracked -> {0, 1}] /\ gaps' \subseteq Tracked
  BY <1>3, <1>5, <1>6, <1>7
<1>9. ASSUME ~mixed /\ lost' = 0 PROVE Shown(record)'
  <2>1. Knows(a) /\ Shown(a.snapshot) BY <1>1, <1>3, <1>9, AloneKnows
  <2>2. record = a.saved BY <1>3, <2>1 DEF Knows
  <2> SUFFICES ASSUME NEW f \in Tracked, ~(f = "description" /\ silent)
               PROVE  told'[f] = Text(a.saved[f]) /\ f \notin gaps'
    BY <1>3, <2>2 DEF Shown
  <2>3. told[f] = Text(a.snapshot[f]) /\ f \notin gaps BY <2>1 DEF Shown
  <2>4. f \notin changed => a.snapshot[f] = a.saved[f] BY <1>2 DEF Differences
  <2> QED BY <1>3, <2>3, <2>4
<1> QED BY <1>1, <1>3, <1>7, <1>8, <1>9, HistoryEnds

\* A request is lost.
LEMMA LoseStep ==
  ASSUME HistoryAssumption, HistoryInv, NEW h \in Handlers, Lose(h)
  PROVE  HistoryInv'
<1>1. lost \in 0..MaxLosses /\ lost' = lost + 1 /\ lost < MaxLosses
  BY DEF Lose, HistoryInv, HistoryTypeOK
<1>2. lost' # 0 /\ lost' \in 0..MaxLosses BY <1>1, HistoryAssumption
<1> QED BY <1>2, HistoryEnds DEF Lose, HistoryInv, HistoryTypeOK

\* The history starts with the issue.
LEMMA HistoryInvInit ==
  ASSUME HistoryAssumption, HistoryInit
  PROVE  HistoryInv
<1>1. record \in Issue /\ record.description = 0 /\ record.group = 0 /\ record.archived = 0
  BY DEF HistoryInit, Issue, Values
<1>2. HistoryTypeOK
  <2>1. moved \in States BY DEF HistoryInit
  <2>2. 0 \in 0..MaxWrites /\ 0 \in 0..MaxLosses BY HistoryAssumption
  <2>3. told \in [Tracked -> {0, 1}] /\ gaps \subseteq Tracked BY DEF HistoryInit
  <2>4. acts \in [Handlers -> Act \cup {Free}] BY DEF HistoryInit
  <2> QED BY <1>1, <2>1, <2>2, <2>3, <2>4 DEF HistoryInit, HistoryTypeOK
<1>3. Shown(record)
  <2>1. Text(0) = 0 BY DEF Text
  <2>2. record \in [description : {0}, group : {0}, archived : {0}, state : States]
    BY DEF HistoryInit
  <2>3. \A f \in Tracked : record[f] \in {0} BY <2>2 DEF Tracked
  <2>4. told = [f \in Tracked |-> 0] /\ gaps = {} BY DEF HistoryInit
  <2> QED BY <2>1, <2>3, <2>4 DEF Shown
<1>4. OneAfterTheOther BY <1>3 DEF OneAfterTheOther, HistoryInit
<1> QED BY <1>2, <1>4 DEF HistoryInv

\* Every step keeps the invariant.
LEMMA HistoryInvNext ==
  ASSUME HistoryAssumption, HistoryInv, [HistoryNext]_historyVars
  PROVE  HistoryInv'
<1>1. CASE UNCHANGED historyVars
  BY <1>1 DEF historyVars, HistoryInv, HistoryTypeOK, OneAfterTheOther, Knows, Shown, Quiet
<1> QED
  BY <1>1, BeginUpdateStep, BeginDescribeStep, BeginMoveStep, BeginArchiveStep, BeginAdminStep,
     ReadOriginalStep, SaveRecordStep, TransitStep, TellStep, LoseStep
  DEF HistoryNext

\* For any number of handlers and any states: as long as requests come to
\* their end one after the other, the history ends with what the issue is, and
\* no loss of one separates the state from the last transition.
THEOREM HistoryTrue ==
  ASSUME HistoryAssumption
  PROVE  HistorySpec => []HistoryIsTrue
<1>1. HistoryInit => HistoryInv BY HistoryInvInit
<1>2. HistoryInv /\ [HistoryNext]_historyVars => HistoryInv' BY HistoryInvNext
<1>3. HistoryInv => HistoryIsTrue
  BY DEF HistoryInv, OneAfterTheOther, HistoryIsTrue, HistoryTellsValues, TransitionsTellState, Shown
<1> QED BY <1>1, <1>2, <1>3, PTL DEF HistorySpec

-----------------------------------------------------------------------------
(* Attachments and their files.                                            *)

Occupied(w) == works[w] # Idle

\* A request that has a file, or a row it has loaded with one.
Holding(w) == Occupied(w) /\ works[w].copy.file # 0

\* A request is what the actions make of it.
WorkFits(k) ==
  /\ k.kind \in {"add", "attach"} => k.step \in {"store", "insert", "touch", "audit"}
  /\ k.kind = "update" => k.step \in {"store", "save", "touch", "audit"}
  /\ k.kind = "delete" => k.step \in {"unlink", "row", "touch", "audit"}
  /\ k.kind = "reset" => k.step \in {"rows", "files", "commit"}
  /\ k.id = 0 <=> \/ k.kind = "reset" \/ k.step = "insert"
                  \/ k.step = "store" /\ k.kind # "update"
  /\ k.copy.file = 0 <=> \/ k.kind = "reset"
                         \/ k.step = "store" /\ k.kind # "update"
  /\ k.kind # "reset" => k.copy.live

\* The requests and rows fit together.
WorksFit ==
  /\ \A a \in DOMAIN rows : rows[a].file \in 1..uploads
  /\ Len(rows) <= MaxRows
  /\ \A w \in Writers : Occupied(w) =>
       /\ WorkFits(works[w])
       /\ works[w].id \in 0..Len(rows)
       /\ works[w].copy.file \in 0..uploads
       /\ works[w].kind = "delete" => works[w].id \in doomed

\* A file is of one attachment, and of one request until its row is inserted.
FilesHaveOneOwner ==
  /\ \A a, b \in DOMAIN rows : rows[a].file = rows[b].file => a = b
  /\ \A w \in Writers, a \in DOMAIN rows :
       Holding(w) /\ works[w].copy.file = rows[a].file => works[w].id = a
  /\ \A w, v \in Writers :
       Holding(w) /\ Holding(v) /\ works[w].copy.file = works[v].copy.file =>
         w = v \/ (works[w].id = works[v].id /\ works[w].id # 0)

\* The files that a reset has listed are of attachments that it deletes.
ListedAreDoomed ==
  \A w \in Writers : Occupied(w) => \A f \in works[w].listed :
    /\ f \in 1..uploads
    /\ \A a \in DOMAIN rows : rows[a].file = f => a \in doomed
    /\ \A v \in Writers : Holding(v) /\ works[v].copy.file = f => works[v].id \in doomed

\* Files are there unless their attachment is about to go.
FilesAreThere ==
  /\ \A a \in DOMAIN rows : rows[a].file \in files \/ a \in doomed
  /\ \A w \in Writers : Holding(w) => works[w].copy.file \in files \/ works[w].id \in doomed

\* A request that alone has loaded an attachment knows its row.
SoleRequestsKnow ==
  issue /\ ~crossed =>
    \A w \in Writers : LET k == works[w] IN Occupied(w) /\ k.id # 0 =>
      /\ \A v \in Writers : Occupied(v) /\ works[v].id = k.id => v = w
      /\ rows[k.id].file = k.copy.file \/ k.step = "save"
      /\ rows[k.id].live \/ (k.kind = "delete" /\ k.step \in {"touch", "audit"})
      /\ k.kind = "delete" /\ k.step # "unlink" => k.copy.file \notin files

\* Whose a file is if nothing has gone wrong: see OnlyReplacedFilesRemain.
FilesAreNamed ==
  broken = 0 /\ issue /\ ~crossed => \A f \in files :
    \/ \E a \in DOMAIN rows : rows[a].live /\ rows[a].file = f
    \/ f \in replaced
    \/ \E w \in Writers : Occupied(w) /\ works[w].copy.file = f

\* An attachment has its event, or is about to get it.
AddedOrAdding ==
  broken = 0 /\ issue =>
    \A a \in DOMAIN rows :
      \/ <<"added", a>> \in audit
      \/ \E w \in Writers : Occupied(w) /\ works[w].kind \in {"add", "attach"} /\ works[w].id = a

\* The invariant.
FilesInv ==
  /\ FilesTypeOK /\ WorksFit
  /\ FilesHaveOneOwner /\ ListedAreDoomed /\ FilesAreThere
  /\ SoleRequestsKnow /\ FilesAreNamed /\ AddedOrAdding

StoredRow == [file : 1..MaxStored, name : RowNames, live : BOOLEAN]

\* The sequence of rows, and what a change of its elements leaves.
LEMMA RowSequence ==
  ASSUME FilesTypeOK
  PROVE  /\ Len(rows) \in Nat /\ DOMAIN rows = 1..Len(rows)
         /\ \A a \in DOMAIN rows : rows[a] \in StoredRow
         /\ \A t : DOMAIN t = DOMAIN rows /\ t \in [DOMAIN rows -> StoredRow] =>
              t \in Seq(StoredRow) /\ Len(t) = Len(rows)
<1>1. rows \in Seq(StoredRow) BY DEF FilesTypeOK, StoredRow
<1>2. /\ Len(rows) \in Nat /\ DOMAIN rows = 1..Len(rows)
      /\ \A a \in DOMAIN rows : rows[a] \in StoredRow
  BY <1>1
<1>3. ASSUME NEW t, DOMAIN t = DOMAIN rows, t \in [DOMAIN rows -> StoredRow]
      PROVE  t \in Seq(StoredRow) /\ Len(t) = Len(rows)
  BY <1>2, <1>3
<1> QED BY <1>2, <1>3

\* A step of a request changes its own record only.
LEMMA OwnWork ==
  ASSUME FilesAssumption, FilesTypeOK, NEW w \in Writers, NEW q,
         works' = [works EXCEPT ![w] = q]
  PROVE  /\ works'[w] = q /\ \A v \in Writers \ {w} : works'[v] = works[v]
         /\ q \in Work => q # Idle /\ works' \in [Writers -> Work \cup {Idle}]
         /\ q = Idle => works' \in [Writers -> Work \cup {Idle}]
         /\ works[w] # Idle => works[w] \in Work
  BY FilesAssumption DEF FilesTypeOK

\* The fields of a request.
LEMMA WorkFields ==
  ASSUME NEW q \in Work
  PROVE  /\ q.id \in 0..MaxRows /\ q.copy \in Row /\ q.was \in RowNames
         /\ q.listed \in SUBSET (1..MaxStored)
         /\ q.kind \in {"add", "attach", "update", "delete", "reset"}
         /\ q.copy.file \in 0..MaxStored /\ q.copy.name \in RowNames /\ q.copy.live \in BOOLEAN
  BY DEF Work, Row

\* A request at another step.
LEMMA WorkAtStep ==
  ASSUME NEW q \in Work, NEW p,
         NEW s \in {"store", "insert", "save", "unlink", "row", "touch", "audit",
                   "rows", "files", "commit"},
         p = [q EXCEPT !.step = s]
  PROVE  /\ p \in Work /\ p.step = s /\ p.kind = q.kind /\ p.id = q.id
         /\ p.copy = q.copy /\ p.listed = q.listed /\ p.was = q.was
  BY DEF Work

\* Requests keep what they hold, and rows their files.
KeepsHeld ==
  /\ DOMAIN rows' = DOMAIN rows /\ \A a \in DOMAIN rows : rows'[a].file = rows[a].file
  /\ uploads' = uploads /\ doomed \subseteq doomed'
  /\ \A v \in Writers : works'[v] # Idle =>
       /\ works[v] # Idle /\ works'[v].id = works[v].id /\ works'[v].listed = works[v].listed
       /\ works'[v].copy.file = works[v].copy.file

\* Then files keep their owners.
LEMMA KeepsOwners ==
  ASSUME FilesInv, KeepsHeld
  PROVE  /\ FilesHaveOneOwner' /\ ListedAreDoomed'
         /\ files \subseteq files' => FilesAreThere'
<1>1. \A v \in Writers : Holding(v)' => Holding(v) BY DEF KeepsHeld, Holding, Occupied
<1>2. FilesHaveOneOwner'
  BY <1>1 DEF FilesInv, FilesHaveOneOwner, KeepsHeld, Holding, Occupied
<1>3. ListedAreDoomed'
  BY <1>1 DEF FilesInv, ListedAreDoomed, KeepsHeld, Holding, Occupied
<1>4. files \subseteq files' => FilesAreThere'
  BY <1>1 DEF FilesInv, FilesAreThere, KeepsHeld, Holding, Occupied
<1> QED BY <1>2, <1>3, <1>4

\* Files stay named if rows stay as they are, and requests keep what they hold
\* or let go of what is named otherwise.
LEMMA KeepsNamed ==
  ASSUME FilesInv, files' \subseteq files, replaced \subseteq replaced',
         broken' = 0 => broken = 0, issue' => issue, ~crossed' => ~crossed,
         DOMAIN rows \subseteq DOMAIN rows',
         \A a \in DOMAIN rows : rows[a].live /\ rows[a].file \in files' =>
           rows'[a].live /\ rows'[a].file = rows[a].file,
         \A v \in Writers : works[v] # Idle /\ issue' /\ ~crossed' /\ broken' = 0 =>
           \/ works'[v] # Idle /\ works'[v].copy.file = works[v].copy.file
           \/ works[v].copy.file \notin files'
           \/ works[v].copy.file \in replaced'
           \/ \E a \in DOMAIN rows' : rows'[a].live /\ rows'[a].file = works[v].copy.file
  PROVE  FilesAreNamed'
<1> SUFFICES ASSUME broken' = 0, issue', ~crossed', NEW f \in files'
             PROVE  \/ \E a \in DOMAIN rows' : rows'[a].live /\ rows'[a].file = f
                    \/ f \in replaced'
                    \/ \E w \in Writers : works'[w] # Idle /\ works'[w].copy.file = f
  BY DEF FilesAreNamed, Occupied
<1>1. \/ \E a \in DOMAIN rows : rows[a].live /\ rows[a].file = f
      \/ f \in replaced
      \/ \E w \in Writers : works[w] # Idle /\ works[w].copy.file = f
  BY DEF FilesInv, FilesAreNamed, Occupied
<1>2. CASE \E a \in DOMAIN rows : rows[a].live /\ rows[a].file = f BY <1>2
<1>3. CASE f \in replaced BY <1>3
<1>4. CASE \E w \in Writers : works[w] # Idle /\ works[w].copy.file = f
  <2>1. PICK v \in Writers : works[v] # Idle /\ works[v].copy.file = f BY <1>4
  <2> QED BY <2>1
<1> QED BY <1>1, <1>2, <1>3, <1>4

\* Attachments keep their event, or the request that is about to record it.
LEMMA KeepsAdding ==
  ASSUME FilesInv, DOMAIN rows' \subseteq DOMAIN rows, issue' => audit \subseteq audit',
         broken' = 0 /\ issue' => broken = 0, issue' => issue,
         \A v \in Writers : works[v] # Idle /\ works[v].kind \in {"add", "attach"} /\ issue'
                               /\ broken' = 0 =>
           \/ works'[v] # Idle /\ works'[v].kind = works[v].kind /\ works'[v].id = works[v].id
           \/ works[v].id \notin DOMAIN rows
           \/ <<"added", works[v].id>> \in audit'
  PROVE  AddedOrAdding'
<1> SUFFICES ASSUME broken' = 0, issue', NEW a \in DOMAIN rows'
             PROVE  \/ <<"added", a>> \in audit'
                    \/ \E w \in Writers : /\ works'[w] # Idle
                                          /\ works'[w].kind \in {"add", "attach"}
                                          /\ works'[w].id = a
  BY DEF AddedOrAdding, Occupied
<1>1. CASE <<"added", a>> \in audit BY <1>1
<1>2. CASE \E w \in Writers : works[w] # Idle /\ works[w].kind \in {"add", "attach"}
                               /\ works[w].id = a
  <2>1. PICK v \in Writers : works[v] # Idle /\ works[v].kind \in {"add", "attach"}
                             /\ works[v].id = a
    BY <1>2
  <2> QED BY <2>1
<1> QED BY <1>1, <1>2 DEF FilesInv, AddedOrAdding, Occupied

\* A request goes on to another step with what it has.
LEMMA TouchIssueStep ==
  ASSUME FilesAssumption, FilesInv, NEW w \in Writers, TouchIssue(w) \/ DeleteAllRows(w)
  PROVE  FilesInv'
<1> DEFINE to == IF At(w, "touch") THEN "audit" ELSE "files"
<1>1. PICK q : q = [works[w] EXCEPT !.step = to] OBVIOUS
<1>2. /\ works[w] # Idle /\ works' = [works EXCEPT ![w] = q]
      /\ works[w].step \in {"touch", "rows"} /\ to \in {"audit", "files"}
      /\ (works[w].step = "touch") => to = "audit"
      /\ (works[w].step = "rows") => to = "files"
      /\ UNCHANGED <<rows, files, uploads, audit, issue, broken, doomed, replaced, crossed>>
  BY <1>1 DEF TouchIssue, DeleteAllRows, Goes, At
<1> HIDE DEF to
<1>3. works[w] \in Work BY <1>2, OwnWork DEF FilesInv
<1>4. /\ q \in Work /\ q.step = to /\ q.kind = works[w].kind /\ q.id = works[w].id
      /\ q.copy = works[w].copy /\ q.listed = works[w].listed
  BY <1>1, <1>2, <1>3, WorkAtStep
<1>5. /\ works'[w] = q /\ \A v \in Writers \ {w} : works'[v] = works[v]
      /\ works' \in [Writers -> Work \cup {Idle}] /\ q # Idle
  BY <1>2, <1>4, OwnWork DEF FilesInv
<1>6. FilesTypeOK' BY <1>2, <1>5 DEF FilesInv, FilesTypeOK
<1>7. WorksFit'
  BY <1>2, <1>4, <1>5 DEF FilesInv, WorksFit, WorkFits, Occupied
<1>8. FilesHaveOneOwner' /\ ListedAreDoomed' /\ FilesAreThere'
  <2>1. KeepsHeld BY <1>2, <1>4, <1>5 DEF KeepsHeld
  <2> QED BY <1>2, <2>1, KeepsOwners
<1>9. SoleRequestsKnow'
  BY <1>2, <1>4, <1>5 DEF FilesInv, WorksFit, WorkFits, SoleRequestsKnow, Occupied
<1>10. FilesAreNamed'
  <2>1. \A v \in Writers : works[v] # Idle =>
          works'[v] # Idle /\ works'[v].copy.file = works[v].copy.file
    BY <1>4, <1>5
  <2> QED BY <1>2, <2>1, KeepsNamed
<1>11. AddedOrAdding'
  BY <1>2, <1>4, <1>5, KeepsAdding
<1> QED BY <1>6, <1>7, <1>8, <1>9, <1>10, <1>11 DEF FilesInv

\* What a request without a row and without a file starts with.
LEMMA StartShape ==
  ASSUME FilesAssumption, FilesInv, NEW w \in Writers,
         \/ \E n \in Names, kind \in {"add", "attach"} : StartAdd(w, kind, n)
         \/ ListFiles(w)
  PROVE  \E q \in Work :
           /\ works' = [works EXCEPT ![w] = q] /\ q.id = 0 /\ q.copy.file = 0
           /\ \/ q.kind \in {"add", "attach"} /\ q.step = "store" /\ q.copy.live /\ q.listed = {}
              \/ /\ q.kind = "reset" /\ q.step = "rows" /\ doomed' = doomed \cup Live
                 /\ q.listed = {rows[a].file : a \in Live}
<1>1. /\ Names \subseteq RowNames /\ 1 \in RowNames /\ 0 \in 0..MaxRows /\ 0 \in 0..MaxStored
  BY FilesAssumption DEF RowNames
<1>2. ASSUME NEW n \in Names, NEW kind \in {"add", "attach"}, StartAdd(w, kind, n)
      PROVE  \E q \in Work :
               /\ works' = [works EXCEPT ![w] = q] /\ q.id = 0 /\ q.copy.file = 0
               /\ q.kind \in {"add", "attach"} /\ q.step = "store" /\ q.copy.live /\ q.listed = {}
  <2> DEFINE c == [file |-> 0, name |-> n, live |-> TRUE]
             q == [kind |-> kind, step |-> "store", id |-> 0, was |-> n, listed |-> {}, copy |-> c]
  <2>1. c \in Row BY <1>1 DEF Row
  <2>2. works' = [works EXCEPT ![w] = q] BY <1>2 DEF StartAdd, Goes
  <2>3. c.file = 0 /\ c.live OBVIOUS
  <2> HIDE DEF c
  <2>4. q \in Work BY <1>1, <2>1 DEF Work
  <2> QED BY <2>2, <2>3, <2>4
<1>3. CASE ListFiles(w)
  <2> DEFINE c == [file |-> 0, name |-> 1, live |-> FALSE]
             L == {rows[a].file : a \in Live}
             q == [kind |-> "reset", step |-> "rows", id |-> 0, was |-> 1, listed |-> L, copy |-> c]
  <2>1. c \in Row BY <1>1 DEF Row
  <2>2. works' = [works EXCEPT ![w] = q] /\ doomed' = doomed \cup Live
    BY <1>3 DEF ListFiles, Goes
  <2>3. c.file = 0 OBVIOUS
  <2>4. L \subseteq 1..MaxStored BY RowSequence DEF Live, FilesInv, StoredRow
  <2> HIDE DEF c, L
  <2>5. q \in Work BY <1>1, <2>1, <2>4 DEF Work
  <2>6. L = {rows[a].file : a \in Live} BY DEF L
  <2> QED BY <2>2, <2>3, <2>5, <2>6
<1> QED BY <1>2, <1>3

\* A request starts without a row and without a file.
LEMMA StartAddStep ==
  ASSUME FilesAssumption, FilesInv, NEW w \in Writers,
         \/ \E n \in Names, kind \in {"add", "attach"} : StartAdd(w, kind, n)
         \/ ListFiles(w)
  PROVE  FilesInv'
<1>1. PICK q \in Work :
           /\ works' = [works EXCEPT ![w] = q] /\ q.id = 0 /\ q.copy.file = 0
           /\ \/ q.kind \in {"add", "attach"} /\ q.step = "store" /\ q.copy.live /\ q.listed = {}
              \/ /\ q.kind = "reset" /\ q.step = "rows" /\ doomed' = doomed \cup Live
                 /\ q.listed = {rows[a].file : a \in Live}
  BY StartShape
<1>2. /\ works[w] = Idle /\ doomed \subseteq doomed' /\ doomed' \subseteq doomed \cup Live
      /\ UNCHANGED <<rows, files, uploads, audit, issue, broken, replaced, crossed>>
  BY DEF StartAdd, ListFiles
<1>3. /\ \A a \in DOMAIN rows : rows[a].file \in 1..uploads
      /\ uploads \in 0..MaxStored /\ Live \subseteq DOMAIN rows
  BY DEF FilesInv, FilesTypeOK, WorksFit, Live
<1>4. \A f \in q.listed : \E a \in Live : rows[a].file = f BY <1>1
<1>5. q.listed \subseteq 1..uploads BY <1>3, <1>4
<1>6. /\ q \in Work /\ q.id = 0 /\ q.copy.file = 0
      /\ \/ q.kind \in {"add", "attach"} /\ q.step = "store" /\ q.copy.live /\ q.listed = {}
         \/ q.kind = "reset" /\ q.step = "rows" /\ doomed' = doomed \cup Live
  BY <1>1
<1>7. /\ works'[w] = q /\ \A v \in Writers \ {w} : works'[v] = works[v]
      /\ works' \in [Writers -> Work \cup {Idle}] /\ q # Idle
  BY <1>1, <1>6, OwnWork DEF FilesInv
<1>8. FilesTypeOK' BY <1>2, <1>3, <1>7 DEF FilesInv, FilesTypeOK
<1>9. WorksFit'
  BY <1>2, <1>3, <1>6, <1>7, RowSequence DEF FilesInv, WorksFit, WorkFits, Occupied
<1>10. FilesHaveOneOwner'
  BY <1>2, <1>6, <1>7 DEF FilesInv, FilesHaveOneOwner, Holding, Occupied
<1>11. ListedAreDoomed'
  <2> SUFFICES ASSUME NEW v \in Writers, works'[v] # Idle, NEW f \in works'[v].listed
               PROVE  /\ f \in 1..uploads
                      /\ \A a \in DOMAIN rows : rows[a].file = f => a \in doomed'
                      /\ \A x \in Writers : works'[x] # Idle /\ works'[x].copy.file # 0
                                             /\ works'[x].copy.file = f => works'[x].id \in doomed'
    BY <1>2 DEF ListedAreDoomed, Holding, Occupied
  <2>1. CASE v # w
    BY <2>1, <1>2, <1>6, <1>7 DEF FilesInv, ListedAreDoomed, Holding, Occupied
  <2>2. CASE v = w
    <3>1. PICK a \in Live : rows[a].file = f BY <1>4, <1>7, <2>2
    <3>2. a \in doomed' /\ a \in DOMAIN rows BY <1>3, <1>6, <1>7, <2>2, <3>1
    <3>3. \A b \in DOMAIN rows : rows[b].file = f => b = a
      BY <3>1, <3>2 DEF FilesInv, FilesHaveOneOwner
    <3>4. \A x \in Writers : works'[x] # Idle /\ works'[x].copy.file # 0
                             /\ works'[x].copy.file = f => works'[x].id = a
      BY <1>6, <1>7, <3>1, <3>2 DEF FilesInv, FilesHaveOneOwner, Holding, Occupied
    <3> QED BY <1>5, <1>7, <2>2, <3>2, <3>3, <3>4
  <2> QED BY <2>1, <2>2
<1>12. FilesAreThere'
  BY <1>2, <1>6, <1>7 DEF FilesInv, FilesAreThere, Holding, Occupied
<1>13. SoleRequestsKnow'
  BY <1>2, <1>6, <1>7 DEF FilesInv, SoleRequestsKnow, Occupied
<1>14. FilesAreNamed'
  BY <1>2, <1>7, KeepsNamed
<1>15. AddedOrAdding' BY <1>2, <1>7, KeepsAdding
<1> QED BY <1>8, <1>9, <1>10, <1>11, <1>12, <1>13, <1>14, <1>15 DEF FilesInv

\* A request that has loaded an attachment.
LEMMA LoadStep ==
  ASSUME FilesAssumption, FilesInv, NEW w \in Writers, works[w] = Idle, NEW a \in Live,
         NEW q \in Work, works' = [works EXCEPT ![w] = q], Loads(w, a),
         q.id = a, q.copy.file = rows[a].file, q.copy.live, q.listed = {},
         \/ q.kind = "update" /\ q.step \in {"store", "save"}
         \/ q.kind = "delete" /\ q.step = "unlink",
         doomed \subseteq doomed', doomed' \subseteq DOMAIN rows,
         q.kind = "delete" => a \in doomed',
         UNCHANGED <<rows, files, uploads, audit, issue, broken, replaced>>
  PROVE  FilesInv'
<1>1. /\ works'[w] = q /\ \A v \in Writers \ {w} : works'[v] = works[v]
      /\ works' \in [Writers -> Work \cup {Idle}] /\ q # Idle
  BY OwnWork DEF FilesInv
<1>2. a \in DOMAIN rows /\ rows[a].live BY DEF Live
<1>3. /\ \A b \in DOMAIN rows : rows[b].file \in 1..uploads
      /\ uploads \in 0..MaxStored /\ DOMAIN rows = 1..Len(rows) /\ Len(rows) \in Nat
  BY RowSequence DEF FilesInv, FilesTypeOK, WorksFit
<1>4. /\ crossed' = (crossed \/ \E v \in Writers \ {w} : works[v] # Idle /\ works[v].id = a)
      /\ crossed' \in BOOLEAN
  BY DEF Loads, FilesInv, FilesTypeOK
<1>5. FilesTypeOK' BY <1>1, <1>4 DEF FilesInv, FilesTypeOK
<1>6. WorksFit'
  BY <1>1, <1>2, <1>3 DEF FilesInv, WorksFit, WorkFits, Occupied
<1>7. FilesHaveOneOwner'
  BY <1>1, <1>2, <1>3 DEF FilesInv, FilesHaveOneOwner, Holding, Occupied
<1>8. ListedAreDoomed'
  BY <1>1, <1>2, <1>3 DEF FilesInv, ListedAreDoomed, Holding, Occupied
<1>9. FilesAreThere'
  BY <1>1, <1>2, <1>3 DEF FilesInv, FilesAreThere, Holding, Occupied
<1>10. SoleRequestsKnow'
  BY <1>1, <1>2, <1>4, ZenonT(60) DEF FilesInv, SoleRequestsKnow, Occupied
<1>11. FilesAreNamed' BY <1>1, <1>4, KeepsNamed
<1>12. AddedOrAdding' BY <1>1, KeepsAdding
<1> QED BY <1>5, <1>6, <1>7, <1>8, <1>9, <1>10, <1>11, <1>12 DEF FilesInv

\* update_issue_attachment and delete_issue_attachment load the row.
LEMMA LoadingSteps ==
  ASSUME FilesAssumption, FilesInv, NEW w \in Writers, NEW a \in DOMAIN rows,
         \/ \E n \in Names : StartReplace(w, a, n)
         \/ StartDescribe(w, a) \/ StartDelete(w, a)
  PROVE  FilesInv'
<1>1. /\ works[w] = Idle /\ a \in Live /\ Loads(w, a) /\ doomed \subseteq doomed'
      /\ doomed' \subseteq DOMAIN rows
      /\ UNCHANGED <<rows, files, uploads, audit, issue, broken, replaced>>
  BY DEF StartReplace, StartDescribe, StartDelete, FilesInv, FilesTypeOK
<1>2. PICK r : r = rows[a] OBVIOUS
<1>3. /\ r \in StoredRow /\ r.live /\ a \in 0..MaxRows
  BY <1>1, <1>2, RowSequence, FilesAssumption DEF FilesInv, WorksFit, Live
<1>4. /\ r.file \in 0..MaxStored /\ r.file \in RowNames /\ r.name \in RowNames
      /\ Names \subseteq RowNames
      /\ r \in Row
  BY <1>3, FilesAssumption DEF StoredRow, Row, RowNames
<1>5. ASSUME NEW c \in Row, c.file = r.file, c.live, NEW step \in {"store", "save"},
             works' = [works EXCEPT ![w] = [kind |-> "update", step |-> step, id |-> a,
                         was |-> r.name, listed |-> {}, copy |-> c]]
      PROVE  FilesInv'
  <2> PICK q : q = [kind |-> "update", step |-> step, id |-> a, was |-> r.name, listed |-> {},
                    copy |-> c]
    OBVIOUS
  <2>1. q \in Work /\ q.id = a /\ q.copy = c /\ q.kind = "update" /\ q.step = step /\ q.listed = {}
    BY <1>3, <1>4 DEF Work
  <2> QED BY <1>1, <1>2, <1>5, <2>1, LoadStep
<1>6. ASSUME NEW n \in Names, StartReplace(w, a, n) PROVE FilesInv'
  <2> PICK c : c = [r EXCEPT !.name = n] OBVIOUS
  <2>1. c \in Row /\ c.file = r.file /\ c.live BY <1>3, <1>4 DEF Row
  <2> QED BY <1>2, <1>5, <1>6, <2>1 DEF StartReplace, Goes
<1>7. CASE StartDescribe(w, a)
  <2> PICK c : c = [r EXCEPT !.name = r.file] OBVIOUS
  <2>1. c \in Row /\ c.file = r.file /\ c.live BY <1>3, <1>4 DEF Row
  <2> QED BY <1>2, <1>5, <1>7, <2>1 DEF StartDescribe, Goes
<1>8. CASE StartDelete(w, a)
  <2> PICK q : q = [kind |-> "delete", step |-> "unlink", id |-> a, was |-> r.name, listed |-> {},
                    copy |-> r]
    OBVIOUS
  <2>1. q \in Work /\ q.id = a /\ q.copy = r /\ q.kind = "delete" /\ q.step = "unlink" /\ q.listed = {}
    BY <1>3, <1>4 DEF Work
  <2>2. works' = [works EXCEPT ![w] = q] /\ a \in doomed' BY <1>2, <1>8 DEF StartDelete, Goes
  <2> QED BY <1>1, <1>2, <1>3, <2>1, <2>2, LoadStep
<1> QED BY <1>6, <1>7, <1>8

\* A new file is nobody else's.
LEMMA StoreUploadStep ==
  ASSUME FilesAssumption, FilesInv, NEW w \in Writers, StoreUpload(w)
  PROVE  FilesInv'
<1>1. PICK p : p = works[w] OBVIOUS
<1>2. p # Idle /\ p \in Work /\ p.step = "store"
  BY <1>1 DEF StoreUpload, At, FilesInv, FilesTypeOK
<1> DEFINE to == IF p.kind = "update" THEN "save" ELSE "insert"
<1>3. PICK f \in 1..MaxStored : StoresAs(f) /\ Goes(w, [p EXCEPT !.copy.file = f, !.step = to])
  BY <1>1 DEF StoreUpload
<1>4. PICK q : q = [p EXCEPT !.copy.file = f, !.step = to] OBVIOUS
<1>5. PICK c : c = [p.copy EXCEPT !.file = f] OBVIOUS
<1>6. p.copy \in Row /\ c \in Row /\ c.file = f /\ c.live = p.copy.live
  BY <1>2, <1>5 DEF Work, Row
<1>7. q = [p EXCEPT !.copy = c, !.step = to] BY <1>2, <1>4, <1>5 DEF Work
<1>8. /\ q \in Work /\ q.copy = c /\ q.step = to /\ q.id = p.id /\ q.kind = p.kind
      /\ q.listed = p.listed /\ q.copy.file = f /\ q.copy.live = p.copy.live
  BY <1>2, <1>6, <1>7 DEF Work
<1>9. /\ works' = [works EXCEPT ![w] = q]
      /\ f = uploads + 1 /\ uploads' = f /\ files' = files \cup {f}
      /\ UNCHANGED <<rows, audit, issue, broken, doomed, replaced, crossed>>
  BY <1>3, <1>4 DEF StoreUpload, StoresAs, Goes
<1>10. /\ works'[w] = q /\ \A v \in Writers \ {w} : works'[v] = works[v]
       /\ works' \in [Writers -> Work \cup {Idle}] /\ q # Idle
  BY <1>8, <1>9, OwnWork DEF FilesInv
<1>11. /\ uploads \in Nat /\ files \subseteq 1..uploads
       /\ \A b \in DOMAIN rows : rows[b].file \in 1..uploads
       /\ \A v \in Writers : works[v] # Idle => works[v].copy.file \in 0..uploads
  BY DEF FilesInv, FilesTypeOK, WorksFit, Occupied
<1>12. /\ p.kind \in {"add", "attach", "update"} /\ (p.id = 0 <=> p.kind # "update")
       /\ p.id \in 0..Len(rows) /\ p.copy.live
  BY <1>1, <1>2 DEF FilesInv, WorksFit, WorkFits, Occupied, Work
<1>13. FilesTypeOK'
  BY <1>9, <1>10, <1>11 DEF FilesInv, FilesTypeOK
<1>14. WorksFit'
  <2>1. WorkFits(p) BY <1>1, <1>2 DEF FilesInv, WorksFit, Occupied
  <2>2. WorkFits(q) BY <1>2, <1>8, <1>9, <1>11, <1>12, <2>1 DEF WorkFits
  <2>3. \A v \in Writers : works'[v] # Idle =>
          /\ WorkFits(works'[v]) /\ works'[v].id \in 0..Len(rows)
          /\ works'[v].copy.file \in 0..uploads'
          /\ works'[v].kind = "delete" => works'[v].id \in doomed
    <3> SUFFICES ASSUME NEW v \in Writers, works'[v] # Idle
                 PROVE  /\ WorkFits(works'[v]) /\ works'[v].id \in 0..Len(rows)
                        /\ works'[v].copy.file \in 0..uploads'
                        /\ works'[v].kind = "delete" => works'[v].id \in doomed
      OBVIOUS
    <3>1. CASE v = w BY <1>8, <1>9, <1>10, <1>11, <1>12, <2>2, <3>1
    <3>2. CASE v # w BY <1>9, <1>10, <1>11, <3>2 DEF FilesInv, WorksFit, Occupied
    <3> QED BY <3>1, <3>2
  <2> QED BY <1>9, <1>11, <2>3 DEF FilesInv, WorksFit, WorkFits, Occupied
<1>15. FilesHaveOneOwner'
  BY <1>1, <1>2, <1>8, <1>9, <1>10, <1>11, <1>12
  DEF FilesInv, FilesHaveOneOwner, Holding, Occupied
<1>16. ListedAreDoomed'
  BY <1>1, <1>2, <1>8, <1>9, <1>10, <1>11, <1>12
  DEF FilesInv, ListedAreDoomed, Holding, Occupied
<1>17. FilesAreThere'
  BY <1>1, <1>2, <1>8, <1>9, <1>10, <1>11, <1>12
  DEF FilesInv, FilesAreThere, Holding, Occupied
<1>18. SoleRequestsKnow'
  BY <1>1, <1>2, <1>8, <1>9, <1>10, <1>11, <1>12 DEF FilesInv, SoleRequestsKnow, Occupied
<1>19. FilesAreNamed'
  <2> SUFFICES ASSUME broken = 0, issue, ~crossed, NEW g \in files'
               PROVE  \/ \E a \in DOMAIN rows : rows[a].live /\ rows[a].file = g
                      \/ g \in replaced
                      \/ \E v \in Writers : works'[v] # Idle /\ works'[v].copy.file = g
    BY <1>9 DEF FilesAreNamed, Occupied
  <2>1. CASE g = f BY <1>8, <1>10, <2>1
  <2>2. CASE \E v \in Writers \ {w} : works[v] # Idle /\ works[v].copy.file = g
    BY <1>10, <2>2
  <2>3. CASE g # f /\ p.copy.file = g
    <3>1. g # 0 BY <1>9, <1>11, <2>3
    <3>2. p.kind = "update" /\ p.id \in DOMAIN rows
      BY <1>1, <1>2, <1>12, <2>3, <3>1, RowSequence DEF FilesInv, WorksFit, WorkFits, Occupied
    <3>3. rows[p.id].file = p.copy.file /\ rows[p.id].live
      BY <1>1, <1>2, <1>12, <3>2 DEF FilesInv, SoleRequestsKnow, Occupied
    <3> QED BY <2>3, <3>2, <3>3
  <2> QED BY <1>1, <1>9, <2>1, <2>2, <2>3 DEF FilesInv, FilesAreNamed, Occupied
<1>20. AddedOrAdding'
  <2>1. \A v \in Writers : works[v] # Idle => works'[v] # Idle /\ works'[v].kind = works[v].kind
                                              /\ works'[v].id = works[v].id
    BY <1>1, <1>8, <1>10
  <2> QED BY <1>9, <2>1, KeepsAdding
<1> QED BY <1>13, <1>14, <1>15, <1>16, <1>17, <1>18, <1>19, <1>20 DEF FilesInv

\* A new row takes over the file of its request.
LEMMA InsertRowStep ==
  ASSUME FilesAssumption, FilesInv, NEW w \in Writers, InsertRow(w)
  PROVE  FilesInv'
<1>1. PICK p : p = works[w] OBVIOUS
<1>2. p # Idle /\ p \in Work /\ p.step = "insert"
  BY <1>1 DEF InsertRow, At, FilesInv, FilesTypeOK
<1> DEFINE to == IF p.kind = "add" THEN "touch" ELSE "audit"
<1>3. /\ WorkFits(p) /\ p.copy.file \in 0..uploads /\ uploads \in 0..MaxStored
      /\ \A b \in DOMAIN rows : rows[b].file \in 1..uploads
  BY <1>1, <1>2 DEF FilesInv, FilesTypeOK, WorksFit, Occupied
<1>4. /\ p.kind \in {"add", "attach"} /\ p.id = 0 /\ p.copy.file \in 1..uploads /\ p.copy.live
  BY <1>2, <1>3 DEF WorkFits, Work
<1>5. p.copy \in StoredRow BY <1>2, <1>3, <1>4 DEF Work, Row, StoredRow
<1>6. PICK t : t = Append(rows, p.copy) OBVIOUS
<1>7. PICK n : n = Len(rows) + 1 OBVIOUS
<1>8. /\ t \in Seq(StoredRow) /\ Len(t) = n /\ DOMAIN t = 1..n /\ DOMAIN rows = 1..Len(rows)
      /\ Len(rows) \in Nat /\ t[n] = p.copy /\ \A b \in DOMAIN rows : t[b] = rows[b]
  BY <1>5, <1>6, <1>7, Appended DEF FilesInv, FilesTypeOK, StoredRow
<1>9. PICK q : q = [p EXCEPT !.id = n, !.step = to] OBVIOUS
<1>10. /\ rows' = t /\ works' = [works EXCEPT ![w] = q] /\ n <= MaxRows
       /\ UNCHANGED <<files, uploads, audit, issue, broken, doomed, replaced, crossed>>
  BY <1>1, <1>6, <1>7, <1>8, <1>9, FilesAssumption DEF InsertRow, Goes
<1>11. n \in 0..MaxRows /\ n # 0 /\ n \in Nat BY <1>7, <1>8, <1>10, FilesAssumption
<1>12. /\ q \in Work /\ q.id = n /\ q.step = to /\ q.kind = p.kind /\ q.copy = p.copy
       /\ q.listed = p.listed
  BY <1>2, <1>9, <1>11 DEF Work
<1>13. /\ works'[w] = q /\ \A v \in Writers \ {w} : works'[v] = works[v]
       /\ works' \in [Writers -> Work \cup {Idle}] /\ q # Idle
  BY <1>10, <1>12, OwnWork DEF FilesInv
<1>14. /\ \A v \in Writers : works[v] # Idle => works[v].id \in 0..Len(rows) /\ works[v].id # n
       /\ doomed \subseteq DOMAIN rows /\ n \notin DOMAIN rows
       /\ DOMAIN t = DOMAIN rows \cup {n} /\ 0 \notin DOMAIN rows
  BY <1>7, <1>8 DEF FilesInv, FilesTypeOK, WorksFit, Occupied
<1>15. FilesTypeOK'
  BY <1>8, <1>10, <1>13, <1>14 DEF FilesInv, FilesTypeOK, StoredRow
<1>16. WorksFit'
  <2>1. WorkFits(q) BY <1>3, <1>4, <1>11, <1>12 DEF WorkFits
  <2>2. \A b \in DOMAIN t : t[b].file \in 1..uploads BY <1>3, <1>4, <1>8, <1>14
  <2>3. \A v \in Writers : works'[v] # Idle =>
          /\ WorkFits(works'[v]) /\ works'[v].id \in 0..n
          /\ works'[v].copy.file \in 0..uploads
          /\ works'[v].kind = "delete" => works'[v].id \in doomed
    <3> SUFFICES ASSUME NEW v \in Writers, works'[v] # Idle
                 PROVE  /\ WorkFits(works'[v]) /\ works'[v].id \in 0..n
                        /\ works'[v].copy.file \in 0..uploads
                        /\ works'[v].kind = "delete" => works'[v].id \in doomed
      OBVIOUS
    <3>1. CASE v = w BY <1>3, <1>4, <1>7, <1>8, <1>12, <1>13, <2>1, <3>1
    <3>2. CASE v # w BY <1>7, <1>8, <1>13, <3>2 DEF FilesInv, WorksFit, Occupied
    <3> QED BY <3>1, <3>2
  <2> QED BY <1>8, <1>10, <2>2, <2>3 DEF FilesInv, WorksFit, WorkFits, Occupied
<1>17. /\ \A b \in DOMAIN rows : rows[b].file # p.copy.file
       /\ \A v \in Writers \ {w} : works[v] # Idle => works[v].copy.file # p.copy.file
  BY <1>1, <1>2, <1>4, <1>14 DEF FilesInv, FilesHaveOneOwner, Holding, Occupied
<1>18. FilesHaveOneOwner'
  <2>1. \A b, d \in DOMAIN t : t[b].file = t[d].file => b = d
    BY <1>8, <1>14, <1>17 DEF FilesInv, FilesHaveOneOwner
  <2>2. \A v \in Writers, b \in DOMAIN t :
          works'[v] # Idle /\ works'[v].copy.file # 0 /\ works'[v].copy.file = t[b].file =>
            works'[v].id = b
    <3> SUFFICES ASSUME NEW v \in Writers, NEW b \in DOMAIN t, works'[v] # Idle,
                        works'[v].copy.file # 0, works'[v].copy.file = t[b].file
                 PROVE  works'[v].id = b
      OBVIOUS
    <3>1. CASE v = w /\ b = n BY <1>12, <1>13, <3>1
    <3>2. CASE v = w /\ b # n BY <1>8, <1>12, <1>13, <1>14, <1>17, <3>2
    <3>3. CASE v # w /\ b = n BY <1>8, <1>13, <1>17, <3>3
    <3>4. CASE v # w /\ b # n
      BY <1>8, <1>13, <1>14, <3>4 DEF FilesInv, FilesHaveOneOwner, Holding, Occupied
    <3> QED BY <3>1, <3>2, <3>3, <3>4
  <2>3. \A v, u \in Writers :
          works'[v] # Idle /\ works'[v].copy.file # 0 /\ works'[u] # Idle /\ works'[u].copy.file # 0
          /\ works'[v].copy.file = works'[u].copy.file =>
            v = u \/ (works'[v].id = works'[u].id /\ works'[v].id # 0)
    <3> SUFFICES ASSUME NEW v \in Writers, NEW u \in Writers, works'[v] # Idle,
                        works'[v].copy.file # 0, works'[u] # Idle, works'[u].copy.file # 0,
                        works'[v].copy.file = works'[u].copy.file, v # u
                 PROVE  works'[v].id = works'[u].id /\ works'[v].id # 0
      OBVIOUS
    <3>1. CASE v = w \/ u = w BY <1>12, <1>13, <1>17, <3>1
    <3>2. CASE v # w /\ u # w
      BY <1>13, <3>2 DEF FilesInv, FilesHaveOneOwner, Holding, Occupied
    <3> QED BY <3>1, <3>2
  <2> QED BY <1>10, <2>1, <2>2, <2>3 DEF FilesHaveOneOwner, Holding, Occupied
<1>19. ListedAreDoomed'
  <2> SUFFICES ASSUME NEW v \in Writers, works'[v] # Idle, NEW f \in works'[v].listed
               PROVE  /\ f \in 1..uploads
                      /\ \A b \in DOMAIN t : t[b].file = f => b \in doomed
                      /\ \A u \in Writers : works'[u] # Idle /\ works'[u].copy.file # 0
                                             /\ works'[u].copy.file = f => works'[u].id \in doomed
    BY <1>10 DEF ListedAreDoomed, Holding, Occupied
  <2>1. works[v] # Idle /\ f \in works[v].listed BY <1>1, <1>2, <1>12, <1>13
  <2>2. /\ f \in 1..uploads
        /\ \A b \in DOMAIN rows : rows[b].file = f => b \in doomed
        /\ \A u \in Writers : works[u] # Idle /\ works[u].copy.file # 0
                               /\ works[u].copy.file = f => works[u].id \in doomed
    BY <2>1 DEF FilesInv, ListedAreDoomed, Holding, Occupied
  <2>3. p.copy.file # f BY <1>1, <1>2, <1>4, <1>14, <2>2
  <2>4. \A b \in DOMAIN t : t[b].file = f => b \in doomed BY <1>8, <1>14, <2>2, <2>3
  <2> QED BY <1>12, <1>13, <2>2, <2>3, <2>4
<1>20. FilesAreThere'
  BY <1>1, <1>2, <1>4, <1>8, <1>10, <1>12, <1>13, <1>14, SMTT(30)
  DEF FilesInv, FilesAreThere, Holding, Occupied
<1>21. SoleRequestsKnow'
  BY <1>2, <1>4, <1>8, <1>10, <1>12, <1>13, <1>14 DEF FilesInv, SoleRequestsKnow, Occupied
<1>22. FilesAreNamed'
  <2>1. \A v \in Writers : works[v] # Idle =>
          works'[v] # Idle /\ works'[v].copy.file = works[v].copy.file
    BY <1>1, <1>12, <1>13
  <2> QED BY <1>8, <1>10, <1>14, <2>1, KeepsNamed
<1>23. AddedOrAdding'
  <2> SUFFICES ASSUME broken = 0, issue, NEW a \in DOMAIN t
               PROVE  \/ <<"added", a>> \in audit
                      \/ \E v \in Writers : works'[v] # Idle /\ works'[v].kind \in {"add", "attach"}
                                             /\ works'[v].id = a
    BY <1>10 DEF AddedOrAdding, Occupied
  <2>1. CASE a = n BY <1>4, <1>12, <1>13, <2>1
  <2>2. CASE a \in DOMAIN rows
    <3>1. \/ <<"added", a>> \in audit
          \/ \E v \in Writers : works[v] # Idle /\ works[v].kind \in {"add", "attach"}
                                 /\ works[v].id = a
      BY <2>2 DEF FilesInv, AddedOrAdding, Occupied
    <3>2. \A v \in Writers : works[v] # Idle /\ works[v].id = a => v # w
      BY <1>1, <1>4, <1>14, <2>2
    <3> QED BY <1>13, <3>1, <3>2
  <2> QED BY <1>14, <2>1, <2>2
<1> QED BY <1>15, <1>16, <1>18, <1>19, <1>20, <1>21, <1>22, <1>23 DEF FilesInv

\* A row takes over the file of the request that saves it.
LEMMA SaveRowStep ==
  ASSUME FilesAssumption, FilesInv, NEW w \in Writers, SaveRow(w)
  PROVE  FilesInv'
<1>1. PICK p : p = works[w] OBVIOUS
<1>2. p # Idle /\ p \in Work /\ p.step = "save"
  BY <1>1 DEF SaveRow, At, FilesInv, FilesTypeOK
<1>3. /\ WorkFits(p) /\ p.copy.file \in 0..uploads /\ uploads \in 0..MaxStored
      /\ p.id \in 0..Len(rows)
      /\ \A b \in DOMAIN rows : rows[b].file \in 1..uploads
  BY <1>1, <1>2 DEF FilesInv, FilesTypeOK, WorksFit, Occupied
<1>4. PICK a : a = p.id OBVIOUS
<1>5. /\ p.kind = "update" /\ a \in DOMAIN rows /\ a # 0 /\ p.copy.file \in 1..uploads /\ p.copy.live
  BY <1>2, <1>3, <1>4, RowSequence DEF WorkFits, Work, FilesInv
<1>6. p.copy \in StoredRow BY <1>2, <1>3, <1>5 DEF Work, Row, StoredRow
<1>7. PICK t : t = [rows EXCEPT ![a] = p.copy] OBVIOUS
<1>8. /\ t[a] = p.copy /\ \A b \in DOMAIN rows \ {a} : t[b] = rows[b]
      /\ DOMAIN t = DOMAIN rows /\ t \in [DOMAIN rows -> StoredRow]
  BY <1>5, <1>6, <1>7, RowSequence DEF FilesInv
<1>9. t \in Seq(StoredRow) /\ Len(t) = Len(rows) BY <1>8, RowSequence DEF FilesInv
<1>10. PICK q : q = [p EXCEPT !.step = "touch"] OBVIOUS
<1>11. /\ q \in Work /\ q.step = "touch" /\ q.kind = p.kind /\ q.id = a /\ q.copy = p.copy
       /\ q.listed = p.listed
  BY <1>2, <1>4, <1>10 DEF Work
<1>12. /\ rows' = t /\ works' = [works EXCEPT ![w] = q]
       /\ replaced' = replaced \cup ({rows[a].file} \ {p.copy.file})
       /\ UNCHANGED <<files, uploads, audit, issue, broken, doomed, crossed>>
  BY <1>1, <1>4, <1>7, <1>10 DEF SaveRow, Goes
<1>13. /\ works'[w] = q /\ \A v \in Writers \ {w} : works'[v] = works[v]
       /\ works' \in [Writers -> Work \cup {Idle}] /\ q # Idle
  BY <1>11, <1>12, OwnWork DEF FilesInv
<1>14. replaced' \subseteq 1..MaxStored
  <2>1. rows[a].file \in 1..MaxStored BY <1>5, RowSequence DEF FilesInv, StoredRow
  <2>2. replaced \subseteq 1..MaxStored BY DEF FilesInv, FilesTypeOK
  <2> QED BY <1>12, <2>1, <2>2
<1>15. FilesTypeOK'
  BY <1>8, <1>9, <1>12, <1>13, <1>14 DEF FilesInv, FilesTypeOK, StoredRow
<1>16. WorksFit'
  <2>1. WorkFits(q) BY <1>2, <1>3, <1>4, <1>5, <1>11 DEF WorkFits
  <2>2. \A b \in DOMAIN t : t[b].file \in 1..uploads BY <1>3, <1>5, <1>8
  <2>3. \A v \in Writers : works'[v] # Idle =>
          /\ WorkFits(works'[v]) /\ works'[v].id \in 0..Len(rows)
          /\ works'[v].copy.file \in 0..uploads
          /\ works'[v].kind = "delete" => works'[v].id \in doomed
    <3> SUFFICES ASSUME NEW v \in Writers, works'[v] # Idle
                 PROVE  /\ WorkFits(works'[v]) /\ works'[v].id \in 0..Len(rows)
                        /\ works'[v].copy.file \in 0..uploads
                        /\ works'[v].kind = "delete" => works'[v].id \in doomed
      OBVIOUS
    <3>1. CASE v = w BY <1>3, <1>4, <1>5, <1>11, <1>13, <2>1, <3>1
    <3>2. CASE v # w BY <1>13, <3>2 DEF FilesInv, WorksFit, Occupied
    <3> QED BY <3>1, <3>2
  <2> QED BY <1>8, <1>9, <1>12, <2>2, <2>3 DEF FilesInv, WorksFit, WorkFits, Occupied
<1>17. /\ \A b \in DOMAIN rows : rows[b].file = p.copy.file => b = a
       /\ \A v \in Writers : works[v] # Idle /\ works[v].copy.file = p.copy.file => works[v].id = a
  BY <1>1, <1>2, <1>3, <1>4, <1>5 DEF FilesInv, FilesHaveOneOwner, Holding, Occupied
<1>18. FilesHaveOneOwner'
  BY <1>1, <1>4, <1>5, <1>8, <1>11, <1>12, <1>13, <1>17
  DEF FilesInv, FilesHaveOneOwner, Holding, Occupied
<1>19. ListedAreDoomed'
  BY <1>1, <1>2, <1>4, <1>5, <1>8, <1>11, <1>12, <1>13
  DEF FilesInv, ListedAreDoomed, Holding, Occupied
<1>20. FilesAreThere'
  BY <1>1, <1>2, <1>4, <1>5, <1>8, <1>11, <1>12, <1>13
  DEF FilesInv, FilesAreThere, Holding, Occupied
<1>21. SoleRequestsKnow'
  <2> SUFFICES ASSUME issue, ~crossed, NEW v \in Writers, works'[v] # Idle, works'[v].id # 0
               PROVE  /\ \A u \in Writers : works'[u] # Idle /\ works'[u].id = works'[v].id => u = v
                      /\ t[works'[v].id].file = works'[v].copy.file \/ works'[v].step = "save"
                      /\ t[works'[v].id].live \/ (works'[v].kind = "delete"
                                                  /\ works'[v].step \in {"touch", "audit"})
                      /\ works'[v].kind = "delete" /\ works'[v].step # "unlink" =>
                           works'[v].copy.file \notin files
    BY <1>12 DEF SoleRequestsKnow, Occupied
  <2>1. \A u \in Writers : works[u] # Idle /\ works[u].id = a => u = w
    BY <1>1, <1>2, <1>4, <1>5 DEF FilesInv, SoleRequestsKnow, Occupied
  <2>2. CASE v = w BY <1>5, <1>8, <1>11, <1>13, <2>1, <2>2
  <2>3. CASE v # w
    <3>1. works[v] # Idle /\ works'[v] = works[v] /\ works[v].id # a BY <1>13, <2>1, <2>3
    <3>2. works[v].id \in DOMAIN rows \ {a}
      BY <2>3, <3>1, RowSequence DEF FilesInv, WorksFit, Occupied
    <3>3. t[works[v].id] = rows[works[v].id] BY <1>8, <3>2
    <3> QED BY <1>11, <1>13, <2>3, <3>1, <3>3 DEF FilesInv, SoleRequestsKnow, Occupied
  <2> QED BY <2>2, <2>3
<1>22. FilesAreNamed'
  <2> SUFFICES ASSUME broken = 0, issue, ~crossed, NEW f \in files
               PROVE  \/ \E b \in DOMAIN t : t[b].live /\ t[b].file = f
                      \/ f \in replaced'
                      \/ \E v \in Writers : works'[v] # Idle /\ works'[v].copy.file = f
    BY <1>12 DEF FilesAreNamed, Occupied
  <2>1. CASE \E b \in DOMAIN rows : rows[b].live /\ rows[b].file = f
    BY <1>5, <1>8, <1>12, <2>1
  <2>2. CASE f \in replaced BY <1>12, <2>2
  <2>3. CASE \E v \in Writers : works[v] # Idle /\ works[v].copy.file = f
    BY <1>1, <1>11, <1>13, <2>3
  <2> QED BY <2>1, <2>2, <2>3 DEF FilesInv, FilesAreNamed, Occupied
<1>23. AddedOrAdding'
  <2>1. \A v \in Writers : works[v] # Idle =>
          works'[v] # Idle /\ works'[v].kind = works[v].kind /\ works'[v].id = works[v].id
    BY <1>1, <1>4, <1>11, <1>13
  <2> QED BY <1>8, <1>12, <2>1, KeepsAdding
<1> QED BY <1>15, <1>16, <1>18, <1>19, <1>20, <1>21, <1>22, <1>23 DEF FilesInv

\* A request at its next step, with the rows and what is stored as they were
\* but for their being live.
LEMMA WorksStillFit ==
  ASSUME FilesInv, KeepsHeld, Len(rows') = Len(rows),
         \A v \in Writers : works'[v] # Idle =>
           WorkFits(works'[v]) /\ works'[v].kind = works[v].kind
  PROVE  WorksFit'
<1>1. \A v \in Writers : works'[v] # Idle =>
        /\ WorkFits(works'[v]) /\ works'[v].id \in 0..Len(rows)
        /\ works'[v].copy.file \in 0..uploads
        /\ works'[v].kind = "delete" => works'[v].id \in doomed'
  BY DEF FilesInv, WorksFit, KeepsHeld, Occupied
<1> QED BY <1>1 DEF FilesInv, WorksFit, WorkFits, KeepsHeld, Occupied

\* The request of w goes to the given step.
Steps(w, to) ==
  /\ works[w] # Idle /\ works[w] \in Work
  /\ works'[w] \in Work /\ works'[w] # Idle /\ works'[w].step = to
  /\ works'[w].kind = works[w].kind /\ works'[w].id = works[w].id
  /\ works'[w].copy = works[w].copy /\ works'[w].listed = works[w].listed
  /\ \A v \in Writers \ {w} : works'[v] = works[v]
  /\ works' \in [Writers -> Work \cup {Idle}]

\* What the change of a step means.
LEMMA GoesToStep ==
  ASSUME FilesAssumption, FilesInv, NEW w \in Writers, works[w] # Idle,
         NEW to \in {"store", "insert", "save", "unlink", "row", "touch", "audit",
                    "rows", "files", "commit"},
         Goes(w, [works[w] EXCEPT !.step = to])
  PROVE  Steps(w, to)
<1>1. PICK q : q = [works[w] EXCEPT !.step = to] OBVIOUS
<1>2. works' = [works EXCEPT ![w] = q] BY <1>1 DEF Goes
<1>3. works[w] \in Work BY OwnWork, <1>2 DEF FilesInv
<1>4. /\ q \in Work /\ q.step = to /\ q.kind = works[w].kind /\ q.id = works[w].id
      /\ q.copy = works[w].copy /\ q.listed = works[w].listed
  BY <1>1, <1>3, WorkAtStep
<1> QED BY <1>2, <1>3, <1>4, OwnWork DEF FilesInv, Steps

\* delete_issue_attachment removes the file,
LEMMA UnlinkFileStep ==
  ASSUME FilesAssumption, FilesInv, NEW w \in Writers, UnlinkFile(w)
  PROVE  FilesInv'
<1>1. PICK f : f = works[w].copy.file OBVIOUS
<1>2. /\ works[w] # Idle /\ works[w].step = "unlink" /\ files' = files \ {f}
      /\ UNCHANGED <<rows, uploads, audit, issue, broken, doomed, replaced, crossed>>
  BY <1>1 DEF UnlinkFile, At
<1>3. Steps(w, "row") BY <1>2, GoesToStep DEF UnlinkFile
<1>4. /\ WorkFits(works[w])
      /\ works[w].kind = "delete" => works[w].id \in doomed
  BY <1>2 DEF FilesInv, WorksFit, Occupied
<1>5. works[w].kind = "delete" /\ f # 0 /\ works[w].id \in doomed
  BY <1>1, <1>2, <1>3, <1>4 DEF WorkFits, Work, Steps
<1>6. KeepsHeld BY <1>2, <1>3 DEF KeepsHeld, Steps
<1>7. FilesTypeOK' BY <1>2, <1>3 DEF FilesInv, FilesTypeOK, Steps
<1>8. WorksFit'
  <2>1. WorkFits(works'[w]) BY <1>2, <1>3, <1>4, <1>5 DEF WorkFits, Steps
  <2>2. \A v \in Writers : works'[v] # Idle =>
          WorkFits(works'[v]) /\ works'[v].kind = works[v].kind
    BY <1>3, <2>1 DEF FilesInv, WorksFit, Steps, Occupied
  <2> QED BY <1>2, <1>6, <2>2, WorksStillFit
<1>9. FilesHaveOneOwner' /\ ListedAreDoomed' BY <1>6, KeepsOwners
<1>10. FilesAreThere'
  <2>1. \A a \in DOMAIN rows : rows[a].file = f => a \in doomed
    BY <1>1, <1>2, <1>5 DEF FilesInv, FilesHaveOneOwner, Holding, Occupied
  <2>2. \A v \in Writers : works[v] # Idle /\ works[v].copy.file = f => works[v].id \in doomed
    BY <1>1, <1>2, <1>5 DEF FilesInv, FilesHaveOneOwner, Holding, Occupied
  <2> QED BY <1>2, <1>6, <2>1, <2>2 DEF FilesInv, FilesAreThere, KeepsHeld, Holding, Occupied
<1>11. SoleRequestsKnow'
  BY <1>1, <1>2, <1>3, <1>5 DEF FilesInv, SoleRequestsKnow, Occupied, Steps
<1>12. FilesAreNamed' BY <1>2, <1>3, KeepsNamed DEF Steps
<1>13. AddedOrAdding' BY <1>2, <1>3, KeepsAdding DEF Steps
<1> QED BY <1>7, <1>8, <1>9, <1>10, <1>11, <1>12, <1>13 DEF FilesInv

\* and the reset the files that it has listed.
LEMMA DeleteFilesStep ==
  ASSUME FilesAssumption, FilesInv, NEW w \in Writers, DeleteFiles(w)
  PROVE  FilesInv'
<1>2. /\ works[w] # Idle /\ works[w].step = "files" /\ files' = files \ works[w].listed
      /\ UNCHANGED <<rows, uploads, audit, issue, broken, doomed, replaced, crossed>>
  BY DEF DeleteFiles, At
<1>3. Steps(w, "commit") BY <1>2, GoesToStep DEF DeleteFiles
<1>4. WorkFits(works[w]) BY <1>2 DEF FilesInv, WorksFit, Occupied
<1>5. works[w].kind = "reset" /\ works[w].id = 0 BY <1>2, <1>3, <1>4 DEF WorkFits, Work, Steps
<1>6. KeepsHeld BY <1>2, <1>3 DEF KeepsHeld, Steps
<1>7. FilesTypeOK' BY <1>2, <1>3 DEF FilesInv, FilesTypeOK, Steps
<1>8. WorksFit'
  <2>1. WorkFits(works'[w]) BY <1>2, <1>3, <1>4, <1>5 DEF WorkFits, Steps
  <2>2. \A v \in Writers : works'[v] # Idle =>
          WorkFits(works'[v]) /\ works'[v].kind = works[v].kind
    BY <1>3, <2>1 DEF FilesInv, WorksFit, Steps, Occupied
  <2> QED BY <1>2, <1>6, <2>2, WorksStillFit
<1>9. FilesHaveOneOwner' /\ ListedAreDoomed' BY <1>6, KeepsOwners
<1>10. FilesAreThere'
  <2>1. \A f \in works[w].listed :
          /\ \A a \in DOMAIN rows : rows[a].file = f => a \in doomed
          /\ \A v \in Writers : Holding(v) /\ works[v].copy.file = f => works[v].id \in doomed
    BY <1>2 DEF FilesInv, ListedAreDoomed, Occupied
  <2>2. \A v \in Writers : Holding(v)' => Holding(v) BY <1>6 DEF KeepsHeld, Holding, Occupied
  <2> QED BY <1>2, <1>6, <2>1, <2>2 DEF FilesInv, FilesAreThere, KeepsHeld, Holding, Occupied
<1>11. SoleRequestsKnow'
  BY <1>2, <1>3, <1>5 DEF FilesInv, SoleRequestsKnow, Occupied, Steps
<1>12. FilesAreNamed' BY <1>2, <1>3, KeepsNamed DEF Steps
<1>13. AddedOrAdding' BY <1>2, <1>3, KeepsAdding DEF Steps
<1> QED BY <1>7, <1>8, <1>9, <1>10, <1>11, <1>12, <1>13 DEF FilesInv

\* Rows that are not live any more keep their files.
LEMMA RowsEnd ==
  ASSUME FilesInv, NEW D, rows' = [a \in DOMAIN rows |-> IF a \in D THEN [rows[a] EXCEPT !.live = FALSE]
                                                         ELSE rows[a]]
  PROVE  /\ rows' \in Seq(StoredRow) /\ Len(rows') = Len(rows) /\ DOMAIN rows' = DOMAIN rows
         /\ \A a \in DOMAIN rows : rows'[a].file = rows[a].file
         /\ \A a \in DOMAIN rows \ D : rows'[a] = rows[a]
         /\ \A a \in DOMAIN rows : ~rows[a].live => ~rows'[a].live
<1>1. ASSUME NEW a \in DOMAIN rows
      PROVE  /\ rows[a] \in StoredRow /\ [rows[a] EXCEPT !.live = FALSE] \in StoredRow
             /\ [rows[a] EXCEPT !.live = FALSE].file = rows[a].file
             /\ [rows[a] EXCEPT !.live = FALSE].live = FALSE
  <2>1. rows[a] \in StoredRow BY RowSequence DEF FilesInv
  <2> QED BY <2>1 DEF StoredRow
<1>2. PICK t : t = [a \in DOMAIN rows |-> IF a \in D THEN [rows[a] EXCEPT !.live = FALSE] ELSE rows[a]]
  OBVIOUS
<1>3. /\ DOMAIN t = DOMAIN rows
      /\ \A a \in DOMAIN rows : t[a] = IF a \in D THEN [rows[a] EXCEPT !.live = FALSE] ELSE rows[a]
      /\ t \in [DOMAIN rows -> StoredRow]
  BY <1>1, <1>2
<1>4. t \in Seq(StoredRow) /\ Len(t) = Len(rows) BY <1>3, RowSequence DEF FilesInv
<1> QED BY <1>1, <1>2, <1>3, <1>4

\* Then its row goes.
LEMMA DeleteRowStep ==
  ASSUME FilesAssumption, FilesInv, NEW w \in Writers, DeleteRow(w)
  PROVE  FilesInv'
<1>1. PICK a : a = works[w].id OBVIOUS
<1>2. /\ works[w] # Idle /\ works[w].step = "row"
      /\ rows' = [rows EXCEPT ![a].live = FALSE]
      /\ UNCHANGED <<files, uploads, audit, issue, broken, doomed, replaced, crossed>>
  BY <1>1 DEF DeleteRow, At
<1>3. Steps(w, "touch") BY <1>2, GoesToStep DEF DeleteRow
<1>4. WorkFits(works[w]) /\ a \in 0..Len(rows) BY <1>1, <1>2 DEF FilesInv, WorksFit, Occupied
<1>5. works[w].kind = "delete" /\ a # 0
  BY <1>1, <1>2, <1>3, <1>4 DEF WorkFits, Work, Steps
<1>6. a \in DOMAIN rows BY <1>4, <1>5, RowSequence DEF FilesInv
<1>7. rows' = [b \in DOMAIN rows |-> IF b \in {a} THEN [rows[b] EXCEPT !.live = FALSE] ELSE rows[b]]
  BY <1>2, <1>6
<1>8. /\ rows' \in Seq(StoredRow) /\ Len(rows') = Len(rows) /\ DOMAIN rows' = DOMAIN rows
      /\ \A b \in DOMAIN rows : rows'[b].file = rows[b].file
      /\ \A b \in DOMAIN rows \ {a} : rows'[b] = rows[b]
  BY <1>7, RowsEnd
<1>9. KeepsHeld BY <1>2, <1>3, <1>8 DEF KeepsHeld, Steps
<1>10. FilesTypeOK' BY <1>2, <1>3, <1>8 DEF FilesInv, FilesTypeOK, Steps, StoredRow
<1>11. WorksFit'
  <2>1. WorkFits(works'[w]) BY <1>1, <1>2, <1>3, <1>4, <1>5 DEF WorkFits, Steps
  <2>2. \A v \in Writers : works'[v] # Idle =>
          WorkFits(works'[v]) /\ works'[v].kind = works[v].kind
    BY <1>3, <2>1 DEF FilesInv, WorksFit, Steps, Occupied
  <2> QED BY <1>8, <1>9, <2>2, WorksStillFit
<1>12. FilesHaveOneOwner' /\ ListedAreDoomed' /\ FilesAreThere' BY <1>2, <1>9, KeepsOwners
<1>13. issue /\ ~crossed => /\ rows[a].file \notin files
                            /\ \A v \in Writers : works[v] # Idle /\ works[v].id = a => v = w
  BY <1>1, <1>2, <1>5 DEF FilesInv, SoleRequestsKnow, Occupied
<1>14. SoleRequestsKnow'
  <2> SUFFICES ASSUME issue, ~crossed, NEW v \in Writers, works'[v] # Idle, works'[v].id # 0
               PROVE  /\ \A u \in Writers : works'[u] # Idle /\ works'[u].id = works'[v].id => u = v
                      /\ rows'[works'[v].id].file = works'[v].copy.file \/ works'[v].step = "save"
                      /\ rows'[works'[v].id].live \/ (works'[v].kind = "delete"
                                                  /\ works'[v].step \in {"touch", "audit"})
                      /\ works'[v].kind = "delete" /\ works'[v].step # "unlink" =>
                           works'[v].copy.file \notin files
    BY <1>2 DEF SoleRequestsKnow, Occupied
  <2>1. CASE v = w
    BY <1>1, <1>2, <1>3, <1>5, <1>6, <1>8, <1>13, <2>1
    DEF Steps, FilesInv, SoleRequestsKnow, Occupied
  <2>2. CASE v # w
    <3>1. works[v] # Idle /\ works'[v] = works[v] /\ works[v].id # a BY <1>3, <1>13, <2>2 DEF Steps
    <3>2. works[v].id \in DOMAIN rows \ {a}
      BY <2>2, <3>1, RowSequence DEF FilesInv, WorksFit, Occupied
    <3>3. rows'[works[v].id] = rows[works[v].id] BY <1>8, <3>2
    <3> QED BY <1>1, <1>3, <2>2, <3>1, <3>3 DEF FilesInv, SoleRequestsKnow, Occupied, Steps
  <2> QED BY <2>1, <2>2
<1>15. FilesAreNamed'
  <2> SUFFICES ASSUME broken = 0, issue, ~crossed PROVE FilesAreNamed'
    BY <1>2 DEF FilesAreNamed
  <2>1. \A b \in DOMAIN rows : rows[b].live /\ rows[b].file \in files =>
          rows'[b].live /\ rows'[b].file = rows[b].file
    BY <1>8, <1>13
  <2> QED BY <1>2, <1>3, <1>8, <2>1, KeepsNamed DEF Steps
<1>16. AddedOrAdding' BY <1>2, <1>3, <1>8, KeepsAdding DEF Steps
<1> QED BY <1>10, <1>11, <1>12, <1>14, <1>15, <1>16 DEF FilesInv

\* A request is over.
Leaves(w) ==
  /\ works'[w] = Idle /\ \A v \in Writers \ {w} : works'[v] = works[v]
  /\ works' \in [Writers -> Work \cup {Idle}]

\* What the end of a request means.
LEMMA FinishesLeaves ==
  ASSUME FilesAssumption, FilesInv, NEW w \in Writers, Finishes(w)
  PROVE  Leaves(w)
<1>1. PICK q : q = Idle OBVIOUS
<1>2. works' = [works EXCEPT ![w] = q] BY <1>1 DEF Finishes
<1> QED BY <1>1, <1>2, OwnWork DEF FilesInv, Leaves

\* The requests that are left fit.
LEMMA LeavesFit ==
  ASSUME FilesInv, NEW w \in Writers, Leaves(w), KeepsHeld, Len(rows') = Len(rows)
  PROVE  WorksFit'
<1>1. \A v \in Writers : works'[v] # Idle => WorkFits(works'[v]) /\ works'[v].kind = works[v].kind
  BY DEF Leaves, FilesInv, WorksFit, Occupied
<1> QED BY <1>1, WorksStillFit

\* The history event ends a request.
LEMMA RecordChangeStep ==
  ASSUME FilesAssumption, FilesInv, NEW w \in Writers, RecordChange(w)
  PROVE  FilesInv'
<1>1. PICK p : p = works[w] OBVIOUS
<1>2. /\ p # Idle /\ p.step = "audit" /\ issue /\ p \in Work
      /\ audit' = audit \cup Event(p)
      /\ UNCHANGED <<rows, files, uploads, issue, broken, doomed, replaced, crossed>>
  BY <1>1 DEF RecordChange, At, FilesInv, FilesTypeOK
<1>3. Leaves(w) BY FinishesLeaves DEF RecordChange
<1>4. WorkFits(p) /\ p.id \in 0..Len(rows) BY <1>1, <1>2 DEF FilesInv, WorksFit, Occupied
<1>5. p.kind \in {"add", "attach", "update", "delete"} /\ p.id # 0 /\ p.id \in DOMAIN rows
  BY <1>2, <1>4, RowSequence DEF WorkFits, Work, FilesInv
<1>6. p.id \in 1..MaxRows BY <1>2, <1>5 DEF Work
<1>7. Event(p) \subseteq {"added", "updated", "removed"} \X (1..MaxRows)
  BY <1>6 DEF Event
<1>8. p.kind \in {"add", "attach"} => <<"added", p.id>> \in audit' BY <1>2 DEF Event
<1>9. KeepsHeld BY <1>2, <1>3 DEF KeepsHeld, Leaves
<1>10. FilesTypeOK' BY <1>2, <1>3, <1>7 DEF FilesInv, FilesTypeOK, Leaves
<1>11. WorksFit' BY <1>2, <1>3, <1>9, LeavesFit
<1>12. FilesHaveOneOwner' /\ ListedAreDoomed' /\ FilesAreThere' BY <1>2, <1>9, KeepsOwners
<1>13. SoleRequestsKnow' BY <1>2, <1>3 DEF FilesInv, SoleRequestsKnow, Occupied, Leaves
<1>14. FilesAreNamed'
  <2>1. issue /\ ~crossed => \/ p.copy.file \notin files
                             \/ rows[p.id].live /\ rows[p.id].file = p.copy.file
    BY <1>1, <1>2, <1>5 DEF FilesInv, SoleRequestsKnow, Occupied
  <2> QED BY <1>1, <1>2, <1>3, <1>5, <2>1, KeepsNamed DEF Leaves
<1>15. AddedOrAdding'
  <2>1. audit \subseteq audit' BY <1>2
  <2> QED BY <1>1, <1>2, <1>3, <1>8, <2>1, KeepsAdding DEF Leaves
<1> QED BY <1>10, <1>11, <1>12, <1>13, <1>14, <1>15 DEF FilesInv

\* A request ends halfway.
LEMMA BreakStep ==
  ASSUME FilesAssumption, FilesInv, NEW w \in Writers, Break(w)
  PROVE  FilesInv'
<1>1. UNCHANGED <<rows, files, uploads, audit, issue, doomed, replaced, crossed>> BY DEF Break
<1>2. Leaves(w) BY FinishesLeaves DEF Break
<1>3. broken' \in 0..MaxCrashes /\ (issue => broken' # 0)
  BY FilesAssumption DEF Break, FilesInv, FilesTypeOK
<1>4. KeepsHeld BY <1>1, <1>2 DEF KeepsHeld, Leaves
<1>5. FilesTypeOK' BY <1>1, <1>2, <1>3 DEF FilesInv, FilesTypeOK, Leaves
<1>6. WorksFit' BY <1>1, <1>2, <1>4, LeavesFit
<1>7. FilesHaveOneOwner' /\ ListedAreDoomed' /\ FilesAreThere' BY <1>1, <1>4, KeepsOwners
<1>8. SoleRequestsKnow' BY <1>1, <1>2 DEF FilesInv, SoleRequestsKnow, Occupied, Leaves
<1>9. FilesAreNamed' /\ AddedOrAdding' BY <1>1, <1>3 DEF FilesAreNamed, AddedOrAdding
<1> QED BY <1>5, <1>6, <1>7, <1>8, <1>9 DEF FilesInv

\* The rows go with the issue.
LEMMA IssueEndsStep ==
  ASSUME FilesAssumption, FilesInv, DeleteIssueRows \/ \E w \in Writers : CommitReset(w)
  PROVE  FilesInv'
<1>1. rows' = [a \in DOMAIN rows |-> IF a \in DOMAIN rows THEN [rows[a] EXCEPT !.live = FALSE]
                                     ELSE rows[a]]
  BY DEF DeleteIssueRows, CommitReset
<1>2. /\ rows' \in Seq(StoredRow) /\ Len(rows') = Len(rows) /\ DOMAIN rows' = DOMAIN rows
      /\ \A a \in DOMAIN rows : rows'[a].file = rows[a].file
  BY <1>1, RowsEnd
<1>3. /\ ~issue' /\ issue' \in BOOLEAN /\ audit' \subseteq audit
      /\ UNCHANGED <<files, uploads, broken, doomed, replaced, crossed>>
  BY DEF DeleteIssueRows, CommitReset
<1>4. /\ works' \in [Writers -> Work \cup {Idle}]
      /\ \A v \in Writers : works'[v] # Idle => works'[v] = works[v]
  <2>1. CASE DeleteIssueRows BY <2>1 DEF DeleteIssueRows, FilesInv, FilesTypeOK
  <2>2. CASE \E w \in Writers : CommitReset(w)
    <3>1. PICK w \in Writers : CommitReset(w) BY <2>2
    <3>2. Leaves(w) BY <3>1, FinishesLeaves DEF CommitReset
    <3> QED BY <3>2 DEF Leaves
  <2> QED BY <2>1, <2>2
<1>5. KeepsHeld BY <1>2, <1>3, <1>4 DEF KeepsHeld
<1>6. FilesTypeOK' BY <1>2, <1>3, <1>4 DEF FilesInv, FilesTypeOK, StoredRow
<1>7. WorksFit'
  <2>1. \A v \in Writers : works'[v] # Idle => WorkFits(works'[v]) /\ works'[v].kind = works[v].kind
    BY <1>4 DEF FilesInv, WorksFit, Occupied
  <2> QED BY <1>2, <1>5, <2>1, WorksStillFit
<1>8. FilesHaveOneOwner' /\ ListedAreDoomed' /\ FilesAreThere' BY <1>3, <1>5, KeepsOwners
<1>9. SoleRequestsKnow' /\ FilesAreNamed' /\ AddedOrAdding'
  BY <1>3 DEF SoleRequestsKnow, FilesAreNamed, AddedOrAdding
<1> QED BY <1>6, <1>7, <1>8, <1>9 DEF FilesInv

\* There is no attachment yet.
LEMMA FilesInvInit ==
  ASSUME FilesAssumption, FilesInit
  PROVE  FilesInv
<1>1. /\ rows = << >> /\ Len(rows) = 0 /\ DOMAIN rows = {} /\ rows \in Seq(StoredRow)
      /\ \A v \in Writers : works[v] = Idle
  BY DEF FilesInit
<1>2. FilesTypeOK
  <2>1. 0 \in 0..MaxStored /\ 0 \in 0..MaxCrashes BY FilesAssumption
  <2>2. works \in [Writers -> Work \cup {Idle}] BY DEF FilesInit
  <2>3. rows \in Seq([file : 1..MaxStored, name : RowNames, live : BOOLEAN]) BY <1>1 DEF StoredRow
  <2>4. files = {} /\ uploads = 0 /\ audit = {} /\ issue = TRUE /\ broken = 0
        /\ doomed = {} /\ replaced = {} /\ crossed = FALSE
    BY DEF FilesInit
  <2> QED BY <2>1, <2>2, <2>3, <2>4 DEF FilesTypeOK
<1>3. WorksFit BY <1>1, FilesAssumption DEF WorksFit, Occupied
<1>4. FilesHaveOneOwner /\ ListedAreDoomed /\ FilesAreThere
  BY <1>1 DEF FilesHaveOneOwner, ListedAreDoomed, FilesAreThere, Holding, Occupied
<1>5. SoleRequestsKnow /\ FilesAreNamed /\ AddedOrAdding
  BY <1>1 DEF FilesInit, SoleRequestsKnow, FilesAreNamed, AddedOrAdding, Occupied
<1> QED BY <1>2, <1>3, <1>4, <1>5 DEF FilesInv

\* Every step keeps the invariant.
LEMMA FilesInvNext ==
  ASSUME FilesAssumption, FilesInv, [FilesNext]_filesVars
  PROVE  FilesInv'
<1>1. CASE UNCHANGED filesVars
  BY <1>1 DEF filesVars, FilesInv, FilesTypeOK, WorksFit, WorkFits, FilesHaveOneOwner, ListedAreDoomed,
     FilesAreThere, SoleRequestsKnow, FilesAreNamed, AddedOrAdding, Holding, Occupied
<1>2. ASSUME NEW w \in Writers, ListFiles(w) PROVE FilesInv'
  BY <1>2, StartAddStep
<1> QED
  BY <1>1, <1>2, StartAddStep, LoadingSteps, StoreUploadStep, InsertRowStep, SaveRowStep, UnlinkFileStep,
     DeleteRowStep, TouchIssueStep, RecordChangeStep, BreakStep, DeleteFilesStep, IssueEndsStep
  DEF FilesNext

\* The invariant says what FilesFollowRows says.
LEMMA FilesInvFollow == ASSUME FilesInv PROVE FilesFollowRows
<1>1. FilesOutliveSaves BY DEF FilesInv, FilesAreThere, FilesOutliveSaves, Live
<1>2. OnlyReplacedFilesRemain
  <2> SUFFICES ASSUME broken = 0, issue, ~crossed, NEW f \in files
               PROVE  f \in {rows[a].file : a \in Live} \cup replaced
                             \cup {works[w].copy.file : w \in {v \in Writers : works[v] # Idle}}
    BY DEF OnlyReplacedFilesRemain
  <2> QED BY DEF FilesInv, FilesAreNamed, Live, Occupied
<1>3. UploadsAreAudited BY DEF FilesInv, AddedOrAdding, UploadsAreAudited, Occupied
<1> QED BY <1>1, <1>2, <1>3 DEF FilesFollowRows

\* For any number of attachments, files and workers: no save and no deletion
\* of another attachment takes the file of one that nobody deletes, only
\* replaced files stay behind, and every attachment has its event, unless
\* requests break or cross.
THEOREM FilesFollow ==
  ASSUME FilesAssumption
  PROVE  FilesSpec => []FilesFollowRows
<1>1. FilesInit => FilesInv BY FilesInvInit
<1>2. FilesInv /\ [FilesNext]_filesVars => FilesInv' BY FilesInvNext
<1>3. FilesInv => FilesFollowRows BY FilesInvFollow
<1> QED BY <1>1, <1>2, <1>3, PTL DEF FilesSpec

-----------------------------------------------------------------------------
(* Drafts and the issues made of them.                                     *)

\* A form that shares its token with no other has that of the session, and
\* its text refers to drafts that are staged.
OwnTokens ==
  \A t \in Tabs : Open(t) /\ form[t].token \notin shared =>
    /\ form[t].token = token
    /\ \A s \in Tabs : Open(s) /\ form[s].token = token => s = t
    /\ \A d \in form[t].text : d \in DOMAIN drafts /\ drafts[d].token = token /\ drafts[d].live
    /\ job[t] # NoForm => form[t].text \subseteq job[t].left \cup job[t].done

\* A creation belongs to an open form, and works on drafts that were staged.
JobsFit ==
  \A t \in Tabs : job[t] # NoForm =>
    /\ Open(t)
    /\ job[t].left \cup job[t].done \subseteq DOMAIN drafts
    /\ job[t].left \cap job[t].done = {}
    /\ form[t].token \notin shared => \A d \in job[t].left \cup job[t].done : drafts[d].live

\* A file is of one draft, or else of attachments.
FilesApart ==
  /\ \A d \in DOMAIN drafts : drafts[d].file \in 1..stored
  /\ \A d, e \in DOMAIN drafts : drafts[d].file = drafts[e].file => d = e
  /\ \A t \in Tabs : job[t] # NoForm => \A d \in DOMAIN drafts : drafts[d].file \notin job[t].files
  /\ \A i \in DOMAIN made, d \in DOMAIN drafts : drafts[d].file \notin made[i].attachments
  /\ \A t \in Tabs : job[t] # NoForm => job[t].files \subseteq storage

\* A draft that no creation has deleted.
StillStaged(d) == drafts[d].live /\ \A t \in Tabs : job[t] # NoForm => d \notin job[t].done

\* Whose a file is if no creation fails and no two forms meet.
FilesOwned ==
  failures = 0 /\ shared = {} => \A f \in 1..stored :
    f \in storage <=> \/ \E d \in DOMAIN drafts : drafts[d].file = f /\ StillStaged(d)
                      \/ \E i \in DOMAIN made : f \in made[i].attachments
                      \/ \E t \in Tabs : job[t] # NoForm /\ f \in job[t].files

\* The invariant.
DraftInv ==
  /\ DraftTypeOK /\ Len(drafts) <= MaxDrafts
  /\ OwnTokens /\ JobsFit /\ FilesApart /\ FilesOwned
  /\ AttachmentsKeepFiles /\ ReferencesRewritten

Draft == [token : 1..MaxTokens, file : 1..MaxFiles, live : BOOLEAN]
Made == [text : SUBSET (1..MaxDrafts), attachments : SUBSET (1..MaxFiles), token : 1..MaxTokens]

\* The sequences, and the record of a tab.
LEMMA DraftShapes ==
  ASSUME DraftAssumption, DraftTypeOK
  PROVE  /\ Len(drafts) \in Nat /\ DOMAIN drafts = 1..Len(drafts) /\ drafts \in Seq(Draft)
         /\ \A d \in DOMAIN drafts : drafts[d] \in Draft
         /\ Len(made) \in Nat /\ DOMAIN made = 1..Len(made) /\ made \in Seq(Made)
         /\ \A i \in DOMAIN made : made[i] \in Made
         /\ \A t \in Tabs : form[t] # NoForm =>
              form[t] \in Form /\ form[t].token \in 1..MaxTokens /\ form[t].text \subseteq 1..MaxDrafts
         /\ \A t \in Tabs : job[t] # NoForm =>
              /\ job[t] \in Job /\ job[t].left \subseteq 1..MaxDrafts /\ job[t].copied \in BOOLEAN
              /\ job[t].done \subseteq 1..MaxDrafts /\ job[t].files \subseteq 1..MaxFiles
<1>1. drafts \in Seq(Draft) /\ made \in Seq(Made) BY DEF DraftTypeOK, Draft, Made
<1>2. /\ Len(drafts) \in Nat /\ DOMAIN drafts = 1..Len(drafts)
      /\ \A d \in DOMAIN drafts : drafts[d] \in Draft
  BY <1>1
<1>3. /\ Len(made) \in Nat /\ DOMAIN made = 1..Len(made)
      /\ \A i \in DOMAIN made : made[i] \in Made
  BY <1>1
<1>4. \A t \in Tabs : form[t] # NoForm => form[t] \in Form BY DEF DraftTypeOK
<1>5. \A t \in Tabs : job[t] # NoForm => job[t] \in Job BY DEF DraftTypeOK
<1> QED BY <1>1, <1>2, <1>3, <1>4, <1>5 DEF Form, Job

\* A step of one tab changes its form or its creation only.
LEMMA OneTab ==
  ASSUME NEW S, NEW g \in [Tabs -> S], NEW h, NEW t \in Tabs, NEW q, h = [g EXCEPT ![t] = q]
  PROVE  /\ h[t] = q /\ \A s \in Tabs \ {t} : h[s] = g[s]
         /\ q \in S => h \in [Tabs -> S]
  OBVIOUS

\* Files stay where they are if only forms and tokens change.
LEMMA FilesStay ==
  ASSUME DraftInv, UNCHANGED <<drafts, storage, stored, job, made, failures>>, shared \subseteq shared'
  PROVE  FilesApart' /\ FilesOwned' /\ AttachmentsKeepFiles' /\ ReferencesRewritten'
  BY DEF DraftInv, FilesApart, FilesOwned, StillStaged, AttachmentsKeepFiles, ReferencesRewritten

\* The token that the session has after it was asked for one.
LEMMA TokenGiven ==
  ASSUME DraftAssumption, DraftTypeOK, GiveToken
  PROVE  /\ Token \in 1..MaxTokens /\ token' = Token /\ token' \in 0..tokens' /\ tokens' \in 0..MaxTokens
         /\ token # 0 => token' = token
  BY DEF DraftAssumption, DraftTypeOK, GiveToken, Token

\* A form is rendered.
LEMMA OpenFormStep ==
  ASSUME DraftAssumption, DraftInv, NEW t \in Tabs, OpenForm(t)
  PROVE  DraftInv'
<1>1. PICK f : f = [token |-> Token, text |-> {}] OBVIOUS
<1>2. PICK k : k = Token OBVIOUS
<1>3. /\ form[t] = NoForm /\ form' = [form EXCEPT ![t] = f]
      /\ shared' = IF \E s \in Tabs : form[s] # NoForm /\ form[s].token = k THEN shared \cup {k} ELSE shared
      /\ UNCHANGED <<drafts, storage, stored, job, made, failures>>
  BY <1>1, <1>2 DEF OpenForm, Open
<1>4. k \in 1..MaxTokens /\ token' = k /\ token' \in 0..tokens' /\ tokens' \in 0..MaxTokens
      /\ (token # 0 => k = token)
  BY <1>2, TokenGiven DEF OpenForm, DraftInv
<1>5. f \in Form /\ f.token = k /\ f.text = {} /\ f # NoForm
  BY <1>1, <1>2, <1>4, DraftAssumption DEF Form
<1>6. /\ form'[t] = f /\ \A s \in Tabs \ {t} : form'[s] = form[s]
      /\ form' \in [Tabs -> Form \cup {NoForm}]
  BY <1>3, <1>5, OneTab DEF DraftInv, DraftTypeOK
<1>7. job[t] = NoForm BY <1>3 DEF DraftInv, JobsFit, Open
<1>8. DraftTypeOK' BY <1>3, <1>4, <1>6 DEF DraftInv, DraftTypeOK
<1>9. OwnTokens'
  <2>1. ASSUME NEW s \in Tabs \ {t}, form[s] # NoForm PROVE form[s].token \in shared'
    <3>1. form[s].token \notin shared => form[s].token = token /\ form[s].token \in 1..MaxTokens
      BY <2>1, DraftShapes DEF DraftInv, OwnTokens, Open
    <3> QED BY <1>3, <1>4, <2>1, <3>1
  <2>2. k \notin shared' => \A s \in Tabs : form'[s] # NoForm /\ form'[s].token = k => s = t
    BY <1>3, <1>6
  <2> QED BY <1>3, <1>4, <1>5, <1>6, <1>7, <2>1, <2>2 DEF OwnTokens, Open
<1>10. JobsFit'
  BY <1>3, <1>6, <1>7 DEF DraftInv, JobsFit, Open
<1>11. FilesApart' /\ FilesOwned' /\ AttachmentsKeepFiles' /\ ReferencesRewritten'
  BY <1>3, FilesStay
<1> QED BY <1>3, <1>8, <1>9, <1>10, <1>11 DEF DraftInv

\* A form is left.
LEMMA CloseFormStep ==
  ASSUME DraftAssumption, DraftInv, NEW t \in Tabs, CloseForm(t)
  PROVE  DraftInv'
<1>1. PICK f : f = NoForm OBVIOUS
<1>2. /\ job[t] = NoForm /\ form' = [form EXCEPT ![t] = f]
      /\ UNCHANGED <<token, tokens, drafts, storage, stored, job, made, failures, shared>>
  BY <1>1 DEF CloseForm
<1>3. /\ form'[t] = NoForm /\ \A s \in Tabs \ {t} : form'[s] = form[s]
      /\ form' \in [Tabs -> Form \cup {NoForm}]
  BY <1>1, <1>2, OneTab DEF DraftInv, DraftTypeOK
<1>4. DraftTypeOK' BY <1>2, <1>3 DEF DraftInv, DraftTypeOK
<1>5. OwnTokens' BY <1>2, <1>3 DEF DraftInv, OwnTokens, Open
<1>6. JobsFit' BY <1>2, <1>3 DEF DraftInv, JobsFit, Open
<1>7. FilesApart' /\ FilesOwned' /\ AttachmentsKeepFiles' /\ ReferencesRewritten'
  BY <1>2, FilesStay
<1> QED BY <1>2, <1>4, <1>5, <1>6, <1>7 DEF DraftInv

\* A file is uploaded: it is the draft's alone.
LEMMA UploadStep ==
  ASSUME DraftAssumption, DraftInv, NEW t \in Tabs, Upload(t)
  PROVE  DraftInv'
<1>1. PICK n : n = Len(drafts) + 1 OBVIOUS
<1>2. PICK k : k = Token OBVIOUS
<1>3. PICK g : g = stored + 1 OBVIOUS
<1>4. PICK r : r = [token |-> k, file |-> g, live |-> TRUE] OBVIOUS
<1>5. PICK f : f = [form[t] EXCEPT !.text = @ \cup {n}] OBVIOUS
<1>6. /\ form[t] # NoForm /\ job[t] = NoForm /\ Len(drafts) < MaxDrafts /\ stored < MaxFiles
      /\ stored' = g /\ storage' = storage \cup {g} /\ drafts' = Append(drafts, r)
      /\ form' = [form EXCEPT ![t] = f]
      /\ UNCHANGED <<job, made, failures, shared>>
  BY <1>1, <1>2, <1>3, <1>4, <1>5 DEF Upload, Open, GiveToken
<1>7. k \in 1..MaxTokens /\ token' = k /\ token' \in 0..tokens' /\ tokens' \in 0..MaxTokens
      /\ (token # 0 => k = token)
  BY <1>2, TokenGiven DEF Upload, DraftInv
<1>8. stored \in 0..MaxFiles /\ g \in 1..MaxFiles /\ storage \subseteq 1..stored
  BY <1>3, <1>6, DraftAssumption DEF DraftInv, DraftTypeOK
<1>9. r \in Draft /\ r.token = k /\ r.file = g /\ r.live BY <1>4, <1>7, <1>8 DEF Draft
<1>10. drafts \in Seq(Draft) /\ Len(drafts) \in Nat BY DraftShapes DEF DraftInv
<1>11. /\ drafts' \in Seq(Draft) /\ Len(drafts') = n /\ DOMAIN drafts = 1..Len(drafts)
       /\ DOMAIN drafts' = 1..n /\ drafts'[n] = r /\ \A d \in DOMAIN drafts : drafts'[d] = drafts[d]
  BY <1>1, <1>6, <1>9, <1>10, Appended
<1>12. /\ DOMAIN drafts' = DOMAIN drafts \cup {n} /\ n \notin DOMAIN drafts /\ n \in 1..MaxDrafts
  BY <1>1, <1>6, <1>10, <1>11, DraftAssumption
<1>13. /\ f \in Form /\ f.token = form[t].token /\ f.text = form[t].text \cup {n} /\ f # NoForm
  <2>1. form[t] \in Form BY <1>6, DraftShapes DEF DraftInv
  <2>2. f \in Form /\ f.token = form[t].token /\ f.text = form[t].text \cup {n}
    BY <1>5, <1>12, <2>1 DEF Form
  <2> QED BY <2>2, DraftAssumption
<1>14. /\ form'[t] = f /\ \A s \in Tabs \ {t} : form'[s] = form[s]
       /\ form' \in [Tabs -> Form \cup {NoForm}]
  BY <1>6, <1>13, OneTab DEF DraftInv, DraftTypeOK
<1>15. DraftTypeOK'
  <2>1. 1..stored \subseteq 1..g /\ g \in 1..g /\ g \in 0..MaxFiles BY <1>3, <1>8
  <2>2. storage' \subseteq 1..stored' /\ stored' \in 0..MaxFiles BY <1>6, <1>8, <2>1
  <2> QED BY <1>6, <1>7, <1>11, <1>14, <2>2 DEF DraftInv, DraftTypeOK, Draft
<1>16. OwnTokens'
  <2>1. ASSUME NEW s \in Tabs, form[s] # NoForm, form[s].token \notin shared
        PROVE  /\ form[s].token = token /\ k = token
               /\ \A v \in Tabs : form[v] # NoForm /\ form[v].token = token => v = s
               /\ \A d \in form[s].text : d \in DOMAIN drafts /\ drafts[d].token = token /\ drafts[d].live
               /\ job[s] # NoForm => form[s].text \subseteq job[s].left \cup job[s].done
    <3>1. form[s].token \in 1..MaxTokens BY <2>1, DraftShapes DEF DraftInv
    <3> QED BY <1>7, <2>1, <3>1 DEF DraftInv, OwnTokens, Open
  <2>2. \A s \in Tabs : form'[s] # NoForm => form[s] # NoForm /\ form'[s].token = form[s].token
                                              /\ form'[s].text \subseteq form[s].text \cup {n}
                                              /\ (job[s] # NoForm => form'[s].text = form[s].text)
    BY <1>6, <1>13, <1>14
  <2> QED BY <1>6, <1>7, <1>9, <1>11, <1>12, <2>1, <2>2 DEF OwnTokens, Open
<1>17. JobsFit'
  BY <1>6, <1>11, <1>12, <1>14 DEF DraftInv, JobsFit, Open
<1>18. FilesApart'
  BY <1>3, <1>6, <1>8, <1>9, <1>11, <1>12 DEF DraftInv, FilesApart, AttachmentsKeepFiles
<1>19. FilesOwned'
  <2> SUFFICES ASSUME failures = 0, shared = {}, NEW x \in 1..g
               PROVE  x \in storage' <=>
                      \/ \E d \in DOMAIN drafts' : drafts'[d].file = x /\ drafts'[d].live
                            /\ \A s \in Tabs : job[s] # NoForm => d \notin job[s].done
                      \/ \E i \in DOMAIN made : x \in made[i].attachments
                      \/ \E s \in Tabs : job[s] # NoForm /\ x \in job[s].files
    BY <1>6 DEF FilesOwned, StillStaged
  <2>1. CASE x = g
    <3>1. \A s \in Tabs : job[s] # NoForm => n \notin job[s].done BY <1>12 DEF DraftInv, JobsFit
    <3> QED BY <1>6, <1>9, <1>11, <1>12, <2>1, <3>1
  <2>2. CASE x # g
    <3>1. x \in 1..stored BY <1>3, <1>8, <2>2
    <3> QED BY <1>6, <1>9, <1>11, <1>12, <2>2, <3>1 DEF DraftInv, FilesOwned, StillStaged
  <2> QED BY <2>1, <2>2
<1>20. AttachmentsKeepFiles' /\ ReferencesRewritten'
  BY <1>6 DEF DraftInv, AttachmentsKeepFiles, ReferencesRewritten
<1>21. Len(drafts') <= MaxDrafts BY <1>11, <1>12
<1> QED BY <1>15, <1>16, <1>17, <1>18, <1>19, <1>20, <1>21 DEF DraftInv

\* The issue is saved and the staged drafts are listed.
LEMMA SubmitStep ==
  ASSUME DraftAssumption, DraftInv, NEW t \in Tabs, Submit(t)
  PROVE  DraftInv'
<1>1. PICK L : L = Staged(form[t].token) OBVIOUS
<1>2. PICK q : q = [left |-> L, copied |-> FALSE, done |-> {}, files |-> {}] OBVIOUS
<1>3. /\ form[t] # NoForm /\ job[t] = NoForm /\ job' = [job EXCEPT ![t] = q]
      /\ UNCHANGED <<token, tokens, form, drafts, storage, stored, made, failures, shared>>
  BY <1>1, <1>2 DEF Submit, Open
<1>4. /\ L \subseteq DOMAIN drafts /\ L \subseteq 1..MaxDrafts
      /\ \A d \in DOMAIN drafts : d \in L <=> drafts[d].live /\ drafts[d].token = form[t].token
  <2>1. DOMAIN drafts \subseteq 1..MaxDrafts
    BY DraftShapes, DraftAssumption DEF DraftInv
  <2> QED BY <1>1, <2>1 DEF Staged
<1>5. q \in Job /\ q # NoForm /\ q.left = L /\ q.done = {} /\ q.files = {}
  <2>1. q \in Job /\ q.left = L /\ q.done = {} /\ q.files = {} BY <1>2, <1>4 DEF Job
  <2> QED BY <2>1, DraftAssumption
<1>6. /\ job'[t] = q /\ \A s \in Tabs \ {t} : job'[s] = job[s]
      /\ job' \in [Tabs -> Job \cup {NoForm}]
  BY <1>3, <1>5, OneTab DEF DraftInv, DraftTypeOK
<1>7. DraftTypeOK' BY <1>3, <1>6 DEF DraftInv, DraftTypeOK
<1>8. OwnTokens' BY <1>3, <1>4, <1>5, <1>6 DEF DraftInv, OwnTokens, Open
<1>9. JobsFit' BY <1>3, <1>4, <1>5, <1>6 DEF DraftInv, JobsFit, Open
<1>10. FilesApart' BY <1>3, <1>5, <1>6 DEF DraftInv, FilesApart
<1>11. FilesOwned'
  <2>1. \A d : (\A s \in Tabs : job'[s] # NoForm => d \notin job'[s].done)
               <=> (\A s \in Tabs : job[s] # NoForm => d \notin job[s].done)
    BY <1>3, <1>5, <1>6
  <2>2. \A x : (\E s \in Tabs : job'[s] # NoForm /\ x \in job'[s].files)
               <=> (\E s \in Tabs : job[s] # NoForm /\ x \in job[s].files)
    BY <1>3, <1>5, <1>6
  <2> QED BY <1>3, <2>1, <2>2 DEF DraftInv, FilesOwned, StillStaged
<1>12. AttachmentsKeepFiles' /\ ReferencesRewritten'
  BY <1>3 DEF DraftInv, AttachmentsKeepFiles, ReferencesRewritten
<1> QED BY <1>3, <1>7, <1>8, <1>9, <1>10, <1>11, <1>12 DEF DraftInv

\* A staged file is copied.
LEMMA CopyStagedStep ==
  ASSUME DraftAssumption, DraftInv, NEW t \in Tabs, NEW d \in DOMAIN drafts, CopyStaged(t, d)
  PROVE  DraftInv'
<1>1. PICK g : g = stored + 1 OBVIOUS
<1>2. PICK q : q = [job[t] EXCEPT !.copied = TRUE, !.files = @ \cup {g}] OBVIOUS
<1>3. /\ job[t] # NoForm /\ job' = [job EXCEPT ![t] = q]
      /\ stored < MaxFiles /\ stored' = g /\ storage' = storage \cup {g}
      /\ UNCHANGED <<token, tokens, form, drafts, made, failures, shared>>
  BY <1>1, <1>2 DEF CopyStaged, Works
<1>4. stored \in 0..MaxFiles /\ g \in 1..MaxFiles /\ storage \subseteq 1..stored /\ g \notin 1..stored
  BY <1>1, <1>3, DraftAssumption DEF DraftInv, DraftTypeOK
<1>5. /\ q \in Job /\ q # NoForm /\ q.left = job[t].left /\ q.done = job[t].done
      /\ q.files = job[t].files \cup {g}
  <2>1. job[t] \in Job BY <1>3, DraftShapes DEF DraftInv
  <2>2. q \in Job /\ q.left = job[t].left /\ q.done = job[t].done /\ q.files = job[t].files \cup {g}
    BY <1>2, <1>4, <2>1 DEF Job
  <2> QED BY <2>2, DraftAssumption
<1>6. /\ job'[t] = q /\ \A s \in Tabs \ {t} : job'[s] = job[s]
      /\ job' \in [Tabs -> Job \cup {NoForm}]
  BY <1>3, <1>5, OneTab DEF DraftInv, DraftTypeOK
<1>7. DraftTypeOK'
  <2>1. 1..stored \subseteq 1..g /\ g \in 1..g /\ g \in 0..MaxFiles BY <1>1, <1>4
  <2>2. storage' \subseteq 1..stored' /\ stored' \in 0..MaxFiles BY <1>3, <1>4, <2>1
  <2> QED BY <1>3, <1>6, <2>2 DEF DraftInv, DraftTypeOK
<1>8. OwnTokens' BY <1>3, <1>5, <1>6 DEF DraftInv, OwnTokens, Open
<1>9. JobsFit' BY <1>3, <1>5, <1>6 DEF DraftInv, JobsFit, Open
<1>10. FilesApart'
  <2>1. \A e \in DOMAIN drafts : drafts[e].file # g BY <1>4 DEF DraftInv, FilesApart
  <2>2. \A e \in DOMAIN drafts : drafts[e].file \in 1..stored' BY <1>1, <1>3, <1>4 DEF DraftInv, FilesApart
  <2> QED BY <1>3, <1>5, <1>6, <2>1, <2>2 DEF DraftInv, FilesApart
<1>11. FilesOwned'
  <2> SUFFICES ASSUME failures = 0, shared = {}, NEW x \in 1..g
               PROVE  x \in storage' <=>
                      \/ \E e \in DOMAIN drafts : drafts[e].file = x /\ drafts[e].live
                            /\ \A s \in Tabs : job'[s] # NoForm => e \notin job'[s].done
                      \/ \E i \in DOMAIN made : x \in made[i].attachments
                      \/ \E s \in Tabs : job'[s] # NoForm /\ x \in job'[s].files
    BY <1>3 DEF FilesOwned, StillStaged
  <2>1. CASE x = g BY <1>3, <1>5, <1>6, <2>1
  <2>2. CASE x # g
    <3>1. x \in 1..stored BY <1>1, <1>4, <2>2
    <3>2. \A e : (\A s \in Tabs : job'[s] # NoForm => e \notin job'[s].done)
                 <=> (\A s \in Tabs : job[s] # NoForm => e \notin job[s].done)
      BY <1>3, <1>5, <1>6
    <3>3. (\E s \in Tabs : job'[s] # NoForm /\ x \in job'[s].files)
          <=> (\E s \in Tabs : job[s] # NoForm /\ x \in job[s].files)
      BY <1>3, <1>5, <1>6, <2>2
    <3> QED BY <1>3, <2>2, <3>1, <3>2, <3>3 DEF DraftInv, FilesOwned, StillStaged
  <2> QED BY <2>1, <2>2
<1>12. AttachmentsKeepFiles' /\ ReferencesRewritten'
  BY <1>3 DEF DraftInv, AttachmentsKeepFiles, ReferencesRewritten
<1> QED BY <1>3, <1>7, <1>8, <1>9, <1>10, <1>11, <1>12 DEF DraftInv

\* The draft's file goes: it was of no attachment.
LEMMA DropStagedStep ==
  ASSUME DraftAssumption, DraftInv, NEW t \in Tabs, NEW d \in DOMAIN drafts, DropStaged(t, d)
  PROVE  DraftInv'
<1>1. PICK g : g = drafts[d].file OBVIOUS
<1>2. PICK q : q = [job[t] EXCEPT !.copied = FALSE, !.left = @ \ {d}, !.done = @ \cup {d}] OBVIOUS
<1>3. /\ job[t] # NoForm /\ d \in job[t].left /\ job' = [job EXCEPT ![t] = q]
      /\ storage' = storage \ {g}
      /\ UNCHANGED <<token, tokens, form, drafts, stored, made, failures, shared>>
  BY <1>1, <1>2 DEF DropStaged, Works, StagedFile
<1>4. /\ q \in Job /\ q # NoForm /\ q.left = job[t].left \ {d} /\ q.done = job[t].done \cup {d}
      /\ q.files = job[t].files
  <2>1. job[t] \in Job /\ job[t].left \subseteq 1..MaxDrafts BY <1>3, DraftShapes DEF DraftInv
  <2>2. q \in Job /\ q.left = job[t].left \ {d} /\ q.done = job[t].done \cup {d} /\ q.files = job[t].files
    BY <1>2, <1>3, <2>1 DEF Job
  <2> QED BY <2>2, DraftAssumption
<1>5. /\ job'[t] = q /\ \A s \in Tabs \ {t} : job'[s] = job[s]
      /\ job' \in [Tabs -> Job \cup {NoForm}]
  BY <1>3, <1>4, OneTab DEF DraftInv, DraftTypeOK
<1>6. /\ g \in 1..stored
      /\ \A e \in DOMAIN drafts : drafts[e].file = g => e = d
      /\ \A s \in Tabs : job[s] # NoForm => g \notin job[s].files
      /\ \A i \in DOMAIN made : g \notin made[i].attachments
  BY <1>1 DEF DraftInv, FilesApart
<1>7. DraftTypeOK' BY <1>3, <1>5 DEF DraftInv, DraftTypeOK
<1>8. OwnTokens' BY <1>3, <1>4, <1>5 DEF DraftInv, OwnTokens, Open
<1>9. JobsFit' BY <1>3, <1>4, <1>5 DEF DraftInv, JobsFit, Open
<1>10. FilesApart' BY <1>3, <1>4, <1>5, <1>6 DEF DraftInv, FilesApart
<1>11. FilesOwned'
  <2> SUFFICES ASSUME failures = 0, shared = {}, NEW x \in 1..stored
               PROVE  x \in storage' <=>
                      \/ \E e \in DOMAIN drafts : drafts[e].file = x /\ drafts[e].live
                            /\ \A s \in Tabs : job'[s] # NoForm => e \notin job'[s].done
                      \/ \E i \in DOMAIN made : x \in made[i].attachments
                      \/ \E s \in Tabs : job'[s] # NoForm /\ x \in job'[s].files
    BY <1>3 DEF FilesOwned, StillStaged
  <2>1. (\E s \in Tabs : job'[s] # NoForm /\ x \in job'[s].files)
        <=> (\E s \in Tabs : job[s] # NoForm /\ x \in job[s].files)
    BY <1>3, <1>4, <1>5
  <2>2. CASE x = g BY <1>3, <1>4, <1>5, <1>6, <2>1, <2>2
  <2>3. CASE x # g
    <3>1. \A e \in DOMAIN drafts : e # d =>
            ((\A s \in Tabs : job'[s] # NoForm => e \notin job'[s].done)
             <=> (\A s \in Tabs : job[s] # NoForm => e \notin job[s].done))
      BY <1>3, <1>4, <1>5
    <3> QED BY <1>1, <1>3, <2>1, <2>3, <3>1 DEF DraftInv, FilesOwned, StillStaged
  <2> QED BY <2>2, <2>3
<1>12. AttachmentsKeepFiles' /\ ReferencesRewritten'
  BY <1>3, <1>6 DEF DraftInv, AttachmentsKeepFiles, ReferencesRewritten
<1> QED BY <1>3, <1>7, <1>8, <1>9, <1>10, <1>11, <1>12 DEF DraftInv

\* Drafts that are not live any more keep their files.
LEMMA DraftsEnd ==
  ASSUME DraftAssumption, DraftTypeOK, NEW D,
         drafts' = [d \in DOMAIN drafts |-> IF d \in D THEN [drafts[d] EXCEPT !.live = FALSE] ELSE drafts[d]]
  PROVE  /\ drafts' \in Seq(Draft) /\ Len(drafts') = Len(drafts) /\ DOMAIN drafts' = DOMAIN drafts
         /\ \A d \in DOMAIN drafts : /\ drafts'[d].file = drafts[d].file
                                     /\ drafts'[d].live <=> drafts[d].live /\ d \notin D
<1>1. ASSUME NEW d \in DOMAIN drafts
      PROVE  /\ drafts[d] \in Draft /\ [drafts[d] EXCEPT !.live = FALSE] \in Draft
             /\ [drafts[d] EXCEPT !.live = FALSE].file = drafts[d].file
             /\ ~[drafts[d] EXCEPT !.live = FALSE].live
  <2>1. drafts[d] \in Draft BY DraftShapes
  <2> QED BY <2>1 DEF Draft
<1>2. PICK t : t = [d \in DOMAIN drafts |-> IF d \in D THEN [drafts[d] EXCEPT !.live = FALSE] ELSE drafts[d]]
  OBVIOUS
<1>3. /\ DOMAIN t = DOMAIN drafts /\ t \in [DOMAIN drafts -> Draft]
      /\ \A d \in DOMAIN drafts : t[d] = IF d \in D THEN [drafts[d] EXCEPT !.live = FALSE] ELSE drafts[d]
  BY <1>1, <1>2
<1>4. t \in Seq(Draft) /\ Len(t) = Len(drafts) BY <1>3, DraftShapes
<1> QED BY <1>1, <1>2, <1>3, <1>4

\* The issue is there: its references are rewritten if its form was alone.
LEMMA CommitIssueStep ==
  ASSUME DraftAssumption, DraftInv, NEW t \in Tabs, CommitIssue(t)
  PROVE  DraftInv'
<1>1. PICK m : m = [text |-> form[t].text \ job[t].done, attachments |-> job[t].files,
                    token |-> form[t].token]
  OBVIOUS
<1>2. PICK D : D = job[t].done OBVIOUS
<1>3. PICK q : q = NoForm OBVIOUS
<1>4. PICK Z : Z = {form[s].token : s \in {r \in Tabs \ {t} : Open(r)}} OBVIOUS
<1>5. /\ job[t] # NoForm /\ job[t].left = {} /\ made' = Append(made, m)
      /\ drafts' = [d \in DOMAIN drafts |-> IF d \in D THEN [drafts[d] EXCEPT !.live = FALSE] ELSE drafts[d]]
      /\ form' = [form EXCEPT ![t] = q] /\ job' = [job EXCEPT ![t] = q]
      /\ token' = 0 /\ shared' = shared \cup Z
      /\ UNCHANGED <<tokens, storage, stored, failures>>
  BY <1>1, <1>2, <1>3, <1>4 DEF CommitIssue
<1>6. /\ form[t] # NoForm /\ form[t].token \in 1..MaxTokens /\ form[t].text \subseteq 1..MaxDrafts
      /\ job[t].files \subseteq 1..MaxFiles
  BY <1>5, DraftShapes DEF DraftInv, JobsFit, Open
<1>7. /\ m \in Made /\ m.text = form[t].text \ D /\ m.attachments = job[t].files
      /\ m.token = form[t].token
  BY <1>1, <1>2, <1>6 DEF Made
<1>8. made \in Seq(Made) /\ Len(made) \in Nat BY DraftShapes DEF DraftInv
<1>9. PICK n : n = Len(made) + 1 OBVIOUS
<1>10. /\ made' \in Seq(Made) /\ DOMAIN made = 1..Len(made) /\ DOMAIN made' = DOMAIN made \cup {n}
       /\ made'[n] = m /\ \A i \in DOMAIN made : made'[i] = made[i]
  <2>1. /\ made' \in Seq(Made) /\ Len(made') = n /\ DOMAIN made = 1..Len(made)
        /\ DOMAIN made' = 1..n /\ made'[n] = m /\ \A i \in DOMAIN made : made'[i] = made[i]
    BY <1>5, <1>7, <1>8, <1>9, Appended
  <2> QED BY <1>8, <1>9, <2>1
<1>11. /\ drafts' \in Seq(Draft) /\ Len(drafts') = Len(drafts) /\ DOMAIN drafts' = DOMAIN drafts
       /\ \A d \in DOMAIN drafts : /\ drafts'[d].file = drafts[d].file
                                   /\ drafts'[d].live <=> drafts[d].live /\ d \notin D
  BY <1>5, DraftsEnd DEF DraftInv
<1>12. /\ form'[t] = NoForm /\ \A s \in Tabs \ {t} : form'[s] = form[s]
       /\ form' \in [Tabs -> Form \cup {NoForm}]
  BY <1>3, <1>5, OneTab DEF DraftInv, DraftTypeOK
<1>13. /\ job'[t] = NoForm /\ \A s \in Tabs \ {t} : job'[s] = job[s]
       /\ job' \in [Tabs -> Job \cup {NoForm}]
  BY <1>3, <1>5, OneTab DEF DraftInv, DraftTypeOK
<1>14. \A s \in Tabs \ {t} : form[s] # NoForm => form[s].token \in shared'
  BY <1>4, <1>5 DEF Open
<1>15. Z \subseteq 1..MaxTokens BY <1>4, DraftShapes DEF DraftInv, Open
<1>16. DraftTypeOK'
  <2>1. token' \in 0..tokens' BY <1>5 DEF DraftInv, DraftTypeOK
  <2> QED BY <1>5, <1>10, <1>11, <1>12, <1>13, <1>15, <2>1 DEF DraftInv, DraftTypeOK, Draft, Made
<1>17. OwnTokens' BY <1>12, <1>14 DEF OwnTokens, Open
<1>18. JobsFit'
  BY <1>11, <1>12, <1>13, <1>14 DEF DraftInv, JobsFit, Open
<1>19. FilesApart'
  BY <1>5, <1>7, <1>10, <1>11, <1>13 DEF DraftInv, FilesApart
<1>20. FilesOwned'
  <2> SUFFICES ASSUME failures = 0, shared' = {}, NEW x \in 1..stored
               PROVE  x \in storage <=>
                      \/ \E d \in DOMAIN drafts : drafts'[d].file = x /\ drafts'[d].live
                            /\ \A s \in Tabs : job'[s] # NoForm => d \notin job'[s].done
                      \/ \E i \in DOMAIN made' : x \in made'[i].attachments
                      \/ \E s \in Tabs : job'[s] # NoForm /\ x \in job'[s].files
    BY <1>5, <1>11 DEF FilesOwned, StillStaged
  <2>1. \A s \in Tabs \ {t} : job[s] = NoForm /\ job'[s] = NoForm
    BY <1>13, <1>14 DEF DraftInv, JobsFit, Open
  <2>2. \A d : (\A s \in Tabs : job[s] # NoForm => d \notin job[s].done) <=> d \notin D
    BY <1>2, <1>5, <2>1
  <2>3. (\E s \in Tabs : job[s] # NoForm /\ x \in job[s].files) <=> x \in job[t].files
    BY <1>5, <2>1
  <2>4. (\E i \in DOMAIN made' : x \in made'[i].attachments)
        <=> (\E i \in DOMAIN made : x \in made[i].attachments) \/ x \in job[t].files
    BY <1>7, <1>10
  <2>5. \A d \in DOMAIN drafts : (drafts'[d].file = x /\ drafts'[d].live)
                                 <=> (drafts[d].file = x /\ drafts[d].live /\ d \notin D)
    BY <1>11
  <2>6. shared = {} BY <1>5
  <2>7. \A s \in Tabs : job'[s] = NoForm BY <1>13, <2>1
  <2> HIDE <1>5, <1>11
  <2>8. x \in storage <=>
                      \/ \E d \in DOMAIN drafts : drafts[d].file = x /\ drafts[d].live /\ d \notin D
                      \/ \E i \in DOMAIN made : x \in made[i].attachments
                      \/ x \in job[t].files
    BY <2>2, <2>3, <2>6 DEF DraftInv, FilesOwned, StillStaged
  <2> QED BY <2>4, <2>5, <2>7, <2>8
<1>21. AttachmentsKeepFiles'
  BY <1>5, <1>7, <1>10 DEF DraftInv, AttachmentsKeepFiles, FilesApart
<1>22. ReferencesRewritten'
  <2>1. form[t].token \notin shared => form[t].text \subseteq D
    BY <1>2, <1>5, <1>6 DEF DraftInv, OwnTokens, Open
  <2> QED BY <1>5, <1>7, <1>10, <2>1 DEF DraftInv, ReferencesRewritten
<1> QED BY <1>11, <1>16, <1>17, <1>18, <1>19, <1>20, <1>21, <1>22 DEF DraftInv

\* A creation is rolled back: the rows are as they were, and a file that it
\* has taken or left behind needs a failure, or a form that was not alone.
LEMMA RollBackStep ==
  ASSUME DraftAssumption, DraftInv, NEW t \in Tabs,
         FailCreation(t) \/ \E d \in DOMAIN drafts : MissStaged(t, d)
  PROVE  DraftInv'
<1>1. PICK q : q = NoForm OBVIOUS
<1>2. /\ job' = [job EXCEPT ![t] = q]
      /\ UNCHANGED <<token, tokens, form, drafts, storage, stored, made, shared>>
  BY <1>1 DEF FailCreation, MissStaged, RollBackJob
<1>3. /\ job'[t] = NoForm /\ \A s \in Tabs \ {t} : job'[s] = job[s]
      /\ job' \in [Tabs -> Job \cup {NoForm}]
  BY <1>1, <1>2, OneTab DEF DraftInv, DraftTypeOK
<1>4. failures' \in 0..MaxFailures
  BY DraftAssumption DEF FailCreation, MissStaged, DraftInv, DraftTypeOK
<1>5. failures' # 0 \/ shared # {}
  <2>1. CASE FailCreation(t) BY <2>1 DEF FailCreation, DraftInv, DraftTypeOK
  <2>2. ASSUME NEW d \in DOMAIN drafts, MissStaged(t, d), failures = 0, shared = {} PROVE FALSE
    <3>1. /\ job[t] # NoForm /\ d \in job[t].left /\ drafts[d].file \notin storage
      BY <2>2 DEF MissStaged, Works, StagedFile
    <3>2. drafts[d].live /\ d \notin job[t].done
      BY <2>2, <3>1 DEF DraftInv, JobsFit
    <3>3. \A s \in Tabs : job[s] # NoForm => s = t
      BY <2>2, <3>1 DEF DraftInv, JobsFit, OwnTokens, Open
    <3>4. drafts[d].file \in 1..stored BY DEF DraftInv, FilesApart
    <3> QED BY <2>2, <3>1, <3>2, <3>3, <3>4 DEF DraftInv, FilesOwned, StillStaged
  <2> QED BY <2>1, <2>2 DEF MissStaged
<1>6. DraftTypeOK' BY <1>2, <1>3, <1>4 DEF DraftInv, DraftTypeOK
<1>7. OwnTokens' BY <1>2, <1>3 DEF DraftInv, OwnTokens, Open
<1>8. JobsFit' BY <1>2, <1>3 DEF DraftInv, JobsFit, Open
<1>9. FilesApart' BY <1>2, <1>3 DEF DraftInv, FilesApart
<1>10. FilesOwned' BY <1>2, <1>5 DEF FilesOwned
<1>11. AttachmentsKeepFiles' /\ ReferencesRewritten'
  BY <1>2 DEF DraftInv, AttachmentsKeepFiles, ReferencesRewritten
<1> QED BY <1>2, <1>6, <1>7, <1>8, <1>9, <1>10, <1>11 DEF DraftInv

\* There is no form yet.
LEMMA DraftInvInit ==
  ASSUME DraftAssumption, DraftInit
  PROVE  DraftInv
<1>1. /\ drafts = << >> /\ made = << >> /\ Len(drafts) = 0 /\ DOMAIN drafts = {} /\ DOMAIN made = {}
      /\ drafts \in Seq(Draft) /\ made \in Seq(Made)
      /\ \A t \in Tabs : form[t] = NoForm /\ job[t] = NoForm
  BY DEF DraftInit
<1>2. DraftTypeOK
  <2>1. 0 \in 0..MaxTokens /\ 0 \in 0..MaxFiles /\ 0 \in 0..MaxFailures BY DraftAssumption
  <2>2. form \in [Tabs -> Form \cup {NoForm}] /\ job \in [Tabs -> Job \cup {NoForm}] BY DEF DraftInit
  <2>3. token = 0 /\ tokens = 0 /\ storage = {} /\ stored = 0 /\ failures = 0 /\ shared = {}
    BY DEF DraftInit
  <2> QED BY <1>1, <2>1, <2>2, <2>3 DEF DraftTypeOK, Draft, Made
<1>3. OwnTokens /\ JobsFit BY <1>1 DEF OwnTokens, JobsFit, Open
<1>4. FilesApart BY <1>1 DEF FilesApart
<1>5. FilesOwned BY DEF DraftInit, FilesOwned
<1>6. AttachmentsKeepFiles /\ ReferencesRewritten
  BY <1>1 DEF AttachmentsKeepFiles, ReferencesRewritten
<1> QED BY <1>1, <1>2, <1>3, <1>4, <1>5, <1>6, DraftAssumption DEF DraftInv

\* Every step keeps the invariant.
LEMMA DraftInvNext ==
  ASSUME DraftAssumption, DraftInv, [DraftNext]_draftVars
  PROVE  DraftInv'
<1>1. CASE UNCHANGED draftVars
  BY <1>1 DEF draftVars, DraftInv, DraftTypeOK, OwnTokens, JobsFit, FilesApart, FilesOwned, StillStaged,
     AttachmentsKeepFiles, ReferencesRewritten, Open
<1> QED
  BY <1>1, OpenFormStep, UploadStep, CloseFormStep, SubmitStep, CopyStagedStep, DropStagedStep,
     CommitIssueStep, RollBackStep
  DEF DraftNext

\* The invariant says what IssuesInheritDrafts says.
LEMMA DraftInvInherits == ASSUME DraftInv PROVE IssuesInheritDrafts
<1>1. NoFilesLeftBehind
  <2> SUFFICES ASSUME \A t \in Tabs : job[t] = NoForm, failures = 0, shared = {}
               PROVE  storage = {drafts[d].file : d \in {e \in DOMAIN drafts : drafts[e].live}}
                                \cup UNION {made[i].attachments : i \in DOMAIN made}
    BY DEF NoFilesLeftBehind
  <2>1. \A f \in 1..stored : f \in storage <=>
          \/ \E d \in DOMAIN drafts : drafts[d].file = f /\ drafts[d].live
          \/ \E i \in DOMAIN made : f \in made[i].attachments
    BY DEF DraftInv, FilesOwned, StillStaged
  <2>2. /\ storage \subseteq 1..stored
        /\ \A d \in DOMAIN drafts : drafts[d].file \in 1..stored
        /\ \A i \in DOMAIN made : made[i].attachments \subseteq storage
    BY DEF DraftInv, DraftTypeOK, FilesApart, AttachmentsKeepFiles
  <2> QED BY <2>1, <2>2
<1> QED BY <1>1 DEF IssuesInheritDrafts, DraftInv

\* For any number of tabs, drafts and files: attachments keep their files,
\* references of a form that was alone are rewritten, and no file stays behind
\* unless a creation fails or forms share a token.
THEOREM DraftsInherited ==
  ASSUME DraftAssumption
  PROVE  DraftSpec => []IssuesInheritDrafts
<1>1. DraftInit => DraftInv BY DraftInvInit
<1>2. DraftInv /\ [DraftNext]_draftVars => DraftInv' BY DraftInvNext
<1>3. DraftInv => IssuesInheritDrafts BY DraftInvInherits
<1> QED BY <1>1, <1>2, <1>3, PTL DEF DraftSpec

-----------------------------------------------------------------------------
(* Blocks and references of a text.                                        *)

\* The fields of a rendering, whatever the bounds.
TextBlock == [kind : Kinds, lines : Seq(Nat)]
Shaped == [lines : Seq(Line), owner : Owners \cup {Absent}, page : BOOLEAN, next : Nat \ {0},
           step : {"block", "token", "user", "look", "resolve", "failed"},
           looked : Owners \cup {Absent}, blocks : Seq(TextBlock),
           shown : Seq([outcome : Outcomes, crossed : BOOLEAN]), crossed : BOOLEAN]

\* What Together says of the lines of a text.
Run(lines, i, j) ==
  \A k \in i..j : lines[k].kind = lines[i].kind /\ lines[k].kind \in {"item", "text"}

HeldBy(block) == {block.lines[i] : i \in DOMAIN block.lines}
LastOf(block) == block.lines[Len(block.lines)]

\* A block is a run of lines up to k, or a single heading.
BlockFits(lines, block, k) ==
  /\ block.lines # <<>> /\ block.kind # "blank"
  /\ \A i \in HeldBy(block) : /\ i \in 1..k /\ lines[i].kind = block.kind
                              /\ i <= LastOf(block)
  /\ \A i, j \in HeldBy(block) : i < j => Run(lines, i, j)

\* One block comes before another, and the two belong apart.
Apart(lines, upper, lower) ==
  \A i \in HeldBy(upper), j \in HeldBy(lower) : i < j /\ ~Run(lines, i, j)

\* The first k lines of a text are cut into these blocks.
Cut(lines, blocks, k) ==
  /\ \A b \in DOMAIN blocks : BlockFits(lines, blocks[b], k)
  /\ \A b, c \in DOMAIN blocks : b < c => Apart(lines, blocks[b], blocks[c])
  /\ \A n \in 1..k : lines[n].kind # "blank" => \E b \in DOMAIN blocks : n \in HeldBy(blocks[b])

\* What a sequence is after an element was appended, or replaced.
LEMMA AppendedShape ==
  ASSUME NEW S, NEW s \in Seq(S), NEW e \in S, NEW a, a = Append(s, e)
  PROVE  /\ a \in Seq(S) /\ a # <<>> /\ Len(a) = Len(s) + 1
         /\ DOMAIN a = 1..(Len(s) + 1) /\ a[Len(s) + 1] = e
         /\ \A i \in 1..Len(s) : a[i] = s[i]
<1>1. a \in Seq(S) /\ Len(a) = Len(s) + 1 /\ Len(s) \in Nat
  OBVIOUS
<1>2. a # <<>>
  BY <1>1
<1> QED BY <1>1, <1>2

LEMMA ReplacedShape ==
  ASSUME NEW S, NEW s \in Seq(S), NEW n \in 1..Len(s), NEW e \in S, NEW a, a = [s EXCEPT ![n] = e]
  PROVE  /\ a \in Seq(S) /\ Len(a) = Len(s) /\ DOMAIN a = 1..Len(s) /\ a[n] = e
         /\ \A i \in 1..Len(s) : i # n => a[i] = s[i]
OBVIOUS

\* A block that fits k lines fits one more.
LEMMA FitsFurther ==
  ASSUME NEW lines, NEW block, NEW k \in Nat, BlockFits(lines, block, k)
  PROVE  BlockFits(lines, block, k + 1)
BY DEF BlockFits

\* A blank line leaves the blocks alone.
LEMMA BlankCuts ==
  ASSUME NEW lines, NEW blocks \in Seq(TextBlock), NEW k \in Nat, Cut(lines, blocks, k),
         lines[k + 1].kind = "blank"
  PROVE  Cut(lines, blocks, k + 1)
<1>1. \A b \in DOMAIN blocks : BlockFits(lines, blocks[b], k + 1)
  BY FitsFurther DEF Cut
<1>2. \A n \in 1..(k + 1) : n = k + 1 \/ n \in 1..k
  OBVIOUS
<1> QED BY <1>1, <1>2 DEF Cut

\* A block with one more line.
Longer(block, n) == [block EXCEPT !.lines = Append(@, n)]

LEMMA LongerShape ==
  ASSUME NEW block \in TextBlock, NEW n \in Nat
  PROVE  /\ Longer(block, n) \in TextBlock /\ Longer(block, n).kind = block.kind
         /\ Longer(block, n).lines = Append(block.lines, n)
<1> PICK added : added = Append(block.lines, n)
  OBVIOUS
<1>1. block.lines \in Seq(Nat) /\ block.kind \in Kinds
  BY DEF TextBlock
<1>2. added \in Seq(Nat)
  BY <1>1
<1>3. Longer(block, n) = [block EXCEPT !.lines = added]
  BY DEF Longer
<1> QED BY <1>1, <1>2, <1>3 DEF TextBlock

\* The next line belongs to the block, and longer is the block with it.
Continues(lines, block, k, longer) ==
  /\ BlockFits(lines, block, k) /\ LastOf(block) = k /\ lines[k + 1].kind = block.kind
  /\ block.kind \in {"item", "text"}
  /\ longer.kind = block.kind /\ longer.lines = Append(block.lines, k + 1)

\* A block that goes on holds the new line besides.
LEMMA BlockGoesOn ==
  ASSUME NEW lines, NEW block \in TextBlock, NEW k \in Nat, NEW longer \in TextBlock,
         Continues(lines, block, k, longer)
  PROVE  HeldBy(longer) = HeldBy(block) \cup {k + 1} /\ BlockFits(lines, longer, k + 1)
<1> USE DEF Continues
<1>1. /\ longer.lines = Append(block.lines, k + 1) /\ longer.kind = block.kind
      /\ block.lines \in Seq(Nat)
  BY DEF TextBlock
<1>2. /\ Len(longer.lines) = Len(block.lines) + 1
      /\ \A i \in 1..Len(block.lines) : longer.lines[i] = block.lines[i]
      /\ longer.lines[Len(block.lines) + 1] = k + 1
      /\ DOMAIN longer.lines = 1..(Len(block.lines) + 1)
      /\ DOMAIN block.lines = 1..Len(block.lines) /\ Len(block.lines) \in Nat
  BY <1>1
<1>3. HeldBy(longer) = HeldBy(block) \cup {k + 1}
  BY <1>2 DEF HeldBy
<1>4. LastOf(longer) = k + 1 /\ longer.lines # <<>>
  <2> k + 1 \in Nat
    OBVIOUS
  <2>1. longer.lines[Len(longer.lines)] = k + 1
    BY <1>2
  <2>2. longer.lines # <<>>
    BY <1>1, AppendedShape
  <2> QED BY <2>1, <2>2 DEF LastOf
<1>5. k \in HeldBy(block)
  BY <1>2 DEF LastOf, HeldBy, BlockFits
<1>6. ASSUME NEW i \in HeldBy(longer)
      PROVE  i \in 1..(k + 1) /\ lines[i].kind = longer.kind /\ i <= LastOf(longer)
  <2>1. CASE i = k + 1
    BY <1>1, <1>4, <2>1
  <2>2. CASE i \in HeldBy(block)
    BY <1>1, <1>4, <2>2 DEF BlockFits
  <2> QED BY <1>3, <2>1, <2>2
<1>7. ASSUME NEW i \in HeldBy(longer), NEW j \in HeldBy(longer), i < j
      PROVE  Run(lines, i, j)
  <2>1. i \in HeldBy(block) /\ i \in 1..k
    <3>1. i # k + 1
      BY <1>4, <1>6, <1>7
    <3> QED BY <1>3, <3>1 DEF BlockFits
  <2>2. CASE j \in HeldBy(block)
    BY <1>7, <2>1, <2>2 DEF BlockFits
  <2>3. CASE j = k + 1
    <3>1. \A n \in i..k : lines[n].kind = lines[i].kind
      <4>1. CASE i = k
        BY <2>1, <4>1
      <4>2. CASE i < k
        BY <1>5, <2>1, <4>2 DEF BlockFits, Run
      <4> QED BY <2>1, <4>1, <4>2
    <3>2. lines[i].kind = block.kind /\ lines[k + 1].kind = block.kind
      BY <2>1 DEF BlockFits
    <3> QED BY <2>1, <2>3, <3>1, <3>2 DEF Run
  <2> QED BY <1>3, <2>2, <2>3
<1>8. BlockFits(lines, longer, k + 1)
  BY <1>1, <1>4, <1>6, <1>7 DEF BlockFits
<1> QED BY <1>3, <1>8

\* A line that is not blank goes on with the last block or begins one, and
\* what is cut stays cut.
LEMMA LineCuts ==
  ASSUME NEW lines \in Seq(Line), NEW blocks \in Seq(TextBlock), NEW k \in Nat, Cut(lines, blocks, k),
         k + 1 \in DOMAIN lines, lines[k + 1].kind # "blank",
         NEW more, more = InBlock(blocks, lines[k + 1], k + 1)
  PROVE  more \in Seq(TextBlock) /\ Cut(lines, more, k + 1)
<1> DEFINE L == Len(blocks)
           goesOn == /\ lines[k + 1].kind \in {"item", "text"} /\ blocks # <<>>
                     /\ blocks[L].kind = lines[k + 1].kind /\ LastOf(blocks[L]) = k
<1>0. /\ L \in Nat /\ DOMAIN blocks = 1..L /\ lines[k + 1] \in Line
      /\ (blocks # <<>> => L >= 1 /\ L \in DOMAIN blocks)
      /\ \A b \in DOMAIN blocks : blocks[b] \in TextBlock
      /\ (blocks = <<>> => L = 0)
  OBVIOUS
<1>k. lines[k + 1].kind \in Kinds
  BY <1>0 DEF Line
<1>1. CASE goesOn
  <2> PICK block : block = blocks[L]
    OBVIOUS
  <2> PICK longer : longer = Longer(block, k + 1)
    OBVIOUS
  <2>1. more = [blocks EXCEPT ![L] = longer]
    BY <1>1 DEF InBlock, LastOf, Longer
  <2>2. /\ longer \in TextBlock /\ HeldBy(longer) = HeldBy(blocks[L]) \cup {k + 1}
        /\ BlockFits(lines, longer, k + 1)
    <3>0. k + 1 \in Nat
      OBVIOUS
    <3>1. block \in TextBlock /\ BlockFits(lines, block, k)
      BY <1>0, <1>1 DEF Cut
    <3>2. longer \in TextBlock /\ longer.kind = block.kind /\ longer.lines = Append(block.lines, k + 1)
      BY <3>0, <3>1, LongerShape, Zenon
    <3>3. Continues(lines, block, k, longer)
      BY <1>1, <3>1, <3>2 DEF Continues
    <3>4. HeldBy(longer) = HeldBy(block) \cup {k + 1} /\ BlockFits(lines, longer, k + 1)
      <4>1. k \in Nat /\ block \in TextBlock /\ longer \in TextBlock
        BY <3>1, <3>2
      <4>2. \A ls : \A bl \in TextBlock : \A m \in Nat : \A lo \in TextBlock :
              Continues(ls, bl, m, lo)
                => HeldBy(lo) = HeldBy(bl) \cup {m + 1} /\ BlockFits(ls, lo, m + 1)
        BY BlockGoesOn, Zenon
      <4>3. \A lo \in TextBlock :
              Continues(lines, block, k, lo)
                => HeldBy(lo) = HeldBy(block) \cup {k + 1} /\ BlockFits(lines, lo, k + 1)
        BY ONLY <4>1, <4>2, Zenon
      <4>4. Continues(lines, block, k, longer)
                => HeldBy(longer) = HeldBy(block) \cup {k + 1} /\ BlockFits(lines, longer, k + 1)
        BY <4>1, <4>3
      <4> QED BY <3>3, <4>4
    <3> QED BY <3>2, <3>4
  <2>3. /\ more \in Seq(TextBlock) /\ DOMAIN more = 1..L /\ more[L] = longer
        /\ \A b \in 1..L : b # L => more[b] = blocks[b]
    <3>1. L \in 1..Len(blocks)
      BY <1>0, <1>1
    <3> QED BY <2>1, <2>2, <3>1, ReplacedShape
  <2>4. \A b \in DOMAIN more : BlockFits(lines, more[b], k + 1)
    <3> TAKE b \in DOMAIN more
    <3>1. CASE b = L
      BY <2>2, <2>3, <3>1
    <3>2. CASE b # L
      BY <1>0, <2>3, <3>2, FitsFurther DEF Cut
    <3> QED BY <3>1, <3>2
  <2>5. ASSUME NEW b \in DOMAIN more, NEW c \in DOMAIN more, b < c
        PROVE  Apart(lines, more[b], more[c])
    <3>1. b # L /\ more[b] = blocks[b] /\ b \in DOMAIN blocks /\ c \in DOMAIN blocks
      <4> b \in 1..L /\ c \in 1..L
        BY <2>3, <2>5
      <4>1. b # L
        BY <1>0, <2>5
      <4> QED BY <1>0, <2>3, <4>1
    <3>2. Apart(lines, blocks[b], blocks[c])
      BY <2>5, <3>1 DEF Cut
    <3>3. CASE c # L
      BY <2>3, <3>1, <3>2, <3>3
    <3>4. CASE c = L
      <4>1. ASSUME NEW i \in HeldBy(blocks[b]) PROVE i < k + 1 /\ ~Run(lines, i, k + 1)
        <5>1. k \in HeldBy(blocks[L])
          <6>1. blocks[L].lines # <<>> /\ blocks[L].lines \in Seq(Nat)
            BY <1>0, <1>1 DEF Cut, BlockFits, TextBlock
          <6> QED BY <1>1, <6>1 DEF HeldBy, LastOf
        <5>2. i < k /\ ~Run(lines, i, k) /\ i \in 1..k
          BY <3>1, <3>2, <3>4, <4>1, <5>1 DEF Apart, Cut, BlockFits
        <5> QED BY <5>2 DEF Run
      <4> QED BY <2>2, <2>3, <3>1, <3>2, <3>4, <4>1 DEF Apart
    <3> QED BY <3>3, <3>4
  <2>6. ASSUME NEW n \in 1..(k + 1), lines[n].kind # "blank"
        PROVE  \E b \in DOMAIN more : n \in HeldBy(more[b])
    <3>1. CASE n = k + 1
      BY <1>0, <1>1, <2>2, <2>3, <3>1
    <3>2. CASE n \in 1..k
      <4>1. PICK b \in DOMAIN blocks : n \in HeldBy(blocks[b])
        BY <2>6, <3>2 DEF Cut
      <4> QED BY <1>0, <2>2, <2>3, <4>1
    <3> QED BY <3>1, <3>2
  <2> QED BY <2>3, <2>4, <2>5, <2>6 DEF Cut
<1>2. CASE ~goesOn
  <2> PICK fresh : fresh = [kind |-> lines[k + 1].kind, lines |-> <<k + 1>>]
    OBVIOUS
  <2>1. more = Append(blocks, fresh)
    BY <1>2 DEF InBlock, LastOf
  <2>2. /\ fresh \in TextBlock /\ HeldBy(fresh) = {k + 1} /\ LastOf(fresh) = k + 1
        /\ fresh.kind = lines[k + 1].kind /\ fresh.lines # <<>>
    BY <1>k DEF TextBlock, HeldBy, LastOf
  <2>3. BlockFits(lines, fresh, k + 1)
    BY <2>2 DEF BlockFits
  <2>4. /\ more \in Seq(TextBlock) /\ DOMAIN more = 1..(L + 1) /\ more[L + 1] = fresh
        /\ \A b \in 1..L : more[b] = blocks[b]
    BY <1>0, <2>1, <2>2, AppendedShape
  <2>5. \A b \in DOMAIN more : BlockFits(lines, more[b], k + 1)
    <3> TAKE b \in DOMAIN more
    <3>1. CASE b = L + 1
      BY <2>3, <2>4, <3>1
    <3>2. CASE b \in 1..L
      BY <1>0, <2>4, <3>2, FitsFurther DEF Cut
    <3> QED BY <1>0, <2>4, <3>1, <3>2
  <2>6. ASSUME NEW b \in DOMAIN blocks, NEW i \in HeldBy(blocks[b])
        PROVE  i < k + 1 /\ ~Run(lines, i, k + 1)
    <3>1. i \in 1..k /\ lines[i].kind = blocks[b].kind
      BY <2>6 DEF Cut, BlockFits
    <3>2. ASSUME Run(lines, i, k + 1) PROVE FALSE
      <4>1. /\ lines[k].kind = lines[k + 1].kind /\ lines[k + 1].kind \in {"item", "text"}
            /\ k \in 1..k
        BY <3>1, <3>2 DEF Run
      <4>2. PICK d \in DOMAIN blocks : k \in HeldBy(blocks[d])
        BY <4>1 DEF Cut
      <4>3. blocks # <<>> /\ L \in DOMAIN blocks
        BY <1>0, <4>2
      <4>l. blocks[L].lines # <<>> /\ blocks[L].lines \in Seq(Nat)
        BY <1>0, <4>3 DEF Cut, BlockFits, TextBlock
      <4>4. LastOf(blocks[L]) \in HeldBy(blocks[L])
        BY <4>l DEF LastOf, HeldBy
      <4>5. LastOf(blocks[L]) \in 1..k
        BY <4>3, <4>4 DEF Cut, BlockFits
      <4>6. d = L
        <5>1. CASE d < L
          BY <4>2, <4>3, <4>4, <4>5, <5>1 DEF Cut, Apart
        <5> QED BY <1>0, <4>2, <5>1
      <4>7. LastOf(blocks[L]) = k /\ blocks[L].kind = lines[k].kind
        BY <4>2, <4>5, <4>6 DEF Cut, BlockFits
      <4> QED BY <1>2, <4>1, <4>3, <4>7
    <3> QED BY <3>1, <3>2
  <2>7. ASSUME NEW b \in DOMAIN more, NEW c \in DOMAIN more, b < c
        PROVE  Apart(lines, more[b], more[c])
    <3>1. b \in DOMAIN blocks /\ more[b] = blocks[b]
      BY <1>0, <2>4, <2>7
    <3>2. CASE c \in DOMAIN blocks
      BY <1>0, <2>4, <2>7, <3>1, <3>2 DEF Cut
    <3>3. CASE c = L + 1
      BY <2>2, <2>4, <2>6, <3>1, <3>3 DEF Apart
    <3> QED BY <1>0, <2>4, <3>2, <3>3
  <2>8. ASSUME NEW n \in 1..(k + 1), lines[n].kind # "blank"
        PROVE  \E b \in DOMAIN more : n \in HeldBy(more[b])
    <3>1. CASE n = k + 1
      BY <1>0, <2>2, <2>4, <3>1
    <3>2. CASE n \in 1..k
      <4>1. PICK b \in DOMAIN blocks : n \in HeldBy(blocks[b])
        BY <2>8, <3>2 DEF Cut
      <4> QED BY <1>0, <2>4, <4>1
    <3> QED BY <3>1, <3>2
  <2> QED BY <2>4, <2>5, <2>7, <2>8 DEF Cut
<1> QED BY <1>1, <1>2

\* The lines that the blocks of a rendering hold already.
Consumed(r) == IF r.step = "block" THEN r.next - 1 ELSE r.next

\* What has come out for the lines before the next one.
Linked(r) ==
  \A n \in DOMAIN r.shown :
    r.lines[n].reference \in Owners /\ ~r.page /\ ~r.shown[n].crossed =>
      (r.shown[n].outcome = "link" <=> r.lines[n].reference = r.owner)

\* The attributes are those of a rendering that nobody has crossed.
Given(r, held, user) ==
  ~r.crossed => /\ r.step = "user" => held = r.owner
                /\ r.step = "look" => held = r.owner /\ user = r.owner
                /\ r.step = "resolve" => r.looked = r.owner /\ user = r.owner

\* The invariant of a rendering.
Rendered(r, held, user) ==
  /\ r \in Shaped /\ Len(r.lines) <= MaxLines
  /\ r.next <= Len(r.lines) + 1 /\ (r.step # "block" => r.next <= Len(r.lines))
  /\ Len(r.shown) = r.next - 1
  /\ Cut(r.lines, r.blocks, Consumed(r))
  /\ Linked(r) /\ Given(r, held, user)

\* The invariant.
RendersInv ==
  /\ givenToken \in Owners \cup {Absent} /\ givenUser \in Owners \cup {Absent}
  /\ DOMAIN renders = Threads /\ renders = [t \in Threads |-> renders[t]]
  /\ \A t \in Threads : renders[t] # Absent => Rendered(renders[t], givenToken, givenUser)

\* What a step leaves alone of a rendering, when it goes to another step
\* of the same line.
LEMMA SameLine ==
  ASSUME NEW r, NEW held, NEW user, Rendered(r, held, user), r.step # "block",
         NEW s \in Shaped, s.step # "block", NEW newToken, NEW newUser,
         s.lines = r.lines, s.owner = r.owner, s.page = r.page, s.next = r.next,
         s.blocks = r.blocks, s.shown = r.shown, Given(s, newToken, newUser)
  PROVE  Rendered(s, newToken, newUser)
<1>1. Consumed(s) = Consumed(r)
  BY DEF Consumed
<1>2. Linked(s)
  BY DEF Linked, Rendered
<1> QED BY <1>1, <1>2 DEF Rendered

\* A rendering begins.
LEMMA StartRendered ==
  ASSUME RenderingAssumption, RendersInv, NEW t \in Threads, StartRender(t)
  PROVE  RendersInv'
<1> DEFINE fresh(lines, owner, page) ==
             [lines |-> lines, owner |-> owner, page |-> page, next |-> 1, step |-> "block",
              looked |-> Absent, blocks |-> <<>>, shown |-> <<>>, crossed |-> FALSE]
<1>1. PICK n \in 0..MaxLines : \E lines \in [1..n -> Line], owner \in Owners \cup {Absent}, page \in BOOLEAN :
         renders' = [renders EXCEPT ![t] = fresh(lines, owner, page)]
  <2>1. MaxShared \in 0..MaxLines /\ MaxLines \in Nat
    BY RenderingAssumption
  <2>2. \A m \in 1..(IF \E u \in Threads : renders[u] # Absent THEN MaxShared ELSE MaxLines) : m \in 0..MaxLines
    BY <2>1
  <2>3. \E m \in 1..(IF \E u \in Threads : renders[u] # Absent THEN MaxShared ELSE MaxLines) :
          \E lines \in [1..m -> Line], owner \in Owners \cup {Absent}, page \in BOOLEAN :
            renders' = [renders EXCEPT ![t] = fresh(lines, owner, page)]
    BY ZenonT(60) DEF StartRender
  <2> HIDE DEF fresh
  <2> QED BY <2>2, <2>3
<1>2. PICK lines \in [1..n -> Line], owner \in Owners \cup {Absent}, page \in BOOLEAN :
         renders' = [renders EXCEPT ![t] = fresh(lines, owner, page)]
  BY <1>1
<1> PICK r : r = fresh(lines, owner, page)
  OBVIOUS
<1>3. lines \in Seq(Line) /\ Len(lines) = n /\ n <= MaxLines
  BY RenderingAssumption
<1>4. r \in Shaped
  <2>1. <<>> \in Seq(TextBlock) /\ <<>> \in Seq([outcome : Outcomes, crossed : BOOLEAN])
    OBVIOUS
  <2> QED BY <1>3, <2>1 DEF Shaped
<1>5. Rendered(r, givenToken, givenUser)
  <2>1. r.next = 1 /\ r.step = "block" /\ r.lines = lines /\ r.shown = <<>> /\ r.blocks = <<>>
    OBVIOUS
  <2>2. Cut(r.lines, r.blocks, Consumed(r))
    BY <2>1 DEF Cut, Consumed
  <2>3. Linked(r) /\ Given(r, givenToken, givenUser)
    BY <2>1 DEF Linked, Given
  <2> QED BY <1>3, <1>4, <2>1, <2>2, <2>3 DEF Rendered
<1>6. givenToken' = givenToken /\ givenUser' = givenUser
  BY DEF StartRender
<1> QED BY <1>2, <1>5, <1>6 DEF RendersInv

\* A rendering ends.
LEMMA EndRendered ==
  ASSUME RendersInv, NEW t \in Threads, EndRender(t)
  PROVE  RendersInv'
BY DEF RendersInv, EndRender

\* A line is blank, or goes into a block.
LEMMA LineRendered ==
  ASSUME RendersInv, NEW t \in Threads, ConsumeLine(t)
  PROVE  RendersInv'
<1> PICK r : r = renders[t]
  OBVIOUS
<1>1. /\ Rendered(r, givenToken, givenUser) /\ r.step = "block" /\ r.next <= Len(r.lines) /\ r \in Shaped
      /\ Current(t) = r.lines[r.next]
      /\ givenToken' = givenToken /\ givenUser' = givenUser
  <2>1. Rendered(r, givenToken, givenUser) /\ r.step = "block"
    BY DEF ConsumeLine, Renders, RendersInv
  <2>2. r.lines \in Seq(Line) /\ r.next \in Nat
    BY <2>1 DEF Rendered, Shaped
  <2> QED BY <2>1, <2>2 DEF ConsumeLine, Renders, Finished, Rendered, Current
<1>2. /\ r.lines \in Seq(Line) /\ r.next \in Nat \ {0} /\ r.blocks \in Seq(TextBlock)
      /\ r.shown \in Seq([outcome : Outcomes, crossed : BOOLEAN])
      /\ Len(r.shown) = r.next - 1 /\ Cut(r.lines, r.blocks, r.next - 1) /\ Linked(r)
      /\ r.owner \in Owners \cup {Absent} /\ r.page \in BOOLEAN /\ r.looked \in Owners \cup {Absent}
      /\ r.crossed \in BOOLEAN
  BY <1>1 DEF Rendered, Shaped, Consumed
<1> PICK k \in Nat : k = r.next - 1
  BY <1>2
<1>3. k + 1 = r.next /\ k + 1 \in DOMAIN r.lines /\ Current(t) = r.lines[k + 1]
  BY <1>1, <1>2
<1>4. CASE Current(t).kind = "blank"
  <2> PICK entry : entry = [outcome |-> "none", crossed |-> FALSE]
    OBVIOUS
  <2> PICK more : more = Append(r.shown, entry)
    OBVIOUS
  <2> PICK s : s = [r EXCEPT !.next = r.next + 1, !.shown = more]
    OBVIOUS
  <2>1. renders' = [renders EXCEPT ![t] = s]
    BY <1>4 DEF ConsumeLine
  <2>2. /\ more \in Seq([outcome : Outcomes, crossed : BOOLEAN]) /\ Len(more) = r.next
        /\ DOMAIN more = 1..r.next /\ \A n \in 1..k : more[n] = r.shown[n]
    <3>1. entry \in [outcome : Outcomes, crossed : BOOLEAN]
      BY DEF Outcomes
    <3> QED BY <1>2, <1>3, <3>1, AppendedShape
  <2>3. /\ s \in Shaped /\ s.next = r.next + 1 /\ s.shown = more /\ s.lines = r.lines
        /\ s.blocks = r.blocks /\ s.step = "block" /\ s.owner = r.owner /\ s.page = r.page
    <3>1. r.next + 1 \in Nat \ {0}
      BY <1>2
    <3>2. /\ s.next = r.next + 1 /\ s.shown = more /\ s.lines = r.lines
          /\ s.blocks = r.blocks /\ s.step = "block" /\ s.owner = r.owner /\ s.page = r.page
      BY <1>1 DEF Shaped
    <3>3. s \in Shaped
      BY <1>1, <2>2, <3>1 DEF Shaped
    <3> QED BY <3>2, <3>3
  <2>4. Cut(s.lines, s.blocks, Consumed(s))
    <3>1. Cut(r.lines, r.blocks, k + 1)
      BY <1>2, <1>3, <1>4, BlankCuts
    <3> QED BY <1>2, <1>3, <2>3, <3>1 DEF Consumed
  <2>5. Linked(s)
    <3>1. r.lines[k + 1].reference \notin Owners
      <4>1. r.lines[k + 1] \in Line
        BY <1>2, <1>3
      <4> QED BY <1>3, <1>4, <4>1, RenderingAssumption DEF Line
    <3>2. \A n \in 1..r.next : n = k + 1 \/ n \in 1..k
      BY <1>2, <1>3
    <3>3. DOMAIN r.shown = 1..k
      BY <1>2
    <3> QED BY <1>2, <2>2, <2>3, <3>1, <3>2, <3>3 DEF Linked
  <2>6. Given(s, givenToken, givenUser)
    BY <2>3 DEF Given
  <2>7. Rendered(s, givenToken, givenUser)
    BY <1>1, <1>2, <2>2, <2>3, <2>4, <2>5, <2>6 DEF Rendered
  <2> QED BY <1>1, <2>1, <2>7 DEF RendersInv
<1>5. CASE Current(t).kind # "blank"
  <2> PICK more : more = InBlock(r.blocks, r.lines[k + 1], k + 1)
    OBVIOUS
  <2> PICK s : s = [r EXCEPT !.step = "token", !.blocks = more]
    OBVIOUS
  <2>1. renders' = [renders EXCEPT ![t] = s]
    BY <1>3, <1>5 DEF ConsumeLine
  <2>2. more \in Seq(TextBlock) /\ Cut(r.lines, more, k + 1)
    <3>1. Cut(r.lines, r.blocks, k) /\ r.lines[k + 1].kind # "blank"
      BY <1>2, <1>3, <1>5
    <3> PICK lines : lines = r.lines
      OBVIOUS
    <3> PICK blocks : blocks = r.blocks
      OBVIOUS
    <3>2. /\ lines \in Seq(Line) /\ blocks \in Seq(TextBlock) /\ Cut(lines, blocks, k)
          /\ k + 1 \in DOMAIN lines /\ lines[k + 1].kind # "blank"
          /\ more = InBlock(blocks, lines[k + 1], k + 1)
      BY <1>2, <1>3, <3>1
    <3>3. more \in Seq(TextBlock) /\ Cut(lines, more, k + 1)
      BY <3>2, LineCuts
    <3> QED BY <3>3
  <2>3. /\ s \in Shaped /\ s.next = r.next /\ s.shown = r.shown /\ s.lines = r.lines
        /\ s.blocks = more /\ s.step = "token" /\ s.owner = r.owner /\ s.page = r.page
    BY <1>1, <1>2, <2>2 DEF Shaped
  <2>4. Cut(s.lines, s.blocks, Consumed(s))
    BY <1>3, <2>2, <2>3 DEF Consumed
  <2>5. Linked(s) /\ Given(s, givenToken, givenUser)
    BY <1>2, <2>3 DEF Linked, Given
  <2>6. Rendered(s, givenToken, givenUser)
    BY <1>1, <1>2, <2>3, <2>4, <2>5 DEF Rendered
  <2> QED BY <1>1, <2>1, <2>6 DEF RendersInv
<1> QED BY <1>4, <1>5

\* Of another rendering, an assignment changes nothing but that it is crossed.
LEMMA OthersCrossed ==
  ASSUME NEW r, NEW held, NEW user, Rendered(r, held, user), NEW newToken, NEW newUser
  PROVE  /\ r.step \notin {"user", "look", "resolve"} => Rendered(r, newToken, newUser)
         /\ r.step \in {"user", "look", "resolve"} => Rendered([r EXCEPT !.crossed = TRUE], newToken, newUser)
<1>1. r.step \notin {"user", "look", "resolve"} => Rendered(r, newToken, newUser)
  BY DEF Rendered, Given
<1>2. ASSUME r.step \in {"user", "look", "resolve"}
      PROVE  Rendered([r EXCEPT !.crossed = TRUE], newToken, newUser)
  <2> PICK s : s = [r EXCEPT !.crossed = TRUE]
    OBVIOUS
  <2>1. r \in Shaped
    BY DEF Rendered
  <2>2. /\ s \in Shaped /\ s.step = r.step /\ s.crossed /\ s.lines = r.lines /\ s.owner = r.owner
        /\ s.page = r.page /\ s.next = r.next /\ s.blocks = r.blocks /\ s.shown = r.shown
    BY <2>1 DEF Shaped
  <2>3. Given(s, newToken, newUser)
    BY <2>2 DEF Given
  <2>4. Rendered(s, newToken, newUser)
    BY <1>2, <2>2, <2>3, SameLine
  <2> QED BY <2>4
<1> QED BY <1>1, <1>2

\* A thread hands over an attribute: its own rendering, and the others.
LEMMA AssignmentRendered ==
  ASSUME RendersInv, NEW t \in Threads, NEW goes, Rendered(goes, givenToken', givenUser'),
         givenToken' \in Owners \cup {Absent}, givenUser' \in Owners \cup {Absent},
         renders' = Crossing(t, goes)
  PROVE  RendersInv'
<1>1. ASSUME NEW u \in Threads, renders'[u] # Absent
      PROVE  Rendered(renders'[u], givenToken', givenUser')
  <2>1. CASE u = t
    BY <2>1 DEF Crossing
  <2>2. CASE u # t /\ \E step \in {"user", "look", "resolve"} : Renders(u, step)
    <3>1. /\ renders'[u] = [renders[u] EXCEPT !.crossed = TRUE]
          /\ renders[u] # Absent /\ renders[u].step \in {"user", "look", "resolve"}
      BY <2>2 DEF Crossing, Renders
    <3>2. Rendered(renders[u], givenToken, givenUser)
      BY <3>1 DEF RendersInv
    <3> QED BY <3>1, <3>2, OthersCrossed
  <2>3. CASE u # t /\ ~\E step \in {"user", "look", "resolve"} : Renders(u, step)
    <3>1. renders'[u] = renders[u]
      BY <2>3 DEF Crossing
    <3>2. renders[u].step \notin {"user", "look", "resolve"}
      BY <1>1, <2>3, <3>1 DEF Renders
    <3>3. Rendered(renders[u], givenToken, givenUser)
      BY <1>1, <3>1 DEF RendersInv
    <3> QED BY <3>1, <3>2, <3>3, OthersCrossed
  <2> QED BY <2>1, <2>2, <2>3
<1>2. DOMAIN renders' = Threads /\ renders' = [u \in Threads |-> renders'[u]]
  BY DEF Crossing
<1> QED BY <1>1, <1>2 DEF RendersInv

\* A thread at work on a line, at one of its steps.
LEMMA AtWork ==
  ASSUME RendersInv, NEW t \in Threads, NEW step, step # "block", Renders(t, step), NEW r, r = renders[t]
  PROVE  /\ Rendered(r, givenToken, givenUser) /\ r \in Shaped /\ r.step = step
         /\ r.lines \in Seq(Line) /\ r.next \in 1..Len(r.lines) /\ r.blocks \in Seq(TextBlock)
         /\ r.shown \in Seq([outcome : Outcomes, crossed : BOOLEAN]) /\ Len(r.shown) = r.next - 1
         /\ r.owner \in Owners \cup {Absent} /\ r.page \in BOOLEAN /\ r.looked \in Owners \cup {Absent}
         /\ r.crossed \in BOOLEAN /\ Cut(r.lines, r.blocks, r.next) /\ Linked(r)
         /\ r.lines[r.next] \in Line
<1>1. Rendered(r, givenToken, givenUser) /\ r.step = step
  BY DEF Renders, RendersInv
<1>2. r.lines \in Seq(Line) /\ r.next \in Nat \ {0}
  BY <1>1 DEF Rendered, Shaped
<1>3. r.next \in 1..Len(r.lines)
  BY <1>1, <1>2 DEF Rendered
<1>4. r.lines[r.next] \in Line
  BY <1>2, <1>3
<1> QED BY <1>1, <1>2, <1>3, <1>4 DEF Rendered, Shaped, Consumed

\* The draft token is handed over.
LEMMA TokenRendered ==
  ASSUME RendersInv, NEW t \in Threads, GiveDraftToken(t)
  PROVE  RendersInv'
<1> PICK r : r = renders[t]
  OBVIOUS
<1>1. /\ Rendered(r, givenToken, givenUser) /\ r \in Shaped /\ r.step = "token"
      /\ r.owner \in Owners \cup {Absent}
  BY AtWork DEF GiveDraftToken
<1> PICK s : s = [r EXCEPT !.step = "user", !.crossed = FALSE]
  OBVIOUS
<1>2. /\ s \in Shaped /\ s.step = "user" /\ s.lines = r.lines /\ s.owner = r.owner
      /\ s.page = r.page /\ s.next = r.next /\ s.blocks = r.blocks /\ s.shown = r.shown
  BY <1>1 DEF Shaped
<1>3. /\ givenToken' = r.owner /\ givenUser' = givenUser /\ renders' = Crossing(t, s)
  BY DEF GiveDraftToken
<1>4. Given(s, givenToken', givenUser')
  BY <1>2, <1>3 DEF Given
<1>5. Rendered(s, givenToken', givenUser')
  BY <1>1, <1>2, <1>4, SameLine
<1>6. givenToken' \in Owners \cup {Absent} /\ givenUser' \in Owners \cup {Absent}
  BY <1>1, <1>3 DEF RendersInv
<1> QED BY <1>3, <1>5, <1>6, AssignmentRendered

\* The user is handed over.
LEMMA UserRendered ==
  ASSUME RendersInv, NEW t \in Threads, GiveUser(t)
  PROVE  RendersInv'
<1> PICK r : r = renders[t]
  OBVIOUS
<1>1. /\ Rendered(r, givenToken, givenUser) /\ r \in Shaped /\ r.step = "user"
      /\ r.owner \in Owners \cup {Absent}
  BY AtWork DEF GiveUser
<1> PICK s : s = [r EXCEPT !.step = "look"]
  OBVIOUS
<1>2. /\ s \in Shaped /\ s.step = "look" /\ s.lines = r.lines /\ s.owner = r.owner /\ s.crossed = r.crossed
      /\ s.page = r.page /\ s.next = r.next /\ s.blocks = r.blocks /\ s.shown = r.shown
  BY <1>1 DEF Shaped
<1>3. /\ givenUser' = r.owner /\ givenToken' = givenToken /\ renders' = Crossing(t, s)
  BY DEF GiveUser
<1>4. Given(s, givenToken', givenUser')
  BY <1>1, <1>2, <1>3 DEF Given, Rendered
<1>5. Rendered(s, givenToken', givenUser')
  BY <1>1, <1>2, <1>4, SameLine
<1>6. givenToken' \in Owners \cup {Absent} /\ givenUser' \in Owners \cup {Absent}
  BY <1>1, <1>3 DEF RendersInv
<1> QED BY <1>3, <1>5, <1>6, AssignmentRendered

\* The token is read back.
LEMMA LookRendered ==
  ASSUME RendersInv, NEW t \in Threads, LookAtToken(t)
  PROVE  RendersInv'
<1> PICK r : r = renders[t]
  OBVIOUS
<1>1. Rendered(r, givenToken, givenUser) /\ r \in Shaped /\ r.step = "look"
  BY AtWork DEF LookAtToken
<1> PICK s : s = [r EXCEPT !.looked = givenToken, !.step = "resolve"]
  OBVIOUS
<1>2. /\ s \in Shaped /\ s.step = "resolve" /\ s.lines = r.lines /\ s.owner = r.owner
      /\ s.crossed = r.crossed /\ s.looked = givenToken
      /\ s.page = r.page /\ s.next = r.next /\ s.blocks = r.blocks /\ s.shown = r.shown
  BY <1>1 DEF Shaped, RendersInv
<1>3. givenUser' = givenUser /\ givenToken' = givenToken /\ renders' = [renders EXCEPT ![t] = s]
  BY DEF LookAtToken, RendersInv
<1>4. Given(s, givenToken, givenUser)
  BY <1>1, <1>2 DEF Given, Rendered
<1>5. Rendered(s, givenToken, givenUser)
  BY <1>1, <1>2, <1>4, SameLine, ZenonT(60)
<1> QED BY <1>3, <1>5 DEF RendersInv

\* The outcome that a rendering without a page may show for its reference.
LEMMA ComesOut ==
  ASSUME RendersInv, NEW t \in Threads, Renders(t, "resolve"), NEW r, r = renders[t],
         NEW outcome \in Outcomes,
         \/ Current(t).reference \notin Owners
         \/ r.page
         \/ outcome = "link" <=> r.looked = Current(t).reference /\ givenUser = Current(t).reference,
         renders' = [renders EXCEPT ![t].shown = Append(@, [outcome |-> outcome, crossed |-> r.crossed]),
                                    ![t].step = "block", ![t].next = @ + 1],
         UNCHANGED <<givenToken, givenUser>>
  PROVE  RendersInv'
<1>1. /\ Rendered(r, givenToken, givenUser) /\ r \in Shaped /\ r.step = "resolve"
      /\ r.lines \in Seq(Line) /\ r.next \in 1..Len(r.lines) /\ r.blocks \in Seq(TextBlock)
      /\ r.shown \in Seq([outcome : Outcomes, crossed : BOOLEAN]) /\ Len(r.shown) = r.next - 1
      /\ r.owner \in Owners \cup {Absent} /\ r.page \in BOOLEAN /\ r.looked \in Owners \cup {Absent}
      /\ r.crossed \in BOOLEAN /\ Cut(r.lines, r.blocks, r.next) /\ Linked(r)
  BY AtWork
<1> PICK entry : entry = [outcome |-> outcome, crossed |-> r.crossed]
  OBVIOUS
<1> PICK more : more = Append(r.shown, entry)
  OBVIOUS
<1> PICK s : s = [r EXCEPT !.shown = more, !.step = "block", !.next = r.next + 1]
  OBVIOUS
<1>2. renders' = [renders EXCEPT ![t] = s]
  BY DEF RendersInv
<1>3. entry \in [outcome : Outcomes, crossed : BOOLEAN]
  BY <1>1
<1>4. /\ more \in Seq([outcome : Outcomes, crossed : BOOLEAN]) /\ Len(more) = r.next
      /\ DOMAIN more = 1..r.next /\ more[r.next] = entry
      /\ \A n \in 1..(r.next - 1) : more[n] = r.shown[n]
  BY <1>1, <1>3, AppendedShape
<1>5. /\ s \in Shaped /\ s.next = r.next + 1 /\ s.shown = more /\ s.lines = r.lines
      /\ s.blocks = r.blocks /\ s.step = "block" /\ s.owner = r.owner /\ s.page = r.page
  <2>1. r.next + 1 \in Nat \ {0}
    BY <1>1
  <2>2. /\ s.next = r.next + 1 /\ s.shown = more /\ s.lines = r.lines
        /\ s.blocks = r.blocks /\ s.step = "block" /\ s.owner = r.owner /\ s.page = r.page
    BY <1>1 DEF Shaped
  <2>3. s \in Shaped
    BY <1>1, <1>4, <2>1, ZenonT(60) DEF Shaped
  <2> QED BY <2>2, <2>3
<1>6. Cut(s.lines, s.blocks, Consumed(s))
  <2>1. Consumed(s) = r.next
    BY <1>1, <1>5 DEF Consumed
  <2> QED BY <1>1, <1>5, <2>1
<1>7. Linked(s)
  <2>1. ASSUME NEW n \in DOMAIN s.shown, s.lines[n].reference \in Owners, ~s.page, ~s.shown[n].crossed
        PROVE  s.shown[n].outcome = "link" <=> s.lines[n].reference = s.owner
    <3>1. CASE n = r.next
      <4>1. Current(t).reference = r.lines[n].reference /\ s.lines[n] = r.lines[n]
        BY <1>5, <3>1 DEF Current
      <4>2. s.shown[n].outcome = outcome /\ ~r.crossed
        BY <1>4, <1>5, <2>1, <3>1
      <4>3. r.looked = r.owner /\ givenUser = r.owner
        BY <1>1, <4>2 DEF Rendered, Given
      <4> QED BY <1>5, <2>1, <4>1, <4>2, <4>3
    <3>2. CASE n \in 1..(r.next - 1)
      <4>1. n \in DOMAIN r.shown /\ s.shown[n] = r.shown[n]
        BY <1>1, <1>4, <1>5, <3>2
      <4> QED BY <1>1, <1>5, <2>1, <4>1 DEF Linked
    <3>3. n \in 1..r.next
      BY <1>4, <1>5, <2>1
    <3> QED BY <1>1, <3>1, <3>2, <3>3
  <2> QED BY <2>1 DEF Linked
<1>8. Given(s, givenToken, givenUser)
  BY <1>5 DEF Given
<1>9. Rendered(s, givenToken, givenUser)
  BY <1>1, <1>4, <1>5, <1>6, <1>7, <1>8 DEF Rendered
<1> QED BY <1>2, <1>9 DEF RendersInv

\* The reference of a line comes out, or ends the rendering.
LEMMA ReferenceRendered ==
  ASSUME RendersInv, NEW t \in Threads, Resolve(t)
  PROVE  RendersInv'
<1> PICK r : r = renders[t]
  OBVIOUS
<1>1. Rendered(r, givenToken, givenUser) /\ r \in Shaped /\ r.step = "resolve" /\ r.page \in BOOLEAN
  BY AtWork DEF Resolve
<1>2. CASE Current(t).reference \in Owners /\ r.page /\ GoesTo(t, "failed")
  <2> PICK s : s = [r EXCEPT !.step = "failed"]
    OBVIOUS
  <2>1. /\ s \in Shaped /\ s.step = "failed" /\ s.lines = r.lines /\ s.owner = r.owner
        /\ s.page = r.page /\ s.next = r.next /\ s.blocks = r.blocks /\ s.shown = r.shown
    BY <1>1 DEF Shaped
  <2>2. renders' = [renders EXCEPT ![t] = s] /\ givenToken' = givenToken /\ givenUser' = givenUser
    BY <1>2 DEF GoesTo, Resolve, RendersInv
  <2>3. Rendered(s, givenToken, givenUser)
    BY <1>1, <2>1, SameLine DEF Given
  <2> QED BY <2>2, <2>3 DEF RendersInv
<1>3. CASE ~(Current(t).reference \in Owners /\ r.page /\ GoesTo(t, "failed"))
  <2>1. \E outcome \in Outcomes :
          /\ \/ Current(t).reference \notin Owners
             \/ r.page
             \/ outcome = "link" <=> r.looked = Current(t).reference /\ givenUser = Current(t).reference
          /\ renders' = [renders EXCEPT ![t].shown = Append(@, [outcome |-> outcome, crossed |-> r.crossed]),
                                        ![t].step = "block", ![t].next = @ + 1]
    <3> DEFINE comesOut(outcome) ==
                 renders' = [renders EXCEPT ![t].shown = Append(@, [outcome |-> outcome, crossed |-> r.crossed]),
                                            ![t].step = "block", ![t].next = @ + 1]
    <3>1. \/ Current(t).reference = Absent /\ comesOut("none")
          \/ Current(t).reference = "named" /\ \E outcome \in {"link", "literal"} : comesOut(outcome)
          \/ /\ Current(t).reference = "attachment"
             /\ \E outcome \in {"link", "literal"} : (outcome = "link" => r.page) /\ comesOut(outcome)
          \/ Current(t).reference \in Owners /\ r.page /\ GoesTo(t, "failed")
          \/ /\ Current(t).reference \in Owners /\ ~r.page
             /\ comesOut(IF r.looked = Current(t).reference /\ givenUser = Current(t).reference
                         THEN "link" ELSE "literal")
      BY DEF Resolve
    <3> HIDE DEF comesOut
    <3>2. Absent \notin Owners /\ "named" \notin Owners /\ "attachment" \notin Owners
      BY RenderingAssumption
    <3>3. {"none", "link", "literal"} = Outcomes
      BY DEF Outcomes
    <3>4. \E outcome \in Outcomes :
            /\ \/ Current(t).reference \notin Owners
               \/ r.page
               \/ outcome = "link" <=> r.looked = Current(t).reference /\ givenUser = Current(t).reference
            /\ comesOut(outcome)
      BY <1>3, <3>1, <3>2, <3>3
    <3> QED BY <3>4, ZenonT(60) DEF comesOut
  <2>2. Renders(t, "resolve") /\ UNCHANGED <<givenToken, givenUser>>
    BY DEF Resolve
  <2> PICK outcome \in Outcomes :
          /\ \/ Current(t).reference \notin Owners
             \/ r.page
             \/ outcome = "link" <=> r.looked = Current(t).reference /\ givenUser = Current(t).reference
          /\ renders' = [renders EXCEPT ![t].shown = Append(@, [outcome |-> outcome, crossed |-> r.crossed]),
                                        ![t].step = "block", ![t].next = @ + 1]
    BY <2>1
  <2> QED BY <2>2, ComesOut
<1> QED BY <1>2, <1>3

\* Every step keeps the invariant.
LEMMA RendersStep ==
  ASSUME RenderingAssumption, RendersInv, [RenderingNext]_renderVars
  PROVE  RendersInv'
<1>1. CASE RenderingNext
  BY <1>1, StartRendered, EndRendered, LineRendered, TokenRendered, UserRendered, LookRendered,
     ReferenceRendered DEF RenderingNext
<1>2. CASE UNCHANGED renderVars
  BY <1>2 DEF renderVars, RendersInv
<1> QED BY <1>1, <1>2

\* The invariant says what is shown.
LEMMA RenderedFaithfully ==
  ASSUME RendersInv
  PROVE  RenderingIsFaithful
<1>1. DraftsAreOfTheirSession
  BY DEF DraftsAreOfTheirSession, RendersInv, Rendered, Linked
<1>2. ASSUME NEW t \in Threads, Finished(t)
      PROVE  LET r == renders[t]
                 holds(b) == {r.blocks[b].lines[i] : i \in DOMAIN r.blocks[b].lines}
             IN /\ UNION {holds(b) : b \in DOMAIN r.blocks}
                     = {i \in DOMAIN r.lines : r.lines[i].kind # "blank"}
                /\ \A b, c \in DOMAIN r.blocks : \A i \in holds(b), j \in holds(c) :
                     /\ i < j => b <= c
                     /\ i < j => (b = c <=> Together(r, i, j))
  <2> DEFINE r == renders[t]
             holds(b) == {r.blocks[b].lines[i] : i \in DOMAIN r.blocks[b].lines}
  <2>1. /\ r.lines \in Seq(Line) /\ r.blocks \in Seq(TextBlock) /\ Cut(r.lines, r.blocks, Len(r.lines))
    <3>1. Rendered(r, givenToken, givenUser) /\ r.step = "block" /\ r.next > Len(r.lines)
      BY <1>2 DEF Finished, Renders, RendersInv
    <3>2. r.lines \in Seq(Line) /\ r.blocks \in Seq(TextBlock) /\ r.next \in Nat
      BY <3>1 DEF Rendered, Shaped
    <3>3. r.next - 1 = Len(r.lines)
      BY <3>1, <3>2 DEF Rendered
    <3> QED BY <3>1, <3>2, <3>3 DEF Rendered, Consumed
  <2>2. \A b : holds(b) = HeldBy(r.blocks[b])
    BY DEF HeldBy
  <2> HIDE DEF holds
  <2>3. \A i, j : Together(r, i, j) <=> Run(r.lines, i, j)
    BY DEF Together, Run
  <2>4. DOMAIN r.lines = 1..Len(r.lines) /\ Len(r.lines) \in Nat
    BY <2>1
  <2>5. ASSUME NEW b \in DOMAIN r.blocks, NEW i \in holds(b)
        PROVE  i \in DOMAIN r.lines /\ r.lines[i].kind # "blank"
    BY <2>1, <2>2, <2>4, <2>5 DEF Cut, BlockFits
  <2>6. UNION {holds(b) : b \in DOMAIN r.blocks} = {i \in DOMAIN r.lines : r.lines[i].kind # "blank"}
    <3>1. ASSUME NEW i \in DOMAIN r.lines, r.lines[i].kind # "blank"
          PROVE  \E b \in DOMAIN r.blocks : i \in holds(b)
      BY <2>1, <2>2, <2>4, <3>1 DEF Cut
    <3> QED BY <2>5, <3>1
  <2>7. ASSUME NEW b \in DOMAIN r.blocks, NEW c \in DOMAIN r.blocks, NEW i \in holds(b), NEW j \in holds(c),
               i < j
        PROVE  b <= c /\ (b = c <=> Together(r, i, j))
    <3>1. b \in Nat /\ c \in Nat /\ i \in Nat /\ j \in Nat
      BY <2>1, <2>4, <2>5
    <3>2. CASE c < b
      <4>1. Apart(r.lines, r.blocks[c], r.blocks[b])
        BY <2>1, <3>2 DEF Cut
      <4>2. j < i
        BY <2>2, <4>1 DEF Apart
      <4> QED BY <2>7, <3>1, <4>2
    <3>3. CASE b < c
      BY <2>1, <2>2, <2>3, <3>1, <3>3 DEF Cut, Apart
    <3>4. CASE b = c
      BY <2>1, <2>2, <2>3, <2>7, <3>1, <3>4 DEF Cut, BlockFits
    <3> QED BY <3>1, <3>2, <3>3, <3>4
  <2> QED BY <2>6, <2>7 DEF holds
<1>3. BlocksAreRuns
  BY <1>2 DEF BlocksAreRuns
<1> QED BY <1>1, <1>3 DEF RenderingIsFaithful

\* The invariant gives the state its shape: the lines of the blocks are lines
\* of the text, none of which is longer than the bound.
LEMMA RenderingTyped ==
  ASSUME RenderingAssumption, RendersInv
  PROVE  RenderingTypeOK
<1>1. ASSUME NEW t \in Threads, renders[t] # Absent PROVE renders[t] \in Render
  <2> PICK r : r = renders[t]
    OBVIOUS
  <2>1. /\ r \in Shaped /\ Len(r.lines) <= MaxLines /\ r.next <= Len(r.lines) + 1
        /\ (r.step # "block" => r.next <= Len(r.lines)) /\ Cut(r.lines, r.blocks, Consumed(r))
    BY <1>1 DEF RendersInv, Rendered
  <2>2. /\ r.lines \in Seq(Line) /\ r.next \in Nat \ {0} /\ r.blocks \in Seq(TextBlock)
        /\ r = [lines |-> r.lines, owner |-> r.owner, page |-> r.page, next |-> r.next, step |-> r.step,
                looked |-> r.looked, blocks |-> r.blocks, shown |-> r.shown, crossed |-> r.crossed]
    BY <2>1 DEF Shaped
  <2>3. r.next \in 1..(MaxLines + 1) /\ Consumed(r) \in 0..MaxLines
    BY <2>1, <2>2, RenderingAssumption DEF Consumed
  <2>4. ASSUME NEW b \in DOMAIN r.blocks PROVE r.blocks[b] \in Block
    <3> PICK block : block = r.blocks[b]
      OBVIOUS
    <3>1. block \in TextBlock /\ BlockFits(r.lines, block, Consumed(r))
      BY <2>1, <2>2 DEF Cut
    <3>2. /\ block = [kind |-> block.kind, lines |-> block.lines] /\ block.kind \in Kinds
          /\ block.lines \in Seq(Nat)
      BY <3>1 DEF TextBlock
    <3>3. \A i \in DOMAIN block.lines : block.lines[i] \in 1..Consumed(r)
      BY <3>1 DEF BlockFits, HeldBy
    <3>4. block.lines \in Seq(1..MaxLines)
      <4> PICK s : s = block.lines
        OBVIOUS
      <4>1. s \in Seq(Nat) /\ \A i \in 1..Len(s) : s[i] \in 1..MaxLines
        BY <2>3, <3>2, <3>3, RenderingAssumption
      <4>2. s \in [1..Len(s) -> 1..MaxLines] /\ Len(s) \in Nat
        BY <4>1
      <4> QED BY <4>2
    <3> QED BY <3>2, <3>4 DEF Block
  <2>5. r.blocks \in Seq(Block)
    <3> PICK s : s = r.blocks
      OBVIOUS
    <3>1. s \in [1..Len(s) -> Block] /\ Len(s) \in Nat
      BY <2>2, <2>4
    <3> QED BY <3>1
  <2> QED BY <2>1, <2>2, <2>3, <2>5 DEF Shaped, Render
<1>2. renders \in [Threads -> Render \cup {Absent}]
  BY <1>1 DEF RendersInv
<1> QED BY <1>2 DEF RendersInv, RenderingTypeOK

\* The blocks of a text are its longest runs of lines that belong together, and
\* a draft is linked in its session's previews only, unless another thread has
\* set the attributes meanwhile; for any texts, sessions and threads.
THEOREM RenderingFaithful ==
  ASSUME RenderingAssumption
  PROVE  RenderingSpec => []RenderingIsFaithful
<1>1. RenderingInit => RendersInv
  BY DEF RenderingInit, RendersInv
<1>2. RendersInv /\ [RenderingNext]_renderVars => RendersInv'
  BY RendersStep
<1> QED BY <1>1, <1>2, RenderedFaithfully, PTL DEF RenderingSpec
-----------------------------------------------------------------------------
(* All of them together, as one run checks them.                           *)

\* The invariants of the components, of which one takes steps.
RecordsInv ==
  /\ NumberingTypeOK /\ DirectoryInv /\ AvatarInv /\ QueryInv /\ DraftInv /\ FilesInv
  /\ HistoryInv /\ MentionInv /\ RendersInv /\ MigrationInv /\ HealthInv

\* They hold initially.
LEMMA RecordsStart == ASSUME RecordsInit PROVE RecordsInv
<1>1. RenderingInit => RendersInv
  BY DEF RenderingInit, RendersInv
<1>2. QueryInit => QueryInv
  BY QueryAssumption DEF QueryInit, QueryInv, Answered
<1> QED
  BY <1>1, <1>2, NumberingAssumption, DirectoryAssumption, AvatarAssumption, DraftAssumption, FilesAssumption,
     HistoryAssumption, MentionAssumption, InitialTypes, DirectoryInvInit, InitialAvatar, DraftInvInit,
     FilesInvInit, HistoryInvInit, InitialMentions, MigrationStart, HealthStart
  DEF RecordsInit, RecordsInv

\* A step of the run is a step of each component, or leaves that one as it is.
LEMMA RecordsSteps ==
  ASSUME [RecordsNext]_recordsVars
  PROVE  /\ [NumberingNext]_numberingVars /\ [DirectoryNext]_directoryVars /\ [AvatarNext]_avatarVars
         /\ [QueryNext]_queryVars /\ [DraftNext]_draftVars /\ [FilesNext]_filesVars
         /\ [HistoryNext]_historyVars /\ [MentionNext]_mentionVars /\ [RenderingNext]_renderVars
         /\ [MigrationNext]_migrationVars /\ [HealthNext]_healthVars
<1>1. CASE RecordsNext
  BY <1>1 DEF RecordsNext
<1>2. CASE UNCHANGED recordsVars
  BY <1>2 DEF recordsVars
<1> QED BY <1>1, <1>2

\* Whichever component takes the steps, each of them behaves as it does alone:
\* what is proved of a component is true in the run.
THEOREM RecordsCompose ==
  RecordsSpec => /\ NumberingSpec /\ DirectorySpec /\ AvatarSpec /\ QuerySpec /\ DraftSpec /\ FilesSpec
                 /\ HistorySpec /\ MentionSpec /\ RenderingSpec /\ MigrationSpec /\ HealthSpec
<1>1. RecordsInit => /\ NumberingInit /\ DirectoryInit /\ AvatarInit /\ QueryInit /\ DraftInit /\ FilesInit
                     /\ HistoryInit /\ MentionInit /\ RenderingInit /\ MigrationInit /\ HealthInit
  BY DEF RecordsInit
<1> QED
  BY <1>1, RecordsSteps, PTL
  DEF RecordsSpec, NumberingSpec, DirectorySpec, AvatarSpec, QuerySpec, DraftSpec, FilesSpec,
      HistorySpec, MentionSpec, RenderingSpec, MigrationSpec, HealthSpec

\* The steps of the mentions keep the parts of their invariant, which rest on
\* one another.
LEMMA MentionsKeep == ASSUME MentionInv, [MentionNext]_mentionVars PROVE MentionInv'
<1>1. Shape /\ Announcing /\ Following BY DEF MentionInv, Shape, Following
<1>2. Shape' /\ Announcing' /\ Following'
  BY <1>1, MentionAssumption, ShapeStep, AnnouncingStep, FollowingStep
<1> QED BY <1>2 DEF MentionInv, Shape, Following

\* Each component keeps its invariant, in its own steps and, as these depend
\* on nothing that others change, in theirs.
LEMMA RecordsStep == ASSUME RecordsInv, [RecordsNext]_recordsVars PROVE RecordsInv'
<1>1. /\ [NumberingNext]_numberingVars /\ [DirectoryNext]_directoryVars /\ [AvatarNext]_avatarVars
      /\ [QueryNext]_queryVars /\ [DraftNext]_draftVars /\ [FilesNext]_filesVars
      /\ [HistoryNext]_historyVars /\ [MentionNext]_mentionVars /\ [RenderingNext]_renderVars
      /\ [MigrationNext]_migrationVars /\ [HealthNext]_healthVars
  BY RecordsSteps
<1>2. NumberingTypeOK' /\ DirectoryInv' /\ AvatarInv'
  BY <1>1, NumberingAssumption, DirectoryAssumption, AvatarAssumption, NextTypes, DirectoryInvNext, AvatarStep
  DEF RecordsInv
<1>3. QueryInv' /\ DraftInv' /\ FilesInv'
  BY <1>1, QueryAssumption, DraftAssumption, FilesAssumption, QueryStep, DraftInvNext, FilesInvNext DEF RecordsInv
<1>4. HistoryInv' /\ MentionInv' /\ RendersInv'
  BY <1>1, HistoryAssumption, RenderingAssumption, HistoryInvNext, MentionsKeep, RendersStep DEF RecordsInv
<1>5. MigrationInv' /\ HealthInv'
  BY <1>1, MigrationsStep, HealthStep DEF RecordsInv
<1> QED BY <1>2, <1>3, <1>4, <1>5 DEF RecordsInv

\* Every value that the eleven components around the issue table ever hold has
\* the shape that the code gives it: rows, requests at each of their steps,
\* answers, renderings and what readers were told; for any bounds.
THEOREM RecordsTyped == RecordsSpec => []RecordsTypeOK
<1>1. RecordsInv => RecordsTypeOK
  BY QueryAssumption, RenderingAssumption, QueryTyped, RenderingTyped, HealthTyped
  DEF RecordsInv, RecordsTypeOK, DirectoryInv, AvatarInv, DraftInv, FilesInv, HistoryInv, MentionInv, MigrationInv
<1> QED BY <1>1, RecordsStart, RecordsStep, PTL DEF RecordsSpec
=============================================================================
