----------------------------- MODULE MCRecords -----------------------------
(***************************************************************************)
(* The components around the issue table, checked in one run.  They share  *)
(* no state: a behaviour is one of any of them, while the others stay as   *)
(* they were initially.                                                    *)
(***************************************************************************)
EXTENDS IssueNumbering, Directory, ProfileAvatar, IssueQueries, DraftAttachments,
        AttachmentFiles, IssueHistory, CommentMentions, MarkdownRendering,
        DataMigrations, HealthChecks, TLC

VARIABLE part  \* the component that takes steps

recordsVars == <<part, numberingVars, directoryVars, avatarVars, queryVars,
                 draftVars, filesVars, historyVars, mentionVars, renderVars,
                 migrationVars, healthVars>>

RecordsInit ==
  /\ part \in {"numbering", "directory", "avatar", "query", "draft",
               "files", "history", "mention", "rendering", "migration", "health"}
  /\ NumberingInit /\ DirectoryInit /\ AvatarInit /\ QueryInit /\ DraftInit
  /\ FilesInit /\ HistoryInit /\ MentionInit /\ RenderingInit
  /\ MigrationInit /\ HealthInit
  /\ part # "history" => record.state = CHOOSE state \in States : TRUE
  /\ part # "health" => \A e \in Endpoints : world.endpoint[e] = "off"
  /\ part # "migration" => \A i \in TaskIds : tasks[i].created = 0 /\ tasks[i].state = "NEW"
  /\ part # "mention" => \A p \in People : people[p] = Away

RecordsNext ==
  /\ UNCHANGED part
  /\ \/ /\ part = "numbering" /\ NumberingNext
        /\ UNCHANGED <<directoryVars, avatarVars, queryVars, draftVars, filesVars,
                       historyVars, mentionVars, renderVars, migrationVars, healthVars>>
     \/ /\ part = "directory" /\ DirectoryNext
        /\ UNCHANGED <<numberingVars, avatarVars, queryVars, draftVars, filesVars,
                       historyVars, mentionVars, renderVars, migrationVars, healthVars>>
     \/ /\ part = "avatar" /\ AvatarNext
        /\ UNCHANGED <<numberingVars, directoryVars, queryVars, draftVars, filesVars,
                       historyVars, mentionVars, renderVars, migrationVars, healthVars>>
     \/ /\ part = "query" /\ QueryNext
        /\ UNCHANGED <<numberingVars, directoryVars, avatarVars, draftVars, filesVars,
                       historyVars, mentionVars, renderVars, migrationVars, healthVars>>
     \/ /\ part = "draft" /\ DraftNext
        /\ UNCHANGED <<numberingVars, directoryVars, avatarVars, queryVars, filesVars,
                       historyVars, mentionVars, renderVars, migrationVars, healthVars>>
     \/ /\ part = "files" /\ FilesNext
        /\ UNCHANGED <<numberingVars, directoryVars, avatarVars, queryVars, draftVars,
                       historyVars, mentionVars, renderVars, migrationVars, healthVars>>
     \/ /\ part = "history" /\ HistoryNext
        /\ UNCHANGED <<numberingVars, directoryVars, avatarVars, queryVars, draftVars,
                       filesVars, mentionVars, renderVars, migrationVars, healthVars>>
     \/ /\ part = "mention" /\ MentionNext
        /\ UNCHANGED <<numberingVars, directoryVars, avatarVars, queryVars, draftVars,
                       filesVars, historyVars, renderVars, migrationVars, healthVars>>
     \/ /\ part = "rendering" /\ RenderingNext
        /\ UNCHANGED <<numberingVars, directoryVars, avatarVars, queryVars, draftVars,
                       filesVars, historyVars, mentionVars, migrationVars, healthVars>>
     \/ /\ part = "migration" /\ MigrationNext
        /\ UNCHANGED <<numberingVars, directoryVars, avatarVars, queryVars, draftVars,
                       filesVars, historyVars, mentionVars, renderVars, healthVars>>
     \/ /\ part = "health" /\ HealthNext
        /\ UNCHANGED <<numberingVars, directoryVars, avatarVars, queryVars, draftVars,
                       filesVars, historyVars, mentionVars, renderVars, migrationVars>>

RecordsSpec == RecordsInit /\ [][RecordsNext]_recordsVars

\* The shape of every component's state.
RecordsTypeOK ==
  /\ NumberingTypeOK /\ DirectoryTypeOK /\ AvatarTypeOK /\ QueryTypeOK /\ DraftTypeOK
  /\ FilesTypeOK /\ HistoryTypeOK /\ MentionTypeOK /\ RenderingTypeOK
  /\ MigrationTypeOK /\ HealthTypeOK

\* Columns of the board, and rows that differ in what the filters look at.
Columns == <<"New", "Closed">>
Shapes ==
  {[state |-> s, priority |-> p, pos |-> 1 - p, user |-> IF e THEN "ann" ELSE Nothing,
    escalated |-> e, age |-> a, archived |-> FALSE] :
     s \in WorkflowStates, p \in {0, 1}, e \in BOOLEAN, a \in {0, 1}}
  \cup {[state |-> "New", priority |-> 0, pos |-> 1, user |-> "ann",
         escalated |-> TRUE, age |-> 0, archived |-> TRUE]}

\* Identities nothing depends on.
Alike == Permutations(Threads) \cup Permutations(Owners)
=============================================================================
