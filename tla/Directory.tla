----------------------------- MODULE Directory -----------------------------
(***************************************************************************)
(* Users, groups, memberships, auto-assignment rules and the instance      *)
(* reset, as superusers manage them through the REST API                   *)
(* (rest_api/api.py, core/controllers).  A request authenticates its       *)
(* caller, loads and validates what it is about, and then writes in        *)
(* transactions of their own: a row as a whole, then the memberships.      *)
(* Requests of several workers interleave between these.                   *)
(***************************************************************************)
EXTENDS FiniteSets, Naturals

CONSTANTS
  Users, Groups,
  RuleStates,    \* workflow states that may have an auto-assignment rule
  Workers,       \* web server workers, each with one request at most
  Root,          \* the superuser that the instance starts with
  Nobody,        \* no user, no row
  MaxRequests    \* bound: requests that write

VARIABLES
  users,        \* [active, super], or Nobody
  groups,       \* the group rows
  members,      \* User.groups, pairs of a user and a group
  rules,        \* [group, user] of each state, or Nobody
  holder,       \* group and user of the one issue, a pair
  requests,     \* what each worker is about to write, or Nobody
  count,
  withdrawn     \* history: memberships that have ended

directoryVars == <<users, groups, members, rules, holder, requests, count, withdrawn>>

UserRow == [active : BOOLEAN, super : BOOLEAN]
RuleRow == [group : Groups, user : Users \cup {Nobody}]
Request == [kind : {"user", "group", "rule", "reset"}, step : {"row", "members"},
            create : BOOLEAN,                       \* inserts its row
            subject : Users \cup Groups \cup RuleStates,
            row : UserRow \cup RuleRow \cup {Nobody},
            set : SUBSET (Users \cup Groups),       \* group_ids, user_ids
            overtaken : BOOLEAN]                    \* history: others wrote since it began

ASSUME DirectoryAssumption ==
  /\ Root \in Users
  /\ Nobody \notin Users \cup Groups \cup UserRow \cup RuleRow \cup Request
  /\ MaxRequests \in Nat

Known(u) == users[u] # Nobody

Superusers == {u \in Users : Known(u) /\ users[u].active /\ users[u].super}

BelongsTo(u, g) == u = Nobody \/ <<u, g>> \in members

Pending(w, kind, step) == requests[w] # Nobody /\ requests[w].kind = kind /\ requests[w].step = step

Written == [v \in Workers |-> IF requests[v] = Nobody THEN Nobody
                              ELSE [requests[v] EXCEPT !.overtaken = TRUE]]

\* _management_mutation_response: the caller is an active superuser, the form
\* is valid, and the request goes on to its first write.
BeginRequest(w, caller, kind, create, subject, row, set) ==
  /\ requests[w] = Nobody
  /\ caller \in Superusers
  /\ count < MaxRequests /\ count' = count + 1
  /\ requests' = [requests EXCEPT
       ![w] = [kind |-> kind, step |-> "row", create |-> create, subject |-> subject,
               row |-> row, set |-> set, overtaken |-> FALSE]]
  /\ UNCHANGED <<users, groups, members, rules, holder, withdrawn>>

\* A write of worker w, after which its request is at the given step or over.
GoesOn(w) == requests' = [Written EXCEPT ![w] = [requests[w] EXCEPT !.step = "members"]]
Ends(w) == requests' = [Written EXCEPT ![w] = Nobody]
Fails(w) ==
  /\ requests' = [requests EXCEPT ![w] = Nobody]
  /\ UNCHANGED <<users, groups, members, rules, holder, withdrawn>>

MembersBecome(M) ==
  /\ members' = M
  /\ withdrawn' = withdrawn \cup (members \ M)
-----------------------------------------------------------------------------
DirectoryInit ==
  /\ users = [u \in Users |-> IF u = Root THEN [active |-> TRUE, super |-> TRUE] ELSE Nobody]
  /\ groups = {}
  /\ members = {}
  /\ rules = [s \in RuleStates |-> Nobody]
  /\ holder = <<Nobody, Nobody>>
  /\ requests = [w \in Workers |-> Nobody]
  /\ count = 0
  /\ withdrawn = {}

\* UserManagementForm cleans a flag that the payload leaves out to False and
\* omitted group_ids to none: any row and set of groups, not what the user had.
UserForm(row, S) == row \in UserRow /\ S \subseteq groups

\* POST /users
CreateUser(w, caller, u, row, S) ==
  /\ ~Known(u) /\ UserForm(row, S)
  /\ BeginRequest(w, caller, "user", TRUE, u, row, S)

\* PUT /users/{id}
UpdateUser(w, caller, u, row, S) ==
  /\ Known(u) /\ UserForm(row, S)
  /\ BeginRequest(w, caller, "user", FALSE, u, row, S)

\* UserController.create and update: the whole row; one that is gone by now is
\* inserted again, one that is to be created must not be there yet.
SaveUser(w) ==
  LET r == requests[w]
  IN /\ Pending(w, "user", "row")
     /\ IF r.create /\ Known(r.subject) THEN Fails(w)
        ELSE /\ users' = [users EXCEPT ![r.subject] = r.row]
             /\ GoesOn(w)
             /\ UNCHANGED <<groups, members, rules, holder, withdrawn>>
     /\ UNCHANGED count

\* user.groups.set
SaveUserGroups(w) ==
  LET r == requests[w]
  IN /\ Pending(w, "user", "members")
     /\ IF Known(r.subject) /\ r.set \subseteq groups
          THEN /\ MembersBecome({m \in members : m[1] # r.subject} \cup ({r.subject} \X r.set))
               /\ Ends(w)
               /\ UNCHANGED <<users, groups, rules, holder>>
          ELSE Fails(w)
     /\ UNCHANGED count

\* DELETE /users/{id}: the row stays, and so do memberships and references.
DeactivateUser(caller, u) ==
  /\ caller \in Superusers /\ Known(u)
  /\ count < MaxRequests /\ count' = count + 1
  /\ users' = [users EXCEPT ![u].active = FALSE]
  /\ requests' = Written
  /\ UNCHANGED <<groups, members, rules, holder, withdrawn>>

\* GroupForm cleans omitted user_ids to none.
GroupForm(S) == \A u \in S : Known(u)

\* POST /groups
CreateGroup(w, caller, g, S) ==
  /\ g \notin groups /\ GroupForm(S)
  /\ BeginRequest(w, caller, "group", TRUE, g, Nobody, S)

\* PUT /groups/{id}
UpdateGroup(w, caller, g, S) ==
  /\ g \in groups /\ GroupForm(S)
  /\ BeginRequest(w, caller, "group", FALSE, g, Nobody, S)

\* GroupController.create and update
SaveGroup(w) ==
  LET r == requests[w]
  IN /\ Pending(w, "group", "row")
     /\ IF r.create /\ r.subject \in groups THEN Fails(w)
        ELSE /\ groups' = groups \cup {r.subject}
             /\ GoesOn(w)
             /\ UNCHANGED <<users, members, rules, holder, withdrawn>>
     /\ UNCHANGED count

\* group.user_set.set
SaveGroupUsers(w) ==
  LET r == requests[w]
  IN /\ Pending(w, "group", "members")
     /\ IF r.subject \in groups /\ \A u \in r.set : Known(u)
          THEN /\ MembersBecome({m \in members : m[2] # r.subject} \cup (r.set \X {r.subject}))
               /\ Ends(w)
               /\ UNCHANGED <<users, groups, rules, holder>>
          ELSE Fails(w)
     /\ UNCHANGED count

Removes(g) ==
  /\ groups' = groups \ {g}
  /\ MembersBecome({m \in members : m[2] # g})
  /\ requests' = Written
  /\ UNCHANGED <<users, rules, holder>>

\* DELETE /groups/{id}: issues and rules protect their group, else its
\* memberships go with it.
DeleteGroup(caller, g) ==
  /\ caller \in Superusers /\ g \in groups
  /\ count < MaxRequests /\ count' = count + 1
  /\ holder[1] # g
  /\ \A s \in RuleStates : rules[s] # Nobody => rules[s].group # g
  /\ Removes(g)

\* Mutant: the form of a rule does not clean it.
RuleFormUnchecked(row) == row.group \in groups /\ (row.user # Nobody => Known(row.user))

\* WorkflowStateAutoAssignmentRuleForm cleans the rule, its save does not.
RuleForm(row) == row.group \in groups /\ BelongsTo(row.user, row.group)

\* POST of a rule
CreateRule(w, caller, s, row) ==
  /\ rules[s] = Nobody /\ RuleForm(row)
  /\ BeginRequest(w, caller, "rule", TRUE, s, row, {})

\* PUT of a rule
UpdateRule(w, caller, s, row) ==
  /\ rules[s] # Nobody /\ RuleForm(row)
  /\ BeginRequest(w, caller, "rule", FALSE, s, row, {})

\* WorkflowStateAutoAssignmentRuleController.create and update
SaveRule(w) ==
  LET r == requests[w]
  IN /\ Pending(w, "rule", "row")
     /\ IF /\ r.create => rules[r.subject] = Nobody
           /\ r.row.group \in groups
           /\ r.row.user # Nobody => Known(r.row.user)
          THEN /\ rules' = [rules EXCEPT ![r.subject] = r.row]
               /\ Ends(w)
               /\ UNCHANGED <<users, groups, members, holder, withdrawn>>
          ELSE Fails(w)
     /\ UNCHANGED count

\* DELETE of a rule
DeleteRule(caller, s) ==
  /\ caller \in Superusers /\ rules[s] # Nobody
  /\ count < MaxRequests /\ count' = count + 1
  /\ rules' = [rules EXCEPT ![s] = Nobody]
  /\ requests' = Written
  /\ UNCHANGED <<users, groups, members, holder, withdrawn>>

\* Somebody gives the issue to a group and user; Issue.clean.
AssignIssue(g, u) ==
  /\ g = Nobody => u = Nobody
  /\ g # Nobody => g \in groups /\ BelongsTo(u, g)
  /\ holder' = <<g, u>>
  /\ UNCHANGED <<users, groups, members, rules, requests, count, withdrawn>>

\* POST /instance-reset
StartReset(w, caller) == BeginRequest(w, caller, "reset", FALSE, caller, Nobody, {})

Clears(w) ==
  /\ rules' = [s \in RuleStates |-> Nobody]
  /\ holder' = <<Nobody, Nobody>>
  /\ groups' = {}
  /\ MembersBecome({})
  /\ Ends(w)
  /\ UNCHANGED count

\* Mutant: preserves nobody.
ResetUsersToo(w) ==
  /\ Pending(w, "reset", "row")
  /\ users' = [u \in Users |-> Nobody]
  /\ Clears(w)

\* InstanceResetController.reset preserves the user that has called it.
ResetDirectory(w) ==
  /\ Pending(w, "reset", "row")
  /\ users' = [u \in Users |-> IF u = requests[w].subject THEN users[u] ELSE Nobody]
  /\ Clears(w)

UserRequests(w) == SaveUser(w) \/ SaveUserGroups(w)

DirectoryNext ==
  \/ \E w \in Workers, c, u \in Users, row \in UserRow, S \in SUBSET groups :
       CreateUser(w, c, u, row, S) \/ UpdateUser(w, c, u, row, S)
  \/ \E w \in Workers, c \in Users, g \in Groups, S \in SUBSET Users :
       CreateGroup(w, c, g, S) \/ UpdateGroup(w, c, g, S)
  \/ \E w \in Workers, c \in Users, s \in RuleStates, row \in RuleRow :
       CreateRule(w, c, s, row) \/ UpdateRule(w, c, s, row)
  \/ \E w \in Workers, c \in Users : StartReset(w, c)
  \/ \E w \in Workers :
       \/ UserRequests(w)
       \/ SaveGroup(w)
       \/ SaveGroupUsers(w)
       \/ SaveRule(w)
       \/ ResetDirectory(w)
  \/ \E c, u \in Users : DeactivateUser(c, u)
  \/ \E c \in Users, g \in Groups : DeleteGroup(c, g)
  \/ \E c \in Users, s \in RuleStates : DeleteRule(c, s)
  \/ \E g \in Groups \cup {Nobody}, u \in Users \cup {Nobody} : AssignIssue(g, u)

DirectorySpec == DirectoryInit /\ [][DirectoryNext]_directoryVars
-----------------------------------------------------------------------------
(* Correctness.                                                            *)

DirectoryTypeOK ==
  /\ users \in [Users -> UserRow \cup {Nobody}]
  /\ groups \subseteq Groups
  /\ members \subseteq Users \X Groups
  /\ rules \in [RuleStates -> RuleRow \cup {Nobody}]
  /\ holder \in (Groups \cup {Nobody}) \X (Users \cup {Nobody})
  /\ requests \in [Workers -> Request \cup {Nobody}]
  /\ count \in 0..MaxRequests
  /\ withdrawn \subseteq Users \X Groups

\* However requests, deletions and resets interleave, memberships, rules and
\* the issue refer to rows that are there (on_delete, and the order in which
\* InstanceResetController.reset deletes).
ReferencesResolve ==
  /\ \A m \in members : Known(m[1]) /\ m[2] \in groups
  /\ \A s \in RuleStates : rules[s] # Nobody =>
       /\ rules[s].group \in groups
       /\ rules[s].user # Nobody => Known(rules[s].user)
  /\ holder[1] # Nobody => holder[1] \in groups
  /\ holder[2] # Nobody => Known(holder[2])

\* A rule is cleaned when its form is validated, saved later, and applied much
\* later: the user it names is a member of its group unless that membership
\* has ended meanwhile.
RulesNameMembers ==
  \A s \in RuleStates : rules[s] # Nobody =>
    \/ BelongsTo(rules[s].user, rules[s].group)
    \/ <<rules[s].user, rules[s].group>> \in withdrawn

\* A user or group that does not exist appears by a request to create it, or
\* by an update that had read it before somebody else's write removed it.
OnlyOvertakenRevive ==
  \A w \in Workers : LET r == requests[w] IN
    SaveUser(w) \/ SaveGroup(w) =>
      \/ r.create \/ r.overtaken
      \/ {u \in Users : Known(u)'} = {u \in Users : Known(u)} /\ groups' = groups

\* The instance loses its last active superuser by what a superuser asked for
\* a user's account, never by deleting groups and rules, and by a reset only
\* if the caller's account was touched after the reset had begun (two resets
\* remove each other's caller).
OnlyAccountRequestsLockOut ==
  Superusers # {} /\ Superusers' = {} =>
    \/ \E w \in Workers : SaveUser(w) \/ (ResetDirectory(w) /\ requests[w].overtaken)
    \/ \E c, u \in Users : DeactivateUser(c, u)

\* Accounts come and go by what was asked for them.
AccountsFollowRequests == [][OnlyOvertakenRevive /\ OnlyAccountRequestsLockOut]_directoryVars

\* Rows refer to rows that are there, and rules to members.
DirectoryIsConsistent == ReferencesResolve /\ RulesNameMembers
=============================================================================
