--------------------------- MODULE IssueNumbering ---------------------------
(***************************************************************************)
(* Issue numbers and the reference data behind them: collections, which    *)
(* own a prefix and the next sequence number, and categories.  An issue is *)
(* numbered under a row lock on its collection (core/models/issue.py);     *)
(* the collection itself is edited by whole-row saves of what a client     *)
(* sends, the next number included (rest_api/api.py).                      *)
(***************************************************************************)
EXTENDS Integers, Sequences

CONSTANTS
  Collections, Categories,  \* rows
  CollectionPrefixes,
  Creators, Editors,        \* clients, with one request each under way at most
  Numbers,                  \* the next numbers that clients ask for
  None,
  MaxIssues,                \* bound: issues ever created
  MaxEdits                  \* bound: requests that write a collection

ASSUME NumberingAssumption ==
  /\ Numbers \subseteq Nat
  /\ MaxIssues \in Nat /\ MaxEdits \in Nat
  /\ None \notin Collections \cup Categories \cup BOOLEAN

VARIABLES
  collections,  \* [prefix, next, active], or None
  categories,   \* whether it is active, or None
  issues,       \* every issue ever created, the deleted ones included
  creators,     \* the collection a form has loaded, and validated, or None
  editors,      \* the row a form has been given for a collection, or None
  edits,
  rewound       \* history: prefixes that were given a next number already used

numberingVars == <<collections, categories, issues, creators, editors, edits, rewound>>

CollectionRow == [prefix : CollectionPrefixes, next : Nat, active : BOOLEAN]
IssueRow == [collection : Collections, category : Categories \cup {None},
             number : CollectionPrefixes \X Nat, live : BOOLEAN]

Exists(c) == collections[c] # None

Used == {issues[i].number : i \in DOMAIN issues}

Taken == {issues[i].number : i \in {j \in DOMAIN issues : issues[j].live}}

NextNumber(row) == <<row.prefix, row.next>>

\* The querysets of IssueBaseForm.
Selectable(c, k) ==
  /\ Exists(c) /\ collections[c].active
  /\ k # None => categories[k] = TRUE

\* The unique constraint on Collection.prefix
PrefixFree(c, p) == \A d \in Collections \ {c} : Exists(d) => collections[d].prefix # p

\* History: row makes a prefix start again at or below a number it has had.
Rewinds(row) == \E u \in Used : u[1] = row.prefix /\ u[2] >= row.next

Store(c, row) ==
  /\ collections' = [collections EXCEPT ![c] = row]
  /\ rewound' = IF Rewinds(row) THEN rewound \cup {row.prefix} ELSE rewound
-----------------------------------------------------------------------------
NumberingInit ==
  /\ collections = [c \in Collections |-> None]
  /\ categories = [k \in Categories |-> None]
  /\ issues = << >>
  /\ creators = [w \in Creators |-> None]
  /\ editors = [e \in Editors |-> None]
  /\ edits = 0
  /\ rewound = {}

\* POST /collections
CreateCollection(c, p, n, a) ==
  /\ ~Exists(c) /\ PrefixFree(c, p)
  /\ edits < MaxEdits /\ edits' = edits + 1
  /\ Store(c, [prefix |-> p, next |-> n, active |-> a])
  /\ UNCHANGED <<categories, issues, creators, editors>>

\* A client that wants to change the name or prefix of a collection sends back
\* the next number it has read, or, like the n8n node, one of its own; an
\* omitted is_active is taken from the row.
StartCollectionEdit(e, c) ==
  /\ editors[e] = None /\ Exists(c)
  /\ edits < MaxEdits /\ edits' = edits + 1
  /\ \E p \in CollectionPrefixes, n \in Numbers \cup {collections[c].next}, a \in BOOLEAN :
       /\ PrefixFree(c, p)
       /\ editors' = [editors EXCEPT
            ![e] = [collection |-> c, row |-> [prefix |-> p, next |-> n, active |-> a]]]
  /\ UNCHANGED <<collections, categories, issues, creators, rewound>>

\* CollectionController.update saves every column.  A row that is gone by then
\* is inserted again; a prefix that is taken by then fails the request.
SaveCollectionEdit(e) ==
  /\ editors[e] # None
  /\ editors' = [editors EXCEPT ![e] = None]
  /\ IF PrefixFree(editors[e].collection, editors[e].row.prefix)
       THEN Store(editors[e].collection, editors[e].row)
       ELSE UNCHANGED <<collections, rewound>>
  /\ UNCHANGED <<categories, issues, creators, edits>>

\* The admin may delete a collection that no issue refers to (PROTECT).
DeleteCollection(c) ==
  /\ Exists(c)
  /\ \A i \in DOMAIN issues : issues[i].live => issues[i].collection # c
  /\ collections' = [collections EXCEPT ![c] = None]
  /\ UNCHANGED <<categories, issues, creators, editors, edits, rewound>>

\* POST and PUT /categories
WriteCategory(k, a) ==
  /\ edits < MaxEdits /\ edits' = edits + 1
  /\ categories' = [categories EXCEPT ![k] = a]
  /\ UNCHANGED <<collections, issues, creators, editors, rewound>>

\* The form of create_issue has loaded the collection and found it active.
StartIssue(w, c, k) ==
  /\ creators[w] = None
  /\ Len(issues) < MaxIssues
  /\ Selectable(c, k)
  /\ creators' = [creators EXCEPT ![w] = [collection |-> c, category |-> k, row |-> collections[c]]]
  /\ UNCHANGED <<collections, categories, issues, editors, edits, rewound>>

\* full_clean asks for the referenced rows again.
ReferencesExist(w) ==
  /\ Exists(creators[w].collection)
  /\ creators[w].category # None => categories[creators[w].category] # None

NewIssue(w, number) ==
  Append(issues, [collection |-> creators[w].collection, category |-> creators[w].category,
                  number |-> number, live |-> TRUE])

\* Mutant: trusts the row that the form has loaded.
NumberIssueUnlocked(w) ==
  LET c == creators[w].collection
      row == creators[w].row
  IN /\ creators[w] # None
     /\ ReferencesExist(w) /\ NextNumber(row) \notin Taken
     /\ Len(issues) < MaxIssues
     /\ issues' = NewIssue(w, NextNumber(row))
     /\ collections' = [collections EXCEPT ![c].next = row.next + 1]
     /\ creators' = [creators EXCEPT ![w] = None]
     /\ UNCHANGED <<categories, editors, edits, rewound>>

\* Issue.save under the row lock: the number of the row as it is by now.
NumberIssue(w) ==
  LET c == creators[w].collection
      row == collections[c]
  IN /\ creators[w] # None
     /\ ReferencesExist(w) /\ NextNumber(row) \notin Taken
     /\ Len(issues) < MaxIssues
     /\ issues' = NewIssue(w, NextNumber(row))
     /\ collections' = [collections EXCEPT ![c].next = @ + 1]
     /\ creators' = [creators EXCEPT ![w] = None]
     /\ UNCHANGED <<categories, editors, edits, rewound>>

\* The number is taken (issue_number is unique), or a referenced row is gone:
\* the transaction is rolled back, the incremented next number with it.
RefuseIssue(w) ==
  LET c == creators[w].collection
  IN /\ creators[w] # None
     /\ ReferencesExist(w) => NextNumber(collections[c]) \in Taken
     /\ creators' = [creators EXCEPT ![w] = None]
     /\ UNCHANGED <<collections, categories, issues, editors, edits, rewound>>

\* An update may move an issue to another collection; it keeps its number.  The
\* form refuses it while its collection or category is inactive.
UpdateIssueReferences(i, c, k) ==
  /\ issues[i].live /\ Selectable(c, k)
  /\ issues' = [issues EXCEPT ![i].collection = c, ![i].category = k]
  /\ UNCHANGED <<collections, categories, creators, editors, edits, rewound>>

\* IssueAdmin
DeleteIssue(i) ==
  /\ issues[i].live
  /\ issues' = [issues EXCEPT ![i].live = FALSE]
  /\ UNCHANGED <<collections, categories, creators, editors, edits, rewound>>

\* The part of InstanceResetController.reset that deletes issues and reference data.
ResetIssues ==
  /\ \E c \in Collections : Exists(c)
  /\ issues' = [i \in DOMAIN issues |-> [issues[i] EXCEPT !.live = FALSE]]
  /\ collections' = [c \in Collections |-> None]
  /\ categories' = [k \in Categories |-> None]
  /\ UNCHANGED <<creators, editors, edits, rewound>>

AdministerCollections ==
  \/ \E c \in Collections, p \in CollectionPrefixes, n \in Numbers, a \in BOOLEAN : CreateCollection(c, p, n, a)
  \/ \E e \in Editors, c \in Collections : StartCollectionEdit(e, c)
  \/ \E e \in Editors : SaveCollectionEdit(e)
  \/ \E c \in Collections : DeleteCollection(c)
  \/ \E k \in Categories, a \in BOOLEAN : WriteCategory(k, a)
  \/ \E i \in DOMAIN issues : DeleteIssue(i)
  \/ ResetIssues

NumberingNext ==
  \/ AdministerCollections
  \/ \E w \in Creators, c \in Collections, k \in Categories \cup {None} : StartIssue(w, c, k)
  \/ \E w \in Creators : NumberIssue(w) \/ RefuseIssue(w)
  \/ \E i \in DOMAIN issues, c \in Collections, k \in Categories \cup {None} :
       UpdateIssueReferences(i, c, k)

NumberingSpec == NumberingInit /\ [][NumberingNext]_numberingVars
-----------------------------------------------------------------------------
(* Correctness.                                                            *)

NumberingTypeOK ==
  /\ collections \in [Collections -> CollectionRow \cup {None}]
  /\ categories \in [Categories -> BOOLEAN \cup {None}]
  /\ issues \in Seq(IssueRow)
  /\ creators \in [Creators -> [collection : Collections, category : Categories \cup {None},
                                row : CollectionRow] \cup {None}]
  /\ editors \in [Editors -> [collection : Collections, row : CollectionRow] \cup {None}]
  /\ edits \in 0..MaxEdits
  /\ rewound \subseteq CollectionPrefixes

\* An issue number is never given twice, not even after its issue was deleted
\* or its collection renamed, unless a write of the collection has set the next
\* number of that prefix back, as a stale edit of another column does: creations
\* that overlap do not repeat a number by themselves (Issue.save).
NumbersNeverRepeat ==
  \A i, j \in DOMAIN issues :
    issues[i].number = issues[j].number => i = j \/ issues[i].number[1] \in rewound

\* A creation is refused for its number only after such an edit.
OnlyRewindsRefuse ==
  \A c \in Collections :
    Exists(c) /\ NextNumber(collections[c]) \in Taken => collections[c].prefix \in rewound

\* Issue.save under its row lock: numbers are fresh, and where one would not be,
\* somebody has set it back.
NumbersAreFresh == NumbersNeverRepeat /\ OnlyRewindsRefuse
=============================================================================
