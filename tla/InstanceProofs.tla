--------------------------- MODULE InstanceProofs ---------------------------
(***************************************************************************)
(* Theorems about what the issues of an instance refer to and about its    *)
(* operation, for any number of collections, users, groups, requests,      *)
(* uploads, issues and endpoints: numbers are given out once               *)
(* (IssueNumbering), users, groups and rules fit each other (Directory),   *)
(* avatars follow profiles (ProfileAvatar), data migrations keep the board *)
(* (DataMigrations), health checks answer truly (HealthChecks), and lists  *)
(* are of what their parameters ask for (IssueQueries).                    *)
(***************************************************************************)
EXTENDS IssueNumbering, Directory, ProfileAvatar, IssueQueries, DataMigrations, HealthChecks,
        FiniteSetTheorems, TLAPS

-----------------------------------------------------------------------------
(* Issue numbers.                                                          *)

\* No two collections have the same prefix.
PrefixesDiffer ==
  \A c, d \in Collections :
    Exists(c) /\ Exists(d) /\ collections[c].prefix = collections[d].prefix => c = d

\* What a collection with this row gives next lies above all its prefix has had.
Ahead(row) ==
  row.prefix \in rewound \/ \A u \in Used : u[1] = row.prefix => u[2] < row.next

\* The invariant: each collection is ahead, unless its prefix was rewound.
NumberingInv ==
  /\ NumberingTypeOK
  /\ PrefixesDiffer
  /\ \A c \in Collections : Exists(c) => Ahead(collections[c])
  /\ NumbersNeverRepeat

-----------------------------------------------------------------------------
(* Types.                                                                  *)

\* There is no row yet.
LEMMA InitialTypes == ASSUME NumberingAssumption, NumberingInit PROVE NumberingTypeOK
  BY DEF NumberingAssumption, NumberingInit, NumberingTypeOK

\* A sequence whose elements are replaced by others of the set is still one of the set.
LEMMA SequenceOf ==
  ASSUME NEW S, NEW s \in Seq(S), NEW t \in [DOMAIN s -> S]
  PROVE  t \in Seq(S)
<1>1. DOMAIN s = 1..Len(s) /\ Len(s) \in Nat OBVIOUS
<1>2. t \in [1..Len(s) -> S] BY <1>1
<1> QED BY <1>1, <1>2

\* Storing a row keeps the types of what it writes.
LEMMA StoreTypes ==
  ASSUME NumberingTypeOK, NEW c \in Collections, NEW row \in CollectionRow, Store(c, row)
  PROVE  /\ collections' \in [Collections -> CollectionRow \cup {None}]
         /\ rewound' \subseteq CollectionPrefixes
  BY DEF NumberingTypeOK, Store, CollectionRow

\* Every step keeps the types.
LEMMA NextTypes ==
  ASSUME NumberingAssumption, NumberingTypeOK, [NumberingNext]_numberingVars
  PROVE  NumberingTypeOK'
<1>1. CASE \E c \in Collections, p \in CollectionPrefixes, n \in Numbers, a \in BOOLEAN :
             CreateCollection(c, p, n, a)
  <2>1. PICK c \in Collections, p \in CollectionPrefixes, n \in Numbers, a \in BOOLEAN :
               CreateCollection(c, p, n, a)
    BY <1>1
  <2>2. [prefix |-> p, next |-> n, active |-> a] \in CollectionRow
    BY NumberingAssumption DEF NumberingAssumption, CollectionRow
  <2>3. /\ collections' \in [Collections -> CollectionRow \cup {None}]
        /\ rewound' \subseteq CollectionPrefixes
    BY <2>1, <2>2, StoreTypes DEF CreateCollection
  <2> QED BY <2>1, <2>3, NumberingAssumption
          DEF NumberingAssumption, NumberingTypeOK, CreateCollection
<1>2. CASE \E e \in Editors, c \in Collections : StartCollectionEdit(e, c)
  <2>1. PICK e \in Editors, c \in Collections : StartCollectionEdit(e, c)
    BY <1>2
  <2>2. collections[c] \in CollectionRow
    BY <2>1 DEF StartCollectionEdit, NumberingTypeOK, Exists
  <2>3. PICK p \in CollectionPrefixes, n \in Numbers \cup {collections[c].next}, a \in BOOLEAN :
          editors' = [editors EXCEPT
            ![e] = [collection |-> c, row |-> [prefix |-> p, next |-> n, active |-> a]]]
    BY <2>1 DEF StartCollectionEdit
  <2>4. [prefix |-> p, next |-> n, active |-> a] \in CollectionRow
    BY <2>2, NumberingAssumption DEF NumberingAssumption, CollectionRow
  <2>5. editors' \in [Editors -> [collection : Collections, row : CollectionRow] \cup {None}]
    BY <2>3, <2>4 DEF NumberingTypeOK
  <2> QED BY <2>1, <2>5, NumberingAssumption
          DEF NumberingAssumption, NumberingTypeOK, StartCollectionEdit
<1>3. CASE \E e \in Editors : SaveCollectionEdit(e)
  <2>1. PICK e \in Editors : SaveCollectionEdit(e)
    BY <1>3
  <2>2. editors[e].collection \in Collections /\ editors[e].row \in CollectionRow
    BY <2>1 DEF SaveCollectionEdit, NumberingTypeOK
  <2>3. /\ collections' \in [Collections -> CollectionRow \cup {None}]
        /\ rewound' \subseteq CollectionPrefixes
    BY <2>1, <2>2, StoreTypes DEF SaveCollectionEdit, NumberingTypeOK
  <2> QED BY <2>1, <2>3 DEF NumberingTypeOK, SaveCollectionEdit
<1>4. CASE \E c \in Collections : DeleteCollection(c)
  BY <1>4 DEF DeleteCollection, NumberingTypeOK
<1>5. CASE \E k \in Categories, a \in BOOLEAN : WriteCategory(k, a)
  BY <1>5, NumberingAssumption DEF NumberingAssumption, WriteCategory, NumberingTypeOK
<1>6. CASE \E i \in DOMAIN issues : DeleteIssue(i)
  <2>1. PICK i \in DOMAIN issues : DeleteIssue(i)
    BY <1>6
  <2>2. \A j \in DOMAIN issues : issues[j] \in IssueRow
    BY DEF NumberingTypeOK
  <2>3. [issues[i] EXCEPT !.live = FALSE] \in IssueRow
    BY <2>2 DEF IssueRow
  <2>4. issues' \in [DOMAIN issues -> IssueRow]
    BY <2>1, <2>2, <2>3 DEF DeleteIssue
  <2>5. issues' \in Seq(IssueRow)
    BY <2>4, SequenceOf DEF NumberingTypeOK
  <2> QED BY <2>1, <2>5 DEF DeleteIssue, NumberingTypeOK
<1>7. CASE ResetIssues
  <2>1. \A j \in DOMAIN issues : issues[j] \in IssueRow
    BY DEF NumberingTypeOK
  <2>2. \A j \in DOMAIN issues : [issues[j] EXCEPT !.live = FALSE] \in IssueRow
    BY <2>1 DEF IssueRow
  <2>3. issues' \in [DOMAIN issues -> IssueRow]
    BY <1>7, <2>2 DEF ResetIssues
  <2>4. issues' \in Seq(IssueRow)
    BY <2>3, SequenceOf DEF NumberingTypeOK
  <2> QED BY <1>7, <2>4 DEF ResetIssues, NumberingTypeOK
<1>8. CASE \E w \in Creators, c \in Collections, k \in Categories \cup {None} : StartIssue(w, c, k)
  <2>1. PICK w \in Creators, c \in Collections, k \in Categories \cup {None} : StartIssue(w, c, k)
    BY <1>8
  <2>2. collections[c] \in CollectionRow
    BY <2>1 DEF StartIssue, Selectable, NumberingTypeOK, Exists
  <2> QED BY <2>1, <2>2 DEF StartIssue, NumberingTypeOK
<1>9. CASE \E w \in Creators : NumberIssue(w)
  <2>1. PICK w \in Creators : NumberIssue(w)
    BY <1>9
  <2> DEFINE c == creators[w].collection
  <2>2. /\ c \in Collections /\ creators[w].category \in Categories \cup {None}
        /\ collections[c] \in CollectionRow
    BY <2>1 DEF NumberIssue, ReferencesExist, NumberingTypeOK, Exists
  <2>3. issues' \in Seq(IssueRow)
    BY <2>1, <2>2 DEF NumberIssue, NewIssue, NextNumber, NumberingTypeOK, IssueRow, CollectionRow
  <2>4. collections' \in [Collections -> CollectionRow \cup {None}]
    BY <2>1, <2>2 DEF NumberIssue, NumberingTypeOK, CollectionRow
  <2> QED BY <2>1, <2>3, <2>4 DEF NumberIssue, NumberingTypeOK
<1>10. CASE \E w \in Creators : RefuseIssue(w)
  BY <1>10 DEF RefuseIssue, NumberingTypeOK
<1>11. CASE \E i \in DOMAIN issues, c \in Collections, k \in Categories \cup {None} :
              UpdateIssueReferences(i, c, k)
  <2>1. PICK i \in DOMAIN issues, c \in Collections, k \in Categories \cup {None} :
               UpdateIssueReferences(i, c, k)
    BY <1>11
  <2>2. \A j \in DOMAIN issues : issues[j] \in IssueRow
    BY DEF NumberingTypeOK
  <2>3. [issues[i] EXCEPT !.collection = c, !.category = k] \in IssueRow
    BY <2>2 DEF IssueRow
  <2>4. issues' \in [DOMAIN issues -> IssueRow]
    BY <2>1, <2>2, <2>3 DEF UpdateIssueReferences
  <2>5. issues' \in Seq(IssueRow)
    BY <2>4, SequenceOf DEF NumberingTypeOK
  <2> QED BY <2>1, <2>5 DEF UpdateIssueReferences, NumberingTypeOK
<1>12. CASE UNCHANGED numberingVars
  BY <1>12 DEF numberingVars, NumberingTypeOK
<1> QED BY <1>1, <1>2, <1>3, <1>4, <1>5, <1>6, <1>7, <1>8, <1>9, <1>10, <1>11, <1>12
        DEF NumberingNext, AdministerCollections

(* The collections and issues have the shape that NumberingTypeOK says, and
   numbers are only added, whatever the collections' rows become. *)
THEOREM NumberingTyped == ASSUME NumberingAssumption PROVE NumberingSpec => []NumberingTypeOK
<1>1. NumberingInit => NumberingTypeOK BY InitialTypes
<1>2. NumberingTypeOK /\ [NumberingNext]_numberingVars => NumberingTypeOK' BY NextTypes
<1> QED BY <1>1, <1>2, PTL DEF NumberingSpec

-----------------------------------------------------------------------------
(* Numbers.                                                                *)

\* An existing collection has a row, and an issue a number of the right types.
LEMMA Rows ==
  ASSUME NumberingTypeOK
  PROVE  /\ \A c \in Collections : Exists(c) => collections[c] \in CollectionRow
         /\ \A i \in DOMAIN issues : issues[i].number \in CollectionPrefixes \X Nat
         /\ \A u \in Used : u \in CollectionPrefixes \X Nat
<1>1. \A i \in DOMAIN issues : issues[i] \in IssueRow
  BY DEF NumberingTypeOK
<1>2. \A i \in DOMAIN issues : issues[i].number \in CollectionPrefixes \X Nat
  BY <1>1 DEF IssueRow
<1> QED BY <1>2 DEF NumberingTypeOK, Exists, Used

\* A step that writes neither a number nor a row of a collection, other than by
\* deleting it, keeps the invariant.
LEMMA KeepsRows ==
  ASSUME NumberingInv, NumberingTypeOK', rewound' = rewound,
         \A c \in Collections : collections'[c] \in {collections[c], None},
         DOMAIN issues' = DOMAIN issues,
         \A i \in DOMAIN issues : issues'[i].number = issues[i].number
  PROVE  NumberingInv'
<1>1. Used' = Used BY DEF Used
<1>2. PrefixesDiffer' BY DEF NumberingInv, PrefixesDiffer, Exists
<1>3. ASSUME NEW c \in Collections, Exists(c)' PROVE Ahead(collections[c])'
  <2>1. Exists(c) /\ collections'[c] = collections[c] BY <1>3 DEF Exists
  <2> QED BY <2>1, <1>1 DEF NumberingInv, Ahead
<1>4. NumbersNeverRepeat' BY DEF NumberingInv, NumbersNeverRepeat
<1> QED BY <1>2, <1>3, <1>4 DEF NumberingInv

\* A row that is stored under a free prefix is ahead, or its prefix becomes rewound.
LEMMA StoresAhead ==
  ASSUME NumberingInv, NumberingTypeOK', issues' = issues,
         NEW c \in Collections, NEW row \in CollectionRow,
         PrefixFree(c, row.prefix), Store(c, row)
  PROVE  NumberingInv'
<1>1. Used' = Used /\ rewound \subseteq rewound' BY DEF Used, Store
<1>2. collections'[c] = row /\ \A d \in Collections \ {c} : collections'[d] = collections[d]
  BY DEF Store, NumberingInv, NumberingTypeOK
<1>3. PrefixesDiffer'
  BY <1>2 DEF NumberingInv, PrefixesDiffer, PrefixFree, Exists
<1>4. ASSUME NEW d \in Collections, Exists(d)' PROVE Ahead(collections[d])'
  <2>1. CASE d = c
    <3>1. CASE Rewinds(row)
      BY <3>1, <2>1, <1>2 DEF Store, Ahead
    <3>2. CASE ~Rewinds(row)
      <4>1. \A u \in Used : u[2] \in Nat BY Rows DEF NumberingInv
      <4>2. row.next \in Nat BY DEF CollectionRow
      <4>3. \A u \in Used : u[1] = row.prefix => u[2] < row.next
        BY <3>2, <4>1, <4>2 DEF Rewinds
      <4> QED BY <4>3, <2>1, <1>1, <1>2 DEF Ahead
    <3> QED BY <3>1, <3>2
  <2>2. CASE d # c
    <3>1. Exists(d) /\ collections'[d] = collections[d] BY <2>2, <1>2, <1>4 DEF Exists
    <3>2. Ahead(collections[d]) BY <3>1 DEF NumberingInv
    <3> QED BY <3>1, <3>2, <1>1 DEF Ahead
  <2> QED BY <2>1, <2>2
<1>5. NumbersNeverRepeat' BY <1>1 DEF NumberingInv, NumbersNeverRepeat
<1> QED BY <1>3, <1>4, <1>5 DEF NumberingInv

\* Giving the number of the row as it is by now keeps the invariant: under any
\* prefix that was not rewound the number is new, and no other collection's.
LEMMA NumbersAhead ==
  ASSUME NumberingInv, NumberingTypeOK', NEW w \in Creators, NumberIssue(w)
  PROVE  NumberingInv'
<1> DEFINE c == creators[w].collection
           row == collections[c]
           number == NextNumber(row)
<1>1. c \in Collections /\ Exists(c)
  BY DEF NumberIssue, ReferencesExist, NumberingInv, NumberingTypeOK
<1>2. row \in CollectionRow BY <1>1, Rows DEF NumberingInv
<1>3. number[1] = row.prefix /\ number[2] = row.next /\ row.next \in Nat
  BY <1>2 DEF NextNumber, CollectionRow
<1>4. /\ DOMAIN issues' = DOMAIN issues \cup {Len(issues) + 1}
      /\ Len(issues) + 1 \notin DOMAIN issues
      /\ issues'[Len(issues) + 1].number = number
      /\ \A i \in DOMAIN issues : issues'[i] = issues[i]
  <2> DEFINE issue == [collection |-> creators[w].collection, category |-> creators[w].category,
                       number |-> number, live |-> TRUE]
  <2>1. issues \in Seq(IssueRow) BY DEF NumberingInv, NumberingTypeOK
  <2>2. issues' = Append(issues, issue) BY DEF NumberIssue, NewIssue
  <2> HIDE DEF issue
  <2>3. /\ DOMAIN issues' = DOMAIN issues \cup {Len(issues) + 1}
        /\ Len(issues) + 1 \notin DOMAIN issues
        /\ issues'[Len(issues) + 1] = issue
        /\ \A i \in DOMAIN issues : issues'[i] = issues[i]
    BY <2>1, <2>2
  <2>4. issue.number = number BY DEF issue
  <2> QED BY <2>3, <2>4
<1>5. Used' = Used \cup {number} BY <1>4 DEF Used
<1>6. rewound' = rewound BY DEF NumberIssue
<1>7. /\ collections'[c] = [row EXCEPT !.next = @ + 1]
      /\ \A d \in Collections \ {c} : collections'[d] = collections[d]
  BY <1>1 DEF NumberIssue, NumberingInv, NumberingTypeOK
<1>8. collections'[c].prefix = row.prefix /\ collections'[c].next = row.next + 1
  BY <1>2, <1>7 DEF CollectionRow
<1> HIDE DEF number, row, c
<1>9. row.prefix \in rewound \/ \A u \in Used : u[1] = row.prefix => u[2] < row.next
  BY <1>1 DEF NumberingInv, Ahead, row
<1>10. \A u \in Used : u[2] \in Nat BY Rows DEF NumberingInv
<1>11. PrefixesDiffer'
  <2> SUFFICES ASSUME NEW d \in Collections, NEW e \in Collections, Exists(d)', Exists(e)',
                      collections'[d].prefix = collections'[e].prefix
               PROVE  d = e
    BY DEF PrefixesDiffer
  <2>1. \A f \in {d, e} : Exists(f) /\ collections'[f].prefix = collections[f].prefix
    BY <1>1, <1>7, <1>8 DEF Exists, row
  <2> QED BY <2>1 DEF NumberingInv, PrefixesDiffer
<1>12. ASSUME NEW d \in Collections, Exists(d)' PROVE Ahead(collections[d])'
  <2>1. CASE d = c
    <3>1. CASE row.prefix \in rewound BY <3>1, <2>1, <1>6, <1>8 DEF Ahead
    <3>2. CASE \A u \in Used : u[1] = row.prefix => u[2] < row.next
      <4>1. \A u \in Used : u[1] = row.prefix => u[2] < row.next + 1
        BY <3>2, <1>3, <1>10
      <4>2. number[2] < row.next + 1 BY <1>3
      <4> QED BY <4>1, <4>2, <2>1, <1>5, <1>8 DEF Ahead
    <3> QED BY <3>1, <3>2, <1>9
  <2>2. CASE d # c
    <3>1. Exists(d) /\ collections'[d] = collections[d] BY <2>2, <1>7, <1>12 DEF Exists
    <3>2. collections[d].prefix # row.prefix
      BY <3>1, <2>2, <1>1 DEF NumberingInv, PrefixesDiffer, row
    <3>3. Ahead(collections[d]) BY <3>1 DEF NumberingInv
    <3> QED BY <3>1, <3>2, <3>3, <1>3, <1>5, <1>6 DEF Ahead
  <2> QED BY <2>1, <2>2
<1>13. NumbersNeverRepeat'
  <2>1. number \notin Used \/ number[1] \in rewound
    BY <1>3, <1>9, <1>10
  <2>2. \A i \in DOMAIN issues : issues[i].number = number => number[1] \in rewound
    BY <2>1 DEF Used
  <2> QED BY <2>2, <1>4, <1>6 DEF NumberingInv, NumbersNeverRepeat
<1> QED BY <1>11, <1>12, <1>13 DEF NumberingInv

\* Every step stores a row, gives a number, or writes neither.
LEMMA NumberingStep ==
  ASSUME NumberingAssumption, NumberingInv, [NumberingNext]_numberingVars
  PROVE  NumberingInv'
<1>0. NumberingTypeOK /\ NumberingTypeOK'
  BY NextTypes DEF NumberingInv
<1>1. CASE \E c \in Collections, p \in CollectionPrefixes, n \in Numbers, a \in BOOLEAN :
             CreateCollection(c, p, n, a)
  <2>1. PICK c \in Collections, p \in CollectionPrefixes, n \in Numbers, a \in BOOLEAN :
               CreateCollection(c, p, n, a)
    BY <1>1
  <2> DEFINE row == [prefix |-> p, next |-> n, active |-> a]
  <2>2. row \in CollectionRow /\ row.prefix = p
    BY NumberingAssumption DEF NumberingAssumption, CollectionRow
  <2>3. PrefixFree(c, row.prefix) /\ Store(c, row) /\ issues' = issues
    BY <2>1, <2>2 DEF CreateCollection
  <2> HIDE DEF row
  <2> QED BY <2>2, <2>3, <1>0, StoresAhead
<1>2. CASE \E e \in Editors : SaveCollectionEdit(e)
  <2>1. PICK e \in Editors : SaveCollectionEdit(e)
    BY <1>2
  <2>2. editors[e].collection \in Collections /\ editors[e].row \in CollectionRow
    BY <2>1, <1>0 DEF SaveCollectionEdit, NumberingTypeOK
  <2>3. issues' = issues BY <2>1 DEF SaveCollectionEdit
  <2>4. CASE PrefixFree(editors[e].collection, editors[e].row.prefix)
    <3>1. Store(editors[e].collection, editors[e].row) BY <2>1, <2>4 DEF SaveCollectionEdit
    <3> QED BY <3>1, <2>2, <2>3, <2>4, <1>0, StoresAhead
  <2>5. CASE ~PrefixFree(editors[e].collection, editors[e].row.prefix)
    <3>1. UNCHANGED <<collections, rewound>> BY <2>1, <2>5 DEF SaveCollectionEdit
    <3> QED BY <3>1, <2>3, <1>0, KeepsRows
  <2> QED BY <2>4, <2>5
<1>3. CASE \E w \in Creators : NumberIssue(w)
  BY <1>3, <1>0, NumbersAhead
<1>4. CASE \E e \in Editors, c \in Collections : StartCollectionEdit(e, c)
  BY <1>4, <1>0, KeepsRows DEF StartCollectionEdit
<1>5. CASE \E c \in Collections : DeleteCollection(c)
  <2>1. PICK c \in Collections : DeleteCollection(c)
    BY <1>5
  <2>2. \A d \in Collections : collections'[d] \in {collections[d], None}
    BY <2>1, <1>0 DEF DeleteCollection, NumberingTypeOK
  <2> QED BY <2>1, <2>2, <1>0, KeepsRows DEF DeleteCollection
<1>6. CASE \E k \in Categories, a \in BOOLEAN : WriteCategory(k, a)
  BY <1>6, <1>0, KeepsRows DEF WriteCategory
<1>7. CASE \E i \in DOMAIN issues : DeleteIssue(i)
  <2>1. PICK i \in DOMAIN issues : DeleteIssue(i)
    BY <1>7
  <2>2. \A j \in DOMAIN issues : issues[j] \in IssueRow
    BY <1>0 DEF NumberingTypeOK
  <2>3. /\ DOMAIN issues' = DOMAIN issues
        /\ \A j \in DOMAIN issues : issues'[j].number = issues[j].number
    BY <2>1, <2>2 DEF DeleteIssue, IssueRow
  <2> QED BY <2>1, <2>3, <1>0, KeepsRows DEF DeleteIssue
<1>8. CASE ResetIssues
  <2>1. \A j \in DOMAIN issues : issues[j] \in IssueRow
    BY <1>0 DEF NumberingTypeOK
  <2>2. /\ DOMAIN issues' = DOMAIN issues
        /\ \A j \in DOMAIN issues : issues'[j].number = issues[j].number
    BY <1>8, <2>1 DEF ResetIssues, IssueRow
  <2> QED BY <1>8, <2>2, <1>0, KeepsRows DEF ResetIssues
<1>9. CASE \E w \in Creators, c \in Collections, k \in Categories \cup {None} : StartIssue(w, c, k)
  BY <1>9, <1>0, KeepsRows DEF StartIssue
<1>10. CASE \E w \in Creators : RefuseIssue(w)
  BY <1>10, <1>0, KeepsRows DEF RefuseIssue
<1>11. CASE \E i \in DOMAIN issues, c \in Collections, k \in Categories \cup {None} :
              UpdateIssueReferences(i, c, k)
  <2>1. PICK i \in DOMAIN issues, c \in Collections, k \in Categories \cup {None} :
               UpdateIssueReferences(i, c, k)
    BY <1>11
  <2>2. \A j \in DOMAIN issues : issues[j] \in IssueRow
    BY <1>0 DEF NumberingTypeOK
  <2>3. /\ DOMAIN issues' = DOMAIN issues
        /\ \A j \in DOMAIN issues : issues'[j].number = issues[j].number
    BY <2>1, <2>2 DEF UpdateIssueReferences, IssueRow
  <2> QED BY <2>1, <2>3, <1>0, KeepsRows DEF UpdateIssueReferences
<1>12. CASE UNCHANGED numberingVars
  BY <1>12, <1>0, KeepsRows DEF numberingVars
<1> QED BY <1>1, <1>2, <1>3, <1>4, <1>5, <1>6, <1>7, <1>8, <1>9, <1>10, <1>11, <1>12
        DEF NumberingNext, AdministerCollections

\* No number has been given yet.
LEMMA InitialNumbering == ASSUME NumberingAssumption, NumberingInit PROVE NumberingInv
<1>1. NumberingTypeOK BY InitialTypes
<1>2. issues = << >> /\ \A c \in Collections : ~Exists(c) BY DEF NumberingInit, Exists
<1> QED BY <1>1, <1>2 DEF NumberingInv, PrefixesDiffer, NumbersNeverRepeat

\* A collection that is ahead is refused no number.
LEMMA AheadIsFresh == ASSUME NumberingInv PROVE NumbersAreFresh
<1>1. ASSUME NEW c \in Collections, Exists(c), NextNumber(collections[c]) \in Taken
      PROVE  collections[c].prefix \in rewound
  <2>1. collections[c] \in CollectionRow BY <1>1, Rows DEF NumberingInv
  <2>2. collections[c].next \in Nat BY <2>1 DEF CollectionRow
  <2>3. <<collections[c].prefix, collections[c].next>> \in Used
    BY <1>1 DEF NextNumber, Taken, Used
  <2> QED BY <1>1, <2>2, <2>3 DEF NumberingInv, Ahead
<1> QED BY <1>1 DEF NumberingInv, NumbersAreFresh, OnlyRewindsRefuse

(* An issue number is never given twice, and a creation is never refused for
   its number, unless somebody has set the next number of that prefix back: for
   every number of collections, of clients that create issues at once and of
   stale edits (Issue.save under the row lock on its collection). *)
THEOREM NumbersFresh == ASSUME NumberingAssumption PROVE NumberingSpec => []NumbersAreFresh
<1>1. NumberingInit => NumberingInv BY InitialNumbering
<1>2. NumberingInv /\ [NumberingNext]_numberingVars => NumberingInv' BY NumberingStep
<1>3. NumberingInv => NumbersAreFresh BY AheadIsFresh
<1> QED BY <1>1, <1>2, <1>3, PTL DEF NumberingSpec

-----------------------------------------------------------------------------
(* Users, groups and assignment rules.                                     *)

\* What a request is about and has brought along is of its kind.
RequestsFit ==
  \A w \in Workers : LET r == requests[w] IN r # Nobody =>
    /\ r.kind = "user" => r.subject \in Users /\ r.row \in UserRow /\ r.set \subseteq Groups
    /\ r.kind = "group" => r.subject \in Groups /\ r.set \subseteq Users
    /\ r.kind = "rule" => r.subject \in RuleStates /\ r.row \in RuleRow
    /\ r.kind = "reset" => r.subject \in Users /\ ~r.create

\* A rule that is about to be saved names a member, or one that has left meanwhile.
PendingNameMembers ==
  \A w \in Workers : LET r == requests[w] IN r # Nobody /\ r.kind = "rule" =>
    \/ BelongsTo(r.row.user, r.row.group)
    \/ <<r.row.user, r.row.group>> \in withdrawn

\* What a request has read is still there, unless somebody else has written since.
ReadsHold ==
  \A w \in Workers : LET r == requests[w] IN
    r # Nobody /\ r.step = "row" /\ ~r.create /\ ~r.overtaken =>
      /\ r.kind = "user" => Known(r.subject)
      /\ r.kind = "group" => r.subject \in groups
      /\ r.kind = "reset" => r.subject \in Superusers

\* The invariant.
DirectoryInv ==
  /\ DirectoryTypeOK
  /\ RequestsFit
  /\ ReferencesResolve
  /\ RulesNameMembers
  /\ PendingNameMembers
  /\ ReadsHold

-----------------------------------------------------------------------------
(* Requests.                                                               *)

\* What a request was made of stays what it is until it ends.
Carried(v) ==
  /\ requests[v] # Nobody
  /\ requests'[v].kind = requests[v].kind /\ requests'[v].create = requests[v].create
  /\ requests'[v].subject = requests[v].subject /\ requests'[v].row = requests[v].row
  /\ requests'[v].set = requests[v].set

\* The requests after a write: others are overtaken, the writer's own goes on
\* to the memberships or is over.
Wrote ==
  /\ requests' \in [Workers -> Request \cup {Nobody}]
  /\ \A v \in Workers : requests'[v] # Nobody =>
       Carried(v) /\ (requests'[v].step = "members" \/ requests'[v].overtaken)

\* A row of `requests`.
LEMMA RequestFields ==
  ASSUME DirectoryAssumption, DirectoryTypeOK, NEW w \in Workers, requests[w] # Nobody
  PROVE  /\ requests[w] \in Request
         /\ [requests[w] EXCEPT !.overtaken = TRUE] \in Request
         /\ [requests[w] EXCEPT !.step = "members"] \in Request
<1>1. requests[w] \in Request BY DEF DirectoryTypeOK
<1> QED BY <1>1 DEF Request

\* What other requests look like after a write.
LEMMA OvertakenRequests ==
  ASSUME DirectoryAssumption, DirectoryTypeOK
  PROVE  /\ Written \in [Workers -> Request \cup {Nobody}]
         /\ \A v \in Workers : Written[v] # Nobody =>
              /\ requests[v] # Nobody
              /\ Written[v] = [requests[v] EXCEPT !.overtaken = TRUE]
              /\ Written[v].overtaken
              /\ Written[v].kind = requests[v].kind /\ Written[v].create = requests[v].create
              /\ Written[v].subject = requests[v].subject /\ Written[v].row = requests[v].row
              /\ Written[v].set = requests[v].set
<1>1. \A v \in Workers : requests[v] # Nobody =>
        requests[v] \in Request /\ [requests[v] EXCEPT !.overtaken = TRUE] \in Request
  BY RequestFields
<1>2. \A v \in Workers :
        Written[v] = IF requests[v] = Nobody THEN Nobody
                     ELSE [requests[v] EXCEPT !.overtaken = TRUE]
  BY DEF Written
<1>3. Written \in [Workers -> Request \cup {Nobody}]
  BY <1>1 DEF Written
<1>4. ASSUME NEW v \in Workers, Written[v] # Nobody
      PROVE  /\ requests[v] # Nobody
             /\ Written[v] = [requests[v] EXCEPT !.overtaken = TRUE]
             /\ Written[v].overtaken
             /\ Written[v].kind = requests[v].kind /\ Written[v].create = requests[v].create
             /\ Written[v].subject = requests[v].subject /\ Written[v].row = requests[v].row
             /\ Written[v].set = requests[v].set
  <2>1. requests[v] # Nobody /\ Written[v] = [requests[v] EXCEPT !.overtaken = TRUE]
    BY <1>2, <1>4
  <2>2. requests[v] \in Request BY <2>1, <1>1
  <2> QED BY <2>1, <2>2 DEF Request
<1> QED BY <1>3, <1>4

\* A write by somebody whose own request is not among these.
LEMMA WroteAll ==
  ASSUME DirectoryAssumption, DirectoryTypeOK, requests' = Written
  PROVE  Wrote
  BY OvertakenRequests DEF Wrote, Carried

\* The last write of a request.
LEMMA WroteLast ==
  ASSUME DirectoryAssumption, DirectoryTypeOK, NEW w \in Workers, Ends(w)
  PROVE  Wrote
<1>1. /\ requests' \in [Workers -> Request \cup {Nobody}]
      /\ \A v \in Workers : requests'[v] # Nobody => requests'[v] = Written[v] /\ Written[v] # Nobody
  BY OvertakenRequests DEF Ends
<1> QED BY <1>1, OvertakenRequests DEF Wrote, Carried

\* The first write of a request that has memberships to write, too.
LEMMA WroteFirst ==
  ASSUME DirectoryAssumption, DirectoryTypeOK, NEW w \in Workers, requests[w] # Nobody, GoesOn(w)
  PROVE  Wrote
<1>1. requests[w] \in Request /\ [requests[w] EXCEPT !.step = "members"] \in Request
  BY RequestFields
<1>2. requests' \in [Workers -> Request \cup {Nobody}]
  BY <1>1, OvertakenRequests DEF GoesOn
<1>3. ASSUME NEW v \in Workers, requests'[v] # Nobody
      PROVE  Carried(v) /\ (requests'[v].step = "members" \/ requests'[v].overtaken)
  <2>1. CASE v = w
    <3>1. requests'[v] = [requests[w] EXCEPT !.step = "members"]
      BY <2>1, OvertakenRequests DEF GoesOn
    <3> QED BY <2>1, <3>1, <1>1 DEF Carried, Request
  <2>2. CASE v # w
    <3>1. requests'[v] = Written[v]
      BY <2>2, OvertakenRequests DEF GoesOn
    <3> QED BY <3>1, <1>3, OvertakenRequests DEF Carried
  <2> QED BY <2>1, <2>2
<1> QED BY <1>2, <1>3 DEF Wrote

\* What a write leaves true of the requests that are on their way, if the
\* memberships that end are recorded.
LEMMA WrittenRequestsFit ==
  ASSUME DirectoryAssumption, DirectoryInv, Wrote,
         members \subseteq members' \cup withdrawn', withdrawn \subseteq withdrawn'
  PROVE  RequestsFit' /\ PendingNameMembers' /\ ReadsHold'
<1>1. RequestsFit'
  BY DEF DirectoryInv, RequestsFit, Wrote, Carried
<1>2. PendingNameMembers'
  <2> SUFFICES ASSUME NEW v \in Workers, requests'[v] # Nobody, requests'[v].kind = "rule"
               PROVE  \/ requests'[v].row.user = Nobody
                      \/ <<requests'[v].row.user, requests'[v].row.group>> \in members'
                      \/ <<requests'[v].row.user, requests'[v].row.group>> \in withdrawn'
    BY DEF PendingNameMembers, BelongsTo
  <2>1. requests[v] # Nobody /\ requests[v].kind = "rule" /\ requests'[v].row = requests[v].row
    BY DEF Wrote, Carried
  <2>2. \/ requests[v].row.user = Nobody
        \/ <<requests[v].row.user, requests[v].row.group>> \in members
        \/ <<requests[v].row.user, requests[v].row.group>> \in withdrawn
    BY <2>1 DEF DirectoryInv, PendingNameMembers, BelongsTo
  <2> QED BY <2>1, <2>2
<1>3. ReadsHold'
  BY DEF ReadsHold, Wrote
<1> QED BY <1>1, <1>2, <1>3

\* Rules that stay keep naming members or those who have left.
LEMMA RulesKeep ==
  ASSUME RulesNameMembers,
         \A s \in RuleStates : rules'[s] # Nobody => rules'[s] = rules[s],
         members \subseteq members' \cup withdrawn', withdrawn \subseteq withdrawn'
  PROVE  RulesNameMembers'
<1> SUFFICES ASSUME NEW s \in RuleStates, rules'[s] # Nobody
             PROVE  \/ rules'[s].user = Nobody
                    \/ <<rules'[s].user, rules'[s].group>> \in members'
                    \/ <<rules'[s].user, rules'[s].group>> \in withdrawn'
  BY DEF RulesNameMembers, BelongsTo
<1>1. rules'[s] = rules[s] OBVIOUS
<1>2. \/ rules[s].user = Nobody
      \/ <<rules[s].user, rules[s].group>> \in members
      \/ <<rules[s].user, rules[s].group>> \in withdrawn
  BY <1>1 DEF RulesNameMembers, BelongsTo
<1> QED BY <1>1, <1>2

\* What ends when the memberships become M.
LEMMA MembersKept ==
  ASSUME NEW M, MembersBecome(M)
  PROVE  members \subseteq members' \cup withdrawn' /\ withdrawn \subseteq withdrawn'
  BY DEF MembersBecome
-----------------------------------------------------------------------------
(* The steps.                                                              *)

\* A request that has begun is fit, and what it has read is there.
LEMMA BeginStep ==
  ASSUME DirectoryAssumption, DirectoryInv, NEW w \in Workers, NEW c,
         NEW kind \in {"user", "group", "rule", "reset"}, NEW create \in BOOLEAN,
         NEW subject \in Users \cup Groups \cup RuleStates,
         NEW row \in UserRow \cup RuleRow \cup {Nobody},
         NEW S \in SUBSET (Users \cup Groups),
         BeginRequest(w, c, kind, create, subject, row, S),
         kind = "user" => subject \in Users /\ row \in UserRow /\ S \subseteq Groups,
         kind = "group" => subject \in Groups /\ S \subseteq Users,
         kind = "rule" => /\ subject \in RuleStates /\ row \in RuleRow
                          /\ BelongsTo(row.user, row.group),
         kind = "reset" => subject \in Superusers /\ ~create,
         kind = "user" /\ ~create => Known(subject),
         kind = "group" /\ ~create => subject \in groups
  PROVE  DirectoryInv'
<1> DEFINE new == [kind |-> kind, step |-> "row", create |-> create, subject |-> subject,
                   row |-> row, set |-> S, overtaken |-> FALSE]
<1>1. new \in Request BY DEF Request
<1>2. /\ requests' = [requests EXCEPT ![w] = new] /\ requests[w] = Nobody
      /\ count' = count + 1 /\ count < MaxRequests
      /\ UNCHANGED <<users, groups, members, rules, holder, withdrawn>>
  BY DEF BeginRequest
<1>3. requests'[w] = new /\ \A v \in Workers \ {w} : requests'[v] = requests[v]
  BY <1>2 DEF DirectoryInv, DirectoryTypeOK
<1> HIDE DEF new
<1>4. /\ new.kind = kind /\ new.create = create /\ new.subject = subject
      /\ new.row = row /\ new.set = S
  BY DEF new
<1>5. DirectoryTypeOK'
  BY <1>1, <1>2, DirectoryAssumption DEF DirectoryInv, DirectoryTypeOK
<1>6. ReferencesResolve' /\ RulesNameMembers'
  BY <1>2 DEF DirectoryInv, ReferencesResolve, RulesNameMembers, Known, BelongsTo
<1>7. RequestsFit'
  BY <1>3, <1>4 DEF DirectoryInv, RequestsFit, Superusers
<1>8. PendingNameMembers'
  <2> SUFFICES ASSUME NEW v \in Workers, requests'[v] # Nobody, requests'[v].kind = "rule"
               PROVE  \/ requests'[v].row.user = Nobody
                      \/ <<requests'[v].row.user, requests'[v].row.group>> \in members'
                      \/ <<requests'[v].row.user, requests'[v].row.group>> \in withdrawn'
    BY DEF PendingNameMembers, BelongsTo
  <2>1. CASE v = w BY <2>1, <1>2, <1>3, <1>4 DEF BelongsTo
  <2>2. CASE v # w
    BY <2>2, <1>2, <1>3 DEF DirectoryInv, PendingNameMembers, BelongsTo
  <2> QED BY <2>1, <2>2
<1>9. ReadsHold'
  BY <1>2, <1>3, <1>4 DEF DirectoryInv, ReadsHold, Known, Superusers
<1> QED BY <1>5, <1>6, <1>7, <1>8, <1>9 DEF DirectoryInv

\* A request that breaks leaves everything else.
LEMMA FailStep ==
  ASSUME DirectoryAssumption, DirectoryInv, NEW w \in Workers, Fails(w), UNCHANGED count
  PROVE  DirectoryInv'
<1>1. UNCHANGED <<users, groups, members, rules, holder, withdrawn, count>>
  BY DEF Fails
<1>2. /\ requests' \in [Workers -> Request \cup {Nobody}]
      /\ \A v \in Workers : requests'[v] # Nobody => requests'[v] = requests[v]
  BY DEF Fails, DirectoryInv, DirectoryTypeOK
<1>3. DirectoryTypeOK' BY <1>1, <1>2 DEF DirectoryInv, DirectoryTypeOK
<1>4. ReferencesResolve' /\ RulesNameMembers'
  BY <1>1 DEF DirectoryInv, ReferencesResolve, RulesNameMembers, Known, BelongsTo
<1>5. RequestsFit' BY <1>2 DEF DirectoryInv, RequestsFit
<1>6. PendingNameMembers'
  BY <1>1, <1>2 DEF DirectoryInv, PendingNameMembers, BelongsTo
<1>7. ReadsHold'
  BY <1>1, <1>2 DEF DirectoryInv, ReadsHold, Known, Superusers
<1> QED BY <1>3, <1>4, <1>5, <1>6, <1>7 DEF DirectoryInv

\* A write that leaves rows consistent.
LEMMA WriteStep ==
  ASSUME DirectoryAssumption, DirectoryInv, Wrote,
         members \subseteq members' \cup withdrawn', withdrawn \subseteq withdrawn',
         DirectoryTypeOK', ReferencesResolve', RulesNameMembers'
  PROVE  DirectoryInv'
  BY WrittenRequestsFit DEF DirectoryInv

\* UserController.create and update
LEMMA SaveUserStep ==
  ASSUME DirectoryAssumption, DirectoryInv, NEW w \in Workers, SaveUser(w)
  PROVE  DirectoryInv'
<1>1. /\ requests[w] # Nobody /\ requests[w].subject \in Users /\ requests[w].row \in UserRow
      /\ requests[w].row # Nobody
  BY DirectoryAssumption DEF SaveUser, Pending, DirectoryInv, RequestsFit
<1>2. CASE Fails(w) BY <1>2, FailStep DEF SaveUser
<1>3. CASE /\ users' = [users EXCEPT ![requests[w].subject] = requests[w].row]
           /\ GoesOn(w)
           /\ UNCHANGED <<groups, members, rules, holder, withdrawn>>
  <2>1. Wrote BY <1>1, <1>3, WroteFirst DEF DirectoryInv
  <2>2. UNCHANGED count BY DEF SaveUser
  <2>3. DirectoryTypeOK' BY <1>1, <1>3, <2>1, <2>2 DEF DirectoryInv, DirectoryTypeOK, Wrote
  <2>4. \A u \in Users : Known(u) => Known(u)'
    BY <1>1, <1>3 DEF DirectoryInv, DirectoryTypeOK, Known
  <2>5. ReferencesResolve'
    BY <1>3, <2>4 DEF DirectoryInv, ReferencesResolve, DirectoryTypeOK, RuleRow, Known
  <2>6. RulesNameMembers' BY <1>3, RulesKeep DEF DirectoryInv
  <2> QED BY <1>3, <2>1, <2>3, <2>5, <2>6, WriteStep
<1> QED BY <1>2, <1>3 DEF SaveUser

\* user.groups.set
LEMMA SaveUserGroupsStep ==
  ASSUME DirectoryAssumption, DirectoryInv, NEW w \in Workers, SaveUserGroups(w)
  PROVE  DirectoryInv'
<1>1. requests[w] # Nobody /\ requests[w].subject \in Users
  BY DEF SaveUserGroups, Pending, DirectoryInv, RequestsFit
<1>2. CASE Fails(w) BY <1>2, FailStep DEF SaveUserGroups
<1>3. CASE ~Fails(w)
  <2> PICK M : M = {m \in members : m[1] # requests[w].subject}
                    \cup ({requests[w].subject} \X requests[w].set)
    OBVIOUS
  <2>1. /\ Known(requests[w].subject) /\ requests[w].set \subseteq groups
        /\ MembersBecome(M) /\ Ends(w) /\ UNCHANGED <<users, groups, rules, holder, count>>
    BY <1>3 DEF SaveUserGroups
  <2>2. members \subseteq Users \X Groups /\ groups \subseteq Groups
    BY DEF DirectoryInv, DirectoryTypeOK
  <2>3. M \subseteq Users \X Groups BY <1>1, <2>1, <2>2
  <2>4. Wrote BY <2>1, WroteLast DEF DirectoryInv
  <2>5. members \subseteq members' \cup withdrawn' /\ withdrawn \subseteq withdrawn'
    BY <2>1, MembersKept
  <2>6. DirectoryTypeOK'
    BY <2>1, <2>3, <2>4 DEF DirectoryInv, DirectoryTypeOK, Wrote, MembersBecome
  <2>7. \A m \in M : Known(m[1]) /\ m[2] \in groups
    BY <2>1 DEF DirectoryInv, ReferencesResolve
  <2>8. ReferencesResolve'
    BY <2>1, <2>7 DEF DirectoryInv, ReferencesResolve, MembersBecome, Known
  <2>9. RulesNameMembers' BY <2>1, <2>5, RulesKeep DEF DirectoryInv
  <2> QED BY <2>4, <2>5, <2>6, <2>8, <2>9, WriteStep
<1> QED BY <1>2, <1>3

\* DELETE /users/{id}
LEMMA DeactivateUserStep ==
  ASSUME DirectoryAssumption, DirectoryInv, NEW c, NEW u \in Users, DeactivateUser(c, u)
  PROVE  DirectoryInv'
<1>1. users[u] \in UserRow /\ [users[u] EXCEPT !.active = FALSE] \in UserRow
  BY ZenonT(60) DEF DeactivateUser, DirectoryInv, DirectoryTypeOK, Known, UserRow
<1>2. /\ users' = [users EXCEPT ![u] = [users[u] EXCEPT !.active = FALSE]]
      /\ UNCHANGED <<groups, members, rules, holder, withdrawn>>
      /\ requests' = Written
  BY DEF DeactivateUser
<1>3. Wrote BY <1>2, WroteAll DEF DirectoryInv
<1>4. DirectoryTypeOK'
  BY <1>1, <1>2, <1>3, DirectoryAssumption
  DEF DirectoryInv, DirectoryTypeOK, Wrote, DeactivateUser
<1>5. \A x \in Users : Known(x) => Known(x)'
  BY <1>1, <1>2, DirectoryAssumption DEF DirectoryInv, DirectoryTypeOK, Known
<1>6. ReferencesResolve'
  BY <1>2, <1>5 DEF DirectoryInv, ReferencesResolve, DirectoryTypeOK, RuleRow, Known
<1>7. RulesNameMembers' BY <1>2, RulesKeep DEF DirectoryInv
<1> QED BY <1>2, <1>3, <1>4, <1>6, <1>7, WriteStep

\* GroupController.create and update
LEMMA SaveGroupStep ==
  ASSUME DirectoryAssumption, DirectoryInv, NEW w \in Workers, SaveGroup(w)
  PROVE  DirectoryInv'
<1>1. requests[w] # Nobody /\ requests[w].subject \in Groups
  BY DEF SaveGroup, Pending, DirectoryInv, RequestsFit
<1>2. CASE Fails(w) BY <1>2, FailStep DEF SaveGroup
<1>3. CASE ~Fails(w)
  <2>1. /\ groups' = groups \cup {requests[w].subject} /\ GoesOn(w)
        /\ UNCHANGED <<users, members, rules, holder, withdrawn, count>>
    BY <1>3 DEF SaveGroup
  <2>2. Wrote BY <1>1, <2>1, WroteFirst DEF DirectoryInv
  <2>3. DirectoryTypeOK' BY <1>1, <2>1, <2>2 DEF DirectoryInv, DirectoryTypeOK, Wrote
  <2>4. ReferencesResolve' BY <2>1 DEF DirectoryInv, ReferencesResolve, Known
  <2>5. RulesNameMembers' BY <2>1, RulesKeep DEF DirectoryInv
  <2> QED BY <2>1, <2>2, <2>3, <2>4, <2>5, WriteStep
<1> QED BY <1>2, <1>3

\* group.user_set.set
LEMMA SaveGroupUsersStep ==
  ASSUME DirectoryAssumption, DirectoryInv, NEW w \in Workers, SaveGroupUsers(w)
  PROVE  DirectoryInv'
<1>1. /\ requests[w] # Nobody /\ requests[w].subject \in Groups
      /\ requests[w].set \subseteq Users
  BY DEF SaveGroupUsers, Pending, DirectoryInv, RequestsFit
<1>2. CASE Fails(w) BY <1>2, FailStep DEF SaveGroupUsers
<1>3. CASE ~Fails(w)
  <2> PICK M : M = {m \in members : m[2] # requests[w].subject}
                    \cup (requests[w].set \X {requests[w].subject})
    OBVIOUS
  <2>1. /\ requests[w].subject \in groups /\ \A u \in requests[w].set : Known(u)
        /\ MembersBecome(M) /\ Ends(w) /\ UNCHANGED <<users, groups, rules, holder, count>>
    BY <1>3 DEF SaveGroupUsers
  <2>2. members \subseteq Users \X Groups BY DEF DirectoryInv, DirectoryTypeOK
  <2>3. M \subseteq Users \X Groups BY <1>1, <2>2
  <2>4. Wrote BY <2>1, WroteLast DEF DirectoryInv
  <2>5. members \subseteq members' \cup withdrawn' /\ withdrawn \subseteq withdrawn'
    BY <2>1, MembersKept
  <2>6. DirectoryTypeOK'
    BY <2>1, <2>3, <2>4 DEF DirectoryInv, DirectoryTypeOK, Wrote, MembersBecome
  <2>7. \A m \in M : Known(m[1]) /\ m[2] \in groups
    BY <2>1 DEF DirectoryInv, ReferencesResolve
  <2>8. ReferencesResolve'
    BY <2>1, <2>7 DEF DirectoryInv, ReferencesResolve, MembersBecome, Known
  <2>9. RulesNameMembers' BY <2>1, <2>5, RulesKeep DEF DirectoryInv
  <2> QED BY <2>4, <2>5, <2>6, <2>8, <2>9, WriteStep
<1> QED BY <1>2, <1>3

\* DELETE /groups/{id}
LEMMA DeleteGroupStep ==
  ASSUME DirectoryAssumption, DirectoryInv, NEW c, NEW g \in Groups, DeleteGroup(c, g)
  PROVE  DirectoryInv'
<1> PICK M : M = {m \in members : m[2] # g} OBVIOUS
<1>1. /\ groups' = groups \ {g} /\ MembersBecome(M) /\ requests' = Written
      /\ UNCHANGED <<users, rules, holder>>
      /\ holder[1] # g /\ \A s \in RuleStates : rules[s] # Nobody => rules[s].group # g
  BY DEF DeleteGroup, Removes
<1>2. Wrote BY <1>1, WroteAll DEF DirectoryInv
<1>3. members \subseteq members' \cup withdrawn' /\ withdrawn \subseteq withdrawn'
  BY <1>1, MembersKept
<1>4. DirectoryTypeOK'
  BY <1>1, <1>2, DirectoryAssumption
  DEF DirectoryInv, DirectoryTypeOK, Wrote, MembersBecome, DeleteGroup
<1>5. ReferencesResolve'
  BY <1>1 DEF DirectoryInv, ReferencesResolve, MembersBecome, Known
<1>6. RulesNameMembers' BY <1>1, <1>3, RulesKeep DEF DirectoryInv
<1> QED BY <1>2, <1>3, <1>4, <1>5, <1>6, WriteStep

\* The controller of a rule saves what its form has validated.
LEMMA SaveRuleStep ==
  ASSUME DirectoryAssumption, DirectoryInv, NEW w \in Workers, SaveRule(w)
  PROVE  DirectoryInv'
<1>1. /\ requests[w] # Nobody /\ requests[w].subject \in RuleStates
      /\ requests[w].row \in RuleRow /\ requests[w].kind = "rule"
  BY DEF SaveRule, Pending, DirectoryInv, RequestsFit
<1>2. CASE Fails(w) BY <1>2, FailStep DEF SaveRule
<1>3. CASE ~Fails(w)
  <2>1. PICK r : r = requests[w] OBVIOUS
  <2>2. /\ r.row.group \in groups
        /\ r.row.user # Nobody => Known(r.row.user)
        /\ rules' = [rules EXCEPT ![r.subject] = r.row]
        /\ Ends(w) /\ UNCHANGED <<users, groups, members, holder, withdrawn, count>>
    BY <1>3, <2>1 DEF SaveRule
  <2>3. /\ r.subject \in RuleStates /\ rules'[r.subject] = r.row
        /\ \A s \in RuleStates \ {r.subject} : rules'[s] = rules[s]
    BY <1>1, <2>1, <2>2 DEF DirectoryInv, DirectoryTypeOK
  <2>4. Wrote BY <2>2, WroteLast DEF DirectoryInv
  <2>5. DirectoryTypeOK'
    BY <1>1, <2>1, <2>2, <2>4 DEF DirectoryInv, DirectoryTypeOK, Wrote
  <2>6. ReferencesResolve'
    BY <2>2, <2>3 DEF DirectoryInv, ReferencesResolve, Known
  <2>7. RulesNameMembers'
    <3> SUFFICES ASSUME NEW s \in RuleStates, rules'[s] # Nobody
                 PROVE  \/ rules'[s].user = Nobody
                        \/ <<rules'[s].user, rules'[s].group>> \in members'
                        \/ <<rules'[s].user, rules'[s].group>> \in withdrawn'
      BY DEF RulesNameMembers, BelongsTo
    <3>1. CASE s = r.subject
      BY <1>1, <2>1, <2>2, <2>3, <3>1 DEF DirectoryInv, PendingNameMembers, BelongsTo
    <3>2. CASE s # r.subject
      BY <2>2, <2>3, <3>2 DEF DirectoryInv, RulesNameMembers, BelongsTo
    <3> QED BY <3>1, <3>2
  <2> QED BY <2>2, <2>4, <2>5, <2>6, <2>7, WriteStep
<1> QED BY <1>2, <1>3

\* DELETE of a rule
LEMMA DeleteRuleStep ==
  ASSUME DirectoryAssumption, DirectoryInv, NEW c, NEW s \in RuleStates, DeleteRule(c, s)
  PROVE  DirectoryInv'
<1>1. /\ rules' = [rules EXCEPT ![s] = Nobody] /\ requests' = Written
      /\ UNCHANGED <<users, groups, members, holder, withdrawn>>
  BY DEF DeleteRule
<1>2. Wrote BY <1>1, WroteAll DEF DirectoryInv
<1>3. \A t \in RuleStates : rules'[t] # Nobody => rules'[t] = rules[t]
  BY <1>1 DEF DirectoryInv, DirectoryTypeOK
<1>4. DirectoryTypeOK'
  BY <1>1, <1>2, DirectoryAssumption DEF DirectoryInv, DirectoryTypeOK, Wrote, DeleteRule
<1>5. ReferencesResolve' BY <1>1, <1>3 DEF DirectoryInv, ReferencesResolve, Known
<1>6. RulesNameMembers' BY <1>1, <1>3, RulesKeep DEF DirectoryInv
<1> QED BY <1>1, <1>2, <1>4, <1>5, <1>6, WriteStep

\* Giving the issue away touches nothing else.
LEMMA AssignIssueStep ==
  ASSUME DirectoryAssumption, DirectoryInv, NEW g \in Groups \cup {Nobody},
         NEW u \in Users \cup {Nobody}, AssignIssue(g, u)
  PROVE  DirectoryInv'
<1>1. /\ holder' = <<g, u>> /\ UNCHANGED <<users, groups, members, rules, requests, count, withdrawn>>
      /\ g = Nobody => u = Nobody
      /\ g # Nobody => g \in groups /\ (u = Nobody \/ <<u, g>> \in members)
  BY DEF AssignIssue, BelongsTo
<1>2. DirectoryTypeOK' BY <1>1 DEF DirectoryInv, DirectoryTypeOK
<1>3. u # Nobody => Known(u)
  BY <1>1 DEF DirectoryInv, ReferencesResolve
<1>4. ReferencesResolve' BY <1>1, <1>3 DEF DirectoryInv, ReferencesResolve, Known
<1>5. RulesNameMembers' /\ PendingNameMembers'
  BY <1>1 DEF DirectoryInv, RulesNameMembers, PendingNameMembers, BelongsTo
<1>6. RequestsFit' /\ ReadsHold'
  BY <1>1 DEF DirectoryInv, RequestsFit, ReadsHold, Known, Superusers
<1> QED BY <1>2, <1>4, <1>5, <1>6 DEF DirectoryInv

\* InstanceResetController.reset
LEMMA ResetDirectoryStep ==
  ASSUME DirectoryAssumption, DirectoryInv, NEW w \in Workers, ResetDirectory(w)
  PROVE  DirectoryInv'
<1>1. /\ users' = [u \in Users |-> IF u = requests[w].subject THEN users[u] ELSE Nobody]
      /\ rules' = [s \in RuleStates |-> Nobody]
      /\ holder' = <<Nobody, Nobody>> /\ groups' = {} /\ MembersBecome({})
      /\ Ends(w) /\ UNCHANGED count
  BY DEF ResetDirectory, Clears
<1>2. Wrote BY <1>1, WroteLast DEF DirectoryInv
<1>3. members \subseteq members' \cup withdrawn' /\ withdrawn \subseteq withdrawn'
  BY <1>1, MembersKept
<1>4. DirectoryTypeOK'
  BY <1>1, <1>2, DirectoryAssumption DEF DirectoryInv, DirectoryTypeOK, Wrote, MembersBecome
<1>5. ReferencesResolve' BY <1>1 DEF ReferencesResolve, MembersBecome
<1>6. RulesNameMembers' BY <1>1 DEF RulesNameMembers
<1> QED BY <1>2, <1>3, <1>4, <1>5, <1>6, WriteStep
-----------------------------------------------------------------------------
(* The theorems.                                                           *)

\* The directory starts with its superuser only.
LEMMA DirectoryInvInit ==
  ASSUME DirectoryAssumption, DirectoryInit
  PROVE  DirectoryInv
<1>1. DirectoryTypeOK
  BY DirectoryAssumption DEF DirectoryInit, DirectoryTypeOK, UserRow
<1>2. RequestsFit /\ PendingNameMembers /\ ReadsHold
  BY DEF DirectoryInit, RequestsFit, PendingNameMembers, ReadsHold
<1>3. ReferencesResolve /\ RulesNameMembers
  BY DEF DirectoryInit, ReferencesResolve, RulesNameMembers
<1> QED BY <1>1, <1>2, <1>3 DEF DirectoryInv

\* Every step keeps the invariant.
LEMMA DirectoryInvNext ==
  ASSUME DirectoryAssumption, DirectoryInv, [DirectoryNext]_directoryVars
  PROVE  DirectoryInv'
<1>1. groups \subseteq Groups BY DEF DirectoryInv, DirectoryTypeOK
<1>2. ASSUME NEW w \in Workers, NEW c \in Users, NEW u \in Users, NEW row \in UserRow,
             NEW S \in SUBSET groups, CreateUser(w, c, u, row, S) \/ UpdateUser(w, c, u, row, S)
      PROVE  DirectoryInv'
  BY <1>1, <1>2, BeginStep DEF CreateUser, UpdateUser, UserForm
<1>3. ASSUME NEW w \in Workers, NEW c \in Users, NEW g \in Groups,
             NEW S \in SUBSET Users, CreateGroup(w, c, g, S) \/ UpdateGroup(w, c, g, S)
      PROVE  DirectoryInv'
  BY <1>3, BeginStep DEF CreateGroup, UpdateGroup
<1>4. ASSUME NEW w \in Workers, NEW c \in Users, NEW s \in RuleStates,
             NEW row \in RuleRow, CreateRule(w, c, s, row) \/ UpdateRule(w, c, s, row)
      PROVE  DirectoryInv'
  <2>1. PICK create \in BOOLEAN : BeginRequest(w, c, "rule", create, s, row, {})
    BY <1>4 DEF CreateRule, UpdateRule
  <2>2. BelongsTo(row.user, row.group) BY <1>4 DEF CreateRule, UpdateRule, RuleForm
  <2>3. {} \in SUBSET (Users \cup Groups) OBVIOUS
  <2> QED BY <2>1, <2>2, <2>3, BeginStep
<1>5. ASSUME NEW w \in Workers, NEW c \in Users, StartReset(w, c)
      PROVE  DirectoryInv'
  <2>1. BeginRequest(w, c, "reset", FALSE, c, Nobody, {}) /\ c \in Superusers
    BY <1>5 DEF StartReset, BeginRequest
  <2>2. {} \in SUBSET (Users \cup Groups) OBVIOUS
  <2> QED BY <2>1, <2>2, BeginStep
<1>6. ASSUME NEW w \in Workers, UserRequests(w) \/ SaveGroup(w) \/ SaveGroupUsers(w)
                                \/ SaveRule(w) \/ ResetDirectory(w)
      PROVE  DirectoryInv'
  BY <1>6, SaveUserStep, SaveUserGroupsStep, SaveGroupStep, SaveGroupUsersStep,
     SaveRuleStep, ResetDirectoryStep DEF UserRequests
<1>7. CASE UNCHANGED directoryVars
  BY <1>7 DEF directoryVars, DirectoryInv, DirectoryTypeOK, RequestsFit, ReferencesResolve,
              RulesNameMembers, PendingNameMembers, ReadsHold, Known, BelongsTo, Superusers
<1> QED
  BY <1>2, <1>3, <1>4, <1>5, <1>6, <1>7, DeactivateUserStep, DeleteGroupStep,
     DeleteRuleStep, AssignIssueStep
  DEF DirectoryNext

\* For any users, groups, states and workers, and however their requests
\* interleave: what refers to a row refers to one that is there, and a rule
\* names a member of its group or one who has left it.
THEOREM DirectoryConsistent ==
  ASSUME DirectoryAssumption
  PROVE  DirectorySpec => []DirectoryIsConsistent
<1>1. DirectoryInit => DirectoryInv BY DirectoryInvInit
<1>2. DirectoryInv /\ [DirectoryNext]_directoryVars => DirectoryInv' BY DirectoryInvNext
<1>3. DirectoryInv => DirectoryIsConsistent BY DEF DirectoryInv, DirectoryIsConsistent
<1> QED BY <1>1, <1>2, <1>3, PTL DEF DirectorySpec

\* An update revives what is gone only if somebody wrote after it had read.
LEMMA OvertakenRevive ==
  ASSUME DirectoryAssumption, DirectoryInv
  PROVE  OnlyOvertakenRevive
<1> SUFFICES ASSUME NEW w \in Workers, SaveUser(w) \/ SaveGroup(w),
                    ~requests[w].create, ~requests[w].overtaken
             PROVE  {u \in Users : users'[u] # Nobody} = {u \in Users : users[u] # Nobody}
                    /\ groups' = groups
  BY DEF OnlyOvertakenRevive, Known
<1>1. CASE SaveUser(w)
  <2>1. /\ requests[w].subject \in Users /\ requests[w].row \in UserRow
        /\ requests[w].row # Nobody /\ users[requests[w].subject] # Nobody
    BY <1>1, DirectoryAssumption
    DEF SaveUser, Pending, DirectoryInv, RequestsFit, ReadsHold, Known
  <2>2. /\ users' = [users EXCEPT ![requests[w].subject] = requests[w].row]
        /\ UNCHANGED groups
    BY <1>1 DEF SaveUser
  <2> QED BY <2>1, <2>2 DEF DirectoryInv, DirectoryTypeOK
<1>2. CASE SaveGroup(w)
  <2>1. requests[w].subject \in groups
    BY <1>2 DEF SaveGroup, Pending, DirectoryInv, ReadsHold
  <2>2. groups' = groups \cup {requests[w].subject} /\ UNCHANGED users
    BY <1>2 DEF SaveGroup
  <2> QED BY <2>1, <2>2
<1> QED BY <1>1, <1>2

\* What takes the last superuser away.
LEMMA AccountRequestsLockOut ==
  ASSUME DirectoryAssumption, DirectoryInv, [DirectoryNext]_directoryVars
  PROVE  OnlyAccountRequestsLockOut
<1> SUFFICES ASSUME Superusers # {}, Superusers' = {},
                    \A w \in Workers : ~SaveUser(w),
                    \A w \in Workers : ~(ResetDirectory(w) /\ requests[w].overtaken),
                    \A c, u \in Users : ~DeactivateUser(c, u)
             PROVE  FALSE
  BY DEF OnlyAccountRequestsLockOut
<1>1. users' # users BY DEF Superusers, Known
<1>2. PICK w \in Workers : ResetDirectory(w)
  BY <1>1, ZenonT(60)
  DEF DirectoryNext, directoryVars, CreateUser, UpdateUser, CreateGroup, UpdateGroup, CreateRule,
      UpdateRule, StartReset, BeginRequest, UserRequests, SaveUserGroups, SaveGroup,
      SaveGroupUsers, SaveRule, Fails, DeleteGroup, Removes, DeleteRule, AssignIssue
<1>3. /\ ~requests[w].overtaken /\ Pending(w, "reset", "row")
      /\ users' = [u \in Users |-> IF u = requests[w].subject THEN users[u] ELSE Nobody]
  BY <1>2 DEF ResetDirectory
<1>4. requests[w].subject \in Superusers
  BY <1>3 DEF Pending, DirectoryInv, RequestsFit, ReadsHold
<1> QED BY <1>3, <1>4 DEF Superusers, Known

\* For any users, groups and workers: what does not exist appears by a request
\* to create it or by an overtaken update, and the instance loses its last
\* superuser only by what was asked for an account.
THEOREM AccountsFollow ==
  ASSUME DirectoryAssumption
  PROVE  DirectorySpec => AccountsFollowRequests
<1>1. DirectoryInit => DirectoryInv BY DirectoryInvInit
<1>2. DirectoryInv /\ [DirectoryNext]_directoryVars => DirectoryInv' BY DirectoryInvNext
<1>3. DirectoryInv /\ [DirectoryNext]_directoryVars
        => [OnlyOvertakenRevive /\ OnlyAccountRequestsLockOut]_directoryVars
  BY OvertakenRevive, AccountRequestsLockOut
<1> QED BY <1>1, <1>2, <1>3, PTL DEF DirectorySpec, AccountsFollowRequests

-----------------------------------------------------------------------------
(* Profiles and their avatars.                                             *)

\* One save is under way at most.
Alone == \A u, v \in Savers : saves[u] # NoSave /\ saves[v] # NoSave => u = v

\* What a save knows of the row: it was loaded with the file the row still has,
\* and once the row is written the instance has the row's.
KnowsRow(v) ==
  \/ /\ Saving(v, "look") \/ (Saving(v, "save") /\ saves[v].previous = profile)
     /\ saves[v].avatar \in {profile, NoAvatar}
     /\ saves[v].language => saves[v].avatar = profile /\ ~saves[v].new
  \/ Saving(v, "drop") /\ saves[v].avatar = profile

\* The files are the profile's and, until it is dropped, the one before.
Tidy ==
  /\ (\A v \in Savers : ~Saving(v, "drop")) => avatars = {profile} \ {NoAvatar}
  /\ \A v \in Savers : Saving(v, "drop") => avatars = {profile, saves[v].previous} \ {NoAvatar}

\* The invariant of saves that do not overlap.
OneByOne ==
  /\ Alone
  /\ \A v \in Savers : saves[v] # NoSave => KnowsRow(v)
  /\ profile \in avatars \cup {NoAvatar}
  /\ deaths = 0 => Tidy

AvatarInv == AvatarTypeOK /\ (~overlap => OneByOne)
-----------------------------------------------------------------------------
\* There is neither a file nor a save.
LEMMA InitialAvatar == ASSUME AvatarAssumption, AvatarInit PROVE AvatarInv
<1>1. AvatarTypeOK
  <2>1. MaxAvatars \in Nat /\ MaxDeaths \in Nat BY AvatarAssumption DEF AvatarAssumption
  <2>2. profile \in Named BY DEF AvatarInit, Named
  <2>3. saves \in [Savers -> Save \cup {NoSave}] BY DEF AvatarInit
  <2>4. avatars \subseteq 1..written /\ written \in 0..MaxAvatars /\ deaths \in 0..MaxDeaths
    BY <2>1 DEF AvatarInit
  <2> QED BY <2>2, <2>3, <2>4 DEF AvatarInit, AvatarTypeOK
<1>2. \A v \in Savers : saves[v] = NoSave BY DEF AvatarInit
<1>3. OneByOne BY <1>2 DEF AvatarInit, OneByOne, Alone, Tidy, Saving
<1> QED BY <1>1, <1>3 DEF AvatarInv

\* The shape of the row, the files and the saves.
LEMMA AvatarTypes ==
  ASSUME AvatarAssumption, AvatarTypeOK, [AvatarNext]_avatarVars
  PROVE  AvatarTypeOK'
<1>1. CASE UNCHANGED avatarVars
  BY <1>1 DEF avatarVars, AvatarTypeOK
<1>2. ASSUME NEW v \in Savers, NEW language \in BOOLEAN, NEW new \in BOOLEAN,
             NEW avatar \in Named, LoadProfile(v, language, avatar, new)
      PROVE  AvatarTypeOK'
  BY <1>2 DEF LoadProfile, AvatarTypeOK, Save, Named
<1>3. ASSUME NEW v \in Savers, LookUpPrevious(v) PROVE AvatarTypeOK'
  BY <1>3 DEF LookUpPrevious, Saving, AvatarTypeOK, Save
<1>4. ASSUME NEW v \in Savers, WriteProfile(v) PROVE AvatarTypeOK'
  <2>1. saves[v] \in Save BY <1>4 DEF WriteProfile, Saving, AvatarTypeOK
  <2>2. CASE saves[v].new
    <3>1. written' \in 1..MaxAvatars /\ written' = written + 1
      BY <1>4, <2>2, AvatarAssumption DEF AvatarAssumption, WriteProfile, AvatarTypeOK
    <3>2. avatars' \subseteq 1..written'
      BY <1>4, <2>2, <3>1 DEF WriteProfile, AvatarTypeOK
    <3>3. [saves[v] EXCEPT !.avatar = written', !.new = FALSE, !.step = "drop"] \in Save
      BY <2>1, <3>1 DEF Save, Named
    <3>4. saves' = [saves EXCEPT ![v] =
                     [saves[v] EXCEPT !.avatar = written', !.new = FALSE, !.step = "drop"]]
      BY <1>4, <2>2 DEF WriteProfile, AvatarTypeOK
    <3>5. saves' \in [Savers -> Save \cup {NoSave}] /\ saves'[v].avatar \in Named
      BY <3>3, <3>4 DEF AvatarTypeOK, Save
    <3> QED BY <1>4, <3>1, <3>2, <3>5 DEF WriteProfile, AvatarTypeOK
  <2>3. CASE ~saves[v].new
    <3>1. saves' \in [Savers -> Save \cup {NoSave}] /\ saves'[v].avatar \in Named
      BY <1>4, <2>1, <2>3 DEF WriteProfile, AvatarTypeOK, Save
    <3> QED BY <1>4, <2>3, <3>1 DEF WriteProfile, AvatarTypeOK
  <2> QED BY <2>2, <2>3
<1>5. ASSUME NEW v \in Savers, DropPrevious(v) PROVE AvatarTypeOK'
  BY <1>5 DEF DropPrevious, AvatarTypeOK
<1>6. ASSUME NEW v \in Savers, SaverDies(v) PROVE AvatarTypeOK'
  BY <1>6, AvatarAssumption DEF AvatarAssumption, SaverDies, AvatarTypeOK
<1> QED BY <1>1, <1>2, <1>3, <1>4, <1>5, <1>6 DEF AvatarNext

\* One save after the other keeps the invariant, wherever it dies.
LEMMA AvatarStep ==
  ASSUME AvatarAssumption, AvatarInv, [AvatarNext]_avatarVars
  PROVE  AvatarInv'
<1>0. AvatarTypeOK /\ AvatarTypeOK' BY AvatarTypes DEF AvatarInv
<1> SUFFICES ASSUME ~overlap' PROVE OneByOne'
  BY <1>0 DEF AvatarInv
<1>1. CASE UNCHANGED avatarVars
  BY <1>1 DEF avatarVars, AvatarInv, OneByOne, Alone, KnowsRow, Tidy, Saving
<1>2. ASSUME NEW v \in Savers, NEW language \in BOOLEAN, NEW new \in BOOLEAN,
             NEW avatar \in Named, LoadProfile(v, language, avatar, new)
      PROVE  OneByOne'
  <2>1. /\ \A u \in Savers : saves[u] = NoSave
        /\ \A u \in Savers \ {v} : saves'[u] = NoSave
    BY <1>2, <1>0 DEF LoadProfile, AvatarTypeOK
  <2>2. saves'[v] = [language |-> language, avatar |-> avatar, new |-> new,
                     step |-> "look", previous |-> NoAvatar]
    BY <1>2, <1>0 DEF LoadProfile, AvatarTypeOK
  <2>3. ~overlap /\ OneByOne BY <1>0, <1>2 DEF LoadProfile, AvatarInv, AvatarTypeOK
  <2>4. Alone' BY <2>1 DEF Alone
  <2>5. ASSUME NEW u \in Savers, saves'[u] # NoSave PROVE KnowsRow(u)'
    BY <2>1, <2>2, <2>5, <1>2 DEF LoadProfile, KnowsRow, Saving
  <2>6. deaths = 0 => Tidy'
    BY <2>1, <2>2, <2>3, <1>2 DEF LoadProfile, OneByOne, Tidy, Saving
  <2> QED BY <2>3, <2>4, <2>5, <2>6, <1>2 DEF LoadProfile, OneByOne
<1>3. ASSUME NEW v \in Savers, saves[v] # NoSave, overlap' = overlap
      PROVE  ~overlap /\ OneByOne /\ KnowsRow(v) /\ \A u \in Savers \ {v} : saves[u] = NoSave
  BY <1>3, <1>0 DEF AvatarInv, OneByOne, Alone
<1>4. ASSUME NEW v \in Savers, LookUpPrevious(v) PROVE OneByOne'
  <2>1. /\ saves'[v] = [saves[v] EXCEPT !.previous = profile, !.step = "save"]
        /\ saves[v] \in Save /\ saves[v] # NoSave /\ saves[v].step = "look"
        /\ \A u \in Savers \ {v} : saves'[u] = saves[u]
    BY <1>4, <1>0 DEF LookUpPrevious, Saving, AvatarTypeOK
  <2>2. ~overlap /\ OneByOne /\ KnowsRow(v) /\ \A u \in Savers \ {v} : saves[u] = NoSave
    BY <1>3, <1>4, <2>1 DEF LookUpPrevious
  <2>3. Alone' BY <2>1, <2>2 DEF Alone
  <2>4. ASSUME NEW u \in Savers, saves'[u] # NoSave PROVE KnowsRow(u)'
    <3>1. u = v BY <2>1, <2>2, <2>4
    <3>2. /\ saves'[v].avatar = saves[v].avatar /\ saves'[v].language = saves[v].language
          /\ saves'[v].new = saves[v].new /\ saves'[v].step = "save" /\ saves'[v].previous = profile
      BY <2>1 DEF Save
    <3> QED BY <3>1, <3>2, <2>1, <2>2, <2>4, <1>4 DEF LookUpPrevious, KnowsRow, Saving
  <2>5. \A u \in Savers : ~Saving(u, "drop") /\ ~Saving(u, "drop")'
    BY <2>1, <2>2, ZenonT(60) DEF Saving, Save
  <2>6. deaths = 0 => Tidy'
    BY <2>5, <2>2, <1>4 DEF LookUpPrevious, OneByOne, Tidy
  <2> QED BY <2>2, <2>3, <2>4, <2>6, <1>4 DEF LookUpPrevious, OneByOne
<1>5. ASSUME NEW v \in Savers, WriteProfile(v) PROVE OneByOne'
  <2>1. /\ saves[v] \in Save /\ saves[v] # NoSave /\ saves[v].step = "save"
        /\ \A u \in Savers \ {v} : saves'[u] = saves[u]
    BY <1>5, <1>0 DEF WriteProfile, Saving, AvatarTypeOK
  <2>2. ~overlap /\ OneByOne /\ KnowsRow(v) /\ \A u \in Savers \ {v} : saves[u] = NoSave
    BY <1>3, <1>5, <2>1 DEF WriteProfile
  <2>3. /\ saves[v].previous = profile /\ saves[v].avatar \in {profile, NoAvatar}
        /\ saves[v].language => saves[v].avatar = profile /\ ~saves[v].new
    BY <2>1, <2>2 DEF KnowsRow, Saving
  <2>4. \A u \in Savers : ~Saving(u, "drop")
    BY <2>1, <2>2 DEF Saving
  <2>5. deaths = 0 => avatars = {profile} \ {NoAvatar}
    BY <2>2, <2>4 DEF OneByOne, Tidy
  <2>6. /\ saves'[v] # NoSave => KnowsRow(v)'
        /\ Saving(v, "drop")' => saves'[v].previous = profile
        /\ Saving(v, "drop")'
        /\ profile' \in avatars' \cup {NoAvatar}
        /\ deaths = 0 => avatars' = {profile', profile} \ {NoAvatar}
    <3>1. CASE saves[v].new
      <4>1. ~saves[v].language BY <2>3, <3>1
      <4>2. saves'[v] = [saves[v] EXCEPT !.avatar = written', !.new = FALSE, !.step = "drop"]
        BY <1>5, <1>0, <3>1 DEF WriteProfile, AvatarTypeOK
      <4>3. /\ saves'[v].avatar = written' /\ saves'[v].step = "drop"
            /\ saves'[v].previous = profile
        BY <4>2, <2>1, <2>3 DEF Save
      <4>4. profile' = written' BY <1>5, <4>1, <4>3 DEF WriteProfile
      <4>5. avatars' = avatars \cup {written'} BY <1>5, <3>1 DEF WriteProfile
      <4>6. written' \in Nat /\ NoAvatar \notin Nat
        BY <1>0, AvatarAssumption DEF AvatarTypeOK, AvatarAssumption
      <4>7. written' # NoAvatar BY <4>6
      <4>10. written' \in Named /\ NoSave \notin Save
        BY <1>5, <3>1, <1>0, AvatarAssumption
           DEF WriteProfile, AvatarTypeOK, AvatarAssumption, Named
      <4>8. saves'[v] # NoSave
        BY <4>2, <2>1, <4>10, ZenonT(60) DEF Save
      <4>9. deaths = 0 => avatars' = {profile', profile} \ {NoAvatar}
        BY <4>4, <4>5, <4>7, <2>5
      <4> QED BY <4>3, <4>4, <4>5, <4>8, <4>9 DEF KnowsRow, Saving
    <3>2. CASE ~saves[v].new
      <4>1. saves'[v] = [saves[v] EXCEPT !.step = "drop"] /\ avatars' = avatars
        BY <1>5, <1>0, <3>2 DEF WriteProfile, AvatarTypeOK
      <4>2. /\ saves'[v].avatar = saves[v].avatar /\ saves'[v].step = "drop"
            /\ saves'[v].previous = profile
        BY <4>1, <2>1, <2>3 DEF Save
      <4>3. profile' = saves[v].avatar BY <1>5, <4>2, <2>3 DEF WriteProfile
      <4>4. profile \in avatars \cup {NoAvatar} BY <2>2 DEF OneByOne
      <4>5. saves'[v] # NoSave
        BY <4>1, <2>1, AvatarAssumption DEF AvatarAssumption, Save
      <4>6. deaths = 0 => avatars' = {profile', profile} \ {NoAvatar}
        BY <4>1, <4>3, <2>3, <2>5
      <4> QED BY <4>1, <4>2, <4>3, <4>4, <4>5, <4>6, <2>3 DEF KnowsRow, Saving
    <3> QED BY <3>1, <3>2
  <2>7. Alone' BY <2>1, <2>2 DEF Alone
  <2>8. \A u \in Savers : saves'[u] # NoSave => KnowsRow(u)'
    BY <2>1, <2>2, <2>6
  <2>9. deaths = 0 => Tidy'
    BY <2>1, <2>2, <2>6 DEF Tidy, Saving
  <2> QED BY <2>6, <2>7, <2>8, <2>9, <1>5 DEF WriteProfile, OneByOne
<1>6. ASSUME NEW v \in Savers, DropPrevious(v) PROVE OneByOne'
  <2>1. /\ saves[v] # NoSave /\ saves[v].step = "drop"
        /\ saves'[v] = NoSave /\ \A u \in Savers \ {v} : saves'[u] = saves[u]
    BY <1>6, <1>0 DEF DropPrevious, Saving, AvatarTypeOK
  <2>2. ~overlap /\ OneByOne /\ KnowsRow(v) /\ \A u \in Savers \ {v} : saves[u] = NoSave
    BY <1>3, <1>6, <2>1 DEF DropPrevious
  <2>3. \A u \in Savers : saves'[u] = NoSave BY <2>1, <2>2
  <2>4. saves[v].avatar = profile /\ profile \in avatars \cup {NoAvatar}
    BY <2>1, <2>2 DEF KnowsRow, Saving, OneByOne
  <2>5. deaths = 0 => avatars = {profile, saves[v].previous} \ {NoAvatar}
    BY <2>1, <2>2 DEF OneByOne, Tidy, Saving
  <2>6. /\ profile \in avatars' \cup {NoAvatar}
        /\ deaths = 0 => avatars' = {profile} \ {NoAvatar}
    BY <2>4, <2>5, <1>6 DEF DropPrevious
  <2> QED BY <2>3, <2>6, <1>6 DEF DropPrevious, OneByOne, Alone, Tidy, Saving
<1>7. ASSUME NEW v \in Savers, SaverDies(v) PROVE OneByOne'
  <2>1. /\ saves[v] # NoSave
        /\ saves'[v] = NoSave /\ \A u \in Savers \ {v} : saves'[u] = saves[u]
    BY <1>7, <1>0 DEF SaverDies, AvatarTypeOK
  <2>2. ~overlap /\ OneByOne /\ \A u \in Savers \ {v} : saves[u] = NoSave
    BY <1>3, <1>7, <2>1 DEF SaverDies
  <2>3. \A u \in Savers : saves'[u] = NoSave BY <2>1, <2>2
  <2>4. deaths' # 0 BY <1>7, <1>0 DEF SaverDies, AvatarTypeOK
  <2> QED BY <2>2, <2>3, <2>4, <1>7 DEF SaverDies, OneByOne, Alone
<1> QED BY <1>1, <1>2, <1>4, <1>5, <1>6, <1>7 DEF AvatarNext

\* What the invariant says of the profile.
LEMMA InvFollows == ASSUME AvatarInv PROVE AvatarFollowsProfile
<1>1. AvatarExists BY DEF AvatarInv, OneByOne, AvatarExists
<1>2. NoAvatarLeftBehind BY DEF AvatarInv, OneByOne, Tidy, Saving, NoAvatarLeftBehind
<1> QED BY <1>1, <1>2 DEF AvatarFollowsProfile

(* The profile names a file that exists, wherever workers have died, and
   without deaths saves leave no other file behind, unless two saves of the
   profile have overlapped (UserProfile.save). *)
THEOREM AvatarFollows == ASSUME AvatarAssumption PROVE AvatarSpec => []AvatarFollowsProfile
<1>1. AvatarInit => AvatarInv BY InitialAvatar
<1>2. AvatarInv /\ [AvatarNext]_avatarVars => AvatarInv' BY AvatarStep
<1>3. AvatarInv => AvatarFollowsProfile BY InvFollows
<1> QED BY <1>1, <1>2, <1>3, PTL DEF AvatarSpec

-----------------------------------------------------------------------------
(* Data migrations: numbering the members of a finite set in an order.     *)

\* R orders S strictly.
Orders(R, S) ==
  /\ \A i, j, k \in S : <<i, j>> \in R /\ <<j, k>> \in R => <<i, k>> \in R
  /\ \A i \in S : <<i, i>> \notin R
  /\ \A i, j \in S : i # j => <<i, j>> \in R \/ <<j, i>> \in R

\* The places enumerate gives to S in that order.
Enumerated(S, R) == [i \in S |-> 1 + Cardinality({j \in S : <<j, i>> \in R})]

\* They are 1..n, in the order.
LEMMA OrderPlaces ==
  ASSUME NEW S, IsFiniteSet(S), NEW R, Orders(R, S),
         NEW place, place = Enumerated(S, R)
  PROVE  /\ Cardinality(S) \in Nat
         /\ \A i \in S : place[i] \in 1..Cardinality(S)
         /\ \A i, j \in S : <<i, j>> \in R <=> place[i] < place[j]
         /\ {place[i] : i \in S} = 1..Cardinality(S)
<1>1. PICK c \in Nat : c = Cardinality(S)
  BY FS_CardinalityType
<1>2. ASSUME NEW i \in S
      PROVE  IsFiniteSet({j \in S : <<j, i>> \in R}) /\ Cardinality({j \in S : <<j, i>> \in R}) \in Nat
  BY FS_Subset, FS_CardinalityType
<1>0. place = [i \in S |-> 1 + Cardinality({j \in S : <<j, i>> \in R})]
  BY DEF Enumerated
<1>3. ASSUME NEW i \in S PROVE place[i] \in 1..c
  <2> DEFINE P == {j \in S : <<j, i>> \in R}
  <2>1. IsFiniteSet(P) /\ Cardinality(P) \in Nat /\ i \notin P /\ P \cup {i} \in SUBSET S
    BY <1>2 DEF Orders
  <2>2. Cardinality(P \cup {i}) = Cardinality(P) + 1
    BY <2>1, FS_AddElement
  <2>3. Cardinality(P \cup {i}) <= c
    BY <1>1, <2>1, FS_Subset
  <2>4. place[i] = 1 + Cardinality(P)
    BY <1>0
  <2> HIDE DEF P
  <2> QED BY <1>1, <2>1, <2>2, <2>3, <2>4
<1>4. ASSUME NEW i \in S, NEW j \in S, <<i, j>> \in R PROVE place[i] < place[j]
  <2> DEFINE P == {k \in S : <<k, i>> \in R}
             Q == {k \in S : <<k, j>> \in R}
  <2>1. IsFiniteSet(P) /\ Cardinality(P) \in Nat /\ IsFiniteSet(Q) /\ Cardinality(Q) \in Nat
    BY <1>2
  <2>2. i \notin P /\ P \cup {i} \in SUBSET Q
    BY <1>4 DEF Orders
  <2>3. Cardinality(P \cup {i}) = Cardinality(P) + 1
    BY <2>1, <2>2, FS_AddElement
  <2>4. Cardinality(P \cup {i}) <= Cardinality(Q)
    BY <2>1, <2>2, FS_Subset
  <2>5. place[i] = 1 + Cardinality(P) /\ place[j] = 1 + Cardinality(Q)
    BY <1>0
  <2> HIDE DEF P, Q
  <2> QED BY <2>1, <2>3, <2>4, <2>5
<1>5. ASSUME NEW i \in S, NEW j \in S PROVE <<i, j>> \in R <=> place[i] < place[j]
  <2>1. place[i] \in Nat /\ place[j] \in Nat
    BY <1>1, <1>3
  <2>2. CASE <<i, j>> \in R
    BY <1>4, <2>2
  <2>3. CASE <<i, j>> \notin R
    <3>1. CASE i = j
      BY <2>1, <2>3, <3>1
    <3>2. CASE i # j
      <4>1. <<j, i>> \in R
        BY <2>3, <3>2 DEF Orders
      <4>2. place[j] < place[i]
        BY <1>4, <4>1
      <4> QED BY <2>1, <2>3, <4>2
    <3> QED BY <3>1, <3>2
  <2> QED BY <2>2, <2>3
<1>6. ASSUME NEW i \in S, NEW j \in S, i # j PROVE place[i] # place[j]
  <2>1. place[i] \in Nat /\ place[j] \in Nat
    BY <1>1, <1>3
  <2>2. <<i, j>> \in R \/ <<j, i>> \in R
    BY <1>6 DEF Orders
  <2> QED BY <1>4, <2>1, <2>2
<1>7. place \in Injection(S, 1..c)
  BY <1>0, <1>3, <1>6 DEF Injection, IsInjective
<1>8. IsFiniteSet(1..c) /\ Cardinality(1..c) = c
  BY <1>1, FS_Interval
<1>9. place \in Surjection(S, 1..c)
  BY <1>1, <1>7, <1>8, FS_Injection
<1>10. \A k \in 1..c : \E i \in S : place[i] = k
  BY <1>9 DEF Surjection
<1>11. {place[i] : i \in S} = 1..c
  BY <1>3, <1>10
<1> QED BY <1>1, <1>3, <1>5, <1>11

-----------------------------------------------------------------------------
(* Data migrations: the orders of the issues, and what renaming does.      *)

\* The issues are finitely many.
LEMMA TasksFinite ==
  ASSUME NEW S \in SUBSET TaskIds
  PROVE  IsFiniteSet(S) /\ Cardinality(S) \in Nat /\ Cardinality(S) <= MaxTasks
<1>1. IsFiniteSet(TaskIds) /\ Cardinality(TaskIds) = MaxTasks
  BY FS_Interval, MigrationAssumption DEF TaskIds
<1> QED BY <1>1, FS_Subset, FS_CardinalityType

\* The orders as sets of pairs.
EarlierPairs == {p \in TaskIds \X TaskIds : Earlier(p[1], p[2])}
AbovePairs == {p \in TaskIds \X TaskIds : Above(p[1], p[2])}

\* Both order any issues.
LEMMA IssuesOrdered ==
  ASSUME MigrationTypeOK, NEW S \in SUBSET TaskIds
  PROVE  Orders(EarlierPairs, S) /\ Orders(AbovePairs, S)
<1>1. \A i \in TaskIds : i \in Int /\ tasks[i].created \in Int /\ tasks[i].pos \in Int
  BY MigrationAssumption DEF MigrationTypeOK, Task, TaskIds
<1>2. /\ \A i, j \in TaskIds : <<i, j>> \in EarlierPairs <=> Earlier(i, j)
      /\ \A i, j \in TaskIds : <<i, j>> \in AbovePairs <=> Above(i, j)
  BY DEF EarlierPairs, AbovePairs
<1>3. /\ \A i, j, k \in TaskIds : Earlier(i, j) /\ Earlier(j, k) => Earlier(i, k)
      /\ \A i \in TaskIds : ~Earlier(i, i)
      /\ \A i, j \in TaskIds : i # j => Earlier(i, j) \/ Earlier(j, i)
  BY <1>1 DEF Earlier
<1>4. /\ \A i, j, k \in TaskIds : Above(i, j) /\ Above(j, k) => Above(i, k)
      /\ \A i \in TaskIds : ~Above(i, i)
      /\ \A i, j \in TaskIds : i # j => Above(i, j) \/ Above(j, i)
  BY <1>1, <1>3 DEF Above
<1>5. \A i \in S : i \in TaskIds
  OBVIOUS
<1>6. Orders(EarlierPairs, S)
  BY <1>2, <1>3, <1>5 DEF Orders
<1>7. Orders(AbovePairs, S)
  BY <1>2, <1>4, <1>5 DEF Orders
<1> QED BY <1>6, <1>7

\* The places migrations give to some issues.
LEMMA Places ==
  ASSUME MigrationTypeOK, NEW S \in SUBSET TaskIds
  PROVE  /\ \A i \in S : PlaceIn(S, i, Earlier) \in 1..Cardinality(S) /\ PlaceIn(S, i, Above) \in 1..Cardinality(S)
         /\ \A i, j \in S : /\ Earlier(i, j) <=> PlaceIn(S, i, Earlier) < PlaceIn(S, j, Earlier)
                            /\ Above(i, j) <=> PlaceIn(S, i, Above) < PlaceIn(S, j, Above)
         /\ {PlaceIn(S, i, Earlier) : i \in S} = 1..Cardinality(S)
         /\ {PlaceIn(S, i, Above) : i \in S} = 1..Cardinality(S)
<1>1. IsFiniteSet(S)
  BY TasksFinite
<1>2. PICK E, A : E = EarlierPairs /\ A = AbovePairs
  OBVIOUS
<1>3. Orders(E, S) /\ Orders(A, S)
  BY <1>2, IssuesOrdered
<1>4. PICK e : e = Enumerated(S, E)
  OBVIOUS
<1>5. PICK a : a = Enumerated(S, A)
  OBVIOUS
<1>6. \A i, j \in S : (<<i, j>> \in E <=> Earlier(i, j)) /\ (<<i, j>> \in A <=> Above(i, j))
  BY <1>2 DEF EarlierPairs, AbovePairs
<1>7. ASSUME NEW i \in S PROVE e[i] = PlaceIn(S, i, Earlier) /\ a[i] = PlaceIn(S, i, Above)
  <2>1. {j \in S : <<j, i>> \in E} = {j \in S : Earlier(j, i)}
    BY <1>6
  <2>2. {j \in S : <<j, i>> \in A} = {j \in S : Above(j, i)}
    BY <1>6
  <2>3. e[i] = 1 + Cardinality({j \in S : Earlier(j, i)})
    BY <1>4, <2>1 DEF Enumerated
  <2>4. a[i] = 1 + Cardinality({j \in S : Above(j, i)})
    BY <1>5, <2>2 DEF Enumerated
  <2> QED BY <2>3, <2>4 DEF PlaceIn
<1>8. /\ \A i \in S : e[i] \in 1..Cardinality(S)
      /\ \A i, j \in S : <<i, j>> \in E <=> e[i] < e[j]
      /\ {e[i] : i \in S} = 1..Cardinality(S)
  BY <1>1, <1>3, <1>4, OrderPlaces
<1>9. /\ \A i \in S : a[i] \in 1..Cardinality(S)
      /\ \A i, j \in S : <<i, j>> \in A <=> a[i] < a[j]
      /\ {a[i] : i \in S} = 1..Cardinality(S)
  BY <1>1, <1>3, <1>5, OrderPlaces
<1>10. {PlaceIn(S, i, Earlier) : i \in S} = {e[i] : i \in S} /\ {PlaceIn(S, i, Above) : i \in S} = {a[i] : i \in S}
  BY <1>7
<1> QED BY <1>6, <1>7, <1>8, <1>9, <1>10

\* What becomes of the name of a state.
NameOf(s, old, new) == IF s = old THEN new ELSE s

\* Renaming changes states only, those of the transitions included.
LEMMA RenamedParts ==
  ASSUME NEW t \in Task, NEW old, NEW new \in Offered(9)
  PROVE  LET u == Renamed(t, old, new)
         IN  /\ u \in Task
             /\ u.state = NameOf(t.state, old, new)
             /\ u.priority = t.priority /\ u.created = t.created /\ u.archived = t.archived
             /\ u.number = t.number /\ u.pos = t.pos
             /\ DOMAIN u.moves = DOMAIN t.moves /\ Len(u.moves) = Len(t.moves)
             /\ \A k \in DOMAIN t.moves : /\ u.moves[k].from = NameOf(t.moves[k].from, old, new)
                                          /\ u.moves[k].to = NameOf(t.moves[k].to, old, new)
<1>1. PICK m : m = [k \in DOMAIN t.moves |-> [from |-> NameOf(t.moves[k].from, old, new),
                                              to |-> NameOf(t.moves[k].to, old, new)]]
  OBVIOUS
<1>2. t.moves \in Seq(Move) /\ t.state \in Offered(9)
  BY DEF Task
<1>3. PICK n \in Nat : n = Len(t.moves) /\ DOMAIN t.moves = 1..n
  BY <1>2
<1>4. ASSUME NEW k \in 1..n PROVE m[k] \in Move
  <2>1. t.moves[k] \in Move
    BY <1>2, <1>3
  <2>2. NameOf(t.moves[k].from, old, new) \in Offered(9) /\ NameOf(t.moves[k].to, old, new) \in Offered(9)
    BY <2>1 DEF NameOf, Move
  <2> QED BY <1>1, <1>3, <2>2 DEF Move
<1>5. m \in Seq(Move) /\ Len(m) = n /\ DOMAIN m = 1..n
  BY <1>1, <1>3, <1>4
<1>6. Renamed(t, old, new) = [t EXCEPT !.state = NameOf(t.state, old, new), !.moves = m]
  BY <1>1 DEF Renamed, NameOf
<1>7. PICK u : u = Renamed(t, old, new)
  OBVIOUS
<1>8. /\ u.state = NameOf(t.state, old, new) /\ u.moves = m
      /\ u.priority = t.priority /\ u.created = t.created /\ u.archived = t.archived
      /\ u.number = t.number /\ u.pos = t.pos
  BY <1>6, <1>7 DEF Task
<1>9. NameOf(t.state, old, new) \in Offered(9)
  BY <1>2 DEF NameOf
<1>10. u \in Task
  BY <1>5, <1>6, <1>7, <1>8, <1>9 DEF Task
<1> QED BY <1>1, <1>3, <1>5, <1>7, <1>8, <1>10

-----------------------------------------------------------------------------
(* Data migrations: the invariant and the steps.                           *)

\* Numbers are those of the order of creation, and the next one is free.
Numbered ==
  /\ nextNumber = MaxTasks + 1
  /\ \A i, j \in TaskIds : /\ tasks[i].number < nextNumber
                           /\ Earlier(i, j) <=> tasks[i].number < tasks[j].number

\* The states of the database: transitions lead to the state they end in,
\* nothing names a state that is gone, positions and numbers come when they do.
MigrationInv ==
  /\ MigrationTypeOK /\ TrailsLinked /\ NothingOutdated
  /\ schema \in {1, 2} => \A i \in TaskIds : tasks[i].pos = 0
  /\ schema # 1 => Numbered

\* The step formula of MigrationsKeepTheBoard.
BoardKept ==
  schema' # schema =>
    /\ \A i, j \in TaskIds :
         /\ j \in SameBand(i) /\ ~tasks[i].archived /\ ~tasks[j].archived /\ Above(i, j)
         => Above(i, j)'
    /\ TrailsLinked' /\ NothingOutdated' /\ PlacedWithoutGap'
    /\ \A s \in Offered(schema') : teams[s] # NoTeam => teams'[s] = teams[s]
    /\ \A i, j \in TaskIds : tasks'[i].number < nextNumber'
                             /\ (Earlier(i, j) <=> tasks'[i].number < tasks'[j].number)

\* What the schemas offer.
LEMMA StatesOffered ==
  /\ Offered(1) = Lasting \cup {"DUPLICATE"} /\ Offered(2) = Lasting \cup {"DUPLICATE"}
  /\ Offered(3) = Lasting \cup {"BACKLOG", "DUPLICATE"} /\ Offered(9) = Lasting \cup {"BACKLOG", "DUPLICATE"}
  /\ Offered(10) = Lasting \cup {"DUPLICATE"} /\ Offered(12) = Lasting
  /\ "NEW" \in Lasting /\ "REJECTED" \in Lasting /\ "BACKLOG" \notin Lasting /\ "DUPLICATE" \notin Lasting
BY DEF Offered, Lasting

\* Issues and their fields.
LEMMA TaskFields ==
  ASSUME MigrationTypeOK, NEW i \in TaskIds
  PROVE  /\ tasks[i] \in Task /\ i \in Nat
         /\ tasks[i].created \in Int /\ tasks[i].pos \in Int /\ tasks[i].number \in Int
         /\ tasks[i].moves \in Seq(Move) /\ DOMAIN tasks[i].moves = 1..Len(tasks[i].moves)
         /\ Len(tasks[i].moves) \in Nat
<1>1. tasks[i] \in Task /\ i \in Nat
  BY DEF MigrationTypeOK, TaskIds
<1>2. tasks[i].moves \in Seq(Move)
  BY <1>1 DEF Task
<1>3. tasks[i].created \in Int /\ tasks[i].pos \in Int /\ tasks[i].number \in Int
  BY <1>1, MigrationAssumption DEF Task
<1> QED BY <1>1, <1>2, <1>3

\* The order of creation stays while nothing is created.
LEMMA EarlierKept ==
  ASSUME \A i \in TaskIds : tasks'[i].created = tasks[i].created
  PROVE  \A i, j \in TaskIds : Earlier(i, j)' <=> Earlier(i, j)
BY DEF Earlier

\* 0002: issues are numbered in the order of their creation.
LEMMA NumberTasksStep ==
  ASSUME MigrationInv, NumberTasks
  PROVE  MigrationInv' /\ BoardKept
<1> USE MigrationAssumption
<1>1. /\ schema = 1 /\ schema' = 2 /\ nextNumber' = MaxTasks + 1 /\ UNCHANGED <<teams, uses>>
      /\ tasks' = [i \in TaskIds |-> [tasks[i] EXCEPT !.number = PlaceIn(TaskIds, i, Earlier)]]
      /\ MigrationTypeOK
  BY DEF NumberTasks, MigrationInv
<1>2. \A i \in TaskIds : PlaceIn(TaskIds, i, Earlier) \in 1..MaxTasks
  <2>1. Cardinality(TaskIds) = MaxTasks
    BY FS_Interval DEF TaskIds
  <2> QED BY <1>1, <2>1, Places
<1>3. ASSUME NEW i \in TaskIds
      PROVE  /\ tasks'[i].number = PlaceIn(TaskIds, i, Earlier) /\ tasks'[i].state = tasks[i].state
             /\ tasks'[i].priority = tasks[i].priority /\ tasks'[i].created = tasks[i].created
             /\ tasks'[i].archived = tasks[i].archived /\ tasks'[i].pos = tasks[i].pos
             /\ tasks'[i].moves = tasks[i].moves /\ tasks'[i] \in Task
  <2>1. PICK n \in 0..MaxTasks : n = PlaceIn(TaskIds, i, Earlier)
    BY <1>2
  <2>2. tasks'[i] = [tasks[i] EXCEPT !.number = n] /\ tasks[i] \in Task
    BY <1>1, <2>1, TaskFields
  <2> QED BY <2>1, <2>2 DEF Task
<1>4. MigrationTypeOK'
  <2>1. tasks' \in [TaskIds -> Task]
    BY <1>1, <1>3
  <2> QED BY <1>1, <2>1 DEF MigrationTypeOK
<1>5. \A i, j \in TaskIds : Earlier(i, j)' <=> Earlier(i, j)
  BY <1>3, EarlierKept
<1>6. \A i, j \in TaskIds : tasks'[i].number < nextNumber' /\ (Earlier(i, j) <=> tasks'[i].number < tasks'[j].number)
  <2>1. \A i \in TaskIds : tasks'[i].number \in 1..MaxTasks
    BY <1>2, <1>3
  <2>2. ASSUME NEW i \in TaskIds, NEW j \in TaskIds
        PROVE  Earlier(i, j) <=> tasks'[i].number < tasks'[j].number
    <3>1. PICK S : S = TaskIds
      OBVIOUS
    <3>2. Earlier(i, j) <=> PlaceIn(S, i, Earlier) < PlaceIn(S, j, Earlier)
      BY <1>1, <3>1, Places
    <3>3. tasks'[i].number = PlaceIn(S, i, Earlier) /\ tasks'[j].number = PlaceIn(S, j, Earlier)
      BY <1>3, <3>1
    <3> QED BY <3>2, <3>3
  <2>3. ASSUME NEW i \in TaskIds PROVE tasks'[i].number < nextNumber'
    BY <1>1, <2>1
  <2> QED BY <2>2, <2>3
<1>7. TrailsLinked'
  BY <1>3 DEF MigrationInv, TrailsLinked
<1>8. NothingOutdated'
  BY <1>1, <1>3, StatesOffered DEF MigrationInv, NothingOutdated
<1>9. \A i, j \in TaskIds : Above(i, j) => Above(i, j)'
  BY <1>3, <1>5 DEF Above
<1>10. PlacedWithoutGap'
  BY <1>1 DEF PlacedWithoutGap
<1>11. \A i \in TaskIds : tasks'[i].pos = 0
  BY <1>1, <1>3 DEF MigrationInv
<1>12. Numbered'
  BY <1>1, <1>5, <1>6 DEF Numbered
<1> QED BY <1>1, <1>4, <1>6, <1>7, <1>8, <1>9, <1>10, <1>11, <1>12 DEF MigrationInv, BoardKept

\* 0003: positions are filled in, band by band.
LEMMA PlaceTasksStep ==
  ASSUME MigrationInv, PlaceTasks
  PROVE  MigrationInv' /\ BoardKept
<1> USE MigrationAssumption
<1>1. /\ schema = 2 /\ schema' = 3 /\ UNCHANGED <<nextNumber, teams, uses>>
      /\ tasks' = [i \in TaskIds |-> [tasks[i] EXCEPT !.pos = PlaceIn(SameBand(i), i, Earlier)]]
      /\ MigrationTypeOK /\ Numbered /\ \A i \in TaskIds : tasks[i].pos = 0
  BY DEF PlaceTasks, MigrationInv
<1>2. ASSUME NEW i \in TaskIds
      PROVE  /\ SameBand(i) \in SUBSET TaskIds /\ i \in SameBand(i)
             /\ PlaceIn(SameBand(i), i, Earlier) \in 0..MaxTasks
  <2>1. SameBand(i) \in SUBSET TaskIds /\ i \in SameBand(i)
    BY DEF SameBand
  <2>2. PlaceIn(SameBand(i), i, Earlier) \in 1..Cardinality(SameBand(i))
    BY <1>1, <2>1, Places
  <2>3. Cardinality(SameBand(i)) \in Nat /\ Cardinality(SameBand(i)) <= MaxTasks
    BY <2>1, TasksFinite
  <2> QED BY <2>1, <2>2, <2>3
<1>3. ASSUME NEW i \in TaskIds
      PROVE  /\ tasks'[i].pos = PlaceIn(SameBand(i), i, Earlier) /\ tasks'[i].state = tasks[i].state
             /\ tasks'[i].priority = tasks[i].priority /\ tasks'[i].created = tasks[i].created
             /\ tasks'[i].archived = tasks[i].archived /\ tasks'[i].number = tasks[i].number
             /\ tasks'[i].moves = tasks[i].moves /\ tasks'[i] \in Task
  <2>1. PICK n \in 0..MaxTasks : n = PlaceIn(SameBand(i), i, Earlier)
    BY <1>2
  <2>2. tasks'[i] = [tasks[i] EXCEPT !.pos = n] /\ tasks[i] \in Task
    BY <1>1, <2>1, TaskFields
  <2> QED BY <2>1, <2>2 DEF Task
<1>4. MigrationTypeOK'
  <2>1. tasks' \in [TaskIds -> Task]
    BY <1>1, <1>3
  <2> QED BY <1>1, <2>1 DEF MigrationTypeOK
<1>5. \A i, j \in TaskIds : Earlier(i, j)' <=> Earlier(i, j)
  BY <1>3, EarlierKept
<1>6. \A i, j \in TaskIds : tasks'[i].number < nextNumber' /\ (Earlier(i, j) <=> tasks'[i].number < tasks'[j].number)
  BY <1>1, <1>3 DEF Numbered
<1>7. TrailsLinked'
  BY <1>3 DEF MigrationInv, TrailsLinked
<1>8. NothingOutdated'
  BY <1>1, <1>3, StatesOffered DEF MigrationInv, NothingOutdated
<1>9. ASSUME NEW i \in TaskIds PROVE SameBand(i)' = SameBand(i)
  BY <1>3 DEF SameBand
<1>10. ASSUME NEW i \in TaskIds, NEW j \in SameBand(i)
       PROVE  j \in TaskIds /\ SameBand(j) = SameBand(i) /\ tasks'[j].pos = PlaceIn(SameBand(i), j, Earlier)
  <2>1. j \in TaskIds /\ SameBand(j) = SameBand(i)
    BY DEF SameBand
  <2> QED BY <1>3, <2>1
<1>11. ASSUME NEW i \in TaskIds, NEW j \in TaskIds, j \in SameBand(i), Above(i, j) PROVE Above(i, j)'
  <2>1. Earlier(i, j)
    BY <1>1, <1>11, TaskFields DEF Above
  <2>2. PlaceIn(SameBand(i), i, Earlier) < PlaceIn(SameBand(i), j, Earlier)
    BY <1>1, <1>2, <1>11, <2>1, Places
  <2>3. tasks'[i].pos < tasks'[j].pos
    BY <1>2, <1>10, <1>11, <2>2
  <2> QED BY <2>3 DEF Above
<1>12. PlacedWithoutGap'
  <2>1. ASSUME NEW i \in TaskIds
        PROVE  {tasks'[j].pos : j \in SameBand(i)'} = 1..Cardinality(SameBand(i)')
    <3>1. PICK S : S = SameBand(i)
      OBVIOUS
    <3>2. SameBand(i)' = S /\ S \in SUBSET TaskIds
      BY <1>2, <1>9, <3>1
    <3>3. \A j \in S : tasks'[j].pos = PlaceIn(S, j, Earlier)
      BY <1>10, <3>1
    <3>4. {tasks'[j].pos : j \in S} = {PlaceIn(S, j, Earlier) : j \in S}
      BY <3>3
    <3>5. {PlaceIn(S, j, Earlier) : j \in S} = 1..Cardinality(S)
      BY <1>1, <3>2, Places
    <3> QED BY <3>2, <3>4, <3>5
  <2>2. schema' = 3 /\ schema' # 10
    BY <1>1
  <2> QED BY <2>1, <2>2 DEF PlacedWithoutGap
<1>13. Numbered'
  BY <1>1, <1>5, <1>6 DEF Numbered
<1>14. schema' = 3 /\ teams' = teams
  BY <1>1
<1>15. MigrationInv'
  BY <1>4, <1>7, <1>8, <1>13, <1>14 DEF MigrationInv
<1>16. \A i, j \in TaskIds : j \in SameBand(i) /\ ~tasks[i].archived /\ ~tasks[j].archived /\ Above(i, j) => Above(i, j)'
  BY <1>11
<1> QED BY <1>6, <1>7, <1>8, <1>12, <1>14, <1>15, <1>16 DEF BoardKept

\* 0009: the rules get a table.
LEMMA AddRulesStep ==
  ASSUME MigrationInv, AddRules
  PROVE  MigrationInv' /\ BoardKept
<1>1. schema = 3 /\ schema' = 9 /\ UNCHANGED <<tasks, nextNumber, teams, uses>> /\ Numbered /\ MigrationTypeOK
  BY DEF AddRules, MigrationInv
<1>2. \A i, j \in TaskIds : (Earlier(i, j)' <=> Earlier(i, j)) /\ (Above(i, j)' <=> Above(i, j))
  BY <1>1 DEF Earlier, Above
<1>3. TrailsLinked' /\ NothingOutdated' /\ MigrationTypeOK'
  BY <1>1, StatesOffered DEF MigrationInv, TrailsLinked, NothingOutdated, MigrationTypeOK
<1>4. Numbered' /\ PlacedWithoutGap'
  BY <1>1, <1>2 DEF Numbered, PlacedWithoutGap
<1> QED BY <1>1, <1>2, <1>3, <1>4 DEF MigrationInv, BoardKept, Numbered

\* A state that goes: its issues, transitions and rule take the other's name.
LEMMA RenamingKeeps ==
  ASSUME MigrationInv, NEW old \in Offered(schema), NEW new \in Offered(schema), old # new,
         \A i \in TaskIds :
           /\ tasks'[i].state = NameOf(tasks[i].state, old, new)
           /\ DOMAIN tasks'[i].moves = DOMAIN tasks[i].moves /\ Len(tasks'[i].moves) = Len(tasks[i].moves)
           /\ \A k \in DOMAIN tasks[i].moves :
                /\ tasks'[i].moves[k].from = NameOf(tasks[i].moves[k].from, old, new)
                /\ tasks'[i].moves[k].to = NameOf(tasks[i].moves[k].to, old, new),
         Offered(schema') = Offered(schema) \ {old}, Offered(schema) \subseteq Offered(9),
         teams' = RulesRenamed(old, new)
  PROVE  /\ TrailsLinked' /\ NothingOutdated' /\ teams' \in [Offered(9) -> Teams \cup {NoTeam}]
         /\ \A s \in Offered(schema') : teams[s] # NoTeam => teams'[s] = teams[s]
<1>1. TrailsLinked /\ NothingOutdated /\ MigrationTypeOK /\ teams \in [Offered(9) -> Teams \cup {NoTeam}]
  BY DEF MigrationInv, MigrationTypeOK
<1>2. ASSUME NEW i \in TaskIds
      PROVE  /\ \A k \in 1..(Len(tasks'[i].moves) - 1) : tasks'[i].moves[k].to = tasks'[i].moves[k + 1].from
             /\ tasks'[i].moves # <<>> => tasks'[i].moves[Len(tasks'[i].moves)].to = tasks'[i].state
  <2>1. PICK m, t, n : n \in Nat /\ m = tasks[i].moves /\ t = tasks[i].state /\ n = Len(m) /\ DOMAIN m = 1..n /\ m \in Seq(Move)
    BY <1>1, TaskFields
  <2>2. (\A k \in 1..(n - 1) : m[k].to = m[k + 1].from) /\ (m # <<>> => m[n].to = t)
    BY <1>1, <2>1 DEF TrailsLinked
  <2>3. PICK u : u = tasks'[i].moves
    OBVIOUS
  <2>4. /\ DOMAIN u = 1..n /\ Len(u) = n /\ tasks'[i].state = NameOf(t, old, new)
        /\ \A k \in 1..n : u[k].from = NameOf(m[k].from, old, new) /\ u[k].to = NameOf(m[k].to, old, new)
    BY <2>1, <2>3
  <2>5. \A k \in 1..(n - 1) : u[k].to = u[k + 1].from
    <3>1. ASSUME NEW k \in 1..(n - 1) PROVE u[k].to = u[k + 1].from
      <4>1. k \in 1..n /\ k + 1 \in 1..n
        BY <2>1
      <4>2. m[k].to = m[k + 1].from
        BY <2>2
      <4> QED BY <2>4, <4>1, <4>2
    <3> QED BY <3>1
  <2>6. ASSUME u # <<>> PROVE u[n].to = tasks'[i].state
    <3>1. n # 0
      BY <2>4, <2>6
    <3>2. m # <<>> /\ n \in 1..n
      BY <2>1, <3>1
    <3> QED BY <2>2, <2>4, <3>2
  <2> QED BY <2>3, <2>4, <2>5, <2>6
<1>3. TrailsLinked'
  BY <1>2 DEF TrailsLinked
<1>4. \A s \in Offered(schema) : NameOf(s, old, new) \in Offered(schema')
  BY DEF NameOf
<1>5. ASSUME NEW i \in TaskIds
      PROVE  /\ tasks'[i].state \in Offered(schema')
             /\ \A k \in DOMAIN tasks'[i].moves :
                  {tasks'[i].moves[k].from, tasks'[i].moves[k].to} \subseteq Offered(schema')
  <2>1. /\ tasks[i].state \in Offered(schema)
        /\ \A k \in DOMAIN tasks[i].moves :
             tasks[i].moves[k].from \in Offered(schema) /\ tasks[i].moves[k].to \in Offered(schema)
    BY <1>1 DEF NothingOutdated
  <2> QED BY <1>4, <2>1
<1>6. /\ teams' \in [Offered(9) -> Teams \cup {NoTeam}]
      /\ teams'[old] = NoTeam
      /\ teams'[new] = IF teams[new] # NoTeam THEN teams[new] ELSE teams[old]
      /\ \A s \in Offered(9) \ {old, new} : teams'[s] = teams[s]
  BY <1>1 DEF RulesRenamed
<1>7. \A s \in Offered(9) \ Offered(schema') : teams'[s] = NoTeam
  <2>1. ASSUME NEW s \in Offered(9) \ Offered(schema'), s # old PROVE teams'[s] = NoTeam
    <3>1. s \notin Offered(schema) /\ s # new
      BY <2>1
    <3>2. teams[s] = NoTeam
      BY <1>1, <3>1 DEF NothingOutdated
    <3> QED BY <1>6, <2>1, <3>1, <3>2
  <2> QED BY <1>6, <2>1
<1>8. NothingOutdated'
  BY <1>5, <1>7 DEF NothingOutdated
<1>9. \A s \in Offered(schema') : teams[s] # NoTeam => teams'[s] = teams[s]
  BY <1>6
<1> QED BY <1>3, <1>6, <1>8, <1>9

\* 0010: BACKLOG and NEW become one column, numbered afresh.
LEMMA DropBacklogStep ==
  ASSUME MigrationInv, DropBacklog
  PROVE  MigrationInv' /\ BoardKept
<1> DEFINE fresh == {i \in TaskIds : tasks[i].state \in {"BACKLOG", "NEW"} /\ ~tasks[i].archived}
           peers(i) == {j \in TaskIds : /\ tasks[j].state \in {"BACKLOG", "NEW"} /\ ~tasks[j].archived
                                        /\ tasks[j].priority = tasks[i].priority}
<1>1. /\ schema = 9 /\ schema' = 10 /\ UNCHANGED <<nextNumber, uses>> /\ teams' = RulesRenamed("BACKLOG", "NEW")
      /\ MigrationTypeOK /\ Numbered
  BY DEF DropBacklog, MigrationInv
<1>2. tasks' = [i \in TaskIds |-> [Renamed(tasks[i], "BACKLOG", "NEW") EXCEPT
                                     !.pos = IF i \in fresh THEN PlaceIn(peers(i), i, Above) ELSE @]]
  BY DEF DropBacklog
<1>3. \A i \in TaskIds : peers(i) \in SUBSET TaskIds
  OBVIOUS
<1>4. \A i, j \in TaskIds : /\ i \in fresh => i \in peers(i)
                            /\ j \in peers(i) => j \in fresh /\ peers(j) = peers(i)
  OBVIOUS
<1> HIDE DEF fresh, peers
<1>5. ASSUME NEW i \in TaskIds
      PROVE  /\ tasks'[i] \in Task
             /\ tasks'[i].state = NameOf(tasks[i].state, "BACKLOG", "NEW")
             /\ tasks'[i].priority = tasks[i].priority /\ tasks'[i].created = tasks[i].created
             /\ tasks'[i].archived = tasks[i].archived /\ tasks'[i].number = tasks[i].number
             /\ tasks'[i].pos = IF i \in fresh THEN PlaceIn(peers(i), i, Above) ELSE tasks[i].pos
             /\ DOMAIN tasks'[i].moves = DOMAIN tasks[i].moves /\ Len(tasks'[i].moves) = Len(tasks[i].moves)
             /\ \A k \in DOMAIN tasks[i].moves :
                  /\ tasks'[i].moves[k].from = NameOf(tasks[i].moves[k].from, "BACKLOG", "NEW")
                  /\ tasks'[i].moves[k].to = NameOf(tasks[i].moves[k].to, "BACKLOG", "NEW")
  <2>1. PICK u : u = Renamed(tasks[i], "BACKLOG", "NEW")
    OBVIOUS
  <2>2. tasks[i] \in Task /\ "NEW" \in Offered(9)
    BY <1>1, TaskFields, StatesOffered
  <2>3. /\ u \in Task /\ u.state = NameOf(tasks[i].state, "BACKLOG", "NEW")
        /\ u.priority = tasks[i].priority /\ u.created = tasks[i].created /\ u.archived = tasks[i].archived
        /\ u.number = tasks[i].number /\ u.pos = tasks[i].pos
        /\ DOMAIN u.moves = DOMAIN tasks[i].moves /\ Len(u.moves) = Len(tasks[i].moves)
        /\ \A k \in DOMAIN tasks[i].moves : /\ u.moves[k].from = NameOf(tasks[i].moves[k].from, "BACKLOG", "NEW")
                                            /\ u.moves[k].to = NameOf(tasks[i].moves[k].to, "BACKLOG", "NEW")
    BY <2>1, <2>2, RenamedParts
  <2>4. PICK n : n = IF i \in fresh THEN PlaceIn(peers(i), i, Above) ELSE tasks[i].pos
    OBVIOUS
  <2>5. n \in 0..MaxTasks
    <3>1. CASE i \in fresh
      <4>1. peers(i) \in SUBSET TaskIds /\ i \in peers(i)
        BY <1>3, <1>4, <3>1
      <4>2. n \in 1..Cardinality(peers(i))
        BY <1>1, <2>4, <3>1, <4>1, Places
      <4>3. Cardinality(peers(i)) \in Nat /\ Cardinality(peers(i)) <= MaxTasks
        BY <4>1, TasksFinite
      <4> QED BY <4>2, <4>3, MigrationAssumption
    <3>2. CASE i \notin fresh
      BY <2>2, <2>4, <3>2 DEF Task
    <3> QED BY <3>1, <3>2
  <2>6. tasks'[i] = [u EXCEPT !.pos = n]
    BY <1>2, <2>1, <2>3, <2>4
  <2>7. PICK v : v = tasks'[i]
    OBVIOUS
  <2>8. v \in Task /\ v.pos = n /\ v.state = u.state /\ v.priority = u.priority /\ v.created = u.created
        /\ v.archived = u.archived /\ v.number = u.number /\ v.moves = u.moves
    BY <2>3, <2>5, <2>6, <2>7 DEF Task
  <2> QED BY <2>3, <2>4, <2>7, <2>8
<1>6. MigrationTypeOK' /\ TrailsLinked' /\ NothingOutdated'
      /\ \A s \in Offered(schema') : teams[s] # NoTeam => teams'[s] = teams[s]
  <2>1. tasks' \in [TaskIds -> Task]
    BY <1>2, <1>5
  <2>2. /\ "BACKLOG" \in Offered(schema) /\ "NEW" \in Offered(schema) /\ Offered(schema') = Offered(schema) \ {"BACKLOG"}
        /\ Offered(schema) = Offered(9)
    BY <1>1, StatesOffered
  <2>3. /\ TrailsLinked' /\ NothingOutdated' /\ teams' \in [Offered(9) -> Teams \cup {NoTeam}]
        /\ \A s \in Offered(schema') : teams[s] # NoTeam => teams'[s] = teams[s]
    <3>1. PICK old, new : old = "BACKLOG" /\ new = "NEW"
      OBVIOUS
    <3>2. old \in Offered(schema) /\ new \in Offered(schema) /\ old # new /\ Offered(schema') = Offered(schema) \ {old}
          /\ teams' = RulesRenamed(old, new) /\ Offered(schema) \subseteq Offered(9)
      BY <1>1, <2>2, <3>1
    <3>3. \A i \in TaskIds :
           /\ tasks'[i].state = NameOf(tasks[i].state, old, new)
           /\ DOMAIN tasks'[i].moves = DOMAIN tasks[i].moves /\ Len(tasks'[i].moves) = Len(tasks[i].moves)
           /\ \A k \in DOMAIN tasks[i].moves :
                /\ tasks'[i].moves[k].from = NameOf(tasks[i].moves[k].from, old, new)
                /\ tasks'[i].moves[k].to = NameOf(tasks[i].moves[k].to, old, new)
      BY <1>5, <3>1
    <3> QED BY <3>2, <3>3, RenamingKeeps
  <2> QED BY <1>1, <2>1, <2>3 DEF MigrationTypeOK
<1>7. \A i, j \in TaskIds : Earlier(i, j)' <=> Earlier(i, j)
  BY <1>5, EarlierKept
<1>8. Numbered'
  BY <1>1, <1>5, <1>7 DEF Numbered
<1>9. ASSUME NEW i \in TaskIds, NEW j \in TaskIds, j \in SameBand(i), ~tasks[i].archived, ~tasks[j].archived, Above(i, j)
      PROVE  Above(i, j)'
  <2>1. tasks[j].state = tasks[i].state /\ tasks[j].priority = tasks[i].priority
    BY <1>9 DEF SameBand
  <2>2. CASE i \in fresh
    <3>1. i \in peers(i) /\ j \in peers(i)
      BY <1>4, <1>9, <2>1, <2>2 DEF fresh, peers
    <3>2. j \in fresh /\ peers(j) = peers(i) /\ peers(i) \in SUBSET TaskIds
      BY <1>3, <1>4, <3>1
    <3>3. PlaceIn(peers(i), i, Above) < PlaceIn(peers(i), j, Above)
      BY <1>1, <1>9, <3>1, <3>2, Places
    <3>4. tasks'[i].pos < tasks'[j].pos
      BY <1>5, <2>2, <3>2, <3>3
    <3> QED BY <3>4 DEF Above
  <2>3. CASE i \notin fresh
    <3>1. j \notin fresh
      BY <1>9, <2>1, <2>3 DEF fresh
    <3>2. tasks'[i].pos = tasks[i].pos /\ tasks'[j].pos = tasks[j].pos
      BY <1>5, <2>3, <3>1
    <3> QED BY <1>7, <1>9, <3>2 DEF Above
  <2> QED BY <2>2, <2>3
<1>10. PlacedWithoutGap'
  <2>1. ASSUME NEW i \in TaskIds, ~tasks'[i].archived, tasks'[i].state = "NEW"
        PROVE  LET live == {j \in SameBand(i)' : ~tasks'[j].archived}
               IN  {tasks'[j].pos : j \in live} = 1..Cardinality(live)
    <3>1. PICK S : S = peers(i)
      OBVIOUS
    <3>2. \A j \in TaskIds : tasks'[j].state = "NEW" <=> tasks[j].state \in {"BACKLOG", "NEW"}
      BY <1>5 DEF NameOf
    <3>3. {j \in SameBand(i)' : ~tasks'[j].archived} = S
      BY <1>5, <2>1, <3>1, <3>2 DEF SameBand, peers
    <3>4. i \in fresh /\ S \in SUBSET TaskIds
      BY <1>3, <1>5, <2>1, <3>1, <3>2 DEF fresh
    <3>5. \A j \in S : j \in TaskIds /\ j \in fresh /\ peers(j) = S
      BY <1>4, <3>1, <3>4
    <3>6. \A j \in S : tasks'[j].pos = PlaceIn(S, j, Above)
      BY <1>5, <3>5
    <3>7. {tasks'[j].pos : j \in S} = {PlaceIn(S, j, Above) : j \in S}
      BY <3>6
    <3>8. {PlaceIn(S, j, Above) : j \in S} = 1..Cardinality(S)
      BY <1>1, <3>4, Places
    <3> QED BY <3>3, <3>7, <3>8
  <2>2. schema' = 10 /\ schema' # 3
    BY <1>1
  <2> QED BY <2>1, <2>2 DEF PlacedWithoutGap
<1>11. \A i, j \in TaskIds : tasks'[i].number < nextNumber' /\ (Earlier(i, j) <=> tasks'[i].number < tasks'[j].number)
  BY <1>7, <1>8 DEF Numbered
<1>12. schema' = 10
  BY <1>1
<1>13. MigrationInv'
  BY <1>6, <1>8, <1>12 DEF MigrationInv
<1>14. \A i, j \in TaskIds : j \in SameBand(i) /\ ~tasks[i].archived /\ ~tasks[j].archived /\ Above(i, j) => Above(i, j)'
  BY <1>9
<1> QED BY <1>6, <1>10, <1>11, <1>12, <1>13, <1>14 DEF BoardKept

\* 0012: DUPLICATE and REJECTED become one column, with the positions they had.
LEMMA DropDuplicateStep ==
  ASSUME MigrationInv, DropDuplicate
  PROVE  MigrationInv' /\ BoardKept
<1>1. /\ schema = 10 /\ schema' = 12 /\ UNCHANGED <<nextNumber, uses>> /\ teams' = RulesRenamed("DUPLICATE", "REJECTED")
      /\ tasks' = [i \in TaskIds |-> Renamed(tasks[i], "DUPLICATE", "REJECTED")]
      /\ MigrationTypeOK /\ Numbered
  BY DEF DropDuplicate, MigrationInv
<1>2. PICK old, new : old = "DUPLICATE" /\ new = "REJECTED"
  OBVIOUS
<1>3. /\ old \in Offered(schema) /\ new \in Offered(schema) /\ old # new /\ Offered(schema') = Offered(schema) \ {old}
      /\ teams' = RulesRenamed(old, new) /\ Offered(schema) \subseteq Offered(9) /\ new \in Offered(9)
  BY <1>1, <1>2, StatesOffered
<1>4. ASSUME NEW i \in TaskIds
      PROVE  /\ tasks'[i] \in Task
             /\ tasks'[i].state = NameOf(tasks[i].state, old, new)
             /\ tasks'[i].priority = tasks[i].priority /\ tasks'[i].created = tasks[i].created
             /\ tasks'[i].archived = tasks[i].archived /\ tasks'[i].number = tasks[i].number
             /\ tasks'[i].pos = tasks[i].pos
             /\ DOMAIN tasks'[i].moves = DOMAIN tasks[i].moves /\ Len(tasks'[i].moves) = Len(tasks[i].moves)
             /\ \A k \in DOMAIN tasks[i].moves :
                  /\ tasks'[i].moves[k].from = NameOf(tasks[i].moves[k].from, old, new)
                  /\ tasks'[i].moves[k].to = NameOf(tasks[i].moves[k].to, old, new)
  <2>1. tasks'[i] = Renamed(tasks[i], old, new) /\ tasks[i] \in Task
    BY <1>1, <1>2, TaskFields
  <2> QED BY <1>3, <2>1, RenamedParts
<1>5. /\ TrailsLinked' /\ NothingOutdated' /\ teams' \in [Offered(9) -> Teams \cup {NoTeam}]
      /\ \A s \in Offered(schema') : teams[s] # NoTeam => teams'[s] = teams[s]
  BY <1>3, <1>4, RenamingKeeps
<1>6. MigrationTypeOK'
  <2>1. tasks' \in [TaskIds -> Task]
    BY <1>1, <1>4
  <2> QED BY <1>1, <1>5, <2>1 DEF MigrationTypeOK
<1>7. \A i, j \in TaskIds : Earlier(i, j)' <=> Earlier(i, j)
  BY <1>4, EarlierKept
<1>8. Numbered'
  BY <1>1, <1>4, <1>7 DEF Numbered
<1>9. \A i, j \in TaskIds : Above(i, j) => Above(i, j)'
  BY <1>4, <1>7 DEF Above
<1>10. schema' = 12
  BY <1>1
<1>11. PlacedWithoutGap'
  BY <1>10 DEF PlacedWithoutGap
<1>12. \A i, j \in TaskIds : tasks'[i].number < nextNumber' /\ (Earlier(i, j) <=> tasks'[i].number < tasks'[j].number)
  BY <1>7, <1>8 DEF Numbered
<1>13. MigrationInv'
  BY <1>5, <1>6, <1>8, <1>10 DEF MigrationInv
<1> QED BY <1>5, <1>9, <1>11, <1>12, <1>13 DEF BoardKept

\* An issue is moved: its transitions have one more, to where it goes.
LEMMA MoveTaskStep ==
  ASSUME MigrationInv, NEW i \in TaskIds, NEW s \in LaterStates, NEW place \in 1..MaxTasks, MoveTask(i, s, place)
  PROVE  MigrationInv'
<1>1. /\ schema \in {9, 10} /\ uses < MaxUses /\ uses' = uses + 1 /\ UNCHANGED <<schema, nextNumber, teams>>
      /\ s \in Offered(schema)
      /\ tasks' = [tasks EXCEPT ![i].state = s, ![i].pos = place,
                                ![i].moves = Append(@, [from |-> tasks[i].state, to |-> s])]
      /\ MigrationTypeOK /\ Numbered /\ TrailsLinked /\ NothingOutdated
  BY DEF MoveTask, Use, MigrationInv
<1>2. PICK t, m, x : t = tasks[i] /\ m = t.moves /\ x = [from |-> t.state, to |-> s]
  OBVIOUS
<1>3. t \in Task /\ m \in Seq(Move) /\ DOMAIN m = 1..Len(m) /\ Len(m) \in Nat
  BY <1>1, <1>2, TaskFields
<1>4. t.state \in Offered(schema) /\ s \in Offered(9) /\ Offered(schema) \subseteq Offered(9)
  BY <1>1, <1>2, StatesOffered DEF NothingOutdated
<1>5. x \in Move /\ x.from = t.state /\ x.to = s
  BY <1>2, <1>4 DEF Move
<1>6. PICK u : u = Append(m, x)
  OBVIOUS
<1>7. /\ u \in Seq(Move) /\ Len(u) = Len(m) + 1 /\ DOMAIN u = 1..(Len(m) + 1)
      /\ u[Len(m) + 1] = x /\ \A k \in 1..Len(m) : u[k] = m[k]
  BY <1>3, <1>5, <1>6
<1>8. PICK v : v = tasks'[i]
  OBVIOUS
<1>9. v = [t EXCEPT !.state = s, !.pos = place, !.moves = u]
  <2>1. tasks \in [TaskIds -> Task]
    BY <1>1 DEF MigrationTypeOK
  <2> QED BY <1>1, <1>2, <1>3, <1>6, <1>8, <2>1 DEF Task
<1>10. /\ v.state = s /\ v.pos = place /\ v.moves = u /\ v.priority = t.priority /\ v.created = t.created
       /\ v.archived = t.archived /\ v.number = t.number
  BY <1>3, <1>9 DEF Task
<1>11. v \in Task
  <2>1. place \in 0..MaxTasks
    OBVIOUS
  <2> QED BY <1>3, <1>4, <1>7, <1>9, <1>10, <2>1 DEF Task
<1>12. DOMAIN tasks' = TaskIds /\ \A j \in TaskIds : j # i => tasks'[j] = tasks[j]
  BY <1>1 DEF MigrationTypeOK
<1>13. MigrationTypeOK'
  <2>1. tasks' \in [TaskIds -> Task]
    <3>1. \A j \in TaskIds : tasks'[j] \in Task
      BY <1>1, <1>8, <1>11, <1>12, TaskFields
    <3>2. tasks' = [j \in TaskIds |-> tasks'[j]]
      BY <1>1, <1>12 DEF MigrationTypeOK
    <3> QED BY <3>1, <3>2
  <2>2. uses' \in 0..MaxUses
    BY <1>1, MigrationAssumption DEF MigrationTypeOK
  <2> QED BY <1>1, <2>1, <2>2 DEF MigrationTypeOK
<1>14. \A j \in TaskIds : tasks'[j].created = tasks[j].created /\ tasks'[j].number = tasks[j].number
  BY <1>2, <1>8, <1>10, <1>12
<1>15. Numbered'
  <2>1. \A j, h \in TaskIds : Earlier(j, h)' <=> Earlier(j, h)
    BY <1>14, EarlierKept
  <2>2. ASSUME NEW j \in TaskIds, NEW h \in TaskIds
        PROVE  tasks'[j].number < nextNumber' /\ (Earlier(j, h)' <=> tasks'[j].number < tasks'[h].number)
    <3>1. tasks[j].number < nextNumber /\ (Earlier(j, h) <=> tasks[j].number < tasks[h].number) /\ nextNumber' = nextNumber
      BY <1>1 DEF Numbered
    <3>2. tasks'[j].number = tasks[j].number /\ tasks'[h].number = tasks[h].number
      BY <1>14
    <3> QED BY <2>1, <3>1, <3>2
  <2>3. nextNumber' = MaxTasks + 1
    BY <1>1 DEF Numbered
  <2> QED BY <2>2, <2>3 DEF Numbered
<1>16. TrailsLinked'
  <2>1. ASSUME NEW j \in TaskIds
        PROVE  /\ \A k \in 1..(Len(tasks'[j].moves) - 1) : tasks'[j].moves[k].to = tasks'[j].moves[k + 1].from
               /\ tasks'[j].moves # <<>> => tasks'[j].moves[Len(tasks'[j].moves)].to = tasks'[j].state
    <3>1. CASE j # i
      BY <1>1, <1>12, <3>1 DEF TrailsLinked
    <3>2. CASE j = i
      <4>1. (\A k \in 1..(Len(m) - 1) : m[k].to = m[k + 1].from) /\ (m # <<>> => m[Len(m)].to = t.state)
        BY <1>1, <1>2 DEF TrailsLinked
      <4>2. PICK n \in Nat : n = Len(m) /\ Len(u) = n + 1 /\ u[n + 1] = x /\ \A k \in 1..n : u[k] = m[k]
        BY <1>3, <1>7
      <4>3. ASSUME NEW k \in 1..n PROVE u[k].to = u[k + 1].from
        <5>1. CASE k = n
          <6>1. m # <<>> /\ u[k] = m[n] /\ u[k + 1] = x
            BY <1>3, <4>2, <5>1
          <6> QED BY <1>5, <4>1, <4>2, <6>1
        <5>2. CASE k # n
          <6>1. k \in 1..(n - 1) /\ k + 1 \in 1..n
            BY <4>2, <5>2
          <6> QED BY <4>1, <4>2, <6>1
        <5> QED BY <5>1, <5>2
      <4>4. u[n + 1].to = s /\ Len(u) - 1 = n
        BY <1>5, <4>2
      <4> QED BY <1>8, <1>10, <3>2, <4>2, <4>3, <4>4
    <3> QED BY <3>1, <3>2
  <2> QED BY <2>1 DEF TrailsLinked
<1>17. NothingOutdated'
  <2>1. ASSUME NEW j \in TaskIds
        PROVE  /\ tasks'[j].state \in Offered(schema)
               /\ \A k \in DOMAIN tasks'[j].moves :
                    {tasks'[j].moves[k].from, tasks'[j].moves[k].to} \subseteq Offered(schema)
    <3>1. CASE j # i
      BY <1>1, <1>12, <3>1 DEF NothingOutdated
    <3>2. CASE j = i
      <4>1. \A k \in 1..Len(m) : m[k].from \in Offered(schema) /\ m[k].to \in Offered(schema)
        BY <1>1, <1>2, <1>3 DEF NothingOutdated
      <4>2. PICK n \in Nat : n = Len(m) /\ DOMAIN u = 1..(n + 1) /\ u[n + 1] = x /\ \A k \in 1..n : u[k] = m[k]
        BY <1>3, <1>7
      <4>3. ASSUME NEW k \in 1..(n + 1) PROVE {u[k].from, u[k].to} \subseteq Offered(schema)
        <5>1. CASE k = n + 1
          BY <1>1, <1>4, <1>5, <4>2, <5>1
        <5>2. CASE k # n + 1
          <6>1. k \in 1..n
            BY <4>2, <5>2
          <6> QED BY <4>1, <4>2, <6>1
        <5> QED BY <5>1, <5>2
      <4>4. v.state \in Offered(schema) /\ \A k \in DOMAIN v.moves : {v.moves[k].from, v.moves[k].to} \subseteq Offered(schema)
        BY <1>1, <1>10, <4>2, <4>3
      <4> QED BY <1>8, <3>2, <4>4
    <3> QED BY <3>1, <3>2
  <2> QED BY <1>1, <2>1 DEF NothingOutdated
<1> QED BY <1>1, <1>13, <1>15, <1>16, <1>17 DEF MigrationInv

\* An issue is archived, or a rule set: names and orders stay.
LEMMA UseStep ==
  ASSUME MigrationInv, (\E i \in TaskIds : ArchiveTask(i)) \/ (\E s \in LaterStates, t \in Teams \cup {NoTeam} : SetTeam(s, t))
  PROVE  MigrationInv'
<1>1. /\ schema \in {9, 10} /\ uses < MaxUses /\ uses' = uses + 1 /\ UNCHANGED <<schema, nextNumber>>
      /\ MigrationTypeOK /\ Numbered /\ TrailsLinked /\ NothingOutdated
  BY DEF ArchiveTask, SetTeam, Use, MigrationInv
<1>2. uses' \in 0..MaxUses
  BY <1>1, MigrationAssumption DEF MigrationTypeOK
<1>3. ASSUME NEW i \in TaskIds, ArchiveTask(i) PROVE MigrationInv'
  <2>1. tasks' = [tasks EXCEPT ![i].archived = TRUE] /\ teams' = teams /\ tasks \in [TaskIds -> Task]
    BY <1>1, <1>3 DEF ArchiveTask, MigrationTypeOK
  <2>2. ASSUME NEW j \in TaskIds
        PROVE  /\ tasks'[j] \in Task /\ tasks'[j].state = tasks[j].state /\ tasks'[j].created = tasks[j].created
               /\ tasks'[j].number = tasks[j].number /\ tasks'[j].moves = tasks[j].moves
    BY <2>1 DEF Task
  <2>3. tasks' \in [TaskIds -> Task]
    BY <2>1, <2>2
  <2>4. \A j, h \in TaskIds : Earlier(j, h)' <=> Earlier(j, h)
    BY <2>2, EarlierKept
  <2>5. Numbered'
    BY <1>1, <2>2, <2>4 DEF Numbered
  <2>6. TrailsLinked'
    BY <1>1, <2>2 DEF TrailsLinked
  <2>7. NothingOutdated'
    BY <1>1, <2>1, <2>2 DEF NothingOutdated
  <2>8. MigrationTypeOK'
    BY <1>1, <1>2, <2>1, <2>3 DEF MigrationTypeOK
  <2> QED BY <1>1, <2>5, <2>6, <2>7, <2>8 DEF MigrationInv
<1>4. ASSUME NEW s \in LaterStates, NEW t \in Teams \cup {NoTeam}, SetTeam(s, t) PROVE MigrationInv'
  <2>1. s \in Offered(schema) /\ teams' = [teams EXCEPT ![s] = t] /\ tasks' = tasks
    BY <1>4 DEF SetTeam
  <2>2. teams' \in [Offered(9) -> Teams \cup {NoTeam}] /\ \A r \in Offered(9) : r # s => teams'[r] = teams[r]
    BY <1>1, <2>1 DEF MigrationTypeOK
  <2>3. \A j, h \in TaskIds : Earlier(j, h)' <=> Earlier(j, h)
    BY <2>1, EarlierKept
  <2>4. Numbered' /\ TrailsLinked' /\ MigrationTypeOK'
    BY <1>1, <1>2, <2>1, <2>2, <2>3 DEF Numbered, TrailsLinked, MigrationTypeOK
  <2>5. NothingOutdated'
    BY <1>1, <2>1, <2>2 DEF NothingOutdated
  <2> QED BY <1>1, <2>4, <2>5 DEF MigrationInv
<1> QED BY <1>3, <1>4

\* A database of the first schema.
LEMMA MigrationStart == ASSUME MigrationInit PROVE MigrationInv
<1>1. /\ schema = 1 /\ nextNumber = 1 /\ uses = 0 /\ teams = [s \in Offered(9) |-> NoTeam]
      /\ tasks \in [TaskIds -> [state : FirstStates, priority : BandPriorities, created : 0..1,
                                archived : {FALSE}, number : {0}, pos : {0}, moves : {<<>>}]]
  BY DEF MigrationInit
<1>2. FirstStates \subseteq Offered(1) /\ Offered(1) \subseteq Offered(9) /\ MaxTasks \in Nat /\ MaxUses \in Nat
  BY MigrationAssumption, StatesOffered
<1>3. ASSUME NEW i \in TaskIds
      PROVE  /\ tasks[i] \in Task /\ tasks[i].state \in Offered(1) /\ tasks[i].pos = 0 /\ tasks[i].moves = <<>>
  <2>1. tasks[i] \in [state : FirstStates, priority : BandPriorities, created : 0..1,
                      archived : {FALSE}, number : {0}, pos : {0}, moves : {<<>>}]
    BY <1>1
  <2>2. <<>> \in Seq(Move) /\ 0 \in 0..MaxTasks
    BY <1>2
  <2>3. tasks[i].state \in FirstStates /\ tasks[i].pos = 0 /\ tasks[i].moves = <<>>
    BY <2>1
  <2>4. tasks[i] \in Task
    BY <1>2, <2>1, <2>2 DEF Task
  <2> QED BY <1>2, <2>3, <2>4
<1>4. MigrationTypeOK
  <2>1. tasks \in [TaskIds -> Task]
    BY <1>1, <1>3
  <2> QED BY <1>1, <1>2, <2>1 DEF MigrationTypeOK
<1>5. TrailsLinked
  BY <1>3 DEF TrailsLinked
<1>6. NothingOutdated
  BY <1>1, <1>3 DEF NothingOutdated
<1> QED BY <1>1, <1>3, <1>4, <1>5, <1>6 DEF MigrationInv

\* Every step keeps the invariant, and the migrations the board.
LEMMA MigrationsStep ==
  ASSUME MigrationInv, [MigrationNext]_migrationVars
  PROVE  MigrationInv' /\ BoardKept
<1>1. CASE NumberTasks
  BY <1>1, NumberTasksStep
<1>2. CASE PlaceTasks
  BY <1>2, PlaceTasksStep
<1>3. CASE AddRules
  BY <1>3, AddRulesStep
<1>4. CASE DropBacklog
  BY <1>4, DropBacklogStep
<1>5. CASE DropDuplicate
  BY <1>5, DropDuplicateStep
<1>6. ASSUME NEW i \in TaskIds, NEW s \in LaterStates, NEW place \in 1..MaxTasks, MoveTask(i, s, place)
      PROVE  MigrationInv' /\ BoardKept
  <2>1. schema' = schema
    BY <1>6 DEF MoveTask, Use
  <2> QED BY <1>6, <2>1, MoveTaskStep DEF BoardKept
<1>7. CASE (\E i \in TaskIds : ArchiveTask(i)) \/ (\E s \in LaterStates, t \in Teams \cup {NoTeam} : SetTeam(s, t))
  <2>1. schema' = schema
    BY <1>7 DEF ArchiveTask, SetTeam, Use
  <2> QED BY <1>7, <2>1, UseStep DEF BoardKept
<1>8. CASE UNCHANGED migrationVars
  <2>1. schema' = schema /\ \A i, j \in TaskIds : Earlier(i, j)' <=> Earlier(i, j)
    BY <1>8 DEF migrationVars, Earlier
  <2>2. MigrationTypeOK' /\ TrailsLinked' /\ NothingOutdated'
    BY <1>8 DEF migrationVars, MigrationInv, MigrationTypeOK, TrailsLinked, NothingOutdated
  <2>3. schema # 1 => Numbered'
    BY <1>8, <2>1 DEF migrationVars, MigrationInv, Numbered
  <2> QED BY <1>8, <2>1, <2>2, <2>3 DEF migrationVars, MigrationInv, BoardKept
<1> QED BY <1>1, <1>2, <1>3, <1>4, <1>5, <1>6, <1>7, <1>8 DEF MigrationNext

\* No data migration reorders the board, loses a rule that stays on offer or
\* leaves the name of a state that is gone, and the numbers they give out are
\* those of the order of creation, whatever the board was used for in between
\* (backfill_issue_collections, backfill_board_positions, remap_backlog_to_new,
\* remap_duplicate_to_rejected).
THEOREM MigrationsKeep == MigrationSpec => MigrationsKeepTheBoard
<1>1. MigrationInit => MigrationInv
  BY MigrationStart
<1>2. MigrationInv /\ [MigrationNext]_migrationVars => MigrationInv' /\ BoardKept
  BY MigrationsStep
<1>3. MigrationInv /\ [MigrationNext]_migrationVars => [BoardKept]_migrationVars
  BY <1>2
<1>4. [][BoardKept]_migrationVars => MigrationsKeepTheBoard
  BY PTL DEF MigrationsKeepTheBoard, BoardKept
<1> QED BY <1>1, <1>2, <1>3, <1>4, PTL DEF MigrationSpec

-----------------------------------------------------------------------------
(* Health checks.                                                          *)

\* The four checks and their order.
LEMMA FourChecks ==
  /\ DOMAIN CheckNames = 1..4
  /\ CheckNames[1] = "database" /\ CheckNames[2] = "migrations"
  /\ CheckNames[3] = "cache" /\ CheckNames[4] = "webhooks"
  /\ Checks = {"database", "migrations", "cache", "webhooks"}
<1>1. /\ DOMAIN CheckNames = 1..4
      /\ CheckNames[1] = "database" /\ CheckNames[2] = "migrations"
      /\ CheckNames[3] = "cache" /\ CheckNames[4] = "webhooks"
  BY DEF CheckNames
<1>2. 1..4 = {1, 2, 3, 4}
  OBVIOUS
<1>3. Checks = {CheckNames[1], CheckNames[2], CheckNames[3], CheckNames[4]}
  BY <1>1, <1>2 DEF Checks
<1> QED BY <1>1, <1>3

\* What the checks of request r have found is true of its time t: a check that
\* found nothing rules out what it looks at, one that did found it.
FoundTruly(r, t) ==
  /\ r.left # {} => r.at = 4
  /\ r.silent => t.ever # {}
  /\ \A c \in Checks : r.found[c] = "unhealthy" => t.ever # {}
  /\ r.what = "api" =>
       /\ \A k \in 1..3 : k < r.at /\ r.found[CheckNames[k]] # "unhealthy" => CheckNames[k] \notin t.always
       /\ r.at = 5 /\ r.found["webhooks"] # "unhealthy" => t.always \cap Endpoints = {}
       /\ r.at = 4 /\ r.left # {} /\ ~r.silent => t.always \cap Endpoints \subseteq r.left

\* Its answer is.
AnswersTruly(r, t) ==
  /\ r.what = "api" =>
       /\ r.answer = "ok" => t.always = {}
       /\ r.answer = "failing" => t.ever # {}
  /\ r.answer = "broken" => "database" \in t.ever

\* A request for a check is at that check or done with it, and its page s shows
\* the cards before it; those that are shown are the first ones.
PageFits(r, s) ==
  /\ r.what # "nothing" => r.at # 0
  /\ \A k \in 1..4 : r.what = CheckNames[k] =>
       /\ r.at \in {k, 5} /\ (r.at = 5 => r.found[CheckNames[k]] # "none")
       /\ \A j \in 1..(k - 1) : s[CheckNames[j]] # "checking"
  /\ r.what = "summary" => \A j \in 1..4 : s[CheckNames[j]] # "checking"
  /\ \A k \in 1..3 : s[CheckNames[k + 1]] # "checking" => s[CheckNames[k]] # "checking"
  /\ s["summary"] # "checking" => s["webhooks"] # "checking"

\* A prober's request, what was wrong meanwhile, its page, and the world w.
Sound(r, t, s, w) ==
  /\ r \in ProbeRequest
  /\ t \in [always : SUBSET Troubles, ever : SUBSET Troubles]
  /\ s \in [Checks \cup {"summary"} -> Statuses \cup {"checking"}]
  /\ t.always \subseteq Troubled(w) /\ Troubled(w) \subseteq t.ever
  /\ r.answer = "none" => FoundTruly(r, t)
  /\ AnswersTruly(r, t)
  /\ PageFits(r, s)

\* The states of the program.
HealthInv ==
  /\ world \in World /\ shifts \in 0..MaxShifts
  /\ DOMAIN trouble = Probers /\ DOMAIN shown = Probers /\ DOMAIN probe = Probers
  /\ trouble = [p \in Probers |-> trouble[p]] /\ shown = [p \in Probers |-> shown[p]]
  /\ probe = [p \in Probers |-> probe[p]]
  /\ \A p \in Probers : Sound(probe[p], trouble[p], shown[p], world)

\* What is wrong is one of the troubles.
LEMMA TroubledTyped == ASSUME NEW w PROVE Troubled(w) \subseteq Troubles
BY DEF Troubled, Troubles

\* The world changes: less was wrong all the time, and more at some time.
LEMMA ShiftSound ==
  ASSUME NEW r, NEW t, NEW s, NEW w, NEW v, Sound(r, t, s, w),
         NEW u, u = [always |-> t.always \cap Troubled(v), ever |-> t.ever \cup Troubled(v)]
  PROVE  Sound(r, u, s, v)
<1>1. /\ u.always \subseteq t.always /\ t.ever \subseteq u.ever
      /\ u.always \subseteq Troubled(v) /\ Troubled(v) \subseteq u.ever
      /\ u \in [always : SUBSET Troubles, ever : SUBSET Troubles]
  BY TroubledTyped DEF Sound
<1>2. r.answer = "none" => FoundTruly(r, u)
  BY <1>1 DEF Sound, FoundTruly
<1>3. AnswersTruly(r, u)
  BY <1>1 DEF Sound, AnswersTruly
<1> QED BY <1>1, <1>2, <1>3 DEF Sound

\* A page s that may ask for `what`: the cards before it are there.
PageAllows(what, s) ==
  /\ s \in [Checks \cup {"summary"} -> Statuses \cup {"checking"}]
  /\ \A k \in 1..4 : what = CheckNames[k] => \A j \in 1..(k - 1) : s[CheckNames[j]] # "checking"
  /\ what = "summary" => \A j \in 1..4 : s[CheckNames[j]] # "checking"
  /\ \A k \in 1..3 : s[CheckNames[k + 1]] # "checking" => s[CheckNames[k]] # "checking"
  /\ s["summary"] # "checking" => s["webhooks"] # "checking"

\* A request begins.
LEMMA AskSound ==
  ASSUME NEW s, NEW w \in World, NEW what \in {"api", "summary"} \cup Checks,
         PageAllows(what, s),
         NEW t, t = [always |-> Troubled(w), ever |-> Troubled(w)],
         NEW at \in 1..4, IF what \in Checks THEN CheckNames[at] = what ELSE at = 1,
         NEW said, said = IF what # "api" /\ ~w.database THEN "broken" ELSE "none",
         NEW found, found = [c \in Checks |-> "none"],
         NEW r, r = [what |-> what, at |-> at, found |-> found, left |-> {}, silent |-> FALSE, answer |-> said]
  PROVE  Sound(r, t, s, w)
<1>1. /\ r.what = what /\ r.at = at /\ r.found = found /\ r.left = {} /\ ~r.silent
      /\ r.answer = said
  OBVIOUS
<1>2. \A c \in Checks : r.found[c] = "none"
  BY <1>1
<1>3. r \in ProbeRequest
  <2>1. found \in [Checks -> Statuses \cup {"none"}]
    OBVIOUS
  <2>2. at \in 0..5 /\ {} \in SUBSET Endpoints /\ said \in {"none", "ok", "failing", "broken"}
    OBVIOUS
  <2> QED BY <2>1, <2>2 DEF ProbeRequest
<1>4. t \in [always : SUBSET Troubles, ever : SUBSET Troubles]
      /\ t.always \subseteq Troubled(w) /\ Troubled(w) \subseteq t.ever
  BY TroubledTyped
<1>5. FoundTruly(r, t)
  <2>1. ~(\E k \in 1..3 : k < r.at /\ r.what = "api") /\ (r.what = "api" => r.at = 1)
    BY <1>1, FourChecks
  <2> QED BY <1>1, <1>2, <2>1 DEF FoundTruly
<1>6. AnswersTruly(r, t)
  <2>1. ~w.database => "database" \in Troubled(w)
    BY DEF Troubled
  <2> QED BY <1>1, <2>1 DEF AnswersTruly
<1>7. PageFits(r, s)
  <2>1. \A k \in 1..4 : what = CheckNames[k] => at = k
    BY FourChecks
  <2> QED BY <1>1, <2>1 DEF PageFits, PageAllows
<1> QED BY <1>3, <1>4, <1>5, <1>6, <1>7 DEF Sound, PageAllows

\* A check ends.
LEMMA FindsSound ==
  ASSUME NEW r, NEW t, NEW s, NEW w, Sound(r, t, s, w),
         r.what # "nothing", r.answer = "none", r.at <= 4,
         NEW status \in Statuses, status = "unhealthy" => t.ever # {},
         status # "unhealthy" /\ r.at <= 3 => CheckNames[r.at] \notin t.always,
         status # "unhealthy" /\ r.at = 4 /\ r.what = "api" => t.always \cap Endpoints = {},
         NEW v, v = [r EXCEPT !.found[CheckNames[r.at]] = status,
                              !.at = IF r.what \in Checks THEN 5 ELSE r.at + 1,
                              !.left = {}, !.silent = FALSE]
  PROVE  Sound(v, t, s, w)
<1>1. r \in ProbeRequest /\ r.at \in 1..4
  BY DEF Sound, PageFits, ProbeRequest
<1>2. PICK c \in Checks : c = CheckNames[r.at]
  BY <1>1, FourChecks
<1>3. /\ v.what = r.what /\ v.found = [r.found EXCEPT ![c] = status]
      /\ v.at = (IF r.what \in Checks THEN 5 ELSE r.at + 1) /\ v.left = {} /\ v.silent = FALSE /\ v.answer = "none"
  BY <1>1, <1>2 DEF ProbeRequest
<1>4. v.found \in [Checks -> Statuses \cup {"none"}] /\ v.found[c] = status
      /\ \A d \in Checks : d # c => v.found[d] = r.found[d]
  BY <1>1, <1>3 DEF ProbeRequest
<1>5. v \in ProbeRequest
  <2>1. v.at \in 0..5
    BY <1>1, <1>3
  <2> QED BY <1>1, <1>2, <1>3, <1>4, <2>1 DEF ProbeRequest
<1>6. FoundTruly(v, t)
  <2>0. FoundTruly(r, t)
    BY DEF Sound
  <2>1. \A d \in Checks : v.found[d] = "unhealthy" => t.ever # {}
    BY <1>4, <2>0 DEF FoundTruly
  <2>2. ASSUME r.what = "api" PROVE v.at = r.at + 1
    BY <1>3, <2>2, FourChecks
  <2>3. ASSUME r.what = "api", NEW k \in 1..3, k < v.at, v.found[CheckNames[k]] # "unhealthy"
        PROVE  CheckNames[k] \notin t.always
    <3>1. CASE k = r.at
      BY <1>2, <1>4, <2>3, <3>1
    <3>2. CASE k # r.at
      <4>1. k < r.at
        BY <1>1, <2>2, <2>3, <3>2
      <4>2. CheckNames[k] # c /\ CheckNames[k] \in Checks
        BY <1>1, <1>2, <3>2, FourChecks
      <4> QED BY <1>4, <2>0, <2>3, <4>1, <4>2 DEF FoundTruly
    <3> QED BY <3>1, <3>2
  <2>4. ASSUME r.what = "api", v.at = 5, v.found["webhooks"] # "unhealthy"
        PROVE  t.always \cap Endpoints = {}
    <3>1. r.at = 4 /\ c = "webhooks"
      BY <1>1, <1>2, <2>2, <2>4, FourChecks
    <3> QED BY <1>4, <2>4, <3>1
  <2> QED BY <1>3, <2>1, <2>3, <2>4 DEF FoundTruly
<1>7. PageFits(v, s)
  <2>0. PageFits(r, s)
    BY DEF Sound
  <2>1. v.at # 0
    BY <1>1, <1>3
  <2>2. ASSUME NEW k \in 1..4, v.what = CheckNames[k]
        PROVE  v.at = 5 /\ v.found[CheckNames[k]] # "none"
    <3>1. r.at \in {k, 5} /\ r.what \in Checks
      BY <1>3, <2>0, <2>2, FourChecks DEF PageFits
    <3>2. r.at = k
      BY <1>1, <3>1
    <3> QED BY <1>2, <1>3, <1>4, <3>1, <3>2 DEF Statuses
  <2> QED BY <1>3, <2>0, <2>1, <2>2 DEF PageFits
<1>8. AnswersTruly(v, t)
  BY <1>3 DEF AnswersTruly
<1> QED BY <1>5, <1>6, <1>7, <1>8 DEF Sound

\* The endpoints are read, or one of several has been asked: those left are
\* the ones that may have been silent all the time.
LEMMA AsksSound ==
  ASSUME NEW r, NEW t, NEW s, NEW w, Sound(r, t, s, w), r.answer = "none", r.at = 4,
         NEW left \in SUBSET Endpoints, NEW silent \in BOOLEAN, silent => t.ever # {},
         r.what = "api" /\ ~silent => t.always \cap Endpoints \subseteq left,
         NEW v, v = [r EXCEPT !.left = left, !.silent = silent]
  PROVE  Sound(v, t, s, w)
<1>1. r \in ProbeRequest
  BY DEF Sound
<1>2. /\ v.what = r.what /\ v.found = r.found /\ v.at = r.at /\ v.left = left /\ v.silent = silent
      /\ v.answer = "none" /\ v \in ProbeRequest
  BY <1>1 DEF ProbeRequest
<1>3. FoundTruly(v, t)
  BY <1>2 DEF Sound, FoundTruly
<1>4. AnswersTruly(v, t) /\ PageFits(v, s)
  BY <1>2 DEF Sound, AnswersTruly, PageFits
<1> QED BY <1>2, <1>3, <1>4 DEF Sound

\* The answer to a request: cards and summary are shown in their order.
LEMMA AnswerSound ==
  ASSUME NEW r, NEW t, NEW s, NEW w, Sound(r, t, s, w),
         NEW said \in {"ok", "failing", "broken"}, said = "broken" => "database" \in t.ever,
         r.what = "api" /\ said = "ok" => t.always = {},
         r.what = "api" /\ said = "failing" => t.ever # {},
         NEW v, v = [r EXCEPT !.answer = said]
  PROVE  Sound(v, t, s, w)
<1>1. r \in ProbeRequest
  BY DEF Sound
<1>2. /\ v.what = r.what /\ v.found = r.found /\ v.at = r.at /\ v.answer = said /\ v \in ProbeRequest
  BY <1>1 DEF ProbeRequest
<1>3. AnswersTruly(v, t) /\ PageFits(v, s)
  BY <1>2 DEF Sound, AnswersTruly, PageFits
<1> QED BY <1>2, <1>3 DEF Sound

\* A request begins: how it looks, for an action that asks for it.
LEMMA AskDoes ==
  ASSUME NEW p, NEW what \in {"api", "summary"} \cup Checks, Ask(p, what), p \in DOMAIN trouble, p \in DOMAIN probe
  PROVE  /\ trouble' = [trouble EXCEPT ![p] = [always |-> Troubled(world), ever |-> Troubled(world)]]
         /\ \E at \in 1..4 : \E said, found :
              /\ IF what \in Checks THEN CheckNames[at] = what ELSE at = 1
              /\ said = IF what # "api" /\ ~world.database THEN "broken" ELSE "none"
              /\ found = [c \in Checks |-> "none"]
              /\ probe' = [probe EXCEPT ![p] = [what |-> what, at |-> at, found |-> found, left |-> {},
                                                silent |-> FALSE, answer |-> said]]
         /\ UNCHANGED <<world, shifts>>
<1>1. PICK at : at = IF what \in Checks THEN CHOOSE k \in 1..4 : CheckNames[k] = what ELSE 1
  OBVIOUS
<1>2. at \in 1..4 /\ (IF what \in Checks THEN CheckNames[at] = what ELSE at = 1)
  <2>1. CASE what \in Checks
    <3>1. \E k \in 1..4 : CheckNames[k] = what
      BY <2>1, FourChecks
    <3> QED BY <1>1, <2>1, <3>1
  <2>2. CASE what \notin Checks
    BY <1>1, <2>2
  <2> QED BY <2>1, <2>2
<1>3. PICK said : said = IF what # "api" /\ ~world.database THEN "broken" ELSE "none"
  OBVIOUS
<1>4. PICK found : found = [c \in Checks |-> "none"]
  OBVIOUS
<1>5. PICK r : r = [what |-> what, at |-> at, found |-> found, left |-> {}, silent |-> FALSE, answer |-> said]
  OBVIOUS
<1>6. r = [NoRequest EXCEPT
             !.what = what,
             !.at = IF what \in Checks THEN CHOOSE k \in 1..4 : CheckNames[k] = what ELSE 1,
             !.answer = IF what # "api" /\ ~world.database THEN "broken" ELSE "none"]
  <2>0. NoRequest = [what |-> "nothing", at |-> 0, found |-> found, left |-> {}, silent |-> FALSE, answer |-> "none"]
    BY <1>4 DEF NoRequest
  <2>1. PICK q : q = [NoRequest EXCEPT !.what = what, !.at = at, !.answer = said]
    OBVIOUS
  <2>2. q.what = what /\ q.at = at /\ q.found = found /\ q.left = {} /\ q.silent = FALSE /\ q.answer = said
    BY <2>0, <2>1
  <2>3. q = [what |-> what, at |-> at, found |-> found, left |-> {}, silent |-> FALSE, answer |-> said]
    BY <2>0, <2>1, <2>2
  <2>4. r = [NoRequest EXCEPT !.what = what, !.at = at, !.answer = said]
    BY <1>5, <2>1, <2>3
  <2> QED BY <1>1, <1>3, <2>4
<1>7. probe' = [probe EXCEPT ![p] = r]
  BY <1>6 DEF Ask
<1>8. probe' = [probe EXCEPT ![p] = [what |-> what, at |-> at, found |-> found, left |-> {},
                                     silent |-> FALSE, answer |-> said]]
  BY <1>5, <1>7
<1>9. /\ trouble' = [trouble EXCEPT ![p] = [always |-> Troubled(world), ever |-> Troubled(world)]]
      /\ UNCHANGED <<world, shifts>>
  BY DEF Ask
<1> QED BY <1>2, <1>3, <1>4, <1>8, <1>9

\* Page z shows one more card than s, or the summary.
ShowsMore(s, c, z) ==
  /\ z \in [Checks \cup {"summary"} -> Statuses \cup {"checking"}]
  /\ \A k \in 1..4 : c = CheckNames[k] => \A j \in 1..k : z[CheckNames[j]] # "checking"
  /\ c = "summary" => \A j \in 1..4 : z[CheckNames[j]] # "checking"
  /\ \A k \in 1..3 : z[CheckNames[k + 1]] # "checking" => z[CheckNames[k]] # "checking"
  /\ z["summary"] # "checking" => z["webhooks"] # "checking"

\* A page shows what it has asked for.
LEMMA ShowsFits ==
  ASSUME NEW r, NEW s \in [Checks \cup {"summary"} -> Statuses \cup {"checking"}], PageFits(r, s), r.at = 5,
         NEW c \in Checks \cup {"summary"}, r.what = c, NEW status \in Statuses,
         NEW z, z = [s EXCEPT ![c] = status]
  PROVE  ShowsMore(s, c, z)
<1>1. /\ z \in [Checks \cup {"summary"} -> Statuses \cup {"checking"}]
      /\ z[c] = status /\ status # "checking"
      /\ \A d \in Checks \cup {"summary"} : d # c => z[d] = s[d]
  BY DEF Statuses
<1>2. \A d \in Checks \cup {"summary"} : s[d] # "checking" => z[d] # "checking"
  BY <1>1
<1>3. ASSUME NEW k \in 1..4, c = CheckNames[k], NEW j \in 1..k PROVE z[CheckNames[j]] # "checking"
  <2>1. CASE j = k
    BY <1>1, <1>3, <2>1
  <2>2. CASE j # k
    <3>1. j \in 1..(k - 1) /\ CheckNames[j] \in Checks
      BY <1>3, <2>2, FourChecks
    <3>2. s[CheckNames[j]] # "checking"
      BY <1>3, <3>1 DEF PageFits
    <3> QED BY <1>2, <3>1, <3>2
  <2> QED BY <2>1, <2>2
<1>4. c = "summary" => \A j \in 1..4 : z[CheckNames[j]] # "checking"
  BY <1>2, FourChecks DEF PageFits
<1>5. ASSUME NEW k \in 1..3, z[CheckNames[k + 1]] # "checking" PROVE z[CheckNames[k]] # "checking"
  <2>1. k + 1 \in 1..4 /\ CheckNames[k] \in Checks /\ CheckNames[k + 1] \in Checks
    BY FourChecks
  <2>2. CASE CheckNames[k + 1] = c
    BY <1>3, <2>1, <2>2
  <2>3. CASE CheckNames[k + 1] # c
    BY <1>1, <1>2, <1>5, <2>1, <2>3 DEF PageFits
  <2> QED BY <2>2, <2>3
<1>6. ASSUME z["summary"] # "checking" PROVE z["webhooks"] # "checking"
  <2>1. CASE c = "summary"
    BY <1>4, <2>1, FourChecks
  <2>2. CASE c # "summary"
    BY <1>1, <1>2, <1>6, <2>2, FourChecks DEF PageFits
  <2> QED BY <2>1, <2>2
<1> QED BY <1>1, <1>3, <1>4, <1>5, <1>6 DEF ShowsMore

\* A step of one prober leaves the others as they are.
LEMMA OneProber ==
  ASSUME HealthInv, NEW p \in Probers, UNCHANGED <<world, shifts>>,
         NEW r, NEW t, NEW s, Sound(r, t, s, world),
         probe' = [probe EXCEPT ![p] = r] \/ (probe' = probe /\ r = probe[p]),
         trouble' = [trouble EXCEPT ![p] = t] \/ (trouble' = trouble /\ t = trouble[p]),
         shown' = [shown EXCEPT ![p] = s] \/ (shown' = shown /\ s = shown[p])
  PROVE  HealthInv'
<1>1. /\ DOMAIN trouble' = Probers /\ DOMAIN shown' = Probers /\ DOMAIN probe' = Probers
      /\ trouble' = [q \in Probers |-> trouble'[q]] /\ shown' = [q \in Probers |-> shown'[q]]
      /\ probe' = [q \in Probers |-> probe'[q]]
  BY DEF HealthInv
<1>2. ASSUME NEW q \in Probers PROVE Sound(probe'[q], trouble'[q], shown'[q], world)
  <2>1. CASE q = p
    <3>1. probe'[q] = r /\ trouble'[q] = t /\ shown'[q] = s
      BY <2>1 DEF HealthInv
    <3> QED BY <3>1
  <2>2. CASE q # p
    <3>1. probe'[q] = probe[q] /\ trouble'[q] = trouble[q] /\ shown'[q] = shown[q]
      BY <2>2 DEF HealthInv
    <3> QED BY <3>1 DEF HealthInv
  <2> QED BY <2>1, <2>2
<1> QED BY <1>1, <1>2 DEF HealthInv

\* Every step keeps the invariant.
LEMMA HealthStep ==
  ASSUME HealthInv, [HealthNext]_healthVars
  PROVE  HealthInv'
<1>1. ASSUME NEW w \in World, Shift(w) PROVE HealthInv'
  <2>1. /\ world' = w /\ UNCHANGED <<probe, shown>> /\ shifts' \in 0..MaxShifts
        /\ trouble' = [p \in Probers |-> [always |-> trouble[p].always \cap Troubled(w),
                                          ever |-> trouble[p].ever \cup Troubled(w)]]
    BY <1>1, HealthAssumption DEF Shift, HealthInv
  <2>2. ASSUME NEW p \in Probers PROVE Sound(probe[p], trouble'[p], shown[p], w)
    <3>1. PICK u : u = [always |-> trouble[p].always \cap Troubled(w), ever |-> trouble[p].ever \cup Troubled(w)]
      OBVIOUS
    <3>2. Sound(probe[p], u, shown[p], w)
      BY <3>1, ShiftSound DEF HealthInv
    <3> QED BY <2>1, <3>1, <3>2
  <2> QED BY <2>1, <2>2 DEF HealthInv
<1>2. CASE WorldShifts
  <2>1. world \in World
    BY DEF HealthInv
  <2>2. ASSUME NEW up \in BOOLEAN PROVE [world EXCEPT !.database = up] \in World /\ [world EXCEPT !.migrated = up] \in World
    BY <2>1 DEF World
  <2>3. ASSUME NEW c \in {"ok", "down", "loses"} PROVE [world EXCEPT !.cache = c] \in World
    BY <2>1 DEF World
  <2>4. ASSUME NEW e \in Endpoints, NEW s \in {"off", "answers", "silent"} PROVE [world EXCEPT !.endpoint[e] = s] \in World
    BY <2>1 DEF World
  <2> QED BY <1>1, <1>2, <2>2, <2>3, <2>4 DEF WorldShifts
<1>3. ASSUME NEW p \in Probers, NEW what \in {"api", "summary"} \cup Checks, Ask(p, what),
             NEW s, shown' = [shown EXCEPT ![p] = s] \/ (shown' = shown /\ s = shown[p]),
             PageAllows(what, s)
      PROVE  HealthInv'
  <2>1. p \in DOMAIN trouble /\ p \in DOMAIN probe /\ world \in World
    BY DEF HealthInv
  <2>2. PICK at \in 1..4 : \E said, found :
              /\ IF what \in Checks THEN CheckNames[at] = what ELSE at = 1
              /\ said = IF what # "api" /\ ~world.database THEN "broken" ELSE "none"
              /\ found = [c \in Checks |-> "none"]
              /\ probe' = [probe EXCEPT ![p] = [what |-> what, at |-> at, found |-> found, left |-> {},
                                                silent |-> FALSE, answer |-> said]]
    BY <1>3, <2>1, AskDoes
  <2>3. PICK said, found :
              /\ said = IF what # "api" /\ ~world.database THEN "broken" ELSE "none"
              /\ found = [c \in Checks |-> "none"]
              /\ probe' = [probe EXCEPT ![p] = [what |-> what, at |-> at, found |-> found, left |-> {},
                                                silent |-> FALSE, answer |-> said]]
    BY <2>2
  <2>4. IF what \in Checks THEN CheckNames[at] = what ELSE at = 1
    BY <2>2
  <2>5. PICK r : r = [what |-> what, at |-> at, found |-> found, left |-> {}, silent |-> FALSE, answer |-> said]
    OBVIOUS
  <2>6. PICK t : t = [always |-> Troubled(world), ever |-> Troubled(world)]
    OBVIOUS
  <2>7. Sound(r, t, s, world)
    BY <1>3, <2>1, <2>3, <2>4, <2>5, <2>6, AskSound
  <2>8. probe' = [probe EXCEPT ![p] = r] /\ trouble' = [trouble EXCEPT ![p] = t] /\ UNCHANGED <<world, shifts>>
    BY <1>3, <2>1, <2>3, <2>5, <2>6, AskDoes
  <2> QED BY <1>3, <2>7, <2>8, OneProber
<1>4. ASSUME NEW p \in Probers, AskApi(p) PROVE HealthInv'
  <2>1. Sound(probe[p], trouble[p], shown[p], world)
    BY DEF HealthInv
  <2>2. PICK s : s = shown[p]
    OBVIOUS
  <2>3. shown' = shown /\ Ask(p, "api")
    BY <1>4 DEF AskApi
  <2>4. PageAllows("api", s)
    BY <2>1, <2>2, FourChecks DEF Sound, PageFits, PageAllows
  <2> QED BY <1>3, <2>2, <2>3, <2>4
<1>5. ASSUME NEW p \in Probers, OpenPage(p) PROVE HealthInv'
  <2>1. PICK s : s = Waiting
    OBVIOUS
  <2>2. s \in [Checks \cup {"summary"} -> Statuses \cup {"checking"}] /\ \A c \in Checks \cup {"summary"} : s[c] = "checking"
    BY <2>1 DEF Waiting
  <2>3. Ask(p, "database") /\ shown' = [shown EXCEPT ![p] = s]
    BY <1>5, <2>1 DEF OpenPage
  <2>4. PageAllows("database", s)
    <3>1. \A k \in 1..4 : "database" = CheckNames[k] => k = 1
      BY FourChecks
    <3>2. \A k \in 1..4 : s[CheckNames[k]] = "checking"
      BY <2>2, FourChecks
    <3>3. \A k \in 1..3 : k + 1 \in 1..4
      OBVIOUS
    <3> QED BY <2>2, <3>1, <3>2, <3>3 DEF PageAllows
  <2> QED BY <1>3, <2>3, <2>4, FourChecks
<1>6. ASSUME NEW p \in Probers, Running(p), NEW status \in Statuses, Finds(p, status),
             status = "unhealthy" => trouble[p].ever # {},
             status # "unhealthy" /\ probe[p].at <= 3 => CheckNames[probe[p].at] \notin trouble[p].always,
             status # "unhealthy" /\ probe[p].at = 4 /\ probe[p].what = "api" => trouble[p].always \cap Endpoints = {}
      PROVE  HealthInv'
  <2>1. PICK r, t, s : r = probe[p] /\ t = trouble[p] /\ s = shown[p]
    OBVIOUS
  <2>2. Sound(r, t, s, world)
    BY <2>1 DEF HealthInv
  <2>3. PICK v : v = [r EXCEPT !.found[CheckNames[r.at]] = status,
                               !.at = IF r.what \in Checks THEN 5 ELSE r.at + 1,
                               !.left = {}, !.silent = FALSE]
    OBVIOUS
  <2>4. probe' = [probe EXCEPT ![p] = v] /\ UNCHANGED <<world, shown, trouble, shifts>>
    BY <1>6, <2>1, <2>3 DEF Finds, Now, After
  <2>5. r.what # "nothing" /\ r.answer = "none" /\ r.at <= 4
    BY <1>6, <2>1 DEF Running
  <2>6. Sound(v, t, s, world)
    BY <1>6, <2>1, <2>2, <2>3, <2>5, FindsSound
  <2> QED BY <2>1, <2>4, <2>6, OneProber
<1>7. ASSUME NEW p \in Probers, Running(p)
      PROVE  /\ trouble[p].always \subseteq Troubled(world) /\ Troubled(world) \subseteq trouble[p].ever
             /\ probe[p].at \in 1..4 /\ FoundTruly(probe[p], trouble[p])
             /\ (Now(p) = "database" => probe[p].at = 1) /\ (Now(p) = "migrations" => probe[p].at = 2)
             /\ (Now(p) = "cache" => probe[p].at = 3) /\ (Now(p) = "webhooks" => probe[p].at = 4)
  BY <1>7, FourChecks DEF HealthInv, Sound, PageFits, Running, Now, ProbeRequest
<1>8. ASSUME NEW p \in Probers, CheckDatabase(p) PROVE HealthInv'
  <2>1. Running(p) /\ Now(p) = "database"
    BY <1>8 DEF CheckDatabase
  <2>2. PICK status \in Statuses : status = IF world.database THEN "healthy" ELSE "unhealthy"
    BY DEF Statuses
  <2>3. /\ status = "unhealthy" => trouble[p].ever # {}
        /\ status # "unhealthy" => CheckNames[1] \notin trouble[p].always
    BY <1>7, <2>1, <2>2, FourChecks, HealthAssumption DEF Troubled
  <2> QED BY <1>6, <1>7, <1>8, <2>1, <2>2, <2>3 DEF CheckDatabase
<1>9. ASSUME NEW p \in Probers, CheckMigrations(p) PROVE HealthInv'
  <2>1. Running(p) /\ Now(p) = "migrations"
    BY <1>9 DEF CheckMigrations
  <2>2. PICK status \in Statuses : status = IF world.database /\ world.migrated THEN "healthy" ELSE "unhealthy"
    BY DEF Statuses
  <2>3. /\ status = "unhealthy" => trouble[p].ever # {}
        /\ status # "unhealthy" => CheckNames[2] \notin trouble[p].always
    BY <1>7, <2>1, <2>2, FourChecks, HealthAssumption DEF Troubled
  <2> QED BY <1>6, <1>7, <1>9, <2>1, <2>2, <2>3 DEF CheckMigrations
<1>10. ASSUME NEW p \in Probers, CheckCache(p) PROVE HealthInv'
  <2>1. Running(p) /\ Now(p) = "cache"
    BY <1>10 DEF CheckCache
  <2>2. PICK status \in Statuses : status = IF world.cache = "ok" THEN "healthy" ELSE "unhealthy"
    BY DEF Statuses
  <2>3. /\ status = "unhealthy" => trouble[p].ever # {}
        /\ status # "unhealthy" => CheckNames[3] \notin trouble[p].always
    BY <1>7, <2>1, <2>2, FourChecks, HealthAssumption DEF Troubled
  <2> QED BY <1>6, <1>7, <1>10, <2>1, <2>2, <2>3 DEF CheckCache
<1>11. ASSUME NEW p \in Probers, NEW said \in {"ok", "failing", "broken"}, probe[p].what # "nothing",
              probe' = [probe EXCEPT ![p].answer = said], UNCHANGED <<world, shown, trouble, shifts>>,
              said = "broken" => "database" \in trouble[p].ever,
              probe[p].what = "api" /\ said = "ok" => trouble[p].always = {},
              probe[p].what = "api" /\ said = "failing" => trouble[p].ever # {}
       PROVE  HealthInv'
  <2>1. PICK r, t, s : r = probe[p] /\ t = trouble[p] /\ s = shown[p]
    OBVIOUS
  <2>2. Sound(r, t, s, world)
    BY <2>1 DEF HealthInv
  <2>3. PICK v : v = [r EXCEPT !.answer = said]
    OBVIOUS
  <2>4. Sound(v, t, s, world)
    BY <1>11, <2>1, <2>2, <2>3, AnswerSound
  <2>5. probe' = [probe EXCEPT ![p] = v]
    BY <1>11, <2>1, <2>3
  <2> QED BY <1>11, <2>1, <2>4, <2>5, OneProber
<1>12. ASSUME NEW p \in Probers, probe[p].answer = "none", probe[p].at = 4,
              NEW left \in SUBSET Endpoints, NEW silent \in BOOLEAN, silent => trouble[p].ever # {},
              probe[p].what = "api" /\ ~silent => trouble[p].always \cap Endpoints \subseteq left,
              NEW v, v = [probe[p] EXCEPT !.left = left, !.silent = silent],
              probe' = [probe EXCEPT ![p] = v], UNCHANGED <<world, shown, trouble, shifts>>
       PROVE  HealthInv'
  <2>1. PICK r, t, s : r = probe[p] /\ t = trouble[p] /\ s = shown[p]
    OBVIOUS
  <2>2. Sound(r, t, s, world)
    BY <2>1 DEF HealthInv
  <2>4. Sound(v, t, s, world)
    BY <1>12, <2>1, <2>2, AsksSound
  <2> QED BY <1>12, <2>1, <2>4, OneProber
<1>13. ASSUME NEW p \in Probers, ReadEndpoints(p) PROVE HealthInv'
  <2> DEFINE enabled == {e \in Endpoints : world.endpoint[e] # "off"}
  <2>1. Running(p) /\ Now(p) = "webhooks" /\ probe[p].left = {} /\ probe[p].at = 4
    BY <1>7, <1>13 DEF ReadEndpoints
  <2>2. trouble[p].always \cap Endpoints \subseteq enabled
    BY <1>7, <2>1, HealthAssumption DEF Troubled
  <2>3. CASE ~world.database /\ probe' = [probe EXCEPT ![p].answer = "broken"] /\ UNCHANGED <<world, shown, trouble, shifts>>
    <3>1. "database" \in trouble[p].ever
      BY <1>7, <2>1, <2>3 DEF Troubled
    <3> QED BY <1>11, <2>1, <2>3, <3>1 DEF Running
  <2>4. CASE enabled = {} /\ Finds(p, "warning")
    <3>1. "warning" \in Statuses /\ "warning" # "unhealthy"
      BY DEF Statuses
    <3> QED BY <1>6, <2>1, <2>2, <2>4, <3>1
  <2>5. CASE probe' = [probe EXCEPT ![p].left = enabled] /\ UNCHANGED <<world, shown, trouble, shifts>>
    <3>1. PICK left, silent : left = enabled /\ silent = probe[p].silent
      OBVIOUS
    <3>2. probe[p] \in ProbeRequest
      BY DEF HealthInv, Sound
    <3>3. silent \in BOOLEAN /\ left \in SUBSET Endpoints
      BY <3>1, <3>2 DEF ProbeRequest
    <3>4. PICK v : v = [probe[p] EXCEPT !.left = left, !.silent = silent]
      OBVIOUS
    <3>5. v = [probe[p] EXCEPT !.left = left]
      BY <3>1, <3>2, <3>4 DEF ProbeRequest
    <3>6. probe' = [probe EXCEPT ![p] = v]
      BY <2>5, <3>1, <3>5
    <3>7. silent => trouble[p].ever # {}
      BY <1>7, <2>1, <3>1 DEF FoundTruly
    <3>8. trouble[p].always \cap Endpoints \subseteq left
      BY <2>2, <3>1
    <3>9. probe[p].answer = "none"
      BY <2>1 DEF Running
    <3>10. UNCHANGED <<world, shown, trouble, shifts>>
      BY <2>5
    <3> QED BY <1>12, <2>1, <3>3, <3>4, <3>6, <3>7, <3>8, <3>9, <3>10
  <2> QED BY <1>13, <2>3, <2>4, <2>5 DEF ReadEndpoints
<1>14. ASSUME NEW p \in Probers, NEW e \in Endpoints, AskEndpoint(p, e) PROVE HealthInv'
  <2>1. PICK silent : silent = (probe[p].silent \/ world.endpoint[e] = "silent")
    OBVIOUS
  <2>2. Running(p) /\ e \in probe[p].left
    BY <1>14 DEF AskEndpoint
  <2>3. probe[p] \in ProbeRequest /\ silent \in BOOLEAN
    BY <2>1 DEF HealthInv, Sound
  <2>4. /\ probe[p].at = 4 /\ (probe[p].silent => trouble[p].ever # {})
        /\ probe[p].what = "api" /\ ~probe[p].silent => trouble[p].always \cap Endpoints \subseteq probe[p].left
    BY <1>7, <2>2 DEF FoundTruly
  <2>5. silent => trouble[p].ever # {}
    BY <1>7, <2>1, <2>2, <2>4 DEF Troubled
  <2>6. probe[p].what = "api" /\ ~silent => trouble[p].always \cap Endpoints \subseteq probe[p].left \ {e}
    <3>1. world.endpoint[e] # "silent" => e \notin trouble[p].always
      BY <1>7, <2>2, HealthAssumption DEF Troubled
    <3> QED BY <2>1, <2>4, <3>1
  <2>7. CASE probe[p].left = {e} /\ Finds(p, IF silent THEN "unhealthy" ELSE "healthy")
    <3>1. PICK status \in Statuses : status = IF silent THEN "unhealthy" ELSE "healthy"
      BY DEF Statuses
    <3>2. /\ status = "unhealthy" => trouble[p].ever # {}
          /\ status # "unhealthy" /\ probe[p].what = "api" => trouble[p].always \cap Endpoints = {}
      BY <2>5, <2>6, <2>7, <3>1
    <3> QED BY <1>6, <2>2, <2>4, <2>7, <3>1, <3>2
  <2>8. CASE probe' = [probe EXCEPT ![p].left = @ \ {e}, ![p].silent = silent] /\ UNCHANGED <<world, shown, trouble, shifts>>
    <3>1. PICK left : left = probe[p].left \ {e}
      OBVIOUS
    <3>2. left \in SUBSET Endpoints
      BY <2>3, <3>1 DEF ProbeRequest
    <3>3. PICK v : v = [probe[p] EXCEPT !.left = left, !.silent = silent]
      OBVIOUS
    <3>4. probe' = [probe EXCEPT ![p] = v]
      <4>1. p \in DOMAIN probe
        BY DEF HealthInv
      <4> QED BY <2>8, <3>1, <3>3, <4>1
    <3>5. probe[p].answer = "none"
      BY <2>2 DEF Running
    <3>6. UNCHANGED <<world, shown, trouble, shifts>> /\ (probe[p].what = "api" /\ ~silent => trouble[p].always \cap Endpoints \subseteq left)
      BY <2>6, <2>8, <3>1
    <3> QED BY <1>12, <2>3, <2>4, <2>5, <3>2, <3>3, <3>4, <3>5, <3>6
  <2> QED BY <1>14, <2>1, <2>7, <2>8 DEF AskEndpoint
<1>15. ASSUME NEW p \in Probers, Complete(p)
       PROVE  /\ probe[p].at = 5 /\ probe[p].what # "nothing" /\ probe[p].answer = "none"
              /\ probe[p] \in ProbeRequest /\ FoundTruly(probe[p], trouble[p]) /\ PageFits(probe[p], shown[p])
              /\ shown[p] \in [Checks \cup {"summary"} -> Statuses \cup {"checking"}]
              /\ trouble[p].always \subseteq Troubles
  BY <1>15 DEF HealthInv, Sound, Complete
<1>16. ASSUME NEW p \in Probers, AnswerApi(p) PROVE HealthInv'
  <2>1. Complete(p) /\ probe[p].what = "api"
    BY <1>16 DEF AnswerApi
  <2>2. PICK said \in {"ok", "failing"} : said = ResponseStatus(Overall(probe[p].found))
    BY DEF ResponseStatus
  <2>3. CASE \E c \in Checks : probe[p].found[c] = "unhealthy"
    <3>1. said = "failing"
      BY <2>2, <2>3 DEF ResponseStatus, Overall
    <3>2. trouble[p].ever # {}
      BY <1>15, <2>1, <2>3 DEF FoundTruly
    <3> QED BY <1>11, <1>16, <2>1, <2>2, <3>1, <3>2 DEF AnswerApi
  <2>4. CASE ~\E c \in Checks : probe[p].found[c] = "unhealthy"
    <3>1. said = "ok"
      BY <2>2, <2>4 DEF ResponseStatus, Overall
    <3>2. \A c \in {"database", "migrations", "cache"} : c \notin trouble[p].always
      <4>1. \A k \in 1..3 : k < 5 /\ CheckNames[k] \in Checks
        BY FourChecks
      <4>2. \A k \in 1..3 : CheckNames[k] \notin trouble[p].always
        BY <1>15, <2>1, <2>4, <4>1 DEF FoundTruly
      <4> QED BY <4>2, FourChecks
    <3>3. trouble[p].always \cap Endpoints = {}
      BY <1>15, <2>1, <2>4, FourChecks DEF FoundTruly
    <3>4. trouble[p].always = {}
      BY <1>15, <2>1, <3>2, <3>3 DEF Troubles
    <3> QED BY <1>11, <1>16, <2>1, <2>2, <3>1, <3>4 DEF AnswerApi
  <2> QED BY <2>3, <2>4
<1>17. ASSUME NEW p \in Probers, AnswerSummary(p) PROVE HealthInv'
  <2>1. Complete(p) /\ probe[p].what = "summary"
    BY <1>17 DEF AnswerSummary
  <2>2. PICK r, t, s : r = probe[p] /\ t = trouble[p] /\ s = shown[p]
    OBVIOUS
  <2>3. Sound(r, t, s, world)
    BY <2>2 DEF HealthInv
  <2>4. PICK status \in Statuses : status = Overall(r.found)
    BY DEF Statuses, Overall
  <2>5. PICK z : z = [s EXCEPT !["summary"] = status]
    OBVIOUS
  <2>6. PICK v : v = [r EXCEPT !.answer = "ok"]
    OBVIOUS
  <2>7. Sound(v, t, s, world)
    BY <2>1, <2>2, <2>3, <2>6, AnswerSound
  <2>8. ShowsMore(s, "summary", z)
    <3>1. r.at = 5 /\ PageFits(r, s) /\ s \in [Checks \cup {"summary"} -> Statuses \cup {"checking"}]
      BY <1>15, <2>1, <2>2
    <3> QED BY <2>1, <2>2, <2>4, <2>5, <3>1, ShowsFits
  <2>9. PageFits(v, z)
    <3>1. v.what = "summary" /\ PageFits(v, s)
      BY <2>1, <2>2, <2>3, <2>6, <2>7 DEF Sound, ProbeRequest
    <3>2. \A k \in 1..4 : v.what # CheckNames[k]
      BY <3>1, FourChecks
    <3> QED BY <2>8, <3>1, <3>2 DEF PageFits, ShowsMore
  <2>10. Sound(v, t, z, world)
    BY <2>7, <2>8, <2>9 DEF Sound, ShowsMore
  <2>11. probe' = [probe EXCEPT ![p] = v] /\ shown' = [shown EXCEPT ![p] = z] /\ UNCHANGED <<world, trouble, shifts>>
    BY <1>17, <2>2, <2>4, <2>5, <2>6 DEF AnswerSummary
  <2> QED BY <2>2, <2>10, <2>11, OneProber
<1>18. ASSUME NEW p \in Probers, AnswerCheck(p) PROVE HealthInv'
  <2>1. Complete(p) /\ probe[p].what \in Checks
    BY <1>18 DEF AnswerCheck
  <2>2. PICK r, s, what : r = probe[p] /\ s = shown[p] /\ what = NextEvent(r.what)
    OBVIOUS
  <2>3. PICK k \in 1..4 : r.what = CheckNames[k]
    BY <2>1, <2>2, FourChecks
  <2>4. r.at = 5 /\ PageFits(r, s) /\ s \in [Checks \cup {"summary"} -> Statuses \cup {"checking"}] /\ r \in ProbeRequest
    BY <1>15, <2>1, <2>2
  <2>5. PICK status : status = r.found[r.what]
    OBVIOUS
  <2>6. status \in Statuses
    BY <2>1, <2>2, <2>3, <2>4, <2>5 DEF PageFits, ProbeRequest
  <2>7. PICK z : z = [s EXCEPT ![r.what] = status]
    OBVIOUS
  <2>8. ShowsMore(s, r.what, z)
    BY <2>1, <2>2, <2>4, <2>6, <2>7, ShowsFits
  <2>9. /\ what \in {"api", "summary"} \cup Checks
        /\ \A n \in 1..4 : what = CheckNames[n] => n = k + 1
        /\ what = "summary" => k = 4
        /\ what # "api"
    <3>1. CASE k = 4
      BY <2>2, <2>3, <3>1, FourChecks DEF NextEvent
    <3>2. CASE k # 4
      <4>1. k \in 1..3 /\ k + 1 \in 1..4 /\ r.what # CheckNames[4] /\ \A n \in 1..3 : CheckNames[n] = r.what => n = k
        BY <2>3, <3>2, FourChecks
      <4>2. what = CheckNames[k + 1]
        BY <2>2, <2>3, <4>1 DEF NextEvent
      <4> QED BY <4>1, <4>2, FourChecks
    <3> QED BY <3>1, <3>2
  <2>10. shown' = [shown EXCEPT ![p] = z] /\ Ask(p, what)
    BY <1>18, <2>2, <2>5, <2>7 DEF AnswerCheck
  <2>11. PageAllows(what, z)
    <3>1. \A j \in 1..k : z[CheckNames[j]] # "checking"
      BY <2>3, <2>8 DEF ShowsMore
    <3>2. \A n \in 1..4 : what = CheckNames[n] => \A j \in 1..(n - 1) : z[CheckNames[j]] # "checking"
      BY <2>9, <3>1
    <3>3. what = "summary" => \A j \in 1..4 : z[CheckNames[j]] # "checking"
      BY <2>9, <3>1
    <3> QED BY <2>8, <3>2, <3>3 DEF PageAllows, ShowsMore
  <2> QED BY <1>3, <2>9, <2>10, <2>11
<1>19. CASE UNCHANGED healthVars
  BY <1>19 DEF healthVars, HealthInv
<1> QED BY <1>2, <1>4, <1>5, <1>8, <1>9, <1>10, <1>13, <1>14, <1>16, <1>17, <1>18, <1>19 DEF HealthNext

\* Nothing was wrong and nobody has asked.
LEMMA HealthStart == ASSUME HealthInit PROVE HealthInv
<1>1. /\ world \in World /\ Troubled(world) = {} /\ shifts = 0
  BY DEF HealthInit, Troubled, World
<1>2. /\ NoRequest.what = "nothing" /\ NoRequest.at = 0 /\ NoRequest.left = {} /\ NoRequest.silent = FALSE
      /\ NoRequest.answer = "none" /\ NoRequest.found = [c \in Checks |-> "none"] /\ NoRequest \in ProbeRequest
  BY DEF NoRequest, ProbeRequest
<1>3. Waiting \in [Checks \cup {"summary"} -> Statuses \cup {"checking"}] /\ \A c \in Checks \cup {"summary"} : Waiting[c] = "checking"
  BY DEF Waiting
<1>4. PICK t : t = [always |-> {}, ever |-> {}]
  OBVIOUS
<1>5. FoundTruly(NoRequest, t) /\ AnswersTruly(NoRequest, t)
  BY <1>2 DEF FoundTruly, AnswersTruly
<1>6. PageFits(NoRequest, Waiting)
  <2>1. \A k \in 1..4 : NoRequest.what # CheckNames[k] /\ Waiting[CheckNames[k]] = "checking"
    BY <1>2, <1>3, FourChecks
  <2>2. \A k \in 1..3 : k + 1 \in 1..4
    OBVIOUS
  <2> QED BY <1>2, <1>3, <2>1, <2>2 DEF PageFits
<1>7. Sound(NoRequest, t, Waiting, world)
  BY <1>1, <1>2, <1>3, <1>4, <1>5, <1>6 DEF Sound
<1>8. /\ probe = [p \in Probers |-> NoRequest] /\ shown = [p \in Probers |-> Waiting] /\ trouble = [p \in Probers |-> t]
  BY <1>4 DEF HealthInit
<1> QED BY <1>1, <1>7, <1>8, HealthAssumption DEF HealthInv

\* The invariant gives the state its shape.
LEMMA HealthTyped == ASSUME HealthInv PROVE HealthTypeOK
BY DEF HealthInv, HealthTypeOK, Sound

\* What the public endpoint and the status page tell is true of the time their
\* checks ran: the public endpoint answers 200 only if nothing was wrong all
\* the time, 503 only if something was at some time; cards come in their order
\* and stop only at a request that had no database (HealthcheckService,
\* HealthcheckApiView, _next_check_event).
THEOREM HealthAnswersTrue == HealthSpec => []HealthAnswersAreTrue
<1>1. HealthInit => HealthInv
  BY HealthStart
<1>2. HealthInv /\ [HealthNext]_healthVars => HealthInv'
  BY HealthStep
<1>3. ASSUME HealthInv PROVE HealthAnswersAreTrue
  <2>1. ASSUME NEW p \in Probers PROVE AnswersTruly(probe[p], trouble[p]) /\ PageFits(probe[p], shown[p])
    BY <1>3 DEF HealthInv, Sound
  <2>2. ApiAnswersTruly
    BY <2>1 DEF ApiAnswersTruly, AnswersTruly
  <2>3. PageFillsInOrder
    BY <2>1 DEF PageFillsInOrder, AnswersTruly, PageFits
  <2> QED BY <2>2, <2>3 DEF HealthAnswersAreTrue
<1> QED BY <1>1, <1>2, <1>3, PTL DEF HealthSpec

-----------------------------------------------------------------------------
(* Board queries: sorting and flattening.                                  *)

\* A set of naturals up to n that is not empty has a least element.
LEMMA LeastElement ==
  ASSUME NEW n \in Nat, NEW T \in SUBSET (0..n), T # {}
  PROVE  \E m \in T : \A k \in T : m <= k
<1> PICK S : S = T
  OBVIOUS
<1> PICK R : R = {p \in S \X S : p[1] < p[2]}
  OBVIOUS
<1> PICK place : place = Enumerated(S, R)
  OBVIOUS
<1>1. IsFiniteSet(S)
  <2>1. IsFiniteSet(0..n)
    BY FS_Interval
  <2> QED BY <2>1, FS_Subset
<1>2. \A i, j \in S : <<i, j>> \in R <=> i < j
  OBVIOUS
<1>3. \A i \in S : i \in Nat
  OBVIOUS
<1>4. Orders(R, S)
  BY <1>2, <1>3 DEF Orders
<1>5. /\ Cardinality(S) \in Nat /\ \A i \in S : place[i] \in 1..Cardinality(S)
      /\ \A i, j \in S : <<i, j>> \in R <=> place[i] < place[j]
      /\ {place[i] : i \in S} = 1..Cardinality(S)
  BY ONLY <1>1, <1>4, place = Enumerated(S, R), OrderPlaces
<1>6. 1 \in 1..Cardinality(S)
  <2> PICK i \in S : place[i] \in 1..Cardinality(S)
    BY <1>5
  <2> QED BY <1>5
<1>7. PICK m \in S : place[m] = 1
  BY <1>5, <1>6
<1>8. ASSUME NEW k \in S PROVE m <= k
  <2>1. place[k] \in 1..Cardinality(S)
    BY <1>5
  <2>2. ~(place[k] < place[m])
    BY <1>5, <1>7, <2>1
  <2>3. <<k, m>> \notin R
    BY <1>5, <2>2
  <2>4. ~(k < m) /\ k \in Nat /\ m \in Nat
    BY <1>2, <1>3, <2>3
  <2> QED BY <2>4
<1> QED BY <1>8

\* f joins the first k of the sequences s.
Joins(f, s, k) ==
  /\ DOMAIN f = 1..k
  /\ \A i \in 1..k : f[i] = IF i = 1 THEN s[i] ELSE f[i - 1] \o s[i]

\* They can be joined, however many they are.
LEMMA JoinExists ==
  ASSUME NEW s, NEW n \in Nat
  PROVE  \E f : Joins(f, s, n) /\ f = [i \in 1..n |-> f[i]]
<1> DEFINE T == {k \in 0..n : ~\E f : Joins(f, s, k) /\ f = [i \in 1..k |-> f[i]]}
<1>1. ASSUME T # {} PROVE FALSE
  <2>1. T \in SUBSET (0..n)
    OBVIOUS
  <2> PICK k \in T : \A l \in T : k <= l
    BY <1>1, <2>1, LeastElement
  <2>2. k \in 0..n /\ ~\E f : Joins(f, s, k) /\ f = [i \in 1..k |-> f[i]]
    OBVIOUS
  <2>3. k # 0
    <3> PICK f : f = [i \in 1..0 |-> s]
      OBVIOUS
    <3>1. Joins(f, s, 0) /\ f = [i \in 1..0 |-> f[i]]
      BY DEF Joins
    <3> QED BY <2>2, <3>1
  <2>4. k - 1 \in 0..n /\ k - 1 \notin T
    BY <2>2, <2>3
  <2> HIDE DEF T
  <2>5. PICK g : Joins(g, s, k - 1)
    BY <2>4 DEF T
  <2> PICK f : f = [i \in 1..k |-> IF i = k THEN (IF i = 1 THEN s[i] ELSE g[i - 1] \o s[i]) ELSE g[i]]
    OBVIOUS
  <2>6. ASSUME NEW i \in 1..k PROVE f[i] = IF i = 1 THEN s[i] ELSE f[i - 1] \o s[i]
    <3>1. i # 1 => i - 1 \in 1..k /\ i - 1 # k /\ f[i - 1] = g[i - 1]
      BY <2>2
    <3>2. CASE i = k
      BY <3>1, <3>2
    <3>3. CASE i # k
      <4>1. i \in 1..(k - 1) /\ f[i] = g[i]
        BY <2>2, <3>3
      <4>2. g[i] = IF i = 1 THEN s[i] ELSE g[i - 1] \o s[i]
        BY <2>5, <4>1 DEF Joins
      <4> QED BY <3>1, <4>1, <4>2
    <3> QED BY <3>2, <3>3
  <2>7. Joins(f, s, k) /\ f = [i \in 1..k |-> f[i]]
    BY <2>6 DEF Joins
  <2> QED BY <2>2, <2>7
<1>2. n \notin T
  BY <1>1
<1>3. n \in 0..n
  OBVIOUS
<1> QED BY <1>2, <1>3

\* FlattenSeq joins sequences one after the other.
LEMMA FlatJoins ==
  ASSUME NEW s, Len(s) \in Nat, Len(s) # 0
  PROVE  \E f : Joins(f, s, Len(s)) /\ FlattenSeq(s) = f[Len(s)]
<1> DEFINE flat == CHOOSE f : f = [i \in 1..Len(s) |-> IF i = 1 THEN s[i] ELSE f[i - 1] \o s[i]]
<1>1. PICK g : Joins(g, s, Len(s)) /\ g = [i \in 1..Len(s) |-> g[i]]
  BY JoinExists
<1>2. g = [i \in 1..Len(s) |-> IF i = 1 THEN s[i] ELSE g[i - 1] \o s[i]]
  <2>1. \A i \in 1..Len(s) : g[i] = IF i = 1 THEN s[i] ELSE g[i - 1] \o s[i]
    BY <1>1 DEF Joins
  <2>2. [i \in 1..Len(s) |-> g[i]] = [i \in 1..Len(s) |-> IF i = 1 THEN s[i] ELSE g[i - 1] \o s[i]]
    BY <2>1
  <2> QED BY <1>1, <2>2
<1>3. flat = [i \in 1..Len(s) |-> IF i = 1 THEN s[i] ELSE flat[i - 1] \o s[i]]
  BY <1>2
<1>4. FlattenSeq(s) = flat[Len(s)]
  BY DEF FlattenSeq
<1> HIDE DEF flat
<1>5. DOMAIN flat = 1..Len(s) /\ \A i \in 1..Len(s) : flat[i] = IF i = 1 THEN s[i] ELSE flat[i - 1] \o s[i]
  BY <1>3
<1>6. Joins(flat, s, Len(s))
  BY <1>5 DEF Joins
<1> QED BY <1>4, <1>6

\* A sorted set of issues, as a relation and as an order of the table.
Precede == {p \in (DOMAIN table) \X (DOMAIN table) : Before(p[1], p[2])}

LEMMA PrecedeOrders ==
  ASSUME QueryAssumption, table \in Seq(QueryIssue), NEW S \in SUBSET DOMAIN table
  PROVE  /\ IsFiniteSet(S) /\ Orders(Precede, S)
         /\ \A i, j \in S : <<i, j>> \in Precede <=> Before(i, j)
<1>1. /\ DOMAIN table = 1..Len(table) /\ Len(table) \in Nat
      /\ \A i \in DOMAIN table : i \in Int /\ table[i].priority \in Int /\ table[i].pos \in Int
  <2>1. \A i \in DOMAIN table : table[i] \in QueryIssue
    OBVIOUS
  <2>2. \A i \in DOMAIN table : table[i].priority \in Ranks /\ table[i].pos \in Nat
    BY <2>1 DEF QueryIssue
  <2>3. \A x \in Ranks : x \in Int
    BY QueryAssumption
  <2>4. DOMAIN table = 1..Len(table) /\ Len(table) \in Nat
    OBVIOUS
  <2>5. \A i \in DOMAIN table : i \in Int
    BY <2>4
  <2>6. \A i \in DOMAIN table : table[i].priority \in Int /\ table[i].pos \in Int
    <3> TAKE i \in DOMAIN table
    <3>1. table[i].priority \in Int
      BY <2>2, <2>3
    <3>2. table[i].pos \in Nat
      BY <2>2
    <3> PICK q : q = table[i].pos
      OBVIOUS
    <3>3. q \in Int
      BY <3>2
    <3> QED BY <3>1, <3>3
  <2> QED BY <2>4, <2>5, <2>6
<1>2. \A i, j \in S : <<i, j>> \in Precede <=> Before(i, j)
  BY DEF Precede
<1>3. \A i, j, k \in S : Before(i, j) /\ Before(j, k) => Before(i, k)
  BY <1>1 DEF Before
<1>4. \A i \in S : ~Before(i, i)
  BY <1>1 DEF Before
<1>5. \A i, j \in S : i # j => Before(i, j) \/ Before(j, i)
  BY <1>1 DEF Before
<1>6. Orders(Precede, S)
  BY <1>2, <1>3, <1>4, <1>5 DEF Orders
<1>7. IsFiniteSet(S)
  <2>1. IsFiniteSet(DOMAIN table)
    BY <1>1, FS_Interval
  <2> QED BY <2>1, FS_Subset
<1> QED BY <1>2, <1>6, <1>7

\* A set of issues can be sorted: each comes once, in the order.
LEMMA SortedColumn ==
  ASSUME QueryAssumption, table \in Seq(QueryIssue), NEW S \in SUBSET DOMAIN table,
         NEW s, s = Sorted(S)
  PROVE  /\ s \in Seq(DOMAIN table) /\ {s[m] : m \in DOMAIN s} = S
         /\ \A m, n \in DOMAIN s : m < n => Before(s[m], s[n])
<1> PICK c : c = Cardinality(S)
  OBVIOUS
<1> PICK place : place = Enumerated(S, Precede)
  OBVIOUS
<1>1. /\ c \in Nat /\ \A i \in S : place[i] \in 1..c
      /\ \A i, j \in S : <<i, j>> \in Precede <=> place[i] < place[j]
      /\ {place[i] : i \in S} = 1..c
  BY PrecedeOrders, OrderPlaces
<1>2. \A i, j \in S : Before(i, j) <=> place[i] < place[j]
  BY <1>1, PrecedeOrders
<1> DEFINE at == [m \in 1..c |-> CHOOSE i \in S : place[i] = m]
<1>3. \A m \in 1..c : at[m] \in S /\ place[at[m]] = m
  <2>1. \A m \in 1..c : \E i \in S : place[i] = m
    BY <1>1
  <2> QED BY <2>1
<1>4. at \in [1..c -> S] /\ \A m, n \in DOMAIN at : m < n => Before(at[m], at[n])
  <2>1. DOMAIN at = 1..c
    OBVIOUS
  <2> HIDE DEF at
  <2>2. \A m, n \in 1..c : m < n => Before(at[m], at[n])
    <3> TAKE m \in 1..c, n \in 1..c
    <3> HAVE m < n
    <3>1. at[m] \in S /\ at[n] \in S /\ place[at[m]] < place[at[n]]
      BY <1>3
    <3> QED BY <1>2, <3>1
  <2>3. at \in [1..c -> S]
    BY <1>3 DEF at
  <2> QED BY <2>1, <2>2, <2>3
<1>5. s \in [1..c -> S] /\ \A m, n \in DOMAIN s : m < n => Before(s[m], s[n])
  <2> HIDE DEF at
  <2> QED BY <1>4 DEF Sorted
<1>6. s \in Injection(1..c, S)
  <2>1. ASSUME NEW m \in 1..c, NEW n \in 1..c, s[m] = s[n] PROVE m = n
    <3>1. ~Before(s[m], s[m]) /\ s[m] \in S /\ s[n] \in S
      BY <1>1, <1>2, <1>5
    <3>2. ~(m < n) /\ ~(n < m)
      BY <1>5, <2>1, <3>1
    <3> QED BY <1>1, <3>2
  <2> QED BY <1>5, <2>1 DEF Injection, IsInjective
<1>7. s \in Surjection(1..c, S)
  <2>1. IsFiniteSet(1..c) /\ Cardinality(1..c) = c
    BY <1>1, FS_Interval
  <2>2. IsFiniteSet(S)
    BY PrecedeOrders
  <2> QED BY <1>6, <2>1, <2>2, FS_Injection
<1>8. {s[m] : m \in DOMAIN s} = S
  BY <1>5, <1>7 DEF Surjection
<1>9. s \in Seq(DOMAIN table)
  BY <1>1, <1>5
<1> QED BY <1>5, <1>8, <1>9

\* The column an issue is in.
RankOf(i) == CHOOSE c \in DOMAIN ColumnStates : ColumnStates[c] = table[i].state

\* The order of the list.
Ranked(i, j) ==
  /\ i # j
  /\ \/ RankOf(i) < RankOf(j)
     \/ RankOf(i) = RankOf(j) /\ table[i].priority < table[j].priority
     \/ RankOf(i) = RankOf(j) /\ table[i].priority = table[j].priority /\ table[i].pos <= table[j].pos

\* An issue is in one of the first k columns.
InFirst(i, k) == \E c \in 1..k : table[i].state = ColumnStates[c]

\* s lists the issues found whose columns are among the first k.
Lists(s, found, k) ==
  /\ s \in Seq(DOMAIN table)
  /\ {s[m] : m \in DOMAIN s} = {i \in found : InFirst(i, k)}
  /\ \A m, n \in DOMAIN s : m < n => Ranked(s[m], s[n])

\* Joining one more column keeps the list.
LEMMA ListGrows ==
  ASSUME QueryAssumption, table \in Seq(QueryIssue), NEW found \in SUBSET DOMAIN table,
         NEW k \in Nat, k + 1 \in DOMAIN ColumnStates, NEW s, Lists(s, found, k),
         NEW t, t = Sorted({i \in found : table[i].state = ColumnStates[k + 1]}),
         NEW u, u = s \o t
  PROVE  Lists(u, found, k + 1)
<1> DEFINE S == {i \in found : table[i].state = ColumnStates[k + 1]}
<1>1. /\ t \in Seq(DOMAIN table) /\ {t[m] : m \in DOMAIN t} = S
      /\ \A m, n \in DOMAIN t : m < n => Before(t[m], t[n])
  <2>1. S \in SUBSET DOMAIN table /\ t = Sorted(S)
    OBVIOUS
  <2> HIDE DEF S
  <2> QED BY <2>1, SortedColumn
<1>2. /\ s \in Seq(DOMAIN table) /\ \A m, n \in DOMAIN s : m < n => Ranked(s[m], s[n])
      /\ {s[m] : m \in DOMAIN s} = {i \in found : InFirst(i, k)}
  BY DEF Lists
<1>3. /\ u \in Seq(DOMAIN table) /\ DOMAIN u = 1..(Len(s) + Len(t))
      /\ Len(s) \in Nat /\ Len(t) \in Nat /\ DOMAIN s = 1..Len(s) /\ DOMAIN t = 1..Len(t)
      /\ \A m \in 1..Len(s) : u[m] = s[m]
      /\ \A m \in 1..Len(t) : u[Len(s) + m] = t[m]
  BY <1>1, <1>2
<1>4. \A m \in DOMAIN u : m \in DOMAIN s \/ (m > Len(s) /\ m - Len(s) \in DOMAIN t /\ u[m] = t[m - Len(s)])
  <2> TAKE m \in DOMAIN u
  <2>1. CASE m > Len(s)
    <3>1. m - Len(s) \in 1..Len(t)
      BY <1>3, <2>1
    <3>2. u[Len(s) + (m - Len(s))] = t[m - Len(s)]
      BY <1>3, <3>1
    <3>3. Len(s) + (m - Len(s)) = m
      BY <1>3
    <3> QED BY <1>3, <2>1, <3>1, <3>2, <3>3
  <2> QED BY <1>3, <2>1
<1>5. ASSUME NEW i \in DOMAIN table, NEW c \in DOMAIN ColumnStates, table[i].state = ColumnStates[c]
      PROVE  RankOf(i) = c
  <2>1. RankOf(i) \in DOMAIN ColumnStates /\ ColumnStates[RankOf(i)] = table[i].state
    BY <1>5 DEF RankOf
  <2> QED BY <1>5, <2>1, QueryAssumption DEF IsInjective
<1>6. {u[m] : m \in DOMAIN u} = {i \in found : InFirst(i, k + 1)}
  <2>1. ASSUME NEW m \in DOMAIN u PROVE u[m] \in found /\ InFirst(u[m], k + 1)
    <3>1. CASE m \in DOMAIN s
      <4>1. u[m] \in found /\ InFirst(u[m], k)
        BY <1>2, <1>3, <3>1
      <4>2. PICK c \in 1..k : table[u[m]].state = ColumnStates[c]
        BY <4>1 DEF InFirst
      <4>3. c \in 1..(k + 1)
        OBVIOUS
      <4> QED BY <4>1, <4>2, <4>3 DEF InFirst
    <3>2. CASE m - Len(s) \in DOMAIN t /\ u[m] = t[m - Len(s)]
      <4>1. u[m] \in found /\ table[u[m]].state = ColumnStates[k + 1]
        BY <1>1, <3>2
      <4>2. k + 1 \in 1..(k + 1)
        OBVIOUS
      <4> QED BY <4>1, <4>2 DEF InFirst
    <3> QED BY <1>4, <3>1, <3>2
  <2>2. ASSUME NEW i \in found, InFirst(i, k + 1)
        PROVE  \E m \in DOMAIN u : u[m] = i
    <3>1. CASE table[i].state = ColumnStates[k + 1]
      <4>1. i \in S
        BY <3>1
      <4>2. PICK m \in DOMAIN t : t[m] = i
        <5> HIDE DEF S
        <5> QED BY <1>1, <4>1
      <4>3. Len(s) + m \in DOMAIN u /\ u[Len(s) + m] = i
        BY <1>3, <4>2
      <4> QED BY <4>3
    <3>2. CASE InFirst(i, k)
      <4>1. PICK m \in DOMAIN s : s[m] = i
        BY <1>2, <3>2
      <4> QED BY <1>3, <4>1
    <3>3. \A c \in 1..(k + 1) : c = k + 1 \/ c \in 1..k
      OBVIOUS
    <3> QED BY <2>2, <3>1, <3>2, <3>3 DEF InFirst
  <2> QED BY <2>1, <2>2, ZenonT(60)
<1>7. ASSUME NEW m \in DOMAIN u, NEW n \in DOMAIN u, m < n
      PROVE  Ranked(u[m], u[n])
  <2>1. CASE n \in DOMAIN s
    <3>1. m \in DOMAIN s
      BY <1>3, <1>7, <2>1
    <3> QED BY <1>2, <1>3, <1>7, <2>1, <3>1
  <2>2. CASE n \notin DOMAIN s
    <3>1. n - Len(s) \in DOMAIN t /\ u[n] = t[n - Len(s)] /\ u[n] \in S
      BY <1>1, <1>4, <2>2
    <3>2. RankOf(u[n]) = k + 1
      BY <1>5, <3>1
    <3>3. CASE m \in DOMAIN s
      <4>1. u[m] \in found /\ InFirst(u[m], k)
        BY <1>2, <1>3, <3>3
      <4>2. PICK c \in 1..k : table[u[m]].state = ColumnStates[c]
        BY <4>1 DEF InFirst
      <4>3. c \in DOMAIN ColumnStates /\ c < k + 1
        BY QueryAssumption
      <4>4. RankOf(u[m]) = c
        BY <1>5, <4>1, <4>2, <4>3
      <4>5. RankOf(u[m]) < RankOf(u[n])
        BY <3>2, <4>3, <4>4, SMTT(30)
      <4> QED BY <3>2, <4>3, <4>4, <4>5 DEF Ranked
    <3>4. CASE m \notin DOMAIN s
      <4>1. m - Len(s) \in DOMAIN t /\ u[m] = t[m - Len(s)] /\ u[m] \in S
        BY <1>1, <1>4, <3>4
      <4>2. m - Len(s) < n - Len(s)
        BY <1>3, <1>7
      <4>3. Before(u[m], u[n])
        BY <1>1, <3>1, <4>1, <4>2
      <4>4. RankOf(u[m]) = k + 1
        BY <1>5, <4>1
      <4>5. u[m] # u[n]
        <5>1. u[n] \in DOMAIN table
          BY <3>1
        <5>2. ~Before(u[n], u[n])
          <6>1. {u[n]} \in SUBSET DOMAIN table
            BY <5>1
          <6>2. Orders(Precede, {u[n]}) /\ (<<u[n], u[n]>> \in Precede <=> Before(u[n], u[n]))
            BY <6>1, PrecedeOrders
          <6> QED BY <6>2 DEF Orders
        <5> QED BY <4>3, <5>2
      <4>6. table[u[m]].pos \in Nat /\ table[u[n]].pos \in Nat
        <5>1. \A i \in DOMAIN table : table[i] \in QueryIssue
          OBVIOUS
        <5> QED BY <3>1, <4>1, <5>1 DEF QueryIssue
      <4>7. \/ table[u[m]].priority < table[u[n]].priority
            \/ table[u[m]].priority = table[u[n]].priority /\ table[u[m]].pos <= table[u[n]].pos
        <5> PICK x : x = table[u[m]]
          OBVIOUS
        <5> PICK y : y = table[u[n]]
          OBVIOUS
        <5>1. \/ x.priority < y.priority
              \/ x.priority = y.priority /\ x.pos < y.pos
              \/ x.priority = y.priority /\ x.pos = y.pos
          BY <4>3 DEF Before
        <5>2. x.pos \in Nat /\ y.pos \in Nat
          BY <4>6, SMTT(30)
        <5>3. \/ x.priority < y.priority
              \/ x.priority = y.priority /\ x.pos <= y.pos
          <6>1. \A a, b \in Nat : a < b \/ a = b => a <= b
            OBVIOUS
          <6> QED BY <5>1, <5>2, <6>1
        <5> QED BY <5>3
      <4> QED BY <3>2, <4>4, <4>5, <4>7 DEF Ranked
    <3> QED BY <3>3, <3>4
  <2> QED BY <2>1, <2>2
<1> QED BY <1>3, <1>6, <1>7 DEF Lists

\* The list is of the columns' issues.
LEMMA ColumnsListed ==
  ASSUME QueryAssumption, table \in Seq(QueryIssue), NEW found \in SUBSET DOMAIN table,
         answer = BoardColumns(found)
  PROVE  Lists(Listed, found, Len(ColumnStates))
<1> PICK N : N = Len(ColumnStates)
  OBVIOUS
<1>1. N \in Nat /\ DOMAIN ColumnStates = 1..N
  BY QueryAssumption
<1> PICK s : s = [c \in DOMAIN answer |-> answer[c].issues]
  OBVIOUS
<1>2. s = [c \in 1..N |-> Sorted({i \in found : table[i].state = ColumnStates[c]})]
  BY <1>1 DEF BoardColumns
<1>3. Listed = FlattenSeq(s)
  BY DEF Listed
<1>4. Len(s) = N
  BY <1>1, <1>2
<1>5. Lists(<<>>, found, 0)
  BY DEF Lists, InFirst
<1>6. CASE N = 0
  <2>1. s = <<>>
    BY <1>2, <1>6
  <2>2. FlattenSeq(s) = s
    BY <1>4, <1>6 DEF FlattenSeq
  <2> QED BY <1>3, <1>5, <1>6, <2>1, <2>2
<1>7. CASE N # 0
  <2>1. PICK f : Joins(f, s, N) /\ FlattenSeq(s) = f[N]
    BY <1>1, <1>4, <1>7, FlatJoins
  <2> DEFINE T == {k \in 0..N : k # 0 /\ ~Lists(f[k], found, k)}
  <2>2. ASSUME T # {} PROVE FALSE
    <3>1. T \in SUBSET (0..N)
      OBVIOUS
    <3>2. PICK k \in T : \A l \in T : k <= l
      BY <1>1, <2>2, <3>1, LeastElement
    <3>3. k \in 1..N /\ ~Lists(f[k], found, k) /\ k \in Nat /\ k - 1 \in Nat
      BY <1>1, <3>2
    <3> PICK t : t = Sorted({i \in found : table[i].state = ColumnStates[k]})
      OBVIOUS
    <3>4. s[k] = t /\ f[k] = IF k = 1 THEN t ELSE f[k - 1] \o t
      BY <1>2, <2>1, <3>3 DEF Joins
    <3> PICK before : before = IF k = 1 THEN <<>> ELSE f[k - 1]
      OBVIOUS
    <3>5. Lists(before, found, k - 1)
      <4>1. CASE k = 1
        BY <1>5, <4>1
      <4>2. CASE k # 1
        <5>1. k - 1 \in 0..N /\ k - 1 # 0 /\ k - 1 \notin T
          BY <3>2, <3>3, <4>2
        <5> QED BY <4>2, <5>1
      <4> QED BY <4>1, <4>2
    <3>6. f[k] = before \o t
      <4>1. CASE k = 1
        <5>1. {i \in found : table[i].state = ColumnStates[k]} \in SUBSET DOMAIN table
          OBVIOUS
        <5>2. t \in Seq(DOMAIN table)
          BY <5>1, SortedColumn
        <5> QED BY <3>4, <4>1, <5>2
      <4>2. CASE k # 1
        BY <3>4, <4>2
      <4> QED BY <4>1, <4>2
    <3> PICK l \in Nat : l = k - 1
      BY <3>3
    <3>7. k = l + 1 /\ l + 1 \in DOMAIN ColumnStates
      BY <1>1, <3>3
    <3>8. Lists(f[k], found, l + 1)
      <4>1. Lists(before, found, l) /\ t = Sorted({i \in found : table[i].state = ColumnStates[l + 1]})
        BY <3>5, <3>7
      <4> QED BY <3>6, <3>7, <4>1, ListGrows
    <3> QED BY <3>3, <3>7, <3>8
  <2>3. N \notin T /\ N \in 0..N
    BY <1>1, <2>2
  <2> QED BY <1>3, <1>7, <2>1, <2>3
<1> QED BY <1>6, <1>7

\* The filter on states leaves what both parameters ask for.
LEMMA StatesFiltered ==
  ASSUME QueryAssumption, table \in Seq(QueryIssue), NEW p \in Params,
         NEW found \in SUBSET DOMAIN table, NEW i \in DOMAIN table
  PROVE  i \in WorkflowStateFilters(found, p) <=>
           /\ i \in found
           /\ p.state # Unset => table[i].state = p.state
           /\ p.label # Unset => table[i].state = p.label
           /\ p.state = Unset /\ p.label = Unset => table[i].state \in Range(ColumnStates)
<1> PICK r : r = table[i]
  OBVIOUS
<1> PICK given : given = {p.state, p.label} \ {Unset}
  OBVIOUS
<1>1. r.state \in WorkflowStates
  <2>1. table[i] \in QueryIssue
    OBVIOUS
  <2> QED BY <2>1 DEF QueryIssue
<1>2. r.state # Bad
  BY <1>1, QueryAssumption
<1>3. i \in WorkflowStateFilters(found, p) <=>
        /\ ~(Bad \in given \/ Cardinality(given) = 2)
        /\ i \in found
        /\ r.state \in IF given = {} THEN Range(ColumnStates) ELSE given
  BY DEF WorkflowStateFilters
<1>4. CASE p.state = Unset /\ p.label = Unset
  <2>1. given = {}
    BY <1>4
  <2>2. Cardinality(given) # 2 /\ Bad \notin given
    <3>1. Cardinality(given) = 0
      BY <2>1, FS_EmptySet, Zenon
    <3>2. Bad \notin given
      BY <2>1
    <3> QED BY ONLY <3>1, <3>2
  <2> QED BY <1>3, <1>4, <2>1, <2>2
<1>5. ASSUME NEW s, given = {s}
      PROVE  i \in WorkflowStateFilters(found, p) <=> i \in found /\ r.state = s
  <2>1. Cardinality(given) # 2
    <3>1. Cardinality(given) = 1
      BY <1>5, FS_Singleton, Zenon
    <3> QED BY ONLY <3>1
  <2> QED BY <1>2, <1>3, <1>5, <2>1
<1>6. CASE p.state = Unset /\ p.label # Unset
  <2>1. given = {p.label}
    BY <1>6
  <2> QED BY <1>5, <1>6, <2>1
<1>7. CASE p.state # Unset /\ (p.label = Unset \/ p.label = p.state)
  <2>1. given = {p.state}
    BY <1>7
  <2> QED BY <1>5, <1>7, <2>1
<1>8. CASE p.state # Unset /\ p.label # Unset /\ p.label # p.state
  <2>1. given = {p.state} \cup {p.label}
    BY <1>8
  <2>2. IsFiniteSet({p.state}) /\ Cardinality({p.state}) = 1
    BY FS_Singleton
  <2>3. p.label \notin {p.state}
    BY <1>8
  <2>4. Cardinality({p.state} \cup {p.label}) = Cardinality({p.state}) + 1
    BY <2>2, <2>3, FS_AddElement
  <2>5. Cardinality(given) = 2
    <3>1. Cardinality(given) = 1 + 1
      BY <2>1, <2>2, <2>4, Zenon
    <3> QED BY ONLY <3>1
  <2> QED BY <1>3, <1>8, <2>5
<1> QED BY <1>4, <1>6, <1>7, <1>8

\* The filters amount to the conjunction of what the parameters ask for.
LEMMA FilteredMatches ==
  ASSUME QueryAssumption, table \in Seq(QueryIssue), NEW p \in Params, ~BadAssignee(p)
  PROVE  /\ Filtered(p) \in SUBSET DOMAIN table
         /\ \A i \in DOMAIN table : table[i].state \in Range(ColumnStates) =>
              (i \in Filtered(p) <=> Matches(table[i], p))
<1> DEFINE unarchived == {i \in DOMAIN table : ~table[i].archived}
           ofState == WorkflowStateFilters(unarchived, p)
           ofUser == OptionalFilter(ofState, "user", p.assignee)
           ofPriority == OptionalFilter(ofUser, "priority", p.priority)
           ofFlag == BooleanFilter(ofPriority, p.escalated)
<1>1. Filtered(p) = UpdatedWithin(ofFlag, p.within)
  BY DEF Filtered
<1>2. ofState \in SUBSET DOMAIN table
  BY DEF WorkflowStateFilters
<1>3. ASSUME NEW i \in DOMAIN table PROVE i \in ofState <=>
           /\ ~table[i].archived
           /\ p.state # Unset => table[i].state = p.state
           /\ p.label # Unset => table[i].state = p.label
           /\ p.state = Unset /\ p.label = Unset => table[i].state \in Range(ColumnStates)
  <2>1. unarchived \in SUBSET DOMAIN table /\ (i \in unarchived <=> ~table[i].archived)
    OBVIOUS
  <2> HIDE DEF unarchived
  <2> QED BY <2>1, StatesFiltered
<1> HIDE DEF ofState
<1>4. /\ ofUser \in SUBSET DOMAIN table
      /\ \A i \in DOMAIN table : i \in ofUser <=> i \in ofState /\ (p.assignee # Unset => table[i].user = p.assignee)
  BY <1>2 DEF OptionalFilter
<1> HIDE DEF ofUser
<1>5. /\ ofPriority \in SUBSET DOMAIN table
      /\ \A i \in DOMAIN table :
           i \in ofPriority <=> i \in ofUser /\ (p.priority # Unset => table[i].priority = p.priority)
  BY <1>4 DEF OptionalFilter
<1> HIDE DEF ofPriority
<1>6. /\ ofFlag \in SUBSET DOMAIN table
      /\ \A i \in DOMAIN table :
           i \in ofFlag <=> /\ i \in ofPriority
                            /\ p.escalated # Unset => p.escalated # Bad /\ table[i].escalated = p.escalated
  <2>1. CASE p.escalated = Unset
    <3>1. ofFlag = ofPriority
      BY <2>1, QueryAssumption DEF BooleanFilter
    <3> QED BY <1>5, <2>1, <3>1
  <2>2. CASE p.escalated # Unset /\ p.escalated = Bad
    <3>1. ofFlag = {}
      BY <2>2 DEF BooleanFilter
    <3> QED BY <2>2, <3>1
  <2>3. CASE p.escalated # Unset /\ p.escalated # Bad
    <3>1. ofFlag = {i \in ofPriority : table[i].escalated = p.escalated}
      BY <2>3, Zenon DEF BooleanFilter
    <3> QED BY <1>5, <2>3, <3>1
  <2> QED BY <2>1, <2>2, <2>3
<1> HIDE DEF ofFlag
<1>7. \A i \in DOMAIN table : table[i].age \in Nat
  <2>1. \A i \in DOMAIN table : table[i] \in QueryIssue
    OBVIOUS
  <2>2. \A x \in 0..MaxAge : x \in Nat
    BY QueryAssumption
  <2> QED BY <2>1, <2>2 DEF QueryIssue
<1>8. p.within = Unset \/ p.within = Bad \/ p.within \in Int
  <2>1. p.within \in {Unset, Bad} \cup (-1..MaxAge)
    BY DEF Params
  <2> QED BY <2>1, QueryAssumption
<1>9. /\ UpdatedWithin(ofFlag, p.within) \in SUBSET DOMAIN table
      /\ \A i \in DOMAIN table :
           i \in UpdatedWithin(ofFlag, p.within) <=>
             /\ i \in ofFlag
             /\ p.within # Unset => p.within # Bad /\ table[i].age <= p.within
  BY <1>6, <1>7, <1>8 DEF UpdatedWithin
<1>10. Filtered(p) \in SUBSET DOMAIN table
  BY <1>1, <1>9
<1>11. ASSUME NEW i \in DOMAIN table, table[i].state \in Range(ColumnStates)
       PROVE  i \in Filtered(p) <=> Matches(table[i], p)
  BY <1>1, <1>3, <1>4, <1>5, <1>6, <1>9, <1>11 DEF Matches
<1> QED BY <1>10, <1>11

\* The columns of an answer hold rows of the table.
LEMMA ColumnsTyped ==
  ASSUME QueryAssumption, table \in Seq(QueryIssue), Len(table) <= MaxTable,
         NEW p \in Params, ~BadAssignee(p)
  PROVE  BoardColumns(Filtered(p)) \in Seq(Column)
<1> PICK found : found = Filtered(p)
  OBVIOUS
<1> PICK columns : columns = BoardColumns(found)
  OBVIOUS
<1>1. found \in SUBSET DOMAIN table
  BY FilteredMatches
<1>2. ASSUME NEW c \in DOMAIN ColumnStates PROVE columns[c] \in Column
  <2> PICK S : S = {i \in found : table[i].state = ColumnStates[c]}
    OBVIOUS
  <2> PICK s : s = Sorted(S)
    OBVIOUS
  <2>1. S \in SUBSET DOMAIN table
    BY <1>1
  <2>2. s \in Seq(DOMAIN table)
    BY <2>1, SortedColumn
  <2>3. s \in Seq(1..MaxTable)
    <3>1. DOMAIN table \subseteq 1..MaxTable
      BY QueryAssumption
    <3> QED BY <2>2, <3>1
  <2>4. columns[c] = [state |-> ColumnStates[c], issues |-> s]
    BY DEF BoardColumns
  <2>5. ColumnStates[c] \in WorkflowStates
    BY QueryAssumption
  <2> QED BY <2>3, <2>4, <2>5 DEF Column
<1>3. columns \in Seq(Column)
  <2> PICK N : N = Len(ColumnStates)
    OBVIOUS
  <2>1. N \in Nat /\ DOMAIN ColumnStates = 1..N
    BY QueryAssumption
  <2>2. columns \in [1..N -> Column]
    BY <1>2, <2>1 DEF BoardColumns
  <2> QED BY <2>1, <2>2
<1> QED BY <1>3

\* The invariant: an answer is of the table and the parameters at hand.
QueryInv ==
  /\ table \in Seq(QueryIssue) /\ Len(table) <= MaxTable
  /\ params \in Params \cup {Nothing} /\ answer \in Seq(Column) \cup {Error, Nothing}
  /\ Answered => params \in Params /\ ~BadAssignee(params) /\ answer = BoardColumns(Filtered(params))

\* Every step keeps it.
LEMMA QueryStep ==
  ASSUME QueryAssumption, QueryInv, [QueryNext]_queryVars
  PROVE  QueryInv'
<1>1. CASE AddRow
  <2>1. table' \in Seq(QueryIssue) /\ Len(table') <= MaxTable
    <3>1. PICK shape \in QueryIssue : table' = Append(table, shape)
      BY <1>1, QueryAssumption DEF AddRow
    <3>2. table \in Seq(QueryIssue) /\ Len(table) < MaxTable /\ MaxTable \in Nat
      BY <1>1, QueryAssumption DEF AddRow, QueryInv
    <3> QED BY <3>1, <3>2
  <2>2. ~Answered /\ ~Answered' /\ params' = params /\ answer' = answer
    BY <1>1 DEF AddRow, Answered
  <2> QED BY <2>1, <2>2 DEF QueryInv
<1>2. CASE AskBoard
  <2>1. PICK p \in Params :
          params' = p /\ answer' = IF BadAssignee(p) THEN Error ELSE BoardColumns(Filtered(p))
    BY <1>2 DEF AskBoard
  <2>2. table' = table
    BY <1>2 DEF AskBoard
  <2>3. CASE BadAssignee(p)
    BY <2>1, <2>2, <2>3 DEF QueryInv, Answered
  <2>4. CASE ~BadAssignee(p)
    <3>1. answer' = BoardColumns(Filtered(params'))
      BY <2>1, <2>4
    <3>2. (BoardColumns(Filtered(params)))' = BoardColumns(Filtered(params'))
      BY <2>2 DEF BoardColumns, Sorted, Before, Filtered,
                  WorkflowStateFilters, OptionalFilter, BooleanFilter, UpdatedWithin
    <3>3. BadAssignee(params)' = BadAssignee(p)
      BY <2>1 DEF BadAssignee
    <3>4. table' \in Seq(QueryIssue) /\ Len(table') <= MaxTable
      BY <2>2 DEF QueryInv
    <3>5. params' \in Params \cup {Nothing} /\ answer' \in Seq(Column) \cup {Error, Nothing}
      BY <2>1, <2>4, ColumnsTyped DEF QueryInv
    <3>6. Answered' => params' \in Params /\ ~BadAssignee(params)' /\ answer' = (BoardColumns(Filtered(params)))'
      BY <2>1, <2>4, <3>1, <3>2, <3>3
    <3> QED BY <3>4, <3>5, <3>6 DEF QueryInv
  <2> QED BY <2>3, <2>4
<1>3. CASE Forget
  BY <1>3 DEF Forget, QueryInv, Answered
<1>4. CASE UNCHANGED queryVars
  <2>1. table' = table /\ params' = params /\ answer' = answer
    BY <1>4 DEF queryVars
  <2>2. (BoardColumns(Filtered(params)))' = BoardColumns(Filtered(params))
    BY <2>1 DEF BoardColumns, Sorted, Before, Filtered,
                WorkflowStateFilters, OptionalFilter, BooleanFilter, UpdatedWithin
  <2>3. BadAssignee(params)' = BadAssignee(params) /\ Answered' = Answered
    BY <2>1 DEF BadAssignee, Answered
  <2> QED BY <2>1, <2>2, <2>3 DEF QueryInv
<1> QED BY <1>1, <1>2, <1>3, <1>4 DEF QueryNext

\* What the invariant says of the list.
LEMMA InvListsMatches ==
  ASSUME QueryAssumption, QueryInv
  PROVE  ListIsOfMatches
<1> SUFFICES ASSUME Answered PROVE ListIsOfMatches
  BY DEF ListIsOfMatches
<1> PICK found : found = Filtered(params)
  OBVIOUS
<1> PICK N : N = Len(ColumnStates)
  OBVIOUS
<1> PICK list : list = Listed
  OBVIOUS
<1>1. /\ table \in Seq(QueryIssue) /\ params \in Params /\ ~BadAssignee(params)
      /\ answer = BoardColumns(found)
  BY DEF QueryInv
<1>2. /\ found \in SUBSET DOMAIN table
      /\ \A i \in DOMAIN table : table[i].state \in Range(ColumnStates) =>
           (i \in found <=> Matches(table[i], params))
  BY <1>1, FilteredMatches
<1>3. Lists(list, found, N)
  BY <1>1, <1>2, ColumnsListed
<1>4. \A i : InFirst(i, N) <=> table[i].state \in Range(ColumnStates)
  <2>1. DOMAIN ColumnStates = 1..N
    BY QueryAssumption
  <2> QED BY <2>1 DEF InFirst, Range
<1>5. Range(list) = {i \in found : InFirst(i, N)}
  BY <1>3 DEF Lists, Range
<1>6. Range(list) = {i \in DOMAIN table :
                       Matches(table[i], params) /\ table[i].state \in Range(ColumnStates)}
  <2>1. \A i : i \in Range(list) <=> i \in found /\ table[i].state \in Range(ColumnStates)
    BY <1>4, <1>5
  <2> HIDE DEF Range
  <2> QED BY <1>2, <2>1
<1>7. ASSUME NEW m \in DOMAIN list, NEW n \in DOMAIN list, m < n
      PROVE  Ranked(list[m], list[n])
  BY <1>3, <1>7 DEF Lists
<1>8. \A m, n \in DOMAIN Listed : m < n => Ranked(Listed[m], Listed[n])
  BY <1>7
<1>9. Range(Listed) = {i \in DOMAIN table :
                         Matches(table[i], params) /\ table[i].state \in Range(ColumnStates)}
  BY <1>6
<1> QED BY <1>8, <1>9, Zenon DEF ListIsOfMatches, Ranked, RankOf

\* What the invariant says of the shape of the state.
LEMMA QueryTyped == ASSUME QueryInv PROVE QueryTypeOK
BY DEF QueryInv, QueryTypeOK

\* The list the API answers has each issue that matches all parameters and has
\* a column, once, by column, priority and position, and no other; for any
\* table, columns and parameters.
THEOREM ListsMatches ==
  ASSUME QueryAssumption
  PROVE  QuerySpec => []ListIsOfMatches
<1>1. QueryInit => QueryInv
  BY DEF QueryInit, QueryInv, Answered
<1>2. QueryInv /\ [QueryNext]_queryVars => QueryInv'
  BY QueryStep
<1>3. QueryInv => ListIsOfMatches
  BY InvListsMatches
<1> QED BY <1>1, <1>2, <1>3, PTL DEF QuerySpec
=============================================================================
