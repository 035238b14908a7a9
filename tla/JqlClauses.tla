----------------------------- MODULE JqlClauses -----------------------------
(***************************************************************************)
(* What a JQL clause selects.  The transformer makes an SQL condition of   *)
(* each clause, and an issue is found when its condition is true, not when *)
(* it is false or NULL.  The conditions of one field come from different   *)
(* places in the code, which have to agree.  One issue changes; names are  *)
(* compared without regard to case, so a value stands for its spellings.   *)
(***************************************************************************)
EXTENDS Integers, FiniteSets

CONSTANTS
  Values,      \* names of users, labels, sprints and so on that exist
  Unknown,     \* a name that nothing has
  Words,       \* what is searched for in a text
  Days         \* days; each has a morning and an evening

Nothing == "NULL"

ASSUME JqlAssumption ==
  /\ Unknown \notin Values /\ Nothing \notin Values \cup {Unknown}
  /\ Days \subseteq Nat

VARIABLE issue

jqlVars == <<issue>>

\* A moment is a day and whether it is in the evening; midnight starts it.
Moments == {2 * d + 1 : d \in Days} \cup {2 * d : d \in Days}

\* assignee: any column that names a row of another table, and may be NULL;
\* labels: any table of the issue's values (affectedVersion is one for "=" and
\* "!=" only, its lists and EMPTY are errors); field: a custom field's row,
\* which holds a string or a number, or none; resolved: a column with a time.
\* A description and a time that are there are the one element of a set.
\* Properties of the issue are not among them: their clauses do not agree, as
\* "=" minds the case of a value and IN does not.
JqlInit ==
  issue = [assignee |-> Nothing, labels |-> {}, field |-> Nothing,
           summary |-> {}, description |-> {}, resolved |-> {}]

Number == "number"

EditIssue ==
  \/ \E v \in Values \cup {Nothing} : issue' = [issue EXCEPT !.assignee = v]
  \/ \E L \in SUBSET Values : issue' = [issue EXCEPT !.labels = L]
  \/ \E v \in Values \cup {Number, Nothing} : issue' = [issue EXCEPT !.field = v]
  \/ \E w \in SUBSET Words : issue' = [issue EXCEPT !.summary = w]
  \/ \E w \in {{}} \cup {{text} : text \in SUBSET Words} : issue' = [issue EXCEPT !.description = w]
  \/ \E t \in {{}} \cup {{m} : m \in Moments} : issue' = [issue EXCEPT !.resolved = t]

JqlNext == EditIssue

JqlSpec == JqlInit /\ [][JqlNext]_jqlVars
-----------------------------------------------------------------------------
\* SQL's conditions: "true", "false" or NULL.
Sql(b) == IF b THEN "true" ELSE "false"
SqlNot(c) == CASE c = "true" -> "false" [] c = "false" -> "true" [] OTHER -> Nothing
SqlAnd(C) == IF "false" \in C THEN "false" ELSE IF Nothing \in C THEN Nothing ELSE "true"
SqlOr(C) == IF "true" \in C THEN "true" ELSE IF Nothing \in C THEN Nothing ELSE "false"

\* NULL IN (a set) is NULL, unless the set is empty.
SqlIn(v, S) == IF v = Nothing /\ S # {} THEN Nothing ELSE Sql(v \in S)

Found(condition) == condition = "true"
-----------------------------------------------------------------------------
Fields == {"assignee", "labels", "field"}

\* The rows of the other table with one of the names.
Named(V) == V \cap Values

\* "=" for a column, for a table of values and for a custom field.
ColumnIs(v) == IF v = Nothing THEN Sql(issue.assignee = Nothing) ELSE SqlIn(issue.assignee, Named({v}))
RowIs(v) == Sql(v \in issue.labels)
FieldIs(v) == Sql(issue.field = v /\ v \in Values)

\* _build_comparison of "=" and of "!=".
Is(f, v) ==
  CASE f = "assignee" -> ColumnIs(v) [] f = "labels" -> RowIs(v) [] f = "field" -> FieldIs(v)

IsNot(f, v) == SqlNot(Is(f, v))

\* Fault for NotInList: what is in none of the lists, or is not empty.
NotInAny(f, V) == SqlOr({SqlNot(Is(f, v)) : v \in V})

\* The names of a list together; for a column EMPTY is apart from them.
RowInNames(V) == SqlOr({Sql(v \in issue.labels) : v \in V})
FieldInNames(V) == Sql(issue.field \in V \cap Values)

InNames(f, V) ==
  CASE f = "assignee" -> SqlIn(issue.assignee, Named(V))
    [] f = "labels" -> RowInNames(V) [] f = "field" -> FieldInNames(V)

InList(f, V) ==
  IF Nothing \in V
  THEN SqlOr({Sql(issue.assignee = Nothing)} \cup (IF V = {Nothing} THEN {} ELSE {InNames(f, V \ {Nothing})}))
  ELSE InNames(f, V)

NotInList(f, V) ==
  IF Nothing \in V
  THEN SqlAnd({Sql(issue.assignee # Nothing)}
              \cup (IF V = {Nothing} THEN {} ELSE {SqlNot(InNames(f, V \ {Nothing}))}))
  ELSE SqlNot(InNames(f, V))

\* Fault for IsEmpty: a custom field with any row is not empty.
EmptyWithoutRow(f) ==
  Sql(CASE f = "assignee" -> issue.assignee = Nothing
        [] f = "labels" -> issue.labels = {}
        [] f = "field" -> issue.field = Nothing)

\* A custom field is empty when no row of it holds a string.
FieldIsEmpty == Sql(issue.field \notin Values)

IsEmpty(f) ==
  CASE f = "assignee" -> Sql(issue.assignee = Nothing)
    [] f = "labels" -> Sql(issue.labels = {}) [] f = "field" -> FieldIsEmpty
-----------------------------------------------------------------------------
\* text ~ word and text !~ word, over the summary and the description, which
\* may be NULL.
Like(text, w) == IF text = {} THEN Nothing ELSE Sql(\E words \in text : w \in words)

TextContains(w) == SqlOr({Like({issue.summary}, w), Like(issue.description, w)})

\* Fault for TextContainsNot: the description is not asked for NULL.
NeitherContains(w) == SqlAnd({SqlNot(Like({issue.summary}, w)), SqlNot(Like(issue.description, w))})

TextContainsNot(w) ==
  SqlAnd({SqlNot(Like({issue.summary}, w)),
          SqlOr({Sql(issue.description = {}), SqlNot(Like(issue.description, w))})})
-----------------------------------------------------------------------------
\* A column with a time, compared with a moment.
Compared(moments) == IF issue.resolved = {} THEN Nothing ELSE Sql(issue.resolved \subseteq moments)

Before(m) == Compared({t \in Moments : t < m})
After(m) == Compared({t \in Moments : t > m})
From(m) == Compared({t \in Moments : t >= m})

\* Fault for OnDay: the day as the moment that it starts.
AtMidnight(d) == Compared({2 * d})

\* "=" with a value that names a day: from its midnight up to the next.
OnDay(d) == SqlAnd({From(2 * d), Before(2 * (d + 1))})

NotOnDay(d) == SqlNot(OnDay(d))
-----------------------------------------------------------------------------
ValueLists(f) == (SUBSET (Values \cup {Unknown} \cup (IF f = "assignee" THEN {Nothing} ELSE {}))) \ {{}}

\* IN finds what one of the "=" finds, and NOT IN what every "!=" finds, for
\* values that do not exist and for EMPTY as well; nothing is found by both
\* (jql/transformer.py:777-942 against 427-778).
ListsAgreeWithComparisons ==
  \A f \in Fields : \A V \in ValueLists(f) :
    /\ Found(InList(f, V)) <=> \E v \in V : Found(Is(f, v))
    /\ Found(NotInList(f, V)) <=> \A v \in V : Found(IsNot(f, v))

\* IS EMPTY finds an issue exactly when no "=" with a value finds it
\* (jql/transformer.py:944-1037 against 427-778).
EmptyAgreesWithComparisons ==
  \A f \in Fields : Found(IsEmpty(f)) <=> ~\E v \in Values : Found(Is(f, v))

\* An issue without a description is found by text !~ when its summary has not
\* the word: every issue is found by ~ or by !~, and none by both
\* (jql/transformer.py:551-567).
TextIsFoundOrNot ==
  \A w \in Words : Found(TextContains(w)) # Found(TextContainsNot(w))

\* What has a time is on one day: = day finds it for the day it is on and !=
\* for every other, whatever the time of the day, and > the day, which starts
\* after its midnight, misses none of the later days; what has none is found by
\* neither (jql/transformer.py:465-501).
DaysPartitionTime ==
  \A d \in Days :
    IF issue.resolved = {} THEN ~Found(OnDay(d)) /\ ~Found(NotOnDay(d))
    ELSE /\ Found(OnDay(d)) # Found(NotOnDay(d))
         /\ Found(NotOnDay(d)) <=> Found(Before(2 * d)) \/ (Found(After(2 * d)) /\ Found(From(2 * (d + 1))))

\* The laws together, for every issue: a search and its negation, however it is
\* written, split the issues that have a value (jql/transformer.py:427-1037).
ClausesAgree ==
  /\ ListsAgreeWithComparisons /\ EmptyAgreesWithComparisons
  /\ TextIsFoundOrNot /\ DaysPartitionTime
=============================================================================
