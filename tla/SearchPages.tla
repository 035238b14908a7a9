---------------------------- MODULE SearchPages ----------------------------
(***************************************************************************)
(* Reading a search page by page while issues come and go.  Every page is a*)
(* search of its own; the token of the next one is an offset into whatever *)
(* the search finds then.  Issues are ordered by key, the default: by      *)
(* project and then by number.                                             *)
(***************************************************************************)
EXTENDS Integers, FiniteSets, FiniteSetsExt, SequencesExt

CONSTANTS
  FoundIssues,   \* issues that a search may find, by their place in its order
  PageSizes,     \* maxResults
  MaxChanges     \* bound: issues that come or go during one search

ASSUME PagesAssumption ==
  /\ FoundIssues \subseteq Nat /\ IsFiniteSet(FoundIssues)
  /\ PageSizes \subseteq Nat \ {0} /\ MaxChanges \in Nat

VARIABLES
  found,     \* what the search finds now
  stayed,    \* history: what it has found since the first page
  came, went,   \* history: issues that have come and gone since then
  offset,    \* decoded from the token of the next page
  read,      \* how many times each issue has been read
  walking,   \* there is a next page
  changes

pageVars == <<found, stayed, came, went, offset, read, walking, changes>>

PageInit ==
  /\ found \in SUBSET FoundIssues /\ stayed = found
  /\ came = {} /\ went = {} /\ offset = 0
  /\ read = [i \in FoundIssues |-> 0]
  /\ walking = TRUE /\ changes = 0

\* An issue is created, deleted, or changes so that the search finds it or not.
IssueComes(i) ==
  /\ walking /\ i \notin found /\ changes < MaxChanges
  /\ found' = found \cup {i} /\ came' = came \cup {i} /\ changes' = changes + 1
  /\ UNCHANGED <<stayed, went, offset, read, walking>>

IssueGoes(i) ==
  /\ walking /\ i \in found /\ changes < MaxChanges
  /\ found' = found \ {i} /\ stayed' = stayed \ {i} /\ went' = went \cup {i}
  /\ changes' = changes + 1
  /\ UNCHANGED <<came, offset, read, walking>>

\* The issues from an offset on, as many as a page holds.
Page(size) ==
  {i \in found : LET place == Cardinality({j \in found : j < i})
                 IN offset <= place /\ place < offset + size}

\* Fault for IsLast: one issue is forgotten.
IsLastEarly(next, total) == next + 1 >= total

IsLast(next, total) == next >= total

\* Fault for NextOffset: a full page is counted, though the page may be short.
OffsetByNumber(size) == offset + size + 1

NextOffset(size) == offset + Cardinality(Page(size))

ReadPage(size) ==
  /\ walking
  /\ read' = [i \in FoundIssues |-> read[i] + IF i \in Page(size) THEN 1 ELSE 0]
  /\ offset' = NextOffset(size)
  /\ walking' = ~IsLast(NextOffset(size), Cardinality(found))
  /\ UNCHANGED <<found, stayed, came, went, changes>>

\* A search without a token starts again.
FirstPage ==
  /\ ~walking
  /\ stayed' = found /\ came' = {} /\ went' = {} /\ offset' = 0
  /\ read' = [i \in FoundIssues |-> 0]
  /\ walking' = TRUE /\ changes' = 0
  /\ UNCHANGED found

PageNext ==
  \/ FirstPage
  \/ \E i \in FoundIssues : IssueComes(i) \/ IssueGoes(i)
  \/ \E size \in PageSizes : ReadPage(size)

PageSpec == PageInit /\ [][PageNext]_pageVars
-----------------------------------------------------------------------------
Ahead(S, i) == {j \in S : j < i}

\* When the last page has been read, an issue that the search has found all
\* along was left out only if others before it have gone meanwhile, and was
\* read again only if others before it have come: a search of which nothing
\* changes is read completely and once (search_service.py:88-150).
PagesMissOnlyAfterChanges ==
  ~walking => \A i \in stayed :
    /\ read[i] = 0 => Ahead(went, i) # {}
    /\ read[i] > 1 => Ahead(came, i) # {}
    /\ read[i] <= 1 + Cardinality(Ahead(came, i))
=============================================================================
