----------------------------- MODULE IssueLinks -----------------------------
(***************************************************************************)
(* Links between issues.  A link has a stored inward and a stored outward  *)
(* end.  An issue shows its links by the other end: the issue at the       *)
(* stored outward end shows the other one under inwardIssue, and the issue *)
(* at the inward end shows it under outwardIssue.  An export holds what    *)
(* the issues show, and an import turns every shown link back into a row   *)
(* after all issues of the file are in.  It does so link by link, each one *)
(* looked for among the rows that are there by then; nobody else writes to *)
(* the database before it has committed.                                   *)
(***************************************************************************)
EXTENDS Integers, FiniteSets

CONSTANTS
  LinkedIssues,   \* issue keys
  LinkTypes,      \* link types by name
  MaxLinks        \* bound: links there are when one is made or an export is written

ASSUME IssueLinksAssumption == MaxLinks \in Nat

VARIABLES
  present,    \* issues in the database
  links,      \* issue_links: how many rows there are of each type, inward and outward end
  exported,   \* the export file: what each issue in it showed
  deferred    \* the links of the file that the running import has yet to make

linkVars == <<present, links, exported, deferred>>

LinkRows == [type : LinkTypes, inward : LinkedIssues, outward : LinkedIssues]
LinkSet(rows) == {l \in LinkRows : rows[l] > 0}

LinkInit ==
  /\ present = LinkedIssues
  /\ links = [l \in LinkRows |-> 0] /\ exported = [i \in {} |-> {}] /\ deferred = {}

\* The links of one issue as REST shows them and an export writes them.
Shown(i) ==
  {[type |-> l.type, under |-> "inwardIssue", other |-> l.inward] :
      l \in {k \in LinkSet(links) : k.outward = i}} \cup
  {[type |-> l.type, under |-> "outwardIssue", other |-> l.outward] :
      l \in {k \in LinkSet(links) : k.inward = i}}

\* Fault for Row: the other issue goes to the end it is shown under.
RowAsShown(i, s) ==
  IF s.under = "inwardIssue"
  THEN [type |-> s.type, inward |-> i, outward |-> s.other]
  ELSE [type |-> s.type, inward |-> s.other, outward |-> i]

\* The row behind a link that issue i showed.
Row(i, s) ==
  IF s.under = "inwardIssue"
  THEN [type |-> s.type, inward |-> s.other, outward |-> i]
  ELSE [type |-> s.type, inward |-> i, outward |-> s.other]

\* Fault for Joined: a link is added again.
JoinedAgain(rows, l) == [rows EXCEPT ![l] = @ + 1]

\* A link of that type between those ends is added unless there is one.
Joined(rows, l) == IF rows[l] > 0 THEN rows ELSE [rows EXCEPT ![l] = @ + 1]
-----------------------------------------------------------------------------
CreateLink(l) ==
  /\ deferred = {}
  /\ {l.inward, l.outward} \subseteq present /\ Cardinality(LinkSet(links)) < MaxLinks
  /\ links' = Joined(links, l)
  /\ UNCHANGED <<present, exported, deferred>>

DeleteLink(l) ==
  /\ deferred = {} /\ links[l] > 0
  /\ links' = [links EXCEPT ![l] = @ - 1]
  /\ UNCHANGED <<present, exported, deferred>>

\* The links of a deleted issue go with it, from either end.
DeleteLinkedIssue(i) ==
  /\ deferred = {}
  /\ present' = present \ {i}
  /\ links' = [l \in LinkRows |-> IF i \in {l.inward, l.outward} THEN 0 ELSE links[l]]
  /\ UNCHANGED <<exported, deferred>>

\* The search that the export script runs; any issues may be in it.
ExportLinks(S) ==
  /\ deferred = {} /\ Cardinality(LinkSet(links)) <= MaxLinks
  /\ exported' = [i \in S |-> Shown(i)]
  /\ UNCHANGED <<present, links, deferred>>

\* All issues of the file are in the database before the first link is made.
InFile == UNION {{<<i, s>> : s \in exported[i]} : i \in DOMAIN exported}

ImportFile ==
  /\ deferred = {} /\ exported # <<>>
  /\ present' = present \cup DOMAIN exported
  /\ deferred' = InFile
  /\ UNCHANGED <<links, exported>>

\* The issues of a file are in no particular order.  A link to an issue that is
\* neither in it nor in the database is left out.
ImportLink(i, s) ==
  /\ links' = IF s.other \in present THEN Joined(links, Row(i, s)) ELSE links
  /\ deferred' = deferred \ {<<i, s>>}
  /\ UNCHANGED <<present, exported>>

LinkNext ==
  \/ \E l \in LinkRows : CreateLink(l) \/ DeleteLink(l)
  \/ \E i \in present : DeleteLinkedIssue(i)
  \/ \E S \in SUBSET present : ExportLinks(S)
  \/ ImportFile
  \/ \E e \in deferred : ImportLink(e[1], e[2])

LinkSpec == LinkInit /\ [][LinkNext]_linkVars
-----------------------------------------------------------------------------
\* A link is stored once, whichever of its two ends an import meets first and
\* however often the file is imported, and between issues that exist: the
\* query for an existing link never finds two (links.py:80-89,
\* import_service.py:816-839).
OneRowPerLink ==
  \A l \in LinkRows :
    /\ links[l] <= 1
    /\ links[l] > 0 => {l.inward, l.outward} \subseteq present

\* An import leaves an issue of the file with every link it showed when it was
\* exported, the same way round, if the other issue exists; nothing that was
\* linked before is lost and no link is turned round (issue_service.py:1165-1224,
\* import_service.py:783-801).
ImportBringsLinksBack ==
  [][ deferred # {} =>
        /\ deferred' = {} => \A i \in DOMAIN exported : \A s \in exported[i] :
                               s.other \in present' => s \in Shown(i)'
        /\ LinkSet(links) \subseteq LinkSet(links')
        /\ \A l \in LinkSet(links') \ LinkSet(links) :
             \E i \in DOMAIN exported : \E s \in exported[i] :
               \/ i = l.outward /\ s = [type |-> l.type, under |-> "inwardIssue", other |-> l.inward]
               \/ i = l.inward /\ s = [type |-> l.type, under |-> "outwardIssue", other |-> l.outward]
    ]_linkVars

\* Both: what an import makes of links that are shown from two sides
\* (import_service.py:769-845).
LinksSurviveImports == ImportBringsLinksBack /\ []OneRowPerLink
=============================================================================
