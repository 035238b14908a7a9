------------------------- MODULE ProjectComponents -------------------------
(***************************************************************************)
(* The components of projects and the issues that have them.  Requests and *)
(* imports name a component and create it if the project has none of that  *)
(* name; the component resource renames and deletes it by id, and may move *)
(* its issues to another component.  SQLite gives the highest free row id  *)
(* to the next component, so an id may come back.                          *)
(*                                                                         *)
(* The unique key (project, name) and the foreign keys of the tables are   *)
(* not guards here: the invariants say that the code's own checks never    *)
(* let a request run into them.                                            *)
(***************************************************************************)
EXTENDS Integers, FiniteSets, FiniteSetsExt

CONSTANTS
  Projects,        \* projects that exist
  IssueNumbers,    \* each project has an issue of every number
  ComponentNames,
  MaxComponents    \* bound: components ever created

ASSUME ComponentsAssumption == MaxComponents \in Nat

ProjectIssues == [project : Projects, number : IssueNumbers]

VARIABLES
  components,   \* the rows: id -> project, name, and which component it is (born)
  tagged,       \* issue_components: issue, id, and the component it was meant for
  lastBorn      \* components created so far

componentVars == <<components, tagged, lastBorn>>

ComponentInit == components = [id \in {} |-> 0] /\ tagged = {} /\ lastBorn = 0

IdsNamed(p, name) ==
  {id \in DOMAIN components : components[id].project = p /\ components[id].name = name}

NextComponentId == Max(DOMAIN components \cup {0}) + 1

WithComponent(p, name) ==
  [id \in DOMAIN components \cup {NextComponentId} |->
     IF id \in DOMAIN components THEN components[id]
     ELSE [project |-> p, name |-> name, born |-> lastBorn + 1]]

Tag(i, id, comps) == [issue |-> i, id |-> id, born |-> comps[id].born]
-----------------------------------------------------------------------------
CreateComponent(p, name) ==
  /\ lastBorn < MaxComponents /\ IdsNamed(p, name) = {}
  /\ components' = WithComponent(p, name)
  /\ lastBorn' = lastBorn + 1
  /\ UNCHANGED tagged

\* Fault for NameIsTaken: the component that is renamed is compared with itself.
NameIsItsOwn(id, name) == components[id].name = name

\* The component of another id that has the name in the same project.
NameIsTaken(id, name) == IdsNamed(components[id].project, name) \ {id} # {}

RenameComponent(id, name) ==
  /\ ~NameIsTaken(id, name)
  /\ components' = [components EXCEPT ![id].name = name]
  /\ UNCHANGED <<tagged, lastBorn>>

\* An issue is created, edited or imported with a component of that name.
TagIssue(i, name) ==
  LET found == IdsNamed(i.project, name) IN
  IF found # {}
  THEN /\ tagged' = tagged \cup {Tag(i, id, components) : id \in found}
       /\ UNCHANGED <<components, lastBorn>>
  ELSE /\ lastBorn < MaxComponents
       /\ components' = WithComponent(i.project, name)
       /\ tagged' = tagged \cup {Tag(i, NextComponentId, components')}
       /\ lastBorn' = lastBorn + 1

\* Removed from the issue, alone or because the list is replaced.
UntagIssue(i, id) ==
  /\ \E t \in tagged : t.issue = i /\ t.id = id
  /\ tagged' = {t \in tagged : ~(t.issue = i /\ t.id = id)}
  /\ UNCHANGED <<components, lastBorn>>

\* Fault for Moved: the target is looked for once and not for every issue.
MovedUnlessUsed(id, target) ==
  {t \in tagged : t.id # id} \cup
  IF \E t \in tagged : t.id = target THEN {}
  ELSE {Tag(t.issue, target, components) : t \in {u \in tagged : u.id = id}}

\* Each issue gets the target unless it has it; then the old associations go,
\* those of the target itself when a component is moved to itself.
Moved(id, target) ==
  {t \in tagged \cup {Tag(u.issue, target, components) : u \in {v \in tagged : v.id = id}} : t.id # id}

\* Fault for Untagged: the associations stay.
StillTagged(id) == tagged

Untagged(id) == {t \in tagged : t.id # id}

DeleteComponent(id) ==
  /\ tagged' = Untagged(id)
  /\ components' = [c \in DOMAIN components \ {id} |-> components[c]]
  /\ UNCHANGED lastBorn

DeleteAndMove(id, target) ==
  /\ components[target].project = components[id].project
  /\ tagged' = Moved(id, target)
  /\ components' = [c \in DOMAIN components \ {id} |-> components[c]]
  /\ UNCHANGED lastBorn

DeleteIssueTags(i) ==
  /\ \E t \in tagged : t.issue = i
  /\ tagged' = {t \in tagged : t.issue # i}
  /\ UNCHANGED <<components, lastBorn>>

\* Deleting a project, which may be created again under its key.
DeleteProjectComponents(p) ==
  LET gone == {id \in DOMAIN components : components[id].project = p} IN
  /\ tagged' = {t \in tagged : t.issue.project # p /\ t.id \notin gone}
  /\ components' = [id \in DOMAIN components \ gone |-> components[id]]
  /\ UNCHANGED lastBorn

ComponentNext ==
  \/ \E p \in Projects : DeleteProjectComponents(p)
                           \/ \E name \in ComponentNames : CreateComponent(p, name)
  \/ \E i \in ProjectIssues :
       \/ DeleteIssueTags(i)
       \/ \E name \in ComponentNames : TagIssue(i, name)
       \/ \E id \in DOMAIN components : UntagIssue(i, id)
  \/ \E id \in DOMAIN components :
       \/ \E name \in ComponentNames : RenameComponent(id, name)
       \/ DeleteComponent(id)
       \/ \E target \in DOMAIN components : DeleteAndMove(id, target)

ComponentSpec == ComponentInit /\ [][ComponentNext]_componentVars
-----------------------------------------------------------------------------
\* No two components of a project share a name, although three requests and
\* the import create them and one renames them, each with a check of its own:
\* the unique key never fails a request (projects.py:297-311, 391-409,
\* issue_service.py:365-377, import_service.py:180-188).
ComponentNamesUnique ==
  \A x, y \in DOMAIN components :
    components[x].project = components[y].project /\ components[x].name = components[y].name => x = y

\* An issue has the component it was given and never another one, although
\* the id of a deleted component is given to the next: its component exists,
\* is in the issue's project and is the very one (projects.py:451-459).
TagsPointToTheirComponent ==
  \A t \in tagged :
    /\ t.id \in DOMAIN components
    /\ components[t.id].born = t.born /\ components[t.id].project = t.issue.project

IssuesWith(tags, born) == {t.issue : t \in {u \in tags : u.born = born}}

\* Deleting a component with moveIssuesTo, the target another one: an issue
\* that had one of the two has the target afterwards and no other issue does;
\* no other association changes (projects.py:436-456).
IssuesMoveToTheTarget ==
  [][ \A id, target \in DOMAIN components :
        DeleteAndMove(id, target) /\ id # target
        => LET from == components[id].born  to == components[target].born IN
           /\ IssuesWith(tagged', to) = IssuesWith(tagged, from) \cup IssuesWith(tagged, to)
           /\ \A t \in tagged : t.born \notin {from, to} => t \in tagged'
    ]_componentVars

\* The three together (projects.py:282-459): the table of the components and
\* that of the associations stay right about each other.
ComponentsStayRight ==
  [](ComponentNamesUnique /\ TagsPointToTheirComponent) /\ IssuesMoveToTheTarget
=============================================================================
