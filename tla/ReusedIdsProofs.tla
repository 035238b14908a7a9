-------------------------- MODULE ReusedIdsProofs --------------------------
(***************************************************************************)
(* Tables whose row ids come back, because SQLite gives the id after the   *)
(* greatest that is left: the components of projects with the issues that  *)
(* have them, the registrations of webhooks, remote links, and comments    *)
(* with their replies.  They stay right for any constants.                 *)
(***************************************************************************)
EXTENDS ProjectComponents, WebhookRegistry, RemoteLinks, CommentThreads, FiniteSetTheorems,
        NaturalsInduction, WellFoundedInduction, TLAPS

\* A bounded set of numbers has a greatest one: the least distance from the bound.
\* It is what SQLite gives the next id after.
LEMMA GreatestExists ==
  ASSUME NEW n \in Nat, NEW S \in SUBSET (0..n), S # {}
  PROVE  Max(S) \in S /\ \A x \in S : x <= Max(S)
<1> DEFINE D == {n - x : x \in S}
<1>1. D \subseteq Nat /\ D # {}
  <2>1. \A x \in S : n - x \in Nat
    OBVIOUS
  <2> QED
    BY <2>1
<1>2. PICK d \in D : \A y \in D : ~(<<y, d>> \in OpToRel(<, Nat))
  <2>1. IsWellFoundedOn(OpToRel(<, Nat), Nat)
    BY NatLessThanWellFounded
  <2> QED
    BY <1>1, <2>1, WFMin
<1>3. PICK x \in S : d = n - x
  OBVIOUS
<1>4. \A y \in S : x >= y
  <2> TAKE y \in S
  <2>1. n - y \in D /\ ~(n - y < d)
    BY <1>1, <1>2 DEF OpToRel
  <2> QED
    BY <1>3, <2>1
<1> HIDE DEF D
<1> QED
  BY <1>4 DEF Max
-----------------------------------------------------------------------------
(* Components and the issues that have them.                               *)

ComponentRow == [project : Projects, name : ComponentNames, born : 1..lastBorn]

\* As many ids at most as components were ever created; each is one component.
RowsOK ==
  /\ lastBorn \in Nat
  /\ DOMAIN components \subseteq 1..lastBorn
  /\ components \in [DOMAIN components -> ComponentRow]
  /\ \A x, y \in DOMAIN components : components[x].born = components[y].born => x = y

\* The associations are of issues that exist.
TagsOK == \A t \in tagged : t = [issue |-> t.issue, id |-> t.id, born |-> t.born] /\ t.issue \in ProjectIssues

ComponentInd == RowsOK /\ TagsOK /\ ComponentNamesUnique /\ TagsPointToTheirComponent
-----------------------------------------------------------------------------
\* The next id is free, and at most one past the components created so far.
LEMMA NextComponentIdFree ==
  ASSUME RowsOK
  PROVE  NextComponentId \in 1..lastBorn + 1 /\ NextComponentId \notin DOMAIN components
<1> DEFINE S == DOMAIN components \cup {0}
<1>1. S \in SUBSET (0..lastBorn) /\ 0 \in S /\ lastBorn \in Nat
  BY DEF RowsOK
<1> HIDE DEF S
<1>2. Max(S) \in S /\ \A x \in S : x <= Max(S)
  BY <1>1, GreatestExists
<1>3. Max(S) \in 0..lastBorn
  BY <1>1, <1>2
<1>4. Max(S) + 1 \in 1..lastBorn + 1 /\ Max(S) + 1 \notin S
  BY <1>1, <1>2, <1>3
<1> QED
  BY <1>4 DEF NextComponentId, S

\* A component of a name the project has not: what is in the tables stays.
LEMMA WithComponentOK ==
  ASSUME ComponentInd, NEW p \in Projects, NEW name \in ComponentNames, IdsNamed(p, name) = {},
         components' = WithComponent(p, name), lastBorn' = lastBorn + 1
  PROVE  /\ RowsOK' /\ ComponentNamesUnique'
         /\ DOMAIN components \subseteq DOMAIN components'
         /\ \A id \in DOMAIN components : components'[id] = components[id]
         /\ NextComponentId \in DOMAIN components'
         /\ components'[NextComponentId].project = p
<1> DEFINE new == NextComponentId
           row == [project |-> p, name |-> name, born |-> lastBorn + 1]
<1>1. new \in 1..lastBorn + 1 /\ new \notin DOMAIN components
  BY NextComponentIdFree DEF ComponentInd
<1>2. lastBorn \in Nat /\ DOMAIN components \subseteq 1..lastBorn
  BY DEF ComponentInd, RowsOK
<1> HIDE DEF new
<1>3. /\ DOMAIN components' = DOMAIN components \cup {new}
      /\ components' = [id \in DOMAIN components \cup {new} |-> IF id \in DOMAIN components THEN components[id] ELSE row]
  BY DEF WithComponent, new
<1>4. /\ \A id \in DOMAIN components : components'[id] = components[id]
      /\ components'[new] = row
  BY <1>1, <1>3
<1>5. RowsOK'
  <2>1. DOMAIN components' \subseteq 1..lastBorn'
    BY <1>1, <1>2, <1>3
  <2>2. \A id \in DOMAIN components : components[id] \in ComponentRow /\ components[id] \in ComponentRow'
    BY <1>2 DEF ComponentInd, RowsOK, ComponentRow
  <2>3. row \in ComponentRow'
    BY <1>2 DEF ComponentRow
  <2>4. components' \in [DOMAIN components' -> ComponentRow']
    BY <1>3, <2>2, <2>3
  <2>5. \A id \in DOMAIN components : components[id].born # lastBorn + 1
    BY <1>2, <2>2 DEF ComponentRow
  <2>6. \A x, y \in DOMAIN components' : components'[x].born = components'[y].born => x = y
    BY <1>3, <1>4, <2>5 DEF ComponentInd, RowsOK
  <2> QED
    BY <1>2, <2>1, <2>4, <2>6 DEF RowsOK
<1>6. ComponentNamesUnique'
  <2>1. \A id \in DOMAIN components : ~(components[id].project = p /\ components[id].name = name)
    BY DEF IdsNamed
  <2> QED
    BY <1>3, <1>4, <2>1 DEF ComponentInd, ComponentNamesUnique
<1> QED
  BY <1>3, <1>4, <1>5, <1>6 DEF new

\* Components that are not deleted stay as they are.
LEMMA FewerComponentsOK ==
  ASSUME ComponentInd, NEW gone, lastBorn' = lastBorn,
         components' = [id \in DOMAIN components \ gone |-> components[id]]
  PROVE  RowsOK' /\ ComponentNamesUnique'
  BY DEF ComponentInd, RowsOK, ComponentRow, ComponentNamesUnique

\* Associations that are not dropped stay as they are, if their components do.
LEMMA FewerTagsOK ==
  ASSUME ComponentInd, tagged' \subseteq tagged,
         \A t \in tagged' : t.id \in DOMAIN components' /\ components'[t.id] = components[t.id]
  PROVE  TagsOK' /\ TagsPointToTheirComponent'
  BY DEF ComponentInd, TagsOK, TagsPointToTheirComponent
-----------------------------------------------------------------------------
LEMMA ComponentInitInd == ComponentInit => ComponentInd
  BY DEF ComponentInit, ComponentInd, RowsOK, TagsOK, ComponentNamesUnique, TagsPointToTheirComponent

LEMMA CreateComponentInd ==
  ASSUME ComponentInd, NEW p \in Projects, NEW name \in ComponentNames, CreateComponent(p, name)
  PROVE  ComponentInd'
<1>1. /\ RowsOK' /\ ComponentNamesUnique'
      /\ DOMAIN components \subseteq DOMAIN components'
      /\ \A id \in DOMAIN components : components'[id] = components[id]
      /\ tagged' = tagged
  BY WithComponentOK DEF CreateComponent
<1>2. TagsOK' /\ TagsPointToTheirComponent'
  BY <1>1, FewerTagsOK DEF ComponentInd, TagsPointToTheirComponent
<1> QED
  BY <1>1, <1>2 DEF ComponentInd

LEMMA RenameComponentInd ==
  ASSUME ComponentInd, NEW id \in DOMAIN components, NEW name \in ComponentNames,
         RenameComponent(id, name)
  PROVE  ComponentInd'
<1>1. /\ components' = [components EXCEPT ![id].name = name]
      /\ tagged' = tagged /\ lastBorn' = lastBorn
      /\ IdsNamed(components[id].project, name) \ {id} = {}
  BY DEF RenameComponent, NameIsTaken
<1>2. /\ DOMAIN components' = DOMAIN components
      /\ \A x \in DOMAIN components :
           /\ components'[x] \in ComponentRow
           /\ components'[x].born = components[x].born
           /\ components'[x].project = components[x].project
           /\ x # id => components'[x].name = components[x].name
      /\ components'[id].name = name
      /\ components' \in [DOMAIN components -> ComponentRow]
  BY <1>1 DEF ComponentInd, RowsOK, ComponentRow
<1>3. RowsOK'
  BY <1>1, <1>2 DEF ComponentInd, RowsOK, ComponentRow
<1>4. ComponentNamesUnique'
  <2>1. \A x \in DOMAIN components \ {id} :
          ~(components[x].project = components[id].project /\ components[x].name = name)
    BY <1>1 DEF IdsNamed
  <2> QED
    BY <1>2, <2>1 DEF ComponentInd, ComponentNamesUnique
<1>5. TagsOK' /\ TagsPointToTheirComponent'
  BY <1>1, <1>2 DEF ComponentInd, TagsOK, TagsPointToTheirComponent
<1> QED
  BY <1>3, <1>4, <1>5 DEF ComponentInd

LEMMA TagIssueInd ==
  ASSUME ComponentInd, NEW i \in ProjectIssues, NEW name \in ComponentNames, TagIssue(i, name)
  PROVE  ComponentInd'
<1>1. CASE IdsNamed(i.project, name) # {}
  <2>1. /\ tagged' = tagged \cup {Tag(i, id, components) : id \in IdsNamed(i.project, name)}
        /\ components' = components /\ lastBorn' = lastBorn
    BY <1>1 DEF TagIssue
  <2>2. RowsOK' /\ ComponentNamesUnique'
    BY <2>1 DEF ComponentInd, RowsOK, ComponentRow, ComponentNamesUnique
  <2>3. TagsOK' /\ TagsPointToTheirComponent'
    BY <2>1 DEF ComponentInd, TagsOK, TagsPointToTheirComponent, Tag, IdsNamed
  <2> QED
    BY <2>2, <2>3 DEF ComponentInd
<1>2. CASE IdsNamed(i.project, name) = {}
  <2>1. /\ components' = WithComponent(i.project, name)
        /\ tagged' = tagged \cup {Tag(i, NextComponentId, components')}
        /\ lastBorn' = lastBorn + 1 /\ i.project \in Projects
    BY <1>2 DEF TagIssue, ProjectIssues
  <2>2. /\ RowsOK' /\ ComponentNamesUnique'
        /\ DOMAIN components \subseteq DOMAIN components'
        /\ \A id \in DOMAIN components : components'[id] = components[id]
        /\ NextComponentId \in DOMAIN components'
        /\ components'[NextComponentId].project = i.project
    BY <1>2, <2>1, WithComponentOK
  <2>3. TagsOK' /\ TagsPointToTheirComponent'
    BY <2>1, <2>2 DEF ComponentInd, TagsOK, TagsPointToTheirComponent, Tag
  <2> QED
    BY <2>2, <2>3 DEF ComponentInd
<1> QED
  BY <1>1, <1>2

\* Associations go and nothing else happens.
LEMMA UntagInd ==
  ASSUME ComponentInd, tagged' \subseteq tagged, UNCHANGED <<components, lastBorn>>
  PROVE  ComponentInd'
<1>1. RowsOK' /\ ComponentNamesUnique'
  BY DEF ComponentInd, RowsOK, ComponentRow, ComponentNamesUnique
<1>2. TagsOK' /\ TagsPointToTheirComponent'
  BY FewerTagsOK DEF ComponentInd, TagsPointToTheirComponent
<1> QED
  BY <1>1, <1>2 DEF ComponentInd

LEMMA DeleteComponentInd ==
  ASSUME ComponentInd, NEW id \in DOMAIN components, DeleteComponent(id)
  PROVE  ComponentInd'
<1>1. /\ tagged' = {t \in tagged : t.id # id} /\ lastBorn' = lastBorn
      /\ components' = [c \in DOMAIN components \ {id} |-> components[c]]
  BY DEF DeleteComponent, Untagged
<1>2. RowsOK' /\ ComponentNamesUnique'
  BY <1>1, FewerComponentsOK
<1>3. TagsOK' /\ TagsPointToTheirComponent'
  BY <1>1, FewerTagsOK DEF ComponentInd, TagsPointToTheirComponent
<1> QED
  BY <1>2, <1>3 DEF ComponentInd

\* The issues of one component get the other, which is in the same project.
LEMMA DeleteAndMoveInd ==
  ASSUME ComponentInd, NEW id \in DOMAIN components, NEW target \in DOMAIN components,
         DeleteAndMove(id, target)
  PROVE  ComponentInd'
<1>1. /\ tagged' = Moved(id, target) /\ lastBorn' = lastBorn
      /\ components' = [c \in DOMAIN components \ {id} |-> components[c]]
      /\ components[target].project = components[id].project
  BY DEF DeleteAndMove
<1>2. RowsOK' /\ ComponentNamesUnique'
  BY <1>1, FewerComponentsOK
<1>3. ASSUME NEW t \in tagged'
      PROVE  /\ t = [issue |-> t.issue, id |-> t.id, born |-> t.born] /\ t.issue \in ProjectIssues
             /\ t.id \in DOMAIN components' /\ components'[t.id].born = t.born
             /\ components'[t.id].project = t.issue.project
  <2>1. t.id # id
    BY <1>1 DEF Moved
  <2>2. CASE t \in tagged
    BY <1>1, <2>1, <2>2 DEF ComponentInd, TagsOK, TagsPointToTheirComponent
  <2>3. CASE t \notin tagged
    <3>1. PICK u \in tagged : u.id = id /\ t = Tag(u.issue, target, components)
      BY <1>1, <2>3 DEF Moved
    <3>2. u.issue \in ProjectIssues /\ components[id].project = u.issue.project
      BY <3>1 DEF ComponentInd, TagsOK, TagsPointToTheirComponent
    <3> QED
      BY <1>1, <2>1, <3>1, <3>2 DEF Tag
  <2> QED
    BY <2>2, <2>3
<1> QED
  BY <1>2, <1>3 DEF ComponentInd, TagsOK, TagsPointToTheirComponent

LEMMA DeleteProjectComponentsInd ==
  ASSUME ComponentInd, NEW p \in Projects, DeleteProjectComponents(p)
  PROVE  ComponentInd'
<1> DEFINE gone == {id \in DOMAIN components : components[id].project = p}
<1>1. /\ tagged' = {t \in tagged : t.issue.project # p /\ t.id \notin gone} /\ lastBorn' = lastBorn
      /\ components' = [id \in DOMAIN components \ gone |-> components[id]]
  BY DEF DeleteProjectComponents
<1> HIDE DEF gone
<1>2. RowsOK' /\ ComponentNamesUnique'
  BY <1>1, FewerComponentsOK
<1>3. TagsOK' /\ TagsPointToTheirComponent'
  BY <1>1, FewerTagsOK DEF ComponentInd, TagsPointToTheirComponent
<1> QED
  BY <1>2, <1>3 DEF ComponentInd

\* One case for each operation.
LEMMA ComponentStep == ComponentInd /\ [ComponentNext]_componentVars => ComponentInd'
<1> SUFFICES ASSUME ComponentInd, [ComponentNext]_componentVars
             PROVE  ComponentInd'
  OBVIOUS
<1>1. ASSUME NEW p \in Projects, DeleteProjectComponents(p)
      PROVE  ComponentInd'
  BY <1>1, DeleteProjectComponentsInd
<1>2. ASSUME NEW p \in Projects, NEW name \in ComponentNames, CreateComponent(p, name)
      PROVE  ComponentInd'
  BY <1>2, CreateComponentInd
<1>3. ASSUME NEW i \in ProjectIssues, DeleteIssueTags(i)
      PROVE  ComponentInd'
  BY <1>3, UntagInd DEF DeleteIssueTags
<1>4. ASSUME NEW i \in ProjectIssues, NEW name \in ComponentNames, TagIssue(i, name)
      PROVE  ComponentInd'
  BY <1>4, TagIssueInd
<1>5. ASSUME NEW i \in ProjectIssues, NEW id \in DOMAIN components, UntagIssue(i, id)
      PROVE  ComponentInd'
  BY <1>5, UntagInd DEF UntagIssue
<1>6. ASSUME NEW id \in DOMAIN components, NEW name \in ComponentNames, RenameComponent(id, name)
      PROVE  ComponentInd'
  BY <1>6, RenameComponentInd
<1>7. ASSUME NEW id \in DOMAIN components, DeleteComponent(id)
      PROVE  ComponentInd'
  BY <1>7, DeleteComponentInd
<1>8. ASSUME NEW id \in DOMAIN components, NEW target \in DOMAIN components, DeleteAndMove(id, target)
      PROVE  ComponentInd'
  BY <1>8, DeleteAndMoveInd
<1>9. CASE UNCHANGED componentVars
  BY <1>9, UntagInd DEF componentVars
<1> QED
  BY <1>1, <1>2, <1>3, <1>4, <1>5, <1>6, <1>7, <1>8, <1>9 DEF ComponentNext

LEMMA ComponentInvariant == ComponentSpec => []ComponentInd
  BY ComponentInitInd, ComponentStep, PTL DEF ComponentSpec
-----------------------------------------------------------------------------
\* Who had one of the two components has the target, and nobody else does: a
\* component is told by when it was created, and no two were created at once.
LEMMA MovesRight ==
  ASSUME ComponentInd, NEW id \in DOMAIN components, NEW target \in DOMAIN components,
         DeleteAndMove(id, target), id # target
  PROVE  LET from == components[id].born  to == components[target].born IN
         /\ IssuesWith(tagged', to) = IssuesWith(tagged, from) \cup IssuesWith(tagged, to)
         /\ \A t \in tagged : t.born \notin {from, to} => t \in tagged'
<1> DEFINE from == components[id].born
           to == components[target].born
<1>1. tagged' = Moved(id, target)
  BY DEF DeleteAndMove
<1>2. \A t \in tagged : (t.born = from <=> t.id = id) /\ (t.born = to <=> t.id = target)
  BY DEF ComponentInd, RowsOK, TagsPointToTheirComponent
<1>3. ASSUME NEW i \in IssuesWith(tagged', to)
      PROVE  i \in IssuesWith(tagged, from) \cup IssuesWith(tagged, to)
  <2>1. PICK t \in tagged' : t.born = to /\ i = t.issue
    BY <1>3 DEF IssuesWith
  <2>2. CASE t \in tagged
    BY <2>1, <2>2 DEF IssuesWith
  <2>3. CASE t \notin tagged
    <3>1. PICK u \in tagged : u.id = id /\ t = Tag(u.issue, target, components)
      BY <1>1, <2>3 DEF Moved
    <3>2. u.born = from /\ i = u.issue
      BY <1>2, <2>1, <3>1 DEF Tag
    <3> QED
      BY <3>2 DEF IssuesWith
  <2> QED
    BY <2>2, <2>3
<1>4. ASSUME NEW i \in IssuesWith(tagged, from)
      PROVE  i \in IssuesWith(tagged', to)
  <2>1. PICK u \in tagged : u.born = from /\ i = u.issue
    BY <1>4 DEF IssuesWith
  <2>2. Tag(i, target, components) \in tagged'
    <3>1. u.id = id
      BY <1>2, <2>1
    <3>2. Tag(i, target, components).id # id
      BY DEF Tag
    <3> QED
      BY <1>1, <2>1, <3>1, <3>2 DEF Moved
  <2>3. Tag(i, target, components).born = to /\ Tag(i, target, components).issue = i
    BY DEF Tag
  <2> QED
    BY <2>2, <2>3 DEF IssuesWith
<1>5. ASSUME NEW t \in tagged, t.born # from
      PROVE  t \in tagged'
  BY <1>1, <1>2, <1>5 DEF Moved
<1>6. ASSUME NEW i \in IssuesWith(tagged, to)
      PROVE  i \in IssuesWith(tagged', to)
  <2>1. PICK u \in tagged : u.born = to /\ i = u.issue
    BY <1>6 DEF IssuesWith
  <2>2. u \in tagged'
    BY <1>2, <1>5, <2>1
  <2> QED
    BY <2>1, <2>2 DEF IssuesWith
<1> HIDE DEF from, to
<1>7. IssuesWith(tagged', to) = IssuesWith(tagged, from) \cup IssuesWith(tagged, to)
  BY <1>3, <1>4, <1>6
<1>8. \A t \in tagged : t.born \notin {from, to} => t \in tagged'
  BY <1>5
<1> QED
  BY <1>7, <1>8 DEF from, to

\* Names are unique in a project, an issue has the component it was given and
\* never a later one of the same id, and moving takes every issue to the target.
THEOREM ComponentsRight == ComponentSpec => ComponentsStayRight
<1>1. ComponentInd => ComponentNamesUnique /\ TagsPointToTheirComponent
  BY DEF ComponentInd
<1>2. ComponentInd =>
        [ \A id, target \in DOMAIN components :
            DeleteAndMove(id, target) /\ id # target
            => LET from == components[id].born  to == components[target].born IN
               /\ IssuesWith(tagged', to) = IssuesWith(tagged, from) \cup IssuesWith(tagged, to)
               /\ \A t \in tagged : t.born \notin {from, to} => t \in tagged' ]_componentVars
  BY MovesRight
<1> QED
  BY <1>1, <1>2, ComponentInvariant, PTL DEF ComponentsStayRight, IssuesMoveToTheTarget
-----------------------------------------------------------------------------
(* Registrations of webhooks.                                              *)

HookRow == [owner : Owners \cup {Nobody}, address : Addresses, expired : BOOLEAN, signed : BOOLEAN]

HooksOK == DOMAIN hooks \subseteq 1..MaxHooks /\ hooks \in [DOMAIN hooks -> HookRow]

\* Expired or not, a user's registrations are no more than the limit: this is
\* why one that is refreshed does not get past it.
WithinLimit == \A u \in Owners : Cardinality(Dynamic(u)) <= DynamicLimit

HookInd == HooksOK /\ WithinLimit

\* What a step may do to the webhooks that are there, and to their number.
Changed(x) == x \notin DOMAIN hooks' \/ hooks'[x] # hooks[x]

OneOwnerChanged ==
  \A id, other \in DOMAIN hooks :
    Changed(id) /\ Changed(other) => hooks[id].owner = hooks[other].owner

SameNumber ==
  \A id \in AdminHooks : id \in DOMAIN hooks' /\ hooks'[id].address # hooks[id].address
    => DOMAIN hooks' = DOMAIN hooks

HookStepOK == HookInd' /\ OneOwnerChanged /\ SameNumber
-----------------------------------------------------------------------------
\* The greater and the smaller of two numbers.
LEMMA OfTwo ==
  ASSUME NEW m \in Int, NEW n \in Int
  PROVE  /\ Max({m, n}) = IF m >= n THEN m ELSE n
         /\ Min({m, n}) = IF m <= n THEN m ELSE n
<1>1. CASE m <= n
  <2>1. Max({m, n}) \in {m, n} /\ \A y \in {m, n} : Max({m, n}) >= y
    <3>1. n \in {m, n} /\ \A y \in {m, n} : n >= y
      BY <1>1
    <3> QED
      BY <3>1 DEF Max
  <2>2. Min({m, n}) \in {m, n} /\ \A y \in {m, n} : Min({m, n}) <= y
    <3>1. m \in {m, n} /\ \A y \in {m, n} : m <= y
      BY <1>1
    <3> QED
      BY <3>1 DEF Min
  <2> QED
    BY <1>1, <2>1, <2>2
<1>2. CASE ~(m <= n)
  <2>1. Max({m, n}) \in {m, n} /\ \A y \in {m, n} : Max({m, n}) >= y
    <3>1. m \in {m, n} /\ \A y \in {m, n} : m >= y
      BY <1>2
    <3> QED
      BY <3>1 DEF Max
  <2>2. Min({m, n}) \in {m, n} /\ \A y \in {m, n} : Min({m, n}) <= y
    <3>1. n \in {m, n} /\ \A y \in {m, n} : n <= y
      BY <1>2
    <3> QED
      BY <3>1 DEF Min
  <2> QED
    BY <1>2, <2>1, <2>2
<1> QED
  BY <1>1, <1>2

\* Nobody's id is at or after the next one.
LEMMA NextHookIdFree ==
  ASSUME HooksOK
  PROVE  NextHookId \in Nat \ {0} /\ \A id \in DOMAIN hooks : id < NextHookId
<1> DEFINE S == DOMAIN hooks \cup {0}
<1>1. S \in SUBSET (0..MaxHooks) /\ 0 \in S /\ MaxHooks \in Nat
  BY RegistryAssumption DEF HooksOK
<1> HIDE DEF S
<1>2. Max(S) \in S /\ \A x \in S : x <= Max(S)
  BY <1>1, GreatestExists
<1>3. Max(S) \in 0..MaxHooks
  BY <1>1, <1>2
<1>4. \A x \in S : x \in Nat /\ x < Max(S) + 1
  BY <1>1, <1>2, <1>3
<1> QED
  BY <1>3, <1>4 DEF NextHookId, S

LEMMA DynamicFinite ==
  ASSUME HooksOK, NEW u
  PROVE  IsFiniteSet(Dynamic(u)) /\ Cardinality(Dynamic(u)) \in Nat
<1>1. IsFiniteSet(1..MaxHooks)
  BY FS_Interval, RegistryAssumption
<1>2. Dynamic(u) \in SUBSET (1..MaxHooks)
  BY DEF HooksOK, Dynamic
<1> QED
  BY <1>1, <1>2, FS_Subset, FS_CardinalityType

\* A step after which everybody has what they had, or less, keeps the limit.
LEMMA NotMoreKeepsLimit ==
  ASSUME HookInd, \A u \in Owners : Dynamic(u)' \subseteq Dynamic(u)
  PROVE  WithinLimit'
<1> SUFFICES ASSUME NEW u \in Owners
             PROVE  Cardinality(Dynamic(u)') <= DynamicLimit
  BY DEF WithinLimit
<1>1. IsFiniteSet(Dynamic(u)) /\ Cardinality(Dynamic(u)) \in Nat
  BY DynamicFinite DEF HookInd
<1>2. Dynamic(u)' \in SUBSET Dynamic(u)
  OBVIOUS
<1>3. IsFiniteSet(Dynamic(u)') /\ Cardinality(Dynamic(u)') <= Cardinality(Dynamic(u))
  BY <1>1, <1>2, FS_Subset
<1>4. Cardinality(Dynamic(u)') \in Nat
  BY <1>3, FS_CardinalityType
<1>5. Cardinality(Dynamic(u)) <= DynamicLimit
  BY DEF HookInd, WithinLimit
<1> QED
  BY <1>1, <1>3, <1>4, <1>5, RegistryAssumption
-----------------------------------------------------------------------------
LEMMA HookInitInd == HookInit => HookInd
<1> SUFFICES ASSUME HookInit PROVE HookInd
  OBVIOUS
<1>1. DOMAIN hooks = {}
  BY DEF HookInit
<1>2. HooksOK
  BY <1>1 DEF HookInit, HooksOK
<1>3. \A u : Dynamic(u) = {}
  BY <1>1 DEF Dynamic
<1>4. WithinLimit
  BY <1>3, FS_EmptySet, RegistryAssumption DEF WithinLimit
<1> QED
  BY <1>2, <1>4 DEF HookInd

\* There is room for what is made, and the ids are new.
LEMMA CreateDynamicStep ==
  ASSUME HookInd, NEW u \in Owners, NEW address \in Addresses,
         NEW entries \in BoundedSeq(BOOLEAN, MaxBatch), CreateDynamic(u, address, entries)
  PROVE  HookStepOK
<1> DEFINE good == Cardinality({n \in DOMAIN entries : entries[n]})
           used == Cardinality(Dynamic(u))
           room == Max({0, DynamicLimit - used})
           many == Min({good, room})
           made == NextHookId .. (NextHookId + many - 1)
<1>1. /\ made \subseteq 1..MaxHooks
      /\ hooks' = [id \in DOMAIN hooks \cup made |->
                     IF id \in made THEN NewHook(u, address, FALSE) ELSE hooks[id]]
  BY DEF CreateDynamic, Counted
<1>2. good \in Nat
  <2>1. PICK m \in 0..MaxBatch : entries \in [1..m -> BOOLEAN]
    BY DEF BoundedSeq, SeqOf
  <2>2. IsFiniteSet(1..m)
    BY <2>1, FS_Interval, RegistryAssumption
  <2>3. {n \in DOMAIN entries : entries[n]} \in SUBSET (1..m)
    BY <2>1
  <2> QED
    BY <2>2, <2>3, FS_Subset, FS_CardinalityType
<1>3. IsFiniteSet(Dynamic(u)) /\ used \in Nat /\ used <= DynamicLimit /\ DynamicLimit \in Nat
  BY DynamicFinite, RegistryAssumption DEF HookInd, WithinLimit
<1>4. NextHookId \in Nat \ {0} /\ \A id \in DOMAIN hooks : id < NextHookId
  BY NextHookIdFree DEF HookInd
<1>5. DOMAIN hooks \subseteq 1..MaxHooks /\ hooks \in [DOMAIN hooks -> HookRow]
  BY DEF HookInd, HooksOK
<1> HIDE DEF good, used
<1>6. room = DynamicLimit - used
  BY <1>3, OfTwo
<1> HIDE DEF room
<1>7. many \in Nat /\ many <= DynamicLimit - used
  <2>1. good \in Int /\ room \in Int /\ good >= 0 /\ room >= 0
    BY <1>2, <1>3, <1>6
  <2>2. many = IF good <= room THEN good ELSE room
    BY <2>1, OfTwo
  <2> HIDE DEF many
  <2> QED
    BY <1>6, <2>1, <2>2
<1> HIDE DEF many
<1>8. IsFiniteSet(made) /\ Cardinality(made) = many
  BY <1>4, <1>7, FS_Interval
<1>9. made \cap DOMAIN hooks = {}
  BY <1>4, <1>5, <1>7
<1> HIDE DEF made
<1>10. /\ DOMAIN hooks' = DOMAIN hooks \cup made
       /\ \A id \in DOMAIN hooks : hooks'[id] = hooks[id]
       /\ \A id \in made : hooks'[id] = NewHook(u, address, FALSE)
  BY <1>1, <1>9
<1>11. NewHook(u, address, FALSE) \in HookRow /\ NewHook(u, address, FALSE).owner = u
  BY DEF NewHook, HookRow
<1>12. HooksOK'
  BY <1>1, <1>5, <1>10, <1>11 DEF HooksOK
<1>13. WithinLimit'
  <2> SUFFICES ASSUME NEW v \in Owners
               PROVE  Cardinality(Dynamic(v)') <= DynamicLimit
    BY DEF WithinLimit
  <2>1. CASE v = u
    <3>1. Dynamic(v)' = Dynamic(u) \cup made
      BY <1>10, <1>11, <2>1 DEF Dynamic
    <3>2. Dynamic(u) \cap made = {}
      BY <1>9 DEF Dynamic
    <3>3. Cardinality(Dynamic(u) \cup made) = used + many - Cardinality(Dynamic(u) \cap made)
      BY <1>3, <1>8, FS_Union DEF used
    <3>4. Cardinality(Dynamic(u) \cap made) = 0
      BY <3>2, FS_EmptySet
    <3> QED
      BY <1>3, <1>7, <3>1, <3>3, <3>4
  <2>2. CASE v # u
    <3>1. Dynamic(v)' = Dynamic(v)
      BY <1>10, <1>11, <2>2 DEF Dynamic
    <3> QED
      BY <3>1 DEF HookInd, WithinLimit
  <2> QED
    BY <2>1, <2>2
<1> QED
  BY <1>10, <1>12, <1>13 DEF HookStepOK, HookInd, OneOwnerChanged, Changed, SameNumber, AdminHooks, Dynamic

\* The ids that count are those of the user's own registrations.
LEMMA DeleteDynamicStep ==
  ASSUME HookInd, NEW u \in Owners, NEW ids, DeleteDynamic(u, ids)
  PROVE  HookStepOK
<1>1. hooks' = [id \in DOMAIN hooks \ Own(u, ids) |-> hooks[id]]
      /\ \A id \in Own(u, ids) : hooks[id].owner = u
  BY DEF DeleteDynamic, Own, Dynamic
<1>2. HooksOK'
  BY <1>1 DEF HookInd, HooksOK
<1>3. WithinLimit'
  BY <1>1, NotMoreKeepsLimit DEF Dynamic
<1>4. OneOwnerChanged /\ SameNumber
  BY <1>1 DEF OneOwnerChanged, Changed, SameNumber, AdminHooks, Dynamic
<1> QED
  BY <1>2, <1>3, <1>4 DEF HookStepOK, HookInd

LEMMA RefreshDynamicStep ==
  ASSUME HookInd, NEW u \in Owners, NEW ids, RefreshDynamic(u, ids)
  PROVE  HookStepOK
<1>1. hooks' = [id \in DOMAIN hooks |->
                  IF id \in Own(u, ids) THEN [hooks[id] EXCEPT !.expired = FALSE] ELSE hooks[id]]
      /\ \A id \in Own(u, ids) : hooks[id].owner = u
  BY DEF RefreshDynamic, Own, Dynamic
<1>2. /\ DOMAIN hooks' = DOMAIN hooks
      /\ hooks' \in [DOMAIN hooks -> HookRow]
      /\ \A id \in DOMAIN hooks : hooks'[id].owner = hooks[id].owner
      /\ \A id \in DOMAIN hooks \ Own(u, ids) : hooks'[id] = hooks[id]
  BY <1>1 DEF HookInd, HooksOK, HookRow
<1>3. HooksOK'
  BY <1>2 DEF HookInd, HooksOK
<1>4. WithinLimit'
  BY <1>2, NotMoreKeepsLimit DEF Dynamic
<1>5. OneOwnerChanged /\ SameNumber
  BY <1>1, <1>2 DEF OneOwnerChanged, Changed, SameNumber, AdminHooks, Dynamic
<1> QED
  BY <1>3, <1>4, <1>5 DEF HookStepOK, HookInd

LEMMA ExpireHookStep ==
  ASSUME HookInd, NEW id \in DOMAIN hooks, ExpireHook(id)
  PROVE  HookStepOK
<1>1. hooks' = [hooks EXCEPT ![id].expired = TRUE]
  BY DEF ExpireHook
<1>2. /\ DOMAIN hooks' = DOMAIN hooks
      /\ hooks' \in [DOMAIN hooks -> HookRow]
      /\ \A h \in DOMAIN hooks : hooks'[h].owner = hooks[h].owner
      /\ \A h \in DOMAIN hooks \ {id} : hooks'[h] = hooks[h]
  BY <1>1 DEF HookInd, HooksOK, HookRow
<1>3. HooksOK'
  BY <1>2 DEF HookInd, HooksOK
<1>4. WithinLimit'
  BY <1>2, NotMoreKeepsLimit DEF Dynamic
<1>5. OneOwnerChanged /\ SameNumber
  BY <1>2 DEF OneOwnerChanged, Changed, SameNumber, AdminHooks, Dynamic
<1> QED
  BY <1>3, <1>4, <1>5 DEF HookStepOK, HookInd

\* Nobody is no owner: an administrator's webhooks are in no user's limit.
LEMMA CreateAdminStep ==
  ASSUME HookInd, NEW address \in Addresses, NEW signed \in BOOLEAN, CreateAdmin(address, signed)
  PROVE  HookStepOK
<1>1. /\ NextHookId \in 1..MaxHooks /\ NextHookId \notin DOMAIN hooks
      /\ hooks' = [id \in DOMAIN hooks \cup {NextHookId} |->
                     IF id \in DOMAIN hooks THEN hooks[id] ELSE NewHook(Nobody, address, signed)]
  BY NextHookIdFree, RegistryAssumption DEF CreateAdmin, HookInd
<1>2. NewHook(Nobody, address, signed) \in HookRow /\ NewHook(Nobody, address, signed).owner = Nobody
  BY DEF NewHook, HookRow
<1>3. /\ DOMAIN hooks' = DOMAIN hooks \cup {NextHookId}
      /\ \A id \in DOMAIN hooks : hooks'[id] = hooks[id]
      /\ hooks'[NextHookId] = NewHook(Nobody, address, signed)
  BY <1>1
<1>4. HooksOK'
  BY <1>1, <1>2, <1>3 DEF HookInd, HooksOK
<1>5. WithinLimit'
  <2>1. \A u \in Owners : Dynamic(u)' \subseteq Dynamic(u)
    BY <1>2, <1>3, RegistryAssumption DEF Dynamic
  <2> QED
    BY <2>1, NotMoreKeepsLimit
<1>6. OneOwnerChanged /\ SameNumber
  BY <1>3 DEF OneOwnerChanged, Changed, SameNumber, AdminHooks, Dynamic
<1> QED
  BY <1>4, <1>5, <1>6 DEF HookStepOK, HookInd

LEMMA UpdateAdminStep ==
  ASSUME HookInd, NEW id \in AdminHooks, NEW address \in Addresses, NEW secret,
         UpdateAdmin(id, address, secret)
  PROVE  HookStepOK
<1> DEFINE row == NewHook(Nobody, address, IF secret = "kept" THEN hooks[id].signed ELSE secret = "new")
<1>1. id \in DOMAIN hooks /\ hooks[id].owner = Nobody /\ hooks' = [hooks EXCEPT ![id] = row]
  BY DEF UpdateAdmin, Overwritten, AdminHooks, Dynamic
<1>2. row \in HookRow /\ row.owner = Nobody
  <2>1. hooks[id].signed \in BOOLEAN
    BY <1>1 DEF HookInd, HooksOK, HookRow
  <2>2. (IF secret = "kept" THEN hooks[id].signed ELSE secret = "new") \in BOOLEAN
    BY <2>1
  <2> QED
    BY <2>2 DEF NewHook, HookRow
<1> HIDE DEF row
<1>3. /\ DOMAIN hooks' = DOMAIN hooks /\ hooks'[id] = row
      /\ \A h \in DOMAIN hooks \ {id} : hooks'[h] = hooks[h]
  BY <1>1
<1>4. HooksOK'
  BY <1>1, <1>2, <1>3 DEF HookInd, HooksOK
<1>5. WithinLimit'
  BY <1>1, <1>2, <1>3, NotMoreKeepsLimit DEF Dynamic
<1>6. OneOwnerChanged /\ SameNumber
  BY <1>3 DEF OneOwnerChanged, Changed, SameNumber
<1> QED
  BY <1>4, <1>5, <1>6 DEF HookStepOK, HookInd

LEMMA DeleteAdminStep ==
  ASSUME HookInd, NEW id \in AdminHooks, DeleteAdmin(id)
  PROVE  HookStepOK
<1>1. hooks' = [h \in DOMAIN hooks \ {id} |-> hooks[h]]
  BY DEF DeleteAdmin
<1>2. HooksOK'
  BY <1>1 DEF HookInd, HooksOK
<1>3. WithinLimit'
  BY <1>1, NotMoreKeepsLimit DEF Dynamic
<1>4. OneOwnerChanged /\ SameNumber
  BY <1>1 DEF OneOwnerChanged, Changed, SameNumber, AdminHooks, Dynamic
<1> QED
  BY <1>2, <1>3, <1>4 DEF HookStepOK, HookInd

\* One case for each operation.
LEMMA HookStep ==
  ASSUME HookInd, HookNext
  PROVE  HookStepOK
  BY CreateDynamicStep, DeleteDynamicStep, RefreshDynamicStep, ExpireHookStep, CreateAdminStep,
     UpdateAdminStep, DeleteAdminStep
  DEF HookNext

LEMMA HookInvariant == HookSpec => []HookInd
<1>1. HookInd /\ [HookNext]_hookVars => HookInd'
  <2>1. HookInd /\ UNCHANGED hookVars => HookInd'
    BY DEF HookInd, HooksOK, WithinLimit, Dynamic, hookVars
  <2> QED
    BY <2>1, HookStep DEF HookStepOK
<1> QED
  BY <1>1, HookInitInd, PTL DEF HookSpec
-----------------------------------------------------------------------------
\* Posts are the classes of live registrations with the same group.
LEMMA PostsPartition ==
  ASSUME HooksOK
  PROVE  OnePostPerReceiver
<1> SUFFICES ASSUME NEW matching \in SUBSET DOMAIN hooks
             PROVE  /\ \A id \in matching : hooks[id].expired <=> id \notin UNION Posted(matching)
                    /\ \A post \in Posted(matching) : \A x, y \in post :
                         hooks[x].owner = hooks[y].owner /\ hooks[x].address = hooks[y].address
                    /\ \A p, q \in Posted(matching) :
                         p # q => p \cap q = {} /\ \A x \in p, y \in q :
                           hooks[x].owner = hooks[y].owner /\ hooks[x].owner # Nobody
                             => hooks[x].address # hooks[y].address
  BY DEF OnePostPerReceiver
<1> DEFINE live == {id \in matching : ~hooks[id].expired}
           together(first) == {id \in live : Group(id) = Group(first)}
<1>1. Posted(matching) = {together(first) : first \in live}
  BY DEF Posted
<1>2. \A x, y : Group(x) = Group(y) => hooks[x].owner = hooks[y].owner /\ hooks[x].address = hooks[y].address
  BY DEF Group
<1>3. \A x, y : hooks[x].owner = hooks[y].owner /\ hooks[x].owner # Nobody /\ hooks[x].address = hooks[y].address
                  => Group(x) = Group(y)
  BY DEF Group
<1>4. ASSUME NEW first, NEW second, Group(first) = Group(second)
      PROVE  together(first) = together(second)
  BY <1>4
<1>5. \A id \in matching : hooks[id].expired <=> id \notin UNION Posted(matching)
  BY <1>1
<1>6. \A post \in Posted(matching) : \A x, y \in post :
        hooks[x].owner = hooks[y].owner /\ hooks[x].address = hooks[y].address
  <2> SUFFICES ASSUME NEW first \in live, NEW x \in together(first), NEW y \in together(first)
               PROVE  hooks[x].owner = hooks[y].owner /\ hooks[x].address = hooks[y].address
    BY <1>1
  <2>1. Group(x) = Group(y)
    OBVIOUS
  <2> QED
    BY <1>2, <2>1
<1>7. ASSUME NEW first \in live, NEW second \in live, together(first) # together(second)
      PROVE  /\ together(first) \cap together(second) = {}
             /\ \A x \in together(first), y \in together(second) :
                  hooks[x].owner = hooks[y].owner /\ hooks[x].owner # Nobody
                    => hooks[x].address # hooks[y].address
  <2>1. Group(first) # Group(second)
    BY <1>4, <1>7
  <2>2. \A x \in together(first), y \in together(second) : Group(x) # Group(y)
    BY <2>1
  <2> HIDE DEF together
  <2> QED
    BY <1>3, <2>2
<1> HIDE DEF together
<1> QED
  BY <1>1, <1>5, <1>6, <1>7

\* No user has more live registrations than the limit, a step touches the
\* webhooks of one owner only, updates add none, and an event reaches each live
\* registration by one post, whatever ids come back and in whatever order
\* registrations are made, expire, are refreshed and deleted.
THEOREM RegistryInOrder == HookSpec => RegistryStaysInOrder
<1>1. HookInd => LiveWithinLimit /\ OnePostPerReceiver
  <2> SUFFICES ASSUME HookInd PROVE LiveWithinLimit /\ OnePostPerReceiver
    OBVIOUS
  <2>1. ASSUME NEW u \in Owners
        PROVE  Cardinality({id \in Dynamic(u) : ~hooks[id].expired}) <= DynamicLimit
    <3> DEFINE live == {id \in Dynamic(u) : ~hooks[id].expired}
    <3>1. IsFiniteSet(Dynamic(u)) /\ Cardinality(Dynamic(u)) \in Nat
          /\ Cardinality(Dynamic(u)) <= DynamicLimit /\ DynamicLimit \in Nat
      BY DynamicFinite, RegistryAssumption DEF HookInd, WithinLimit
    <3>2. live \in SUBSET Dynamic(u)
      OBVIOUS
    <3> HIDE DEF live
    <3>3. IsFiniteSet(live) /\ Cardinality(live) <= Cardinality(Dynamic(u))
      BY <3>1, <3>2, FS_Subset
    <3>4. Cardinality(live) \in Nat
      BY <3>3, FS_CardinalityType
    <3>5. Cardinality(live) <= DynamicLimit
      BY <3>1, <3>3, <3>4
    <3> QED
      BY <3>5 DEF live
  <2> QED
    BY <2>1, PostsPartition DEF LiveWithinLimit, HookInd
<1>2. HookInd /\ [HookNext]_hookVars =>
        [ \A id, other \in DOMAIN hooks :
            LET Alters(x) == x \notin DOMAIN hooks' \/ hooks'[x] # hooks[x]
            IN Alters(id) /\ Alters(other) => hooks[id].owner = hooks[other].owner ]_hookVars
  BY HookStep DEF HookStepOK, OneOwnerChanged, Changed
<1>3. HookInd /\ [HookNext]_hookVars =>
        [ \A id \in AdminHooks : id \in DOMAIN hooks' /\ hooks'[id].address # hooks[id].address
            => DOMAIN hooks' = DOMAIN hooks ]_hookVars
  BY HookStep DEF HookStepOK, SameNumber
<1> QED
  BY <1>1, <1>2, <1>3, HookInvariant, PTL
  DEF HookSpec, RegistryStaysInOrder, OthersAreUntouched, UpdatesAddNothing
-----------------------------------------------------------------------------
(* Remote links and their globalIds.                                       *)

RemoteRow == [issue : LinkOwners, globalId : GlobalIds \cup {NoGlobalId}]

RemoteRowsOK ==
  /\ DOMAIN remote \subseteq 1..MaxRemote
  /\ remote \in [DOMAIN remote -> RemoteRow]

\* Two links have one globalId only if a PUT gave it to the second.
DoublesArePut ==
  \A x, y \in DOMAIN remote :
    remote[x] = remote[y] /\ remote[x].globalId # NoGlobalId /\ x # y
      => <<remote[x].issue, remote[x].globalId>> \in put

RemoteInd == RemoteRowsOK /\ DoublesArePut

LEMMA RemoteInitInd == RemoteInit => RemoteInd
  BY DEF RemoteInit, RemoteInd, RemoteRowsOK, DoublesArePut

\* Links that are not deleted stay as they are.
LEMMA FewerRemoteInd ==
  ASSUME RemoteInd, NEW gone, remote' = WithoutRemote(gone), UNCHANGED put
  PROVE  RemoteInd'
  BY DEF RemoteInd, RemoteRowsOK, DoublesArePut, WithoutRemote

\* A link is created only when no link of the issue has its globalId.
LEMMA PostRemoteInd ==
  ASSUME RemoteInd, NEW i \in LinkOwners, NEW g \in GlobalIds \cup {NoGlobalId}, PostRemote(i, g)
  PROVE  RemoteInd'
<1>1. CASE Upserted(i, g) # {}
  BY <1>1 DEF PostRemote, RemoteInd, RemoteRowsOK, DoublesArePut
<1>2. CASE Upserted(i, g) = {}
  <2> DEFINE S == DOMAIN remote \cup {0}
             new == Max(S) + 1
             row == [issue |-> i, globalId |-> g]
  <2>1. S \in SUBSET (0..MaxRemote) /\ 0 \in S /\ MaxRemote \in Nat
    BY RemoteLinksAssumption DEF RemoteInd, RemoteRowsOK
  <2> HIDE DEF S
  <2>2. Max(S) \in S /\ \A x \in S : x <= Max(S)
    BY <2>1, GreatestExists
  <2>3. new <= MaxRemote /\ UNCHANGED put
        /\ remote' = [id \in DOMAIN remote \cup {new} |-> IF id = new THEN row ELSE remote[id]]
    BY <1>2 DEF PostRemote, S
  <2>4. new \in 1..MaxRemote /\ new \notin S
    <3>1. Max(S) \in 0..MaxRemote
      BY <2>1, <2>2
    <3> QED
      BY <2>1, <2>2, <2>3, <3>1
  <2> HIDE DEF new
  <2>5. /\ DOMAIN remote' = DOMAIN remote \cup {new} /\ new \notin DOMAIN remote
        /\ remote'[new] = row /\ \A id \in DOMAIN remote : remote'[id] = remote[id]
    BY <2>3, <2>4 DEF S
  <2>6. RemoteRowsOK'
    BY <2>3, <2>4, <2>5 DEF RemoteInd, RemoteRowsOK, RemoteRow
  <2>7. g # NoGlobalId => \A id \in DOMAIN remote : remote[id] # row
    BY <1>2 DEF Upserted, ByGlobalId
  <2>8. DoublesArePut'
    BY <2>3, <2>5, <2>7 DEF RemoteInd, DoublesArePut
  <2> QED
    BY <2>6, <2>8 DEF RemoteInd
<1> QED
  BY <1>1, <1>2

\* A PUT that doubles a globalId is remembered.
LEMMA PutRemoteInd ==
  ASSUME RemoteInd, NEW id \in DOMAIN remote, NEW g \in GlobalIds \cup {NoGlobalId}, PutRemote(id, g)
  PROVE  RemoteInd'
<1> DEFINE i == remote[id].issue
<1>1. remote' = [remote EXCEPT ![id].globalId = g] /\ put \subseteq put'
  BY DEF PutRemote
<1>2. remote \in [DOMAIN remote -> RemoteRow]
  BY DEF RemoteInd, RemoteRowsOK
<1>3. /\ DOMAIN remote' = DOMAIN remote
      /\ remote'[id] = [issue |-> i, globalId |-> g]
      /\ \A x \in DOMAIN remote \ {id} : remote'[x] = remote[x]
      /\ i \in LinkOwners
  BY <1>1, <1>2 DEF RemoteRow
<1>4. RemoteRowsOK'
  BY <1>2, <1>3, <1>1 DEF RemoteInd, RemoteRowsOK, RemoteRow
<1>5. ASSUME NEW x \in DOMAIN remote \ {id}, remote[x] = [issue |-> i, globalId |-> g], g # NoGlobalId
      PROVE  <<i, g>> \in put'
  BY <1>5 DEF PutRemote, ByGlobalId
<1>6. DoublesArePut'
  BY <1>1, <1>3, <1>5 DEF RemoteInd, DoublesArePut
<1> QED
  BY <1>4, <1>6 DEF RemoteInd

LEMMA RemoteStep == RemoteInd /\ [RemoteNext]_remoteVars => RemoteInd'
<1> SUFFICES ASSUME RemoteInd, [RemoteNext]_remoteVars PROVE RemoteInd'
  OBVIOUS
<1>1. CASE UNCHANGED remoteVars
  BY <1>1 DEF remoteVars, RemoteInd, RemoteRowsOK, DoublesArePut
<1> QED
  BY <1>1, PostRemoteInd, PutRemoteInd, FewerRemoteInd DEF RemoteNext, DeleteRemote, DeleteByGlobalId

\* A globalId names one link of an issue, unless a PUT gave it to a second one.
THEOREM GlobalIdsNameOneLink == RemoteSpec => []OneLinkPerGlobalId
<1>1. ASSUME RemoteInd PROVE OneLinkPerGlobalId
  <2> SUFFICES ASSUME NEW i \in LinkOwners, NEW g \in GlobalIds, <<i, g>> \notin put
               PROVE  ~(Cardinality(ByGlobalId(i, g)) > 1)
    BY DEF OneLinkPerGlobalId
  <2>1. \A x, y \in ByGlobalId(i, g) : x = y
    BY <1>1, RemoteLinksAssumption DEF RemoteInd, RemoteRowsOK, RemoteRow, DoublesArePut, ByGlobalId
  <2>2. CASE ByGlobalId(i, g) = {}
    BY <2>2, FS_EmptySet
  <2>3. CASE ByGlobalId(i, g) # {}
    <3>1. PICK x : ByGlobalId(i, g) = {x}
      BY <2>1, <2>3
    <3>2. Cardinality({x}) = 1
      BY FS_Singleton, Zenon
    <3> QED
      BY <3>1, <3>2
  <2> QED
    BY <2>2, <2>3
<1> QED
  BY <1>1, RemoteInitInd, RemoteStep, PTL DEF RemoteSpec
-----------------------------------------------------------------------------
(* Comments and the threads they make.                                     *)

CommentRow == [issue : Threaded, parent : Nat, empty : BOOLEAN, stray : BOOLEAN]
FileRow == [parent : Nat, empty : BOOLEAN]

\* A parent is in the table, with a smaller id.
ParentsOK ==
  /\ DOMAIN comments \subseteq 1..MaxComments
  /\ comments \in [DOMAIN comments -> CommentRow]
  /\ \A id \in DOMAIN comments :
       comments[id].parent # TopLevel =>
         comments[id].parent \in DOMAIN comments /\ comments[id].parent < id

\* An exported issue has threads of one level, parents before their replies.
FileOK ==
  /\ DOMAIN threadFile \subseteq 1..MaxComments
  /\ threadFile \in [DOMAIN threadFile -> FileRow]
  /\ \A id \in DOMAIN threadFile :
       LET p == threadFile[id].parent IN
       p # TopLevel => p \in DOMAIN threadFile /\ p < id /\ threadFile[p].parent = TopLevel

ThreadInd == ParentsOK /\ FileOK /\ EveryCommentIsShown

LEMMA ThreadInitInd == ThreadInit => ThreadInd
  BY DEF ThreadInit, ThreadInd, ParentsOK, FileOK, EveryCommentIsShown, NoFile

\* The ids after the last one are free.
LEMMA LastCommentIs ==
  ASSUME ParentsOK
  PROVE  /\ LastComment \in 0..MaxComments
         /\ \A id \in DOMAIN comments : id <= LastComment
<1> DEFINE S == DOMAIN comments \cup {0}
<1>1. S \in SUBSET (0..MaxComments) /\ S # {} /\ MaxComments \in Nat
  BY CommentsAssumption DEF ParentsOK
<1> HIDE DEF S
<1>2. Max(S) \in S /\ \A x \in S : x <= Max(S)
  BY <1>1, GreatestExists
<1> QED
  BY <1>1, <1>2 DEF LastComment, S

\* A comment more, at the top level or under one that is there; unless it is
\* stray, under one that the page shows at the top level.
LEMMA InsertInd ==
  ASSUME ThreadInd, NEW i \in Threaded, NEW parent, NEW empty \in BOOLEAN,
         NEW stray \in BOOLEAN,
         \/ parent = TopLevel
         \/ /\ parent \in DOMAIN comments
            /\ stray \/ (parent \in Of(i) /\ comments[parent].parent = TopLevel),
         Insert(i, parent, empty, stray), UNCHANGED threadFile
  PROVE  ThreadInd'
<1> DEFINE new == LastComment + 1
           row == [issue |-> i, parent |-> parent, empty |-> empty, stray |-> stray]
<1>1. /\ LastComment \in 0..MaxComments /\ \A id \in DOMAIN comments : id <= LastComment
      /\ MaxComments \in Nat
  BY LastCommentIs, CommentsAssumption DEF ThreadInd
<1>2. /\ new <= MaxComments
      /\ comments' = [id \in DOMAIN comments \cup {new} |-> IF id = new THEN row ELSE comments[id]]
  BY DEF Insert
<1>3. new \in 1..MaxComments /\ \A id \in DOMAIN comments : id < new
  <2>1. \A id \in DOMAIN comments : id \in 1..MaxComments
    BY DEF ThreadInd, ParentsOK
  <2> QED
    BY <1>1, <1>2, <2>1
<1> HIDE DEF new
<1>4. /\ DOMAIN comments' = DOMAIN comments \cup {new} /\ new \notin DOMAIN comments
      /\ comments'[new] = row /\ \A id \in DOMAIN comments : comments'[id] = comments[id]
  <2>1. new \notin DOMAIN comments
    BY <1>3
  <2> QED
    BY <1>2, <2>1
<1>5. parent \in Nat /\ (parent = TopLevel \/ (parent \in DOMAIN comments /\ parent < new))
  BY <1>3 DEF ThreadInd, ParentsOK, TopLevel
<1>6. ParentsOK'
  <2>1. comments' \in [DOMAIN comments' -> CommentRow]
    BY <1>2, <1>4, <1>5 DEF ThreadInd, ParentsOK, CommentRow
  <2> QED
    BY <2>1, <1>3, <1>4, <1>5 DEF ThreadInd, ParentsOK
<1>7. FileOK'
  BY DEF ThreadInd, FileOK
<1>8. EveryCommentIsShown'
  <2> SUFFICES ASSUME NEW id \in DOMAIN comments', ~comments'[id].stray,
                      comments'[id].parent # TopLevel
               PROVE  LET p == comments'[id].parent IN
                      /\ p \in DOMAIN comments' /\ comments'[p].issue = comments'[id].issue
                      /\ comments'[p].parent = TopLevel
    BY DEF EveryCommentIsShown, Of
  <2>1. CASE id = new
    BY <2>1, <1>4 DEF Of
  <2>2. CASE id # new
    BY <2>2, <1>4 DEF ThreadInd, EveryCommentIsShown, Of
  <2> QED
    BY <2>1, <2>2
<1> QED
  BY <1>6, <1>7, <1>8 DEF ThreadInd

LEMMA ReplyInd ==
  ASSUME ThreadInd, NEW i \in Threaded, NEW id \in DOMAIN comments,
         NEW empty \in BOOLEAN, Reply(i, id, empty)
  PROVE  ThreadInd'
<1>1. /\ id \in Of(i) /\ comments[id].issue = i /\ comments[id].stray \in BOOLEAN
      /\ Insert(i, Root(id), empty, comments[id].stray) /\ UNCHANGED threadFile
  BY DEF Reply, Of, ThreadInd, ParentsOK, CommentRow
<1>2. Root(id) \in DOMAIN comments
  BY DEF Root, ThreadInd, ParentsOK
<1>3. ~comments[id].stray => Root(id) \in Of(i) /\ comments[Root(id)].parent = TopLevel
  BY <1>1 DEF Root, ThreadInd, EveryCommentIsShown
<1> QED
  BY <1>1, <1>2, <1>3, InsertInd

\* Only issues without stray comments are exported.
LEMMA ExportInd ==
  ASSUME ThreadInd, NEW i \in Threaded, Export(i)
  PROVE  ThreadInd'
<1>1. /\ threadFile' = [id \in Of(i) |-> [parent |-> comments[id].parent, empty |-> comments[id].empty]]
      /\ UNCHANGED comments /\ \A id \in Of(i) : ~comments[id].stray
  BY DEF Export
<1>2. \A id \in Of(i) : id \in DOMAIN comments /\ comments[id].issue = i /\ comments[id].parent \in Nat
                        /\ comments[id].empty \in BOOLEAN
  BY DEF Of, ThreadInd, ParentsOK, CommentRow
<1>3. FileOK'
  BY <1>1, <1>2 DEF ThreadInd, ParentsOK, EveryCommentIsShown, FileOK, FileRow
<1> QED
  BY <1>1, <1>3 DEF ThreadInd, ParentsOK, EveryCommentIsShown, Of

\* Comments go, and those that stay lose at most their place in a thread.
LEMMA FewerCommentsInd ==
  ASSUME ThreadInd, NEW gone,
         DOMAIN comments' = DOMAIN comments \ gone,
         comments' \in [DOMAIN comments' -> CommentRow],
         \A id \in DOMAIN comments' :
           /\ comments'[id].issue = comments[id].issue /\ comments'[id].stray = comments[id].stray
           /\ \/ comments'[id].parent = TopLevel
              \/ comments'[id].parent = comments[id].parent /\ comments[id].parent \notin gone,
         UNCHANGED threadFile
  PROVE  ThreadInd'
<1>1. ParentsOK'
  BY DEF ThreadInd, ParentsOK
<1>2. FileOK'
  BY DEF ThreadInd, FileOK
<1>3. EveryCommentIsShown'
  <2> SUFFICES ASSUME NEW id \in DOMAIN comments', ~comments'[id].stray,
                      comments'[id].parent # TopLevel
               PROVE  LET p == comments'[id].parent IN
                      /\ p \in DOMAIN comments' /\ comments'[p].issue = comments'[id].issue
                      /\ comments'[p].parent = TopLevel
    BY DEF EveryCommentIsShown, Of
  <2>1. LET p == comments[id].parent IN
        /\ p \in DOMAIN comments /\ p \notin gone /\ comments'[id].parent = p
        /\ comments[p].issue = comments[id].issue /\ comments[p].parent = TopLevel
    BY DEF ThreadInd, EveryCommentIsShown, Of
  <2> QED
    BY <2>1
<1> QED
  BY <1>1, <1>2, <1>3 DEF ThreadInd

LEMMA DeleteThreadsInd ==
  ASSUME ThreadInd, NEW i \in Threaded, DeleteThreads(i)
  PROVE  ThreadInd'
<1>1. /\ comments' = [id \in DOMAIN comments \ Of(i) |->
                        [comments[id] EXCEPT !.parent =
                           IF comments[id].parent \in Of(i) THEN TopLevel ELSE comments[id].parent]]
      /\ UNCHANGED threadFile
  BY DEF DeleteThreads
<1>2. comments \in [DOMAIN comments -> CommentRow]
  BY DEF ThreadInd, ParentsOK
<1>3. \A id \in DOMAIN comments \ Of(i) :
        /\ comments'[id] \in CommentRow
        /\ comments'[id].issue = comments[id].issue /\ comments'[id].stray = comments[id].stray
        /\ comments'[id].parent = IF comments[id].parent \in Of(i) THEN TopLevel ELSE comments[id].parent
  BY <1>1, <1>2 DEF CommentRow, TopLevel
<1> QED
  BY <1>1, <1>3, FewerCommentsInd

\* What the cascade leaves has no parent among what it takes.
LEMMA CascadeThreadsInd ==
  ASSUME ThreadInd, NEW i \in Threaded, CascadeThreads(i)
  PROVE  ThreadInd'
<1>1. comments' = [id \in DOMAIN comments \ Under(i) |-> comments[id]] /\ UNCHANGED threadFile
  BY DEF CascadeThreads
<1>2. \A id \in DOMAIN comments \ Under(i) : comments[id].parent \notin Under(i)
  BY DEF Under, WithReplies
<1>3. comments \in [DOMAIN comments -> CommentRow]
  BY DEF ThreadInd, ParentsOK
<1> QED
  BY <1>1, <1>2, <1>3, FewerCommentsInd
-----------------------------------------------------------------------------
\* The comments of a file get ids of their own, after all others and in the
\* order they had.
LEMMA NewIdsOK ==
  ASSUME ThreadInd
  PROVE  /\ \A x \in Kept : NewId(x) \in Nat /\ NewId(x) > LastComment
         /\ \A x, y \in Kept : x < y => NewId(x) < NewId(y)
         /\ \E n \in Nat : \A x \in Kept : NewId(x) <= n
<1> DEFINE UpTo(x) == {k \in Kept : k <= x}
<1>1. Kept \subseteq 1..MaxComments /\ MaxComments \in Nat /\ LastComment \in Nat
  BY LastCommentIs, CommentsAssumption DEF ThreadInd, FileOK, Kept
<1>2. IsFiniteSet(Kept)
  <2>1. IsFiniteSet(1..MaxComments)
    BY <1>1, FS_Interval
  <2> QED
    BY <1>1, <2>1, FS_Subset
<1>3. \A x : IsFiniteSet(UpTo(x)) /\ Cardinality(UpTo(x)) \in Nat
             /\ Cardinality(UpTo(x)) <= Cardinality(Kept)
  BY <1>2, FS_Subset, FS_CardinalityType
<1>4. ASSUME NEW x \in Kept
      PROVE  Cardinality(UpTo(x)) > 0
  <2>1. x \in UpTo(x)
    BY <1>1
  <2> QED
    BY <1>3, <2>1, FS_EmptySet
<1>5. ASSUME NEW x \in Kept, NEW y \in Kept, x < y
      PROVE  Cardinality(UpTo(x)) < Cardinality(UpTo(y))
  <2>1. x \in Nat /\ y \in Nat /\ \A k \in Kept : k \in Nat
    BY <1>1
  <2>2. UpTo(x) \subseteq UpTo(y) /\ y \in UpTo(y) /\ y \notin UpTo(x)
    <3>1. \A k \in Kept : k <= x => k <= y
      BY <1>5, <2>1
    <3>2. y <= y /\ ~(y <= x)
      BY <1>5, <2>1
    <3>3. UpTo(x) \subseteq UpTo(y)
      BY <3>1
    <3>4. y \in UpTo(y) /\ y \notin UpTo(x)
      BY <3>2
    <3> QED
      BY <3>3, <3>4
  <2>3. /\ Cardinality(UpTo(x)) <= Cardinality(UpTo(y))
        /\ Cardinality(UpTo(y)) = Cardinality(UpTo(x)) => UpTo(y) = UpTo(x)
    <3>1. IsFiniteSet(UpTo(y)) /\ UpTo(x) \in SUBSET UpTo(y)
      BY <1>3, <2>2
    <3> HIDE DEF UpTo
    <3> QED
      BY <3>1, FS_Subset
  <2>4. UpTo(x) # UpTo(y)
    BY <2>2
  <2> HIDE DEF UpTo
  <2> QED
    BY <1>3, <2>3, <2>4
<1>6. \A x : NewId(x) = LastComment + Cardinality(UpTo(x))
  BY DEF NewId
<1>7. Cardinality(Kept) \in Nat
  BY <1>2, FS_CardinalityType
<1> HIDE DEF UpTo
<1>8. \A x \in Kept : NewId(x) \in Nat /\ NewId(x) > LastComment
  BY <1>1, <1>3, <1>4, <1>6
<1>9. \A x, y \in Kept : x < y => NewId(x) < NewId(y)
  BY <1>1, <1>3, <1>5, <1>6
<1>10. \A x \in Kept : NewId(x) <= LastComment + Cardinality(Kept)
  BY <1>1, <1>3, <1>6, <1>7
<1> QED
  BY <1>1, <1>7, <1>8, <1>9, <1>10

\* An import: the comments there are stay, those of the file come after them,
\* each under the new id of its parent.
LEMMA ImportAdds ==
  ASSUME ThreadInd, NEW i \in Threaded, ImportThreads(i)
  PROVE  LET added == {NewId(x) : x \in Kept} IN
         /\ added \subseteq 1..MaxComments
         /\ DOMAIN comments' = DOMAIN comments \cup added
         /\ \A id \in DOMAIN comments : id \notin added /\ comments'[id] = comments[id]
         /\ \A x \in Kept :
              comments'[NewId(x)] = [issue |-> i, parent |-> NewParent(x), empty |-> FALSE, stray |-> FALSE]
         /\ \A x, y \in Kept : NewId(x) = NewId(y) => x = y
<1> DEFINE added == {NewId(x) : x \in Kept}
           OldId(k) == CHOOSE id \in Kept : NewId(id) = k
<1>1. /\ LastComment \in Nat /\ MaxComments \in Nat
      /\ \A id \in DOMAIN comments : id \in Nat /\ id <= LastComment
      /\ \A x \in Kept : x \in Nat
  BY LastCommentIs, CommentsAssumption DEF ThreadInd, ParentsOK, FileOK, Kept
<1>2. /\ \A k \in added : k <= MaxComments
      /\ comments' = [k \in DOMAIN comments \cup added |->
                        IF k \in added
                        THEN [issue |-> i, parent |-> NewParent(OldId(k)),
                              empty |-> FALSE, stray |-> FALSE]
                        ELSE comments[k]]
  BY DEF ImportThreads
<1>3. /\ \A x \in Kept : NewId(x) \in Nat /\ NewId(x) > LastComment
      /\ \A x, y \in Kept : x < y => NewId(x) < NewId(y)
  BY NewIdsOK
<1>4. \A x, y \in Kept : NewId(x) = NewId(y) => x = y
  BY <1>1, <1>3
<1>5. \A x \in Kept : OldId(NewId(x)) = x
  BY <1>4
<1>9. \A k \in added : k \in Nat /\ k > LastComment
  BY <1>3
<1> HIDE DEF added, OldId
<1>12. added \subseteq 1..MaxComments
  BY <1>1, <1>2, <1>9
<1>13. \A id \in DOMAIN comments : id \notin added
  BY <1>1, <1>9
<1>14. \A id \in DOMAIN comments : comments'[id] = comments[id]
  BY <1>2, <1>13
<1>15. \A x \in Kept : NewId(x) \in added
  BY DEF added
<1>16. \A x \in Kept :
         comments'[NewId(x)] = [issue |-> i, parent |-> NewParent(x), empty |-> FALSE, stray |-> FALSE]
  BY <1>2, <1>5, <1>15
<1>17. DOMAIN comments' = DOMAIN comments \cup added
  BY <1>2
<1> QED
  BY <1>4, <1>12, <1>13, <1>14, <1>16, <1>17 DEF added

\* Where a comment of the file goes: to the new id of its parent, if that has one.
LEMMA NewParentIs ==
  ASSUME ThreadInd, NEW x \in Kept
  PROVE  LET p == threadFile[x].parent IN
         /\ TopLevel \notin Kept
         /\ IF p \in Kept THEN p < x /\ NewParent(x) = NewId(p) /\ threadFile[p].parent = TopLevel
            ELSE NewParent(x) = TopLevel
<1>1. TopLevel \notin Kept /\ x \in DOMAIN threadFile
  BY DEF ThreadInd, FileOK, TopLevel, Kept
<1> QED
  BY <1>1 DEF ThreadInd, FileOK, NewParent, Kept

LEMMA ImportThreadsInd ==
  ASSUME ThreadInd, NEW i \in Threaded, ImportThreads(i)
  PROVE  ThreadInd'
<1> DEFINE added == {NewId(x) : x \in Kept}
<1>1. /\ added \subseteq 1..MaxComments
      /\ DOMAIN comments' = DOMAIN comments \cup added
      /\ \A id \in DOMAIN comments : id \notin added /\ comments'[id] = comments[id]
      /\ \A x \in Kept :
           comments'[NewId(x)] = [issue |-> i, parent |-> NewParent(x), empty |-> FALSE, stray |-> FALSE]
  BY ImportAdds
<1>2. \A x \in Kept : NewId(x) \in Nat /\ NewParent(x) \in Nat
  BY NewIdsOK, NewParentIs DEF TopLevel
<1>3. comments' = [id \in DOMAIN comments' |-> comments'[id]] /\ UNCHANGED threadFile
  BY DEF ImportThreads
<1>4. \A x \in Kept : NewId(x) \in added
  OBVIOUS
<1>5. \A id \in added : \E x \in Kept : id = NewId(x)
  OBVIOUS
<1> HIDE DEF added
<1>6. \A id \in DOMAIN comments' : comments'[id] \in CommentRow
  <2>1. \A x \in Kept : comments'[NewId(x)] \in CommentRow
    <3> TAKE x \in Kept
    <3>1. [issue |-> i, parent |-> NewParent(x), empty |-> FALSE, stray |-> FALSE] \in CommentRow
      BY <1>2 DEF CommentRow
    <3> QED
      BY <1>1, <3>1
  <2>2. \A id \in DOMAIN comments : comments'[id] \in CommentRow
    BY <1>1 DEF ThreadInd, ParentsOK
  <2> QED
    BY <1>1, <1>5, <2>1, <2>2
<1>7. ASSUME NEW x \in Kept, NewParent(x) # TopLevel
      PROVE  /\ NewParent(x) \in added /\ NewParent(x) < NewId(x)
             /\ comments'[NewParent(x)].issue = i /\ comments'[NewParent(x)].parent = TopLevel
  <2> DEFINE y == threadFile[x].parent
  <2>1. y \in Kept /\ y < x /\ NewParent(x) = NewId(y) /\ threadFile[y].parent = TopLevel
    BY <1>7, NewParentIs
  <2>2. NewId(y) < NewId(x) /\ NewParent(y) = TopLevel
    BY <2>1, NewIdsOK, NewParentIs
  <2> HIDE DEF y
  <2>3. comments'[NewId(y)] = [issue |-> i, parent |-> TopLevel, empty |-> FALSE, stray |-> FALSE]
    BY <1>1, <2>1, <2>2
  <2> QED
    BY <1>4, <2>1, <2>2, <2>3
<1>8. ASSUME NEW id \in added, comments'[id].parent # TopLevel
      PROVE  LET p == comments'[id].parent IN
             /\ p \in added /\ p < id /\ comments'[id].issue = i
             /\ comments'[p].issue = i /\ comments'[p].parent = TopLevel
  <2>1. PICK x \in Kept : id = NewId(x)
    BY <1>5
  <2>2. comments'[id] = [issue |-> i, parent |-> NewParent(x), empty |-> FALSE, stray |-> FALSE]
    BY <1>1, <2>1
  <2> QED
    BY <1>7, <1>8, <2>1, <2>2
<1>9. ParentsOK'
  <2>1. comments' \in [DOMAIN comments' -> CommentRow]
    BY <1>3, <1>6
  <2>2. DOMAIN comments' \subseteq 1..MaxComments
    BY <1>1 DEF ThreadInd, ParentsOK
  <2>3. ASSUME NEW id \in DOMAIN comments', comments'[id].parent # TopLevel
        PROVE  comments'[id].parent \in DOMAIN comments' /\ comments'[id].parent < id
    <3>1. CASE id \in DOMAIN comments
      BY <3>1, <2>3, <1>1 DEF ThreadInd, ParentsOK
    <3>2. CASE id \in added
      BY <3>2, <2>3, <1>1, <1>8
    <3> QED
      BY <3>1, <3>2, <1>1
  <2> QED
    BY <2>1, <2>2, <2>3 DEF ParentsOK
<1>10. EveryCommentIsShown'
  <2> SUFFICES ASSUME NEW id \in DOMAIN comments', ~comments'[id].stray,
                      comments'[id].parent # TopLevel
               PROVE  LET p == comments'[id].parent IN
                      /\ p \in DOMAIN comments' /\ comments'[p].issue = comments'[id].issue
                      /\ comments'[p].parent = TopLevel
    BY DEF EveryCommentIsShown, Of
  <2>1. CASE id \in DOMAIN comments
    BY <2>1, <1>1 DEF ThreadInd, EveryCommentIsShown, Of
  <2>2. CASE id \in added
    BY <2>2, <1>1, <1>8
  <2> QED
    BY <2>1, <2>2, <1>1
<1>11. FileOK'
  BY <1>3 DEF ThreadInd, FileOK
<1> QED
  BY <1>9, <1>10, <1>11 DEF ThreadInd

\* What was a reply to what in the file is one in the table, and nothing else,
\* as far as the comments were not skipped.
LEMMA ImportCarriesThreads ==
  ASSUME ThreadInd, NEW i \in Threaded, ImportThreads(i)
  PROVE  /\ DOMAIN comments' = DOMAIN comments \cup {NewId(x) : x \in Kept}
         /\ \A id \in DOMAIN comments : comments'[id] = comments[id]
         /\ \A x, y \in Kept :
              (threadFile[x].parent = y) <=> (comments'[NewId(x)].parent = NewId(y))
         /\ \A x \in Kept :
              threadFile[x].parent \notin Kept => comments'[NewId(x)].parent = TopLevel
<1>1. /\ DOMAIN comments' = DOMAIN comments \cup {NewId(x) : x \in Kept}
      /\ \A id \in DOMAIN comments : comments'[id] = comments[id]
      /\ \A x \in Kept : comments'[NewId(x)].parent = NewParent(x)
      /\ \A x, y \in Kept : NewId(x) = NewId(y) => x = y
  <2>1. \A x \in Kept :
          comments'[NewId(x)] = [issue |-> i, parent |-> NewParent(x), empty |-> FALSE, stray |-> FALSE]
    BY ImportAdds
  <2>2. \A x \in Kept : comments'[NewId(x)].parent = NewParent(x)
    <3> TAKE x \in Kept
    <3>1. comments'[NewId(x)] = [issue |-> i, parent |-> NewParent(x), empty |-> FALSE, stray |-> FALSE]
      BY <2>1
    <3> QED
      BY <3>1
  <2> QED
    BY <2>2, ImportAdds
<1>2. ASSUME NEW x \in Kept, NEW y \in Kept
      PROVE  (threadFile[x].parent = y) <=> (NewParent(x) = NewId(y))
  <2>1. NewId(y) # TopLevel
    <3>1. NewId(y) \in Nat /\ NewId(y) > LastComment /\ LastComment \in Nat
      BY NewIdsOK, LastCommentIs, CommentsAssumption DEF ThreadInd
    <3> QED
      BY <3>1 DEF TopLevel
  <2> QED
    BY <1>1, <2>1, NewParentIs
<1>3. \A x \in Kept : threadFile[x].parent \notin Kept => NewParent(x) = TopLevel
  BY NewParentIs
<1> QED
  BY <1>1, <1>2, <1>3

LEMMA ThreadStep == ThreadInd /\ [ThreadNext]_threadVars => ThreadInd'
<1> SUFFICES ASSUME ThreadInd, [ThreadNext]_threadVars PROVE ThreadInd'
  OBVIOUS
<1>1. CASE UNCHANGED threadVars
  BY <1>1 DEF threadVars, ThreadInd, ParentsOK, FileOK, EveryCommentIsShown, Of
<1>2. ASSUME NEW i \in Threaded, NEW empty \in BOOLEAN, Comment(i, empty) PROVE ThreadInd'
  BY <1>2, InsertInd DEF Comment
<1>3. ASSUME NEW i \in Threaded, NEW id \in DOMAIN comments, ReplyOnPage(i, id) PROVE ThreadInd'
  BY <1>3, InsertInd DEF ReplyOnPage
<1> QED
  BY <1>1, <1>2, <1>3, ReplyInd, ExportInd, ImportThreadsInd, DeleteThreadsInd, CascadeThreadsInd
  DEF ThreadNext

\* Threads stay one level deep, but for what an outdated page made, and an
\* import carries them whole, but for the replies to comments without a body.
THEOREM ThreadsAreWhole == ThreadSpec => ThreadsStayWhole
<1>1. ThreadSpec => []ThreadInd
  BY ThreadInitInd, ThreadStep, PTL DEF ThreadSpec
<1>2. ThreadInd => EveryCommentIsShown
  BY DEF ThreadInd
<1>3. ThreadInd /\ [ThreadNext]_threadVars =>
        [ \A i \in Threaded : ImportThreads(i) =>
            /\ DOMAIN comments' = DOMAIN comments \cup {NewId(x) : x \in Kept}
            /\ \A id \in DOMAIN comments : comments'[id] = comments[id]
            /\ \A x, y \in Kept :
                 (threadFile[x].parent = y) <=> (comments'[NewId(x)].parent = NewId(y))
            /\ \A x \in Kept :
                 threadFile[x].parent \notin Kept => comments'[NewId(x)].parent = TopLevel ]_threadVars
  BY ImportCarriesThreads
<1> QED
  BY <1>1, <1>2, <1>3, PTL DEF ThreadSpec, ThreadsStayWhole, ImportKeepsThreads
=============================================================================
