----------------------------- MODULE ImportBatch -----------------------------
(***************************************************************************)
(* One import of a batch of issues, as the requests, the web form and the  *)
(* start-up run it: every issue is written in turn on one session, what    *)
(* goes wrong with an issue is collected, parents are set in a second pass,*)
(* and the whole is committed.  An exception of Python's leaves the rows   *)
(* written before it in the session.  A constraint that fails at a flush   *)
(* rolls the transaction back, and the session refuses every statement     *)
(* until the request ends.                                                 *)
(***************************************************************************)
EXTENDS Integers, Sequences, FiniteSets, FiniteSetsExt, SequencesExt

CONSTANTS
  BatchKeys,     \* keys of issues
  NoParent,      \* an issue without a parent
  MaxItems       \* bound: issues in a batch

ASSUME BatchAssumption == NoParent \notin BatchKeys /\ MaxItems \in Nat

\* Where the import of an issue goes wrong: not at all; before anything is
\* written (its key or description); when its project, type and status are
\* there but not its row; after its row; at a flush.
Troubles == {"none", "refused", "unrelated", "halfway", "constraint"}

Items == [key : BatchKeys, parent : BatchKeys \cup {NoParent}, trouble : Troubles]

VARIABLES
  kept,     \* the issues in the database: key -> parent
  work,     \* the same as the session sees them
  keptProject, workProject,   \* whether their project exists, likewise
  created,  \* projects_created names it
  batch,    \* the issues of the running import
  next,     \* the issue that is imported next
  usable,   \* the session's transaction is active
  parents,  \* epic_links: issue -> parent, for the second pass
  errors,   \* keys with an error in the answer
  answer    \* of the last import: "none", "result", "error"

importVars == <<kept, work, keptProject, workProject, created, batch, next, usable, parents, errors, answer>>

NoIssues == [k \in {} |-> NoParent]

Put(f, k, v) == [x \in DOMAIN f \cup {k} |-> IF x = k THEN v ELSE f[x]]

ImportInit ==
  /\ kept = NoIssues /\ work = NoIssues /\ parents = NoIssues
  /\ keptProject = FALSE /\ workProject = FALSE /\ created = FALSE
  /\ batch = <<>> /\ next = 0 /\ usable = TRUE
  /\ errors = {} /\ answer = "none"

BeginImport(items) ==
  /\ next = 0
  /\ batch' = items /\ next' = 1
  /\ work' = kept /\ workProject' = keptProject /\ created' = FALSE /\ usable' = TRUE
  /\ parents' = NoIssues /\ errors' = {} /\ answer' = "none"
  /\ UNCHANGED <<kept, keptProject>>

Item == batch[next]

\* Fault for AfterConstraint: the session goes on with a new transaction.
UsableAfterConstraint == work' = kept /\ workProject' = keptProject /\ usable' = TRUE

\* The flush has rolled back what the earlier issues wrote.
AfterConstraint == work' = kept /\ workProject' = keptProject /\ usable' = FALSE

\* A row that exists keeps its parent until the second pass.
WithRow == IF Item.key \in DOMAIN work THEN work ELSE Put(work, Item.key, NoParent)

Fails == ~usable \/ Item.trouble # "none"

\* The project is looked up or created once the issue has been checked.
ReachesProject == usable /\ Item.trouble # "refused"

ImportIssue ==
  /\ next \in 1..Len(batch)
  /\ next' = next + 1
  /\ errors' = IF Fails THEN errors \cup {Item.key} ELSE errors
  /\ parents' = IF ~Fails /\ Item.parent # NoParent THEN Put(parents, Item.key, Item.parent) ELSE parents
  /\ created' = (created \/ (ReachesProject /\ ~workProject))
  /\ \/ /\ usable /\ Item.trouble = "constraint" /\ AfterConstraint
     \/ /\ usable /\ Item.trouble # "constraint"
        /\ workProject' = (workProject \/ ReachesProject)
        /\ work' = IF Item.trouble \in {"none", "halfway"} THEN WithRow ELSE work
        /\ UNCHANGED usable
     \/ /\ ~usable
        /\ UNCHANGED <<work, workProject, usable>>
  /\ UNCHANGED <<kept, keptProject, batch, answer>>

\* Fault for Resolved: a link is set only if the parent came first.
ResolvedInOrder ==
  [k \in DOMAIN work |->
     IF k \in DOMAIN parents /\ parents[k] \in DOMAIN work
        /\ \E m, n \in 1..Len(batch) : m <= n /\ batch[m].key = parents[k] /\ batch[n].key = k
     THEN parents[k] ELSE work[k]]

\* A parent that is nowhere in the database is passed over.
Resolved ==
  [k \in DOMAIN work |->
     IF k \in DOMAIN parents /\ parents[k] \in DOMAIN work THEN parents[k] ELSE work[k]]

\* The second pass, the sequences and the commit.  On a session that is not
\* usable the first pass has collected an error for every link, and looking up
\* the first project for its sequence fails the request.
FinishImport ==
  /\ next > Len(batch) /\ next > 0
  /\ IF usable THEN kept' = Resolved /\ keptProject' = workProject /\ answer' = "result"
               ELSE UNCHANGED <<kept, keptProject>> /\ answer' = "error"
  /\ work' = kept' /\ workProject' = keptProject' /\ usable' = TRUE
  /\ batch' = <<>> /\ next' = 0
  /\ UNCHANGED <<created, parents, errors>>

ImportNext ==
  \/ \E items \in BoundedSeq(Items, MaxItems) : BeginImport(items)
  \/ ImportIssue
  \/ FinishImport

ImportSpec == ImportInit /\ [][ImportNext]_importVars
-----------------------------------------------------------------------------
\* An import that answers with a result has kept every issue of the batch or
\* names it among the errors, and names the projects it has created and no
\* other: nothing is lost in silence because a later issue ran into a
\* constraint (import_service.py:97-109, 733-735, 896-926).
KeptOrReported ==
  [][ FinishImport /\ answer' = "result"
      => /\ \A n \in 1..Len(batch) : batch[n].key \in DOMAIN kept' \cup errors'
         /\ created' = (keptProject' /\ ~keptProject) ]_importVars

\* When every issue of the batch was imported without an error, an issue has
\* the parent that the last of its rows with a parent names, wherever in the
\* batch or the database that parent is, and any other issue has the parent it
\* had (import_service.py:741-766).
ParentsFoundInAnyOrder ==
  [][ FinishImport /\ answer' = "result" /\ errors' = {}
      => LET Naming(k) == {n \in 1..Len(batch) : batch[n].key = k /\ batch[n].parent # NoParent}
             LastNamed(k) == batch[Max(Naming(k))].parent
             Before(k) == IF k \in DOMAIN kept THEN kept[k] ELSE NoParent
         IN \A k \in DOMAIN kept' :
              kept'[k] = IF Naming(k) # {} /\ LastNamed(k) \in DOMAIN kept' THEN LastNamed(k)
                         ELSE Before(k) ]_importVars

\* Both: an import loses nothing in silence, neither an issue nor a parent
\* (import_service.py:733-766).
ImportAccountsForAll == KeptOrReported /\ ParentsFoundInAnyOrder
=============================================================================
