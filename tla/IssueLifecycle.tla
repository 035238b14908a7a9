--------------------------- MODULE IssueLifecycle ---------------------------
(***************************************************************************)
(* One issue through its life: created, edited over REST and over the web, *)
(* moved along its workflow, imported over, rolled back to a point of its  *)
(* history, deleted, created again under the same row id.                  *)
(*                                                                         *)
(* Every handler is one action: app.py runs one request at a time, and the *)
(* request's session commits before the next one starts (DatabaseLock).    *)
(* What is hard here is the order of requests: each handler writes its own *)
(* part of the row and its own history entries, and nobody but the history *)
(* knows what the others did.                                              *)
(*                                                                         *)
(* summary stands for the description too, assignee for the reporter.      *)
(* Labels, components and versions are not part of this module.            *)
(***************************************************************************)
EXTENDS Integers, Sequences, FiniteSetsExt

CONSTANTS
  Null,         \* no priority, assignee, resolution; no row; a global transition
  Unknown,      \* a name that no priority and no resolution has
  Summaries, Priorities, Users, Resolutions, Statuses,
  Done,         \* the resolution named "Done"
  New,          \* the status a created issue starts in
  DoneStatuses, \* the statuses of category "done"
  Transitions,  \* the project's workflow: records with from and to
  Edits,        \* the "fields" of the PUT requests clients send
  WebEdits,     \* the forms clients post
  Imports,      \* the rows import files have for this key
  MaxHistory    \* bound: no request that records once there are so many entries

OrNull(S) == S \cup {Null}

Row ==
  [summary : Summaries, priority : OrNull(Priorities), assignee : OrNull(Users),
   resolution : OrNull(Resolutions), status : Statuses, dated : BOOLEAN]

\* A request that names values for some of the columns.
IsEdit(e, columns) ==
  /\ DOMAIN e \subseteq columns
  /\ "summary" \in DOMAIN e => e["summary"] \in Summaries
  /\ "priority" \in DOMAIN e => e["priority"] \in OrNull(Priorities) \cup {Unknown}
  /\ "assignee" \in DOMAIN e => e["assignee"] \in OrNull(Users)
  /\ "resolution" \in DOMAIN e => e["resolution"] \in OrNull(Resolutions) \cup {Unknown}
  /\ "status" \in DOMAIN e => e["status"] \in Statuses

ASSUME LifecycleAssumption ==
  /\ Done \in Resolutions /\ New \in Statuses /\ DoneStatuses \subseteq Statuses
  /\ Null \notin Summaries \cup Priorities \cup Users \cup Resolutions \cup Statuses
  /\ Null \notin Row
  /\ Unknown \notin Priorities \cup Resolutions
  /\ Transitions \subseteq [from : OrNull(Statuses), to : Statuses]
  /\ \A i \in Imports : i \in Row /\ ~i.dated
  /\ \A e \in Edits : IsEdit(e, {"summary", "priority", "assignee", "resolution"})
  /\ \A e \in WebEdits : IsEdit(e, {"summary", "priority", "assignee", "status"})
  /\ MaxHistory \in Nat

Fields == {"summary", "priority", "assignee", "resolution", "status"}
Clearable == {"priority", "assignee", "resolution"}

VARIABLES
  issue,    \* the row, or Null; dated says that resolved_at is set
  history,  \* its rows in issue_history, by id
  request,  \* history: what the latest request did
  since,    \* history: Len(history) after the latest change that no entry tells
  base      \* history: the row as it was then

vars == <<issue, history, request, since, base>>

Entry(f, old, new) == [field |-> f, from |-> old, to |-> new]

Init ==
  /\ issue = Null /\ base = Null
  /\ history = <<>> /\ since = 0
  /\ request = [op |-> "none"]
-----------------------------------------------------------------------------
\* A change that the history does not tell field by field starts afresh.
Unrecorded == since' = Len(history') /\ base' = issue'
Recorded == UNCHANGED <<since, base>>

\* A new row: every entry found under its id counts as its own.
Begun == since' = 0 /\ base' = issue'

\* A row of a new issue: no resolution, no history.
Create(s, p, a) ==
  /\ issue = Null
  /\ issue' = [summary |-> s, priority |-> p, assignee |-> a,
               resolution |-> Null, status |-> New, dated |-> FALSE]
  /\ UNCHANGED history
  /\ request' = [op |-> "create"]
  /\ Begun

\* Fault for Cascade: the entries of a deleted issue stay.
CascadeNothing == history

\* What is left of the issue's history when its row goes.
Cascade == <<>>

Delete ==
  /\ issue # Null
  /\ issue' = Null
  /\ history' = Cascade
  /\ request' = [op |-> "delete"]
  /\ Unrecorded

\* import_issue overwrites the row it finds and records nothing; resolved_at
\* is the one column it never writes.
Import(row) ==
  /\ issue' = IF issue = Null THEN row ELSE [row EXCEPT !.dated = issue.dated]
  /\ UNCHANGED history
  /\ request' = [op |-> "import"]
  /\ IF issue = Null THEN Begun ELSE Unrecorded
-----------------------------------------------------------------------------
\* Fault for NewValue: a name nobody has is taken as it is.
NewValueUnchecked(f, old, v) == v

\* An unknown priority or resolution is ignored, an unknown user is created.
NewValue(f, old, v) == IF v = Unknown THEN old ELSE v

Edited(row, fields) ==
  [f \in DOMAIN row |-> IF f \in DOMAIN fields THEN NewValue(f, row[f], fields[f]) ELSE row[f]]

\* Fault for Dated: a cleared resolution keeps its date.
DatedForGood(row, fields) ==
  row.dated \/ ("resolution" \in DOMAIN fields /\ fields.resolution \in Resolutions)

\* resolved_at follows a resolution that is set or cleared.
Dated(row, fields) ==
  IF "resolution" \in DOMAIN fields /\ fields.resolution # Unknown
  THEN fields.resolution # Null ELSE row.dated

\* An entry for the field if it gets another value.
Told(h, row, fields, f) ==
  IF f \in DOMAIN fields /\ NewValue(f, row[f], fields[f]) # row[f]
  THEN Append(h, Entry(f, row[f], NewValue(f, row[f], fields[f]))) ELSE h

\* The fields in the order in which the handlers look at them.
Recording(row, fields) ==
  LET h1 == Told(history, row, fields, "summary")
      h2 == Told(h1, row, fields, "priority")
      h3 == Told(h2, row, fields, "assignee")
      h4 == Told(h3, row, fields, "resolution")
  IN  Told(h4, row, fields, "status")

Update(fields) ==
  /\ issue # Null /\ Len(history) < MaxHistory
  /\ issue' = [Edited(issue, fields) EXCEPT !.dated = Dated(issue, fields)]
  /\ history' = Recording(issue, fields)
  /\ request' = [op |-> "update"]
  /\ Recorded

\* The form has every field; it sets the status past workflow and resolution.
WebEdit(form) ==
  /\ issue # Null /\ Len(history) < MaxHistory
  /\ issue' = Edited(issue, form)
  /\ history' = Recording(issue, form)
  /\ request' = [op |-> "webEdit"]
  /\ Recorded
-----------------------------------------------------------------------------
\* The resolution of a transition: the one asked for, "Done" instead of an
\* unknown one, none outside the done category.
TransitionResolution(t, asked) ==
  IF t.to \notin DoneStatuses THEN Null
  ELSE IF asked \in Resolutions THEN asked ELSE Done

\* Fault for Moved: leaving a done status keeps the resolution.
MovedKeepsResolution(row, t, asked) ==
  IF t.to \in DoneStatuses
  THEN [row EXCEPT !.status = t.to, !.resolution = TransitionResolution(t, asked),
                   !.dated = TRUE]
  ELSE [row EXCEPT !.status = t.to, !.dated = FALSE]

Moved(row, t, asked) ==
  [row EXCEPT !.status = t.to, !.resolution = TransitionResolution(t, asked),
              !.dated = t.to \in DoneStatuses]

\* The status is recorded even when it stays, the resolution when it changes.
RecordingMove(row, new) ==
  LET moved == Append(history, Entry("status", row.status, new.status)) IN
  IF new.resolution = row.resolution THEN moved
  ELSE Append(moved, Entry("resolution", row.resolution, new.resolution))

\* asked is the resolution in the request's fields, Null when there is none.
Transition(t, asked) ==
  /\ issue # Null /\ Len(history) < MaxHistory
  /\ t.from \in {issue.status, Null}
  /\ issue' = Moved(issue, t, asked)
  /\ history' = RecordingMove(issue, issue')
  /\ request' = [op |-> "transition", asked |-> asked]
  /\ Recorded
-----------------------------------------------------------------------------
\* The entries of field f in a history, after entry m and up to entry n.
EntriesOf(h, f, m, n) == {k \in m + 1..n : h[k].field = f}

Newer(f, n) == EntriesOf(history, f, n, Len(history))

\* The fields the handler has a branch for.
Restorable == Fields \ {"resolution"}

\* Fault for Undone: a rollback forgets who the assignee was.
UndoneButAssignee(row, n) ==
  [f \in DOMAIN row |->
     IF f \in Restorable \ {"assignee"} /\ Newer(f, n) # {}
     THEN history[Max(Newer(f, n))].from ELSE row[f]]

\* Of the entries of one field only the newest is undone.
Undone(row, n) ==
  [f \in DOMAIN row |->
     IF f \in Restorable /\ Newer(f, n) # {} THEN history[Max(Newer(f, n))].from ELSE row[f]]

\* Back to entry n.  The target is looked up by its id alone, so it may be an
\* entry of another issue: then n is the latest of this issue's before that
\* one, and 0 when all of them are newer.
Rollback(n) ==
  /\ issue # Null /\ Len(history) < MaxHistory
  /\ n \in 0..(Len(history) - 1)
  /\ issue' = Undone(issue, n)
  /\ history' = Append(history, Entry("Rollback", n, Len(history) - n))
  /\ request' = [op |-> "rollback", to |-> n]
  /\ Unrecorded
-----------------------------------------------------------------------------
Next ==
  \/ \E s \in Summaries, p \in OrNull(Priorities), a \in OrNull(Users) : Create(s, p, a)
  \/ Delete
  \/ \E row \in Imports : Import(row)
  \/ \E fields \in Edits : Update(fields)
  \/ \E form \in WebEdits : WebEdit(form)
  \/ \E t \in Transitions, asked \in OrNull(Resolutions) \cup {Unknown} : Transition(t, asked)
  \/ \E n \in 0..Len(history) : Rollback(n)

Spec == Init /\ [][Next]_vars
-----------------------------------------------------------------------------
\* Type correctness: the row is a row of table issues, the entries are entries,
\* and a request that records stops at the bound.
TypeOK ==
  /\ issue \in OrNull(Row) /\ base \in OrNull(Row)
  /\ (issue = Null) = (base = Null)
  /\ since \in 0..Len(history)
  /\ Len(history) < MaxHistory + 5   \* one entry for each field at most
  /\ \A n \in 1..Len(history) :
       \/ history[n].field \in Fields
       \/ history[n].field = "Rollback" /\ history[n].from < n

\* The value of field f when entry n was the newest one, as a history h tells
\* it from entry s on, when the row was b.
ValueTold(h, s, b, f, n) ==
  LET es == EntriesOf(h, f, s, n) IN IF es = {} THEN b[f] ELSE h[Max(es)].to

ValueAt(f, n) == ValueTold(history, since, base, f, n)

\* The history tells the row: whichever handlers changed a field, in whatever
\* order, each of its entries starts from the value the one before left, and
\* the last one ends in the value the row has.  Only creation, import and
\* rollback change a row without an entry per field, and the tale starts
\* afresh there.  GET /issue/{key}/changelog is made of these entries alone
\* (issue_service.py:489-617, workflow_service.py:158-220, routes.py:908-924).
HistoryTellsTheRow ==
  issue # Null => \A f \in Fields :
    /\ issue[f] = ValueAt(f, Len(history))
    /\ \A n \in since + 1..Len(history) :
         history[n].field = f => history[n].from = ValueAt(f, n - 1)

\* resolved_at is set exactly while a resolution is: four handlers write the
\* one or the other, and only an import can part them
\* (import_service.py:489-503 never writes resolved_at).
DateFollowsResolution ==
  [][ request'.op # "import" /\ issue # Null /\ issue' # Null
        /\ issue.dated = (issue.resolution # Null)
      => issue'.dated = (issue'.resolution # Null) ]_vars

\* Whatever state web edits, imports, rollbacks and edits of the resolution
\* brought the issue to, a transition makes status, resolution and date agree
\* again (workflow_service.py:177-222).
TransitionSettles ==
  [][ request'.op = "transition" =>
        /\ (issue'.resolution # Null) = (issue'.status \in DoneStatuses)
        /\ issue'.dated = (issue'.status \in DoneStatuses) ]_vars

\* Rolling back over at most one change of a field gives the field the value
\* it had at the chosen entry, and leaves it alone when it did not change
\* (routes.py:1004-1044; the resolution has no branch there).
RollbackUndoesAChange ==
  [][ request'.op = "rollback" /\ issue # Null =>
        LET n == request'.to IN
        \A f \in Restorable :
          since <= n /\ (\A j, k \in Newer(f, n) : j = k) => issue'[f] = ValueAt(f, n) ]_vars

\* Rolling back to an entry of the issue gives every field the handler restores
\* the value it had there: the page asks "Rollback to this point? All changes
\* after this entry will be reversed." (issue_detail.html:295).
RollbackRestores ==
  [][ request'.op = "rollback" /\ issue # Null =>
        LET n == request'.to IN
        \A f \in Restorable : n > 0 /\ since <= n => issue'[f] = ValueAt(f, n) ]_vars

\* A transition to a done status that names no resolution keeps the one the
\* issue has: "auto-set resolution to "Done" if not already set"
\* (SPECIFICATION.md:1277).
TransitionKeepsResolution ==
  [][ request'.op = "transition" /\ request'.asked = Null
        /\ issue.resolution # Null /\ issue'.status \in DoneStatuses
      => issue'.resolution = issue.resolution ]_vars
=============================================================================
