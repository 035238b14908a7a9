------------------------ MODULE IssueLifecycleProofs ------------------------
(***************************************************************************)
(* Status, resolution, date and history of an issue, for any workflow, any *)
(* edits and any imports.                                                  *)
(*                                                                         *)
(* The first part is about resolution and date.  What the history holds    *)
(* plays no part there: a rollback may read any entries and still leaves   *)
(* the two alone.                                                          *)
(*                                                                         *)
(* The second part is about the history.  Each handler writes its entries  *)
(* one after the other; one entry more takes the row the history tells to  *)
(* the row with one field changed (RecordedOnce), and the handlers differ  *)
(* in how many of these steps they take.                                   *)
(***************************************************************************)
EXTENDS IssueLifecycle, SequenceTheorems, NaturalsInduction, WellFoundedInduction, TLAPS

Columns == {"summary", "priority", "assignee", "resolution", "status", "dated"}

\* There is no row, or one with these columns, undated or not.
RowShaped(row) == DOMAIN row = Columns /\ row = [c \in Columns |-> row[c]] /\ row["dated"] \in BOOLEAN

RowInd == issue = Null \/ RowShaped(issue)

\* A row as the table has it.
LEMMA RowHasShape == \A row \in Row : RowShaped(row)
  BY DEF Row, RowShaped, Columns

\* An edit leaves what it does not name.
LEMMA EditedRow ==
  ASSUME NEW row, RowShaped(row), NEW e, "dated" \notin DOMAIN e
  PROVE  /\ RowShaped(Edited(row, e))
         /\ Edited(row, e)["dated"] = row["dated"]
         /\ "resolution" \notin DOMAIN e => Edited(row, e)["resolution"] = row["resolution"]
         /\ "resolution" \in DOMAIN e /\ e["resolution"] # Unknown
              => Edited(row, e)["resolution"] = e["resolution"]
         /\ "resolution" \in DOMAIN e /\ e["resolution"] = Unknown
              => Edited(row, e)["resolution"] = row["resolution"]
  BY DEF RowShaped, Columns, Edited, NewValue

\* A rollback has no branch for the resolution and does not touch the date.
LEMMA UndoneRow ==
  ASSUME NEW row, RowShaped(row), NEW n
  PROVE  /\ RowShaped(Undone(row, n))
         /\ Undone(row, n)["dated"] = row["dated"]
         /\ Undone(row, n)["resolution"] = row["resolution"]
<1> DEFINE value(f) == IF f \in Restorable /\ Newer(f, n) # {}
                       THEN history[Max(Newer(f, n))].from ELSE row[f]
<1>1. Undone(row, n) = [f \in DOMAIN row |-> value(f)]
  BY DEF Undone
<1>2. "dated" \notin Restorable /\ "resolution" \notin Restorable
  BY DEF Restorable, Fields
<1>3. value("dated") = row["dated"] /\ value("resolution") = row["resolution"]
  BY <1>2
<1> HIDE DEF value
<1> QED
  BY <1>1, <1>3 DEF RowShaped, Columns

\* A transition writes the three columns together.
LEMMA MovedRow ==
  ASSUME NEW row, RowShaped(row), NEW t \in Transitions,
         NEW asked \in OrNull(Resolutions) \cup {Unknown}
  PROVE  LET new == Moved(row, t, asked) IN
         /\ RowShaped(new)
         /\ new["status"] = t.to
         /\ new["dated"] = (t.to \in DoneStatuses)
         /\ (new["resolution"] # Null) = (t.to \in DoneStatuses)
<1>1. (TransitionResolution(t, asked) # Null) = (t.to \in DoneStatuses)
  BY LifecycleAssumption DEF TransitionResolution
<1> QED
  BY <1>1 DEF Moved, RowShaped, Columns

\* What each request does to the date, if date and resolution agreed.
DateStep ==
  request'.op # "import" /\ issue # Null /\ issue' # Null
    /\ issue["dated"] = (issue["resolution"] # Null)
  => issue'["dated"] = (issue'["resolution"] # Null)

\* What a transition does.
SettledStep ==
  request'.op = "transition" =>
    /\ (issue'["resolution"] # Null) = (issue'["status"] \in DoneStatuses)
    /\ issue'["dated"] = (issue'["status"] \in DoneStatuses)

LEMMA InitRow == Init => RowInd
  BY DEF Init, RowInd

LEMMA CreateStep ==
  ASSUME NEW s, NEW p, NEW a, Create(s, p, a)
  PROVE  RowInd' /\ DateStep /\ SettledStep
<1>1. issue' = [summary |-> s, priority |-> p, assignee |-> a,
                resolution |-> Null, status |-> New, dated |-> FALSE]
      /\ issue = Null /\ request'.op = "create"
  BY DEF Create
<1>2. RowShaped(issue')
  BY <1>1 DEF RowShaped, Columns
<1> QED
  BY <1>1, <1>2 DEF RowInd, DateStep, SettledStep

LEMMA DeleteStep ==
  ASSUME Delete
  PROVE  RowInd' /\ DateStep /\ SettledStep
  BY DEF Delete, RowInd, DateStep, SettledStep

LEMMA ImportStep ==
  ASSUME RowInd, NEW row \in Imports, Import(row)
  PROVE  RowInd' /\ DateStep /\ SettledStep
<1>1. RowShaped(row)
  BY RowHasShape, LifecycleAssumption
<1>2. request'.op = "import"
      /\ issue' = IF issue = Null THEN row ELSE [row EXCEPT !["dated"] = issue["dated"]]
  BY DEF Import
<1>3. RowShaped(issue')
  BY <1>1, <1>2 DEF RowInd, RowShaped, Columns
<1> QED
  BY <1>2, <1>3 DEF RowInd, DateStep, SettledStep

LEMMA UpdateStep ==
  ASSUME RowInd, NEW e \in Edits, Update(e)
  PROVE  RowInd' /\ DateStep /\ SettledStep
<1>1. issue # Null /\ RowShaped(issue) /\ request'.op = "update"
      /\ issue' = [Edited(issue, e) EXCEPT !["dated"] = Dated(issue, e)]
  BY DEF Update, RowInd
<1>2. "dated" \notin DOMAIN e
  BY LifecycleAssumption DEF IsEdit
<1>3. RowShaped(Edited(issue, e))
  BY <1>1, <1>2, EditedRow
<1>4. Dated(issue, e) \in BOOLEAN
  BY <1>1 DEF Dated, RowShaped
<1>5. RowShaped(issue') /\ issue'["dated"] = Dated(issue, e)
      /\ issue'["resolution"] = Edited(issue, e)["resolution"]
  BY <1>1, <1>3, <1>4 DEF RowShaped, Columns
<1>6. DateStep
  BY <1>1, <1>2, <1>5, EditedRow DEF Dated, DateStep
<1> QED
  BY <1>1, <1>5, <1>6 DEF RowInd, SettledStep

LEMMA WebEditStep ==
  ASSUME RowInd, NEW form \in WebEdits, WebEdit(form)
  PROVE  RowInd' /\ DateStep /\ SettledStep
<1>1. issue # Null /\ RowShaped(issue) /\ request'.op = "webEdit" /\ issue' = Edited(issue, form)
  BY DEF WebEdit, RowInd
<1>2. "dated" \notin DOMAIN form /\ "resolution" \notin DOMAIN form
  BY LifecycleAssumption DEF IsEdit
<1> QED
  BY <1>1, <1>2, EditedRow DEF RowInd, DateStep, SettledStep

LEMMA TransitionStep ==
  ASSUME RowInd, NEW t \in Transitions, NEW asked \in OrNull(Resolutions) \cup {Unknown},
         Transition(t, asked)
  PROVE  RowInd' /\ DateStep /\ SettledStep
<1>1. issue # Null /\ RowShaped(issue) /\ issue' = Moved(issue, t, asked)
  BY DEF Transition, RowInd
<1>2. /\ RowShaped(issue')
      /\ issue'["status"] = t.to
      /\ issue'["dated"] = (t.to \in DoneStatuses)
      /\ (issue'["resolution"] # Null) = (t.to \in DoneStatuses)
  BY <1>1, MovedRow
<1> QED
  BY <1>2 DEF RowInd, DateStep, SettledStep

LEMMA RollbackStep ==
  ASSUME RowInd, NEW n, Rollback(n)
  PROVE  RowInd' /\ DateStep /\ SettledStep
<1>1. issue # Null /\ RowShaped(issue) /\ request'.op = "rollback"
      /\ issue' = Undone(issue, n)
  BY DEF Rollback, RowInd
<1> QED
  BY <1>1, UndoneRow DEF RowInd, DateStep, SettledStep

\* One case for each handler; a stutter has done nothing new.
LEMMA StepTells ==
  ASSUME RowInd, Next
  PROVE  RowInd' /\ DateStep /\ SettledStep
  BY CreateStep, DeleteStep, ImportStep, UpdateStep, WebEditStep, TransitionStep, RollbackStep
  DEF Next

LEMMA RowInvariant == Spec => []RowInd
<1>1. RowInd /\ [Next]_vars => RowInd'
  <2>1. RowInd /\ UNCHANGED vars => RowInd'
    BY DEF RowInd, vars
  <2> QED
    BY <2>1, StepTells
<1> QED
  BY <1>1, InitRow, PTL DEF Spec

\* A transition makes status, resolution and date agree, whatever web edits,
\* imports and rollbacks made of the issue before.
THEOREM TransitionsSettle == Spec => TransitionSettles
<1>1. RowInd /\ [Next]_vars =>
        [ request'.op = "transition" =>
            /\ (issue'.resolution # Null) = (issue'.status \in DoneStatuses)
            /\ issue'.dated = (issue'.status \in DoneStatuses) ]_vars
  BY StepTells DEF SettledStep
<1> QED
  BY <1>1, RowInvariant, PTL DEF Spec, TransitionSettles

\* A date is there exactly while a resolution is: no request but an import can
\* part the two.
THEOREM DatesFollow == Spec => DateFollowsResolution
<1>1. RowInd /\ [Next]_vars =>
        [ request'.op # "import" /\ issue # Null /\ issue' # Null
            /\ issue.dated = (issue.resolution # Null)
          => issue'.dated = (issue'.resolution # Null) ]_vars
  BY StepTells DEF DateStep
<1> QED
  BY <1>1, RowInvariant, PTL DEF Spec, DateFollowsResolution
-----------------------------------------------------------------------------
(* What the history tells.                                                 *)

\* The values a column takes.
Column(f) ==
  CASE f = "summary" -> Summaries [] f = "priority" -> OrNull(Priorities)
    [] f = "assignee" -> OrNull(Users) [] f = "resolution" -> OrNull(Resolutions)
    [] f = "status" -> Statuses

RowTyped(row) == RowShaped(row) /\ \A f \in Fields : row[f] \in Column(f)

\* What an entry holds: values, or for a rollback numbers.
Tellable == Summaries \cup OrNull(Priorities) \cup OrNull(Users) \cup OrNull(Resolutions)
           \cup Statuses \cup Nat

Entries == [field : Fields \cup {"Rollback"}, from : Tellable, to : Tellable]

\* An entry tells a change within its column, or counts older entries.
EntryOK(e, n) ==
  \/ e.field \in Fields /\ e.from \in Column(e.field) /\ e.to \in Column(e.field)
  \/ e.field = "Rollback" /\ e.from < n

\* The history h tells, from entry s on, how the row b became the row r.
Tells(h, s, b, r) ==
  \A f \in Fields :
    /\ r[f] = ValueTold(h, s, b, f, Len(h))
    /\ \A n \in s + 1..Len(h) : h[n].field = f => h[n].from = ValueTold(h, s, b, f, n - 1)

EntriesTyped(h) == h \in Seq(Entries) /\ \A n \in 1..Len(h) : EntryOK(h[n], n)

TaleOK(h, s, b, r) == EntriesTyped(h) /\ s \in 0..Len(h) /\ Tells(h, s, b, r)

\* The handlers leave room for one request; a row that is gone has no history.
TaleInd ==
  /\ Len(history) < MaxHistory + 5
  /\ \/ issue = Null /\ base = Null /\ history = <<>> /\ since = 0
     \/ /\ issue # Null /\ base # Null /\ RowTyped(issue) /\ RowTyped(base)
        /\ TaleOK(history, since, base, issue)
-----------------------------------------------------------------------------
(* Positions in a history.                                                 *)

\* A set of numbers between two others has a greatest one: the least distance
\* from the upper one.
LEMMA GreatestExists ==
  ASSUME NEW n \in Nat, NEW S \in SUBSET (0..n), S # {}
  PROVE  Max(S) \in S /\ \A x \in S : x <= Max(S)
<1> DEFINE D == {n - x : x \in S}
<1>1. D \subseteq Nat /\ D # {}
  <2>1. \A x \in S : n - x \in Nat
    OBVIOUS
  <2> QED
    BY <2>1
<1>2. PICK d \in D : \A y \in D : ~(<<y, d>> \in OpToRel(<, Nat))
  <2>1. IsWellFoundedOn(OpToRel(<, Nat), Nat)
    BY NatLessThanWellFounded
  <2> QED
    BY <1>1, <2>1, WFMin
<1>3. PICK x \in S : d = n - x
  OBVIOUS
<1>4. \A y \in S : x >= y
  <2> TAKE y \in S
  <2>1. n - y \in D /\ ~(n - y < d)
    BY <1>1, <1>2 DEF OpToRel
  <2> QED
    BY <1>3, <2>1
<1> HIDE DEF D
<1> QED
  BY <1>4 DEF Max

\* The newest entry of a field is an entry of it, and the newest.
LEMMA NewestEntry ==
  ASSUME NEW h, Len(h) \in Nat, NEW f, NEW m \in Nat, NEW n \in 0..Len(h),
         EntriesOf(h, f, m, n) # {}
  PROVE  LET k == Max(EntriesOf(h, f, m, n)) IN
         /\ k \in m + 1..n /\ h[k].field = f
         /\ \A j \in m + 1..n : h[j].field = f => j <= k
<1>1. EntriesOf(h, f, m, n) \in SUBSET (0..Len(h))
  BY DEF EntriesOf
<1>2. Max(EntriesOf(h, f, m, n)) \in EntriesOf(h, f, m, n)
      /\ \A j \in EntriesOf(h, f, m, n) : j <= Max(EntriesOf(h, f, m, n))
  BY <1>1, GreatestExists
<1> QED
  BY <1>2 DEF EntriesOf

\* What the newest entry is worth: it is the one after which there is none.
LEMMA ValueIs ==
  ASSUME NEW h, Len(h) \in Nat, NEW f, NEW s \in Nat, NEW b, NEW n \in 0..Len(h)
  PROVE  /\ (\A k \in s + 1..n : h[k].field # f) => ValueTold(h, s, b, f, n) = b[f]
         /\ \A k \in s + 1..n :
              h[k].field = f /\ (\A j \in k + 1..n : h[j].field # f)
                => ValueTold(h, s, b, f, n) = h[k].to
<1>1. ASSUME \A k \in s + 1..n : h[k].field # f
      PROVE  ValueTold(h, s, b, f, n) = b[f]
  BY <1>1 DEF ValueTold, EntriesOf
<1>2. ASSUME NEW k \in s + 1..n, h[k].field = f, \A j \in k + 1..n : h[j].field # f
      PROVE  ValueTold(h, s, b, f, n) = h[k].to
  <2>1. k \in EntriesOf(h, f, s, n)
    BY <1>2 DEF EntriesOf
  <2> DEFINE newest == Max(EntriesOf(h, f, s, n))
  <2>2. newest \in s + 1..n /\ h[newest].field = f /\ k <= newest
    <3>1. EntriesOf(h, f, s, n) # {}
      BY <2>1
    <3>2. /\ newest \in s + 1..n /\ h[newest].field = f
          /\ \A j \in s + 1..n : h[j].field = f => j <= newest
      BY <3>1, NewestEntry
    <3> QED
      BY <1>2, <3>2
  <2> HIDE DEF newest
  <2>3. newest = k
    BY <1>2, <2>2
  <2> QED
    BY <2>1, <2>3 DEF ValueTold, newest
<1> QED
  BY <1>1, <1>2

\* Where there is no entry of the field, its value stays.
LEMMA ValueStays ==
  ASSUME NEW h, Len(h) \in Nat, NEW f, NEW s \in Nat, NEW b,
         NEW n \in 0..Len(h), NEW m \in 0..n,
         \A j \in m + 1..n : j > s => h[j].field # f
  PROVE  ValueTold(h, s, b, f, n) = ValueTold(h, s, b, f, m)
<1>1. EntriesOf(h, f, s, n) = EntriesOf(h, f, s, m)
  BY DEF EntriesOf
<1> QED
  BY <1>1 DEF ValueTold

\* Older values are told by the older entries alone.
LEMMA ValueOfPrefix ==
  ASSUME NEW h, NEW g, Len(h) \in Nat, Len(g) \in Nat, Len(h) <= Len(g),
         \A k \in 1..Len(h) : g[k] = h[k],
         NEW f, NEW s \in Nat, NEW b, NEW n \in 0..Len(h)
  PROVE  ValueTold(g, s, b, f, n) = ValueTold(h, s, b, f, n)
<1>1. EntriesOf(g, f, s, n) = EntriesOf(h, f, s, n)
  BY DEF EntriesOf
<1>2. EntriesOf(h, f, s, n) # {} => Max(EntriesOf(h, f, s, n)) \in s + 1..n
  BY NewestEntry
<1>3. EntriesOf(h, f, s, n) # {}
        => g[Max(EntriesOf(h, f, s, n))] = h[Max(EntriesOf(h, f, s, n))]
  BY <1>2
<1> QED
  BY <1>1, <1>3 DEF ValueTold
-----------------------------------------------------------------------------
(* Handlers write entry by entry.                                          *)

\* The entry tells the change of one field; the others keep their values.
LEMMA RecordedOnce ==
  ASSUME NEW h, NEW s, NEW b, NEW r, TaleOK(h, s, b, r),
         NEW f \in Fields, r[f] \in Column(f), NEW v \in Column(f),
         NEW q, q[f] = v, \A g \in Fields \ {f} : q[g] = r[g]
  PROVE  LET h1 == Append(h, Entry(f, r[f], v)) IN
         TaleOK(h1, s, b, q) /\ Len(h1) = Len(h) + 1
<1> DEFINE e == Entry(f, r[f], v)
           h1 == Append(h, e)
<1>1. h \in Seq(Entries) /\ Len(h) \in Nat /\ s \in 0..Len(h)
  BY DEF TaleOK, EntriesTyped
<1>2. e \in Entries /\ e.field = f /\ e.from = r[f] /\ e.to = v
  BY DEF Entry, Entries, Tellable, Column, Fields
<1>3. /\ h1 \in Seq(Entries) /\ Len(h1) = Len(h) + 1 /\ h1[Len(h) + 1] = e
      /\ \A k \in 1..Len(h) : h1[k] = h[k]
  BY <1>1, <1>2, AppendProperties
<1> HIDE DEF e, h1
<1>4. EntriesTyped(h1)
  <2>1. \A n \in 1..Len(h) : EntryOK(h1[n], n)
    BY <1>3 DEF TaleOK, EntriesTyped
  <2>2. EntryOK(h1[Len(h) + 1], Len(h) + 1)
    BY <1>2, <1>3 DEF EntryOK
  <2> QED
    BY <1>1, <1>3, <2>1, <2>2 DEF EntriesTyped
<1>5. \A g \in Fields, n \in 0..Len(h) : ValueTold(h1, s, b, g, n) = ValueTold(h, s, b, g, n)
  BY <1>1, <1>3, ValueOfPrefix
<1>6. ValueTold(h1, s, b, f, Len(h1)) = v
  BY <1>1, <1>2, <1>3, ValueIs
<1>7. ASSUME NEW g \in Fields \ {f}
      PROVE  ValueTold(h1, s, b, g, Len(h1)) = r[g]
  <2>1. ValueTold(h1, s, b, g, Len(h1)) = ValueTold(h1, s, b, g, Len(h))
    BY <1>1, <1>2, <1>3, ValueStays
  <2> QED
    BY <1>1, <1>5, <2>1 DEF TaleOK, Tells
<1>8. \A g \in Fields : \A n \in s + 1..Len(h1) :
        h1[n].field = g => h1[n].from = ValueTold(h1, s, b, g, n - 1)
  <2> TAKE g \in Fields
  <2>1. ASSUME NEW n \in s + 1..Len(h), h1[n].field = g
        PROVE  h1[n].from = ValueTold(h1, s, b, g, n - 1)
    BY <1>1, <1>3, <1>5, <2>1 DEF TaleOK, Tells
  <2>2. h1[Len(h) + 1].field = g
          => h1[Len(h) + 1].from = ValueTold(h1, s, b, g, Len(h))
    BY <1>1, <1>2, <1>3, <1>5 DEF TaleOK, Tells
  <2> QED
    BY <1>1, <1>3, <2>1, <2>2
<1> QED
  BY <1>1, <1>3, <1>4, <1>6, <1>7, <1>8 DEF TaleOK, Tells, h1, e
-----------------------------------------------------------------------------
(* Each request, and what the history tells after it.                      *)

LEMMA RowIsTyped == \A row \in Row : RowTyped(row)
<1> TAKE row \in Row
<1>1. RowShaped(row)
  BY RowHasShape
<1>2. \A f \in Fields : row[f] \in Column(f)
  BY DEF Row, Fields, Column
<1> QED
  BY <1>1, <1>2 DEF RowTyped

LEMMA TypedIsRow ==
  ASSUME NEW row, RowTyped(row)
  PROVE  row \in Row
<1>1. /\ row = [c \in Columns |-> row[c]] /\ row["dated"] \in BOOLEAN
      /\ row["summary"] \in Summaries /\ row["priority"] \in OrNull(Priorities)
      /\ row["assignee"] \in OrNull(Users) /\ row["resolution"] \in OrNull(Resolutions)
      /\ row["status"] \in Statuses
  BY DEF RowTyped, RowShaped, Fields, Column
<1>2. row = [summary |-> row["summary"], priority |-> row["priority"],
             assignee |-> row["assignee"], resolution |-> row["resolution"],
             status |-> row["status"], dated |-> row["dated"]]
  BY <1>1 DEF Columns
<1> QED
  BY <1>1, <1>2 DEF Row

LEMMA TypedIsNotNull == \A row : RowTyped(row) => row # Null
  BY TypedIsRow, LifecycleAssumption

\* A tale that starts now tells the row as it is.
LEMMA TaleStarts ==
  ASSUME NEW h, EntriesTyped(h), NEW r
  PROVE  TaleOK(h, Len(h), r, r)
<1>1. Len(h) \in Nat
  BY DEF EntriesTyped
<1>2. \A f \in Fields : ValueTold(h, Len(h), r, f, Len(h)) = r[f]
  BY <1>1, ValueIs
<1> QED
  BY <1>1, <1>2 DEF TaleOK, Tells

\* The date is no part of the tale.
LEMMA TaleOfFields ==
  ASSUME NEW h, NEW s, NEW b, NEW r, TaleOK(h, s, b, r),
         NEW q, \A f \in Fields : q[f] = r[f]
  PROVE  TaleOK(h, s, b, q)
  BY DEF TaleOK, Tells

LEMMA NoHistoryTyped == EntriesTyped(<<>>)
  BY DEF EntriesTyped

LEMMA CreateTale ==
  ASSUME TaleInd, NEW s \in Summaries, NEW p \in OrNull(Priorities), NEW a \in OrNull(Users),
         Create(s, p, a)
  PROVE  TaleInd'
<1> DEFINE row == [summary |-> s, priority |-> p, assignee |-> a,
                   resolution |-> Null, status |-> New, dated |-> FALSE]
<1>1. /\ issue' = row /\ base' = row
      /\ issue = Null /\ history' = history /\ since' = 0
  BY DEF Create, Begun
<1>2. history' = <<>> /\ Len(history') = 0
  BY <1>1 DEF TaleInd
<1>3. row \in Row
  BY LifecycleAssumption DEF Row, OrNull
<1> HIDE DEF row
<1>4. RowTyped(row) /\ row # Null
  BY <1>3, RowIsTyped, LifecycleAssumption
<1>5. TaleOK(history', since', base', issue')
  BY <1>1, <1>2, NoHistoryTyped, TaleStarts
<1> QED
  BY <1>1, <1>2, <1>4, <1>5 DEF TaleInd

LEMMA DeleteTale ==
  ASSUME TaleInd, Delete
  PROVE  TaleInd'
<1>1. issue' = Null /\ base' = Null /\ history' = <<>> /\ since' = Len(history')
  BY DEF Delete, Cascade, Unrecorded
<1>2. Len(history') = 0 /\ MaxHistory \in Nat
  BY <1>1, LifecycleAssumption
<1> QED
  BY <1>1, <1>2 DEF TaleInd

LEMMA ImportTale ==
  ASSUME TaleInd, NEW row \in Imports, Import(row)
  PROVE  TaleInd'
<1>1. row \in Row /\ RowTyped(row)
  BY RowIsTyped, LifecycleAssumption
<1>2. CASE issue = Null
  <2>1. issue' = row /\ base' = row /\ history' = <<>> /\ since' = 0 /\ Len(history') = 0
    BY <1>2 DEF Import, Begun, TaleInd
  <2>2. TaleOK(history', since', base', issue')
    BY <2>1, NoHistoryTyped, TaleStarts
  <2> QED
    BY <1>1, <2>1, <2>2, TypedIsNotNull, LifecycleAssumption DEF TaleInd
<1>3. CASE issue # Null
  <2>1. /\ issue' = [row EXCEPT !["dated"] = issue["dated"]] /\ base' = issue'
        /\ history' = history /\ since' = Len(history')
    BY <1>3 DEF Import, Unrecorded
  <2>2. RowTyped(issue')
    BY <1>1, <1>3, <2>1 DEF TaleInd, RowTyped, RowShaped, Columns, Fields
  <2>3. TaleOK(history', since', base', issue')
    BY <1>3, <2>1, TaleStarts DEF TaleInd, TaleOK
  <2> QED
    BY <2>1, <2>2, <2>3, TypedIsNotNull DEF TaleInd
<1> QED
  BY <1>2, <1>3
-----------------------------------------------------------------------------
(* Edits.                                                                  *)

\* What an edit names it puts in its place, and it names nothing else.
LEMMA EditedField ==
  ASSUME NEW row, RowTyped(row), NEW columns, NEW e, IsEdit(e, columns), NEW f \in Fields
  PROVE  /\ Edited(row, e)[f] \in Column(f)
         /\ Edited(row, e)[f] = IF f \in DOMAIN e THEN NewValue(f, row[f], e[f]) ELSE row[f]
<1>1. Edited(row, e)[f] = IF f \in DOMAIN e THEN NewValue(f, row[f], e[f]) ELSE row[f]
  BY DEF Edited, RowTyped, RowShaped, Columns, Fields
<1>2. f \in DOMAIN e => e[f] \in Column(f) \cup {Unknown}
  BY DEF IsEdit, Fields, Column
<1> QED
  BY <1>1, <1>2 DEF NewValue, RowTyped

\* An edited row has its types, before and after its date is set.
LEMMA EditedTyped ==
  ASSUME NEW row, RowTyped(row), NEW columns, NEW e, IsEdit(e, columns), "dated" \notin DOMAIN e
  PROVE  RowTyped(Edited(row, e))
  BY EditedField, EditedRow DEF RowTyped

\* One field of an edit: recorded when it gets another value.
LEMMA ToldOnce ==
  ASSUME NEW h, NEW s, NEW b, NEW r, TaleOK(h, s, b, r),
         NEW row, RowTyped(row), NEW columns, NEW e, IsEdit(e, columns),
         NEW f \in Fields, r[f] = row[f],
         NEW q, q[f] = Edited(row, e)[f], \A g \in Fields \ {f} : q[g] = r[g]
  PROVE  /\ TaleOK(Told(h, row, e, f), s, b, q)
         /\ Len(Told(h, row, e, f)) \in Len(h)..Len(h) + 1
<1>1. r[f] \in Column(f) /\ Len(h) \in Nat
  BY DEF RowTyped, TaleOK, EntriesTyped
<1>2. Edited(row, e)[f] \in Column(f)
      /\ Edited(row, e)[f] = IF f \in DOMAIN e THEN NewValue(f, row[f], e[f]) ELSE row[f]
  BY EditedField
<1>3. CASE f \in DOMAIN e /\ NewValue(f, row[f], e[f]) # row[f]
  <2>1. Told(h, row, e, f) = Append(h, Entry(f, r[f], q[f])) /\ q[f] \in Column(f)
    BY <1>2, <1>3 DEF Told
  <2> QED
    BY <1>1, <2>1, RecordedOnce
<1>4. CASE ~(f \in DOMAIN e /\ NewValue(f, row[f], e[f]) # row[f])
  <2>1. Told(h, row, e, f) = h /\ q[f] = r[f]
    BY <1>2, <1>4 DEF Told
  <2> QED
    BY <1>1, <2>1, TaleOfFields
<1> QED
  BY <1>3, <1>4

\* All of them, one after the other: the row takes its new values field by field.
LEMMA RecordingTells ==
  ASSUME NEW row, RowTyped(row), TaleOK(history, since, base, row),
         NEW columns, NEW e, IsEdit(e, columns)
  PROVE  /\ TaleOK(Recording(row, e), since, base, Edited(row, e))
         /\ Len(Recording(row, e)) \in Nat /\ Len(Recording(row, e)) <= Len(history) + 5
<1> DEFINE new == Edited(row, e)
           Part(G) == [c \in Columns |-> IF c \in G THEN new[c] ELSE row[c]]
           r1 == Part({"summary"})
           r2 == Part({"summary", "priority"})
           r3 == Part({"summary", "priority", "assignee"})
           r4 == Part({"summary", "priority", "assignee", "resolution"})
           h1 == Told(history, row, e, "summary")
           h2 == Told(h1, row, e, "priority")
           h3 == Told(h2, row, e, "assignee")
           h4 == Told(h3, row, e, "resolution")
           h5 == Told(h4, row, e, "status")
<1>1. /\ \A g \in Fields \ {"summary"} : r1[g] = row[g]
      /\ \A g \in Fields \ {"priority"} : r2[g] = r1[g]
      /\ \A g \in Fields \ {"assignee"} : r3[g] = r2[g]
      /\ \A g \in Fields \ {"resolution"} : r4[g] = r3[g]
      /\ \A g \in Fields \ {"status"} : new[g] = r4[g]
  BY DEF Fields, Columns
<1>2. /\ r1["summary"] = new["summary"] /\ r2["priority"] = new["priority"]
      /\ r3["assignee"] = new["assignee"] /\ r4["resolution"] = new["resolution"]
      /\ r1["priority"] = row["priority"] /\ r2["assignee"] = row["assignee"]
      /\ r3["resolution"] = row["resolution"] /\ r4["status"] = row["status"]
  BY DEF Columns
<1> HIDE DEF r1, r2, r3, r4
<1>3. "summary" \in Fields /\ "priority" \in Fields /\ "assignee" \in Fields
      /\ "resolution" \in Fields /\ "status" \in Fields /\ Len(history) \in Nat
  BY DEF Fields, TaleOK, EntriesTyped
<1> HIDE DEF h1, h2, h3, h4, h5
<1>4. TaleOK(h1, since, base, r1) /\ Len(h1) \in Len(history)..Len(history) + 1
  BY <1>1, <1>2, <1>3, ToldOnce DEF h1
<1>5. TaleOK(h2, since, base, r2) /\ Len(h2) \in Len(h1)..Len(h1) + 1
  BY <1>1, <1>2, <1>3, <1>4, ToldOnce DEF h2
<1>6. TaleOK(h3, since, base, r3) /\ Len(h3) \in Len(h2)..Len(h2) + 1
  BY <1>1, <1>2, <1>3, <1>5, ToldOnce DEF h3
<1>7. TaleOK(h4, since, base, r4) /\ Len(h4) \in Len(h3)..Len(h3) + 1
  BY <1>1, <1>2, <1>3, <1>6, ToldOnce DEF h4
<1>8. TaleOK(h5, since, base, new) /\ Len(h5) \in Len(h4)..Len(h4) + 1
  BY <1>1, <1>2, <1>3, <1>7, ToldOnce DEF h5
<1>9. Recording(row, e) = h5
  BY DEF Recording, h1, h2, h3, h4, h5
<1> QED
  BY <1>3, <1>4, <1>5, <1>6, <1>7, <1>8, <1>9
LEMMA UpdateTale ==
  ASSUME TaleInd, NEW e \in Edits, Update(e)
  PROVE  TaleInd'
<1>1. /\ issue # Null /\ base # Null /\ RowTyped(issue) /\ RowTyped(base)
      /\ TaleOK(history, since, base, issue) /\ Len(history) < MaxHistory
      /\ issue' = [Edited(issue, e) EXCEPT !["dated"] = Dated(issue, e)]
      /\ history' = Recording(issue, e) /\ since' = since /\ base' = base
  BY DEF Update, Recorded, TaleInd
<1>2. IsEdit(e, {"summary", "priority", "assignee", "resolution"}) /\ "dated" \notin DOMAIN e
      /\ MaxHistory \in Nat
  BY LifecycleAssumption DEF IsEdit
<1>3. /\ TaleOK(history', since', base', Edited(issue, e))
      /\ Len(history') \in Nat /\ Len(history') <= Len(history) + 5 /\ Len(history) \in Nat
  <2>1. /\ TaleOK(Recording(issue, e), since, base, Edited(issue, e))
        /\ Len(Recording(issue, e)) \in Nat /\ Len(Recording(issue, e)) <= Len(history) + 5
    BY <1>1, <1>2, RecordingTells
  <2>2. Len(history) \in Nat
    BY <1>1 DEF TaleOK, EntriesTyped
  <2> QED
    BY <1>1, <2>1, <2>2
<1>4. RowTyped(Edited(issue, e))
  BY <1>1, <1>2, EditedTyped
<1>5. Dated(issue, e) \in BOOLEAN
  BY <1>1 DEF Dated, RowTyped, RowShaped
<1>6. RowTyped(issue') /\ \A f \in Fields : issue'[f] = Edited(issue, e)[f]
  BY <1>1, <1>4, <1>5 DEF RowTyped, RowShaped, Columns, Fields
<1>7. TaleOK(history', since', base', issue')
  BY <1>3, <1>6, TaleOfFields
<1>8. issue' # Null /\ base' # Null /\ RowTyped(base')
  BY <1>1, <1>6, TypedIsNotNull
<1>9. Len(history') < MaxHistory + 5
  BY <1>1, <1>2, <1>3
<1> QED
  BY <1>6, <1>7, <1>8, <1>9 DEF TaleInd

LEMMA WebEditTale ==
  ASSUME TaleInd, NEW e \in WebEdits, WebEdit(e)
  PROVE  TaleInd'
<1>1. /\ issue # Null /\ base # Null /\ RowTyped(issue) /\ RowTyped(base)
      /\ TaleOK(history, since, base, issue) /\ Len(history) < MaxHistory
      /\ issue' = Edited(issue, e)
      /\ history' = Recording(issue, e) /\ since' = since /\ base' = base
  BY DEF WebEdit, Recorded, TaleInd
<1>2. IsEdit(e, {"summary", "priority", "assignee", "status"}) /\ "dated" \notin DOMAIN e
      /\ MaxHistory \in Nat
  BY LifecycleAssumption DEF IsEdit
<1>3. /\ TaleOK(history', since', base', issue')
      /\ Len(history') \in Nat /\ Len(history') <= Len(history) + 5 /\ Len(history) \in Nat
  BY <1>1, <1>2, RecordingTells DEF TaleOK, EntriesTyped
<1>4. RowTyped(issue')
  BY <1>1, <1>2, EditedTyped
<1> QED
  BY <1>1, <1>2, <1>3, <1>4, TypedIsNotNull DEF TaleInd

\* A transition tells the status and, when it changes, the resolution.
LEMMA TransitionTale ==
  ASSUME TaleInd, NEW t \in Transitions, NEW asked \in OrNull(Resolutions) \cup {Unknown},
         Transition(t, asked)
  PROVE  TaleInd'
<1> DEFINE moved == Append(history, Entry("status", issue["status"], t.to))
           half == [issue EXCEPT !["status"] = t.to]
<1>1. /\ issue # Null /\ base # Null /\ RowTyped(issue) /\ RowTyped(base)
      /\ TaleOK(history, since, base, issue) /\ Len(history) < MaxHistory
      /\ issue' = Moved(issue, t, asked)
      /\ history' = RecordingMove(issue, issue') /\ since' = since /\ base' = base
  BY DEF Transition, Recorded, TaleInd
<1>2. t.to \in Statuses /\ TransitionResolution(t, asked) \in OrNull(Resolutions)
      /\ MaxHistory \in Nat /\ Len(history) \in Nat
  BY <1>1, LifecycleAssumption DEF TransitionResolution, OrNull, TaleOK, EntriesTyped
<1>3. /\ issue' = [c \in Columns |->
                     IF c = "status" THEN t.to
                     ELSE IF c = "resolution" THEN TransitionResolution(t, asked)
                     ELSE IF c = "dated" THEN t.to \in DoneStatuses ELSE issue[c]]
  BY <1>1 DEF Moved, RowTyped, RowShaped, Columns
<1>4. RowTyped(issue')
  <2>1. /\ issue'["status"] = t.to /\ issue'["resolution"] = TransitionResolution(t, asked)
        /\ issue'["summary"] = issue["summary"] /\ issue'["priority"] = issue["priority"]
        /\ issue'["assignee"] = issue["assignee"] /\ issue'["dated"] \in BOOLEAN
    BY <1>3 DEF Columns
  <2>2. RowShaped(issue')
    BY <1>3, <2>1 DEF RowShaped
  <2>3. \A f \in Fields : issue'[f] \in Column(f)
    BY <1>1, <1>2, <2>1 DEF RowTyped, Fields, Column
  <2> QED
    BY <2>2, <2>3 DEF RowTyped
<1>5. /\ half["status"] = t.to /\ \A g \in Fields \ {"status"} : half[g] = issue[g]
      /\ issue'["status"] = t.to
      /\ \A g \in Fields \ {"resolution"} : issue'[g] = half[g]
  BY <1>1, <1>3 DEF RowTyped, RowShaped, Columns, Fields
<1>6. /\ "status" \in Fields /\ "resolution" \in Fields
      /\ issue["status"] \in Column("status") /\ t.to \in Column("status")
      /\ issue["resolution"] \in Column("resolution")
      /\ issue'["resolution"] \in Column("resolution")
  BY <1>1, <1>2, <1>4 DEF Fields, Column, RowTyped
<1> HIDE DEF half
<1>7. TaleOK(moved, since, base, half) /\ Len(moved) = Len(history) + 1
  BY <1>1, <1>5, <1>6, RecordedOnce
<1>8. history' = IF issue'["resolution"] = issue["resolution"] THEN moved
                 ELSE Append(moved, Entry("resolution", issue["resolution"], issue'["resolution"]))
  BY <1>1, <1>5 DEF RecordingMove
<1> HIDE DEF moved
<1>9. half["resolution"] = issue["resolution"]
  BY <1>5 DEF Fields
<1>10. TaleOK(history', since', base', issue') /\ Len(history') \in Len(history)..Len(history) + 2
  <2>1. CASE issue'["resolution"] = issue["resolution"]
    <3>1. \A g \in Fields : issue'[g] = half[g]
      BY <1>5, <1>9, <2>1
    <3> QED
      BY <1>1, <1>2, <1>7, <1>8, <2>1, <3>1, TaleOfFields
  <2>2. CASE issue'["resolution"] # issue["resolution"]
    <3>1. history' = Append(moved, Entry("resolution", half["resolution"], issue'["resolution"]))
      BY <1>8, <1>9, <2>2
    <3>2. TaleOK(history', since, base, issue') /\ Len(history') = Len(moved) + 1
      BY <1>5, <1>6, <1>7, <1>9, <3>1, RecordedOnce
    <3> QED
      BY <1>1, <1>2, <1>7, <3>2
  <2> QED
    BY <2>1, <2>2
<1> QED
  BY <1>1, <1>2, <1>4, <1>10, TypedIsNotNull DEF TaleInd

\* An undone entry puts back a value of its column.
LEMMA UndoneTyped ==
  ASSUME NEW row, RowTyped(row), EntriesTyped(history), NEW n \in 0..Len(history)
  PROVE  /\ RowTyped(Undone(row, n))
         /\ \A f \in Restorable :
              Undone(row, n)[f] = IF Newer(f, n) # {} THEN history[Max(Newer(f, n))].from ELSE row[f]
<1>1. RowShaped(Undone(row, n)) /\ Len(history) \in Nat
  BY UndoneRow DEF RowTyped, EntriesTyped
<1>2. \A f \in Fields :
        Undone(row, n)[f] = IF f \in Restorable /\ Newer(f, n) # {}
                              THEN history[Max(Newer(f, n))].from ELSE row[f]
  BY DEF Undone, RowTyped, RowShaped, Columns, Fields
<1>3. ASSUME NEW f \in Fields, Newer(f, n) # {}
      PROVE  history[Max(Newer(f, n))].from \in Column(f)
  <2>1. Max(Newer(f, n)) \in n + 1..Len(history) /\ history[Max(Newer(f, n))].field = f
    BY <1>1, <1>3, NewestEntry DEF Newer
  <2>2. EntryOK(history[Max(Newer(f, n))], Max(Newer(f, n)))
    BY <1>1, <2>1 DEF EntriesTyped
  <2> QED
    BY <2>1, <2>2 DEF EntryOK, Fields
<1> QED
  BY <1>1, <1>2, <1>3 DEF RowTyped, Restorable

LEMMA RollbackTale ==
  ASSUME TaleInd, NEW n, Rollback(n)
  PROVE  TaleInd'
<1> DEFINE e == Entry("Rollback", n, Len(history) - n)
<1>1. /\ issue # Null /\ RowTyped(issue) /\ EntriesTyped(history) /\ Len(history) < MaxHistory
      /\ n \in 0..Len(history) - 1 /\ Len(history) \in Nat
      /\ issue' = Undone(issue, n) /\ history' = Append(history, e)
      /\ since' = Len(history') /\ base' = issue'
  BY DEF Rollback, Unrecorded, TaleInd, TaleOK, EntriesTyped
<1>2. e \in Entries /\ e.field = "Rollback" /\ e.from = n
  BY <1>1 DEF Entry, Entries, Tellable
<1> HIDE DEF e
<1>3. /\ history' \in Seq(Entries) /\ Len(history') = Len(history) + 1
      /\ history'[Len(history) + 1] = e /\ \A k \in 1..Len(history) : history'[k] = history[k]
  BY <1>1, <1>2, AppendProperties DEF EntriesTyped
<1>4. \A k \in 1..Len(history') : EntryOK(history'[k], k)
  <2>1. EntryOK(e, Len(history) + 1)
    BY <1>1, <1>2 DEF EntryOK
  <2> QED
    BY <1>1, <1>3, <2>1 DEF EntriesTyped
<1>5. TaleOK(history', since', base', issue')
  BY <1>1, <1>3, <1>4, TaleStarts DEF EntriesTyped
<1>6. RowTyped(issue')
  BY <1>1, UndoneTyped
<1> QED
  BY <1>1, <1>3, <1>5, <1>6, TypedIsNotNull, LifecycleAssumption DEF TaleInd
-----------------------------------------------------------------------------
LEMMA InitTale == Init => TaleInd
  BY LifecycleAssumption DEF Init, TaleInd

LEMMA TaleGoesOn == TaleInd /\ [Next]_vars => TaleInd'
<1>1. TaleInd /\ UNCHANGED vars => TaleInd'
  BY DEF TaleInd, TaleOK, Tells, EntriesTyped, EntryOK, vars
<1> QED
  BY <1>1, CreateTale, DeleteTale, ImportTale, UpdateTale, WebEditTale, TransitionTale,
     RollbackTale DEF Next

LEMMA TaleInvariant == Spec => []TaleInd
  BY InitTale, TaleGoesOn, PTL DEF Spec

\* Every row and every entry has its type, through every request.
THEOREM TypeCorrect == Spec => []TypeOK
<1>1. TaleInd => TypeOK
  <2> SUFFICES ASSUME TaleInd PROVE TypeOK
    OBVIOUS
  <2>1. CASE issue = Null
    BY <2>1 DEF TaleInd, TypeOK, OrNull
  <2>2. CASE issue # Null
    <3>1. issue \in Row /\ base \in Row /\ base # Null /\ TaleOK(history, since, base, issue)
      BY <2>2, TypedIsRow DEF TaleInd
    <3>2. since \in 0..Len(history) /\ Len(history) < MaxHistory + 5
      BY <3>1 DEF TaleInd, TaleOK
    <3>3. \A k \in 1..Len(history) :
            \/ history[k].field \in Fields
            \/ history[k].field = "Rollback" /\ history[k].from < k
      BY <3>1 DEF TaleOK, EntriesTyped, EntryOK
    <3> QED
      BY <2>2, <3>1, <3>2, <3>3 DEF TypeOK, OrNull
  <2> QED
    BY <2>1, <2>2
<1> QED
  BY <1>1, TaleInvariant, PTL

\* The history accounts for the row: edits over REST and over the web,
\* transitions, imports and rollbacks, in any order, for any workflow.
THEOREM HistoryAccounts == Spec => []HistoryTellsTheRow
<1>1. TaleInd => HistoryTellsTheRow
  BY DEF TaleInd, TaleOK, Tells, HistoryTellsTheRow, ValueAt
<1> QED
  BY <1>1, TaleInvariant, PTL

\* What a rollback over at most one change of a field does to it: the entry
\* that is undone starts from the value the field had at the chosen point.
LEMMA RollbackUndoes ==
  ASSUME TaleInd, NEW n, Rollback(n), NEW f \in Restorable,
         since <= n, \A j, k \in Newer(f, n) : j = k
  PROVE  issue'[f] = ValueAt(f, n)
<1>1. /\ RowTyped(issue) /\ TaleOK(history, since, base, issue) /\ EntriesTyped(history)
      /\ n \in 0..Len(history) - 1 /\ issue' = Undone(issue, n) /\ f \in Fields
      /\ Len(history) \in Nat /\ since \in Nat
  BY DEF Rollback, TaleInd, TaleOK, EntriesTyped, Restorable
<1>2. issue'[f] = IF Newer(f, n) # {} THEN history[Max(Newer(f, n))].from ELSE issue[f]
  BY <1>1, UndoneTyped
<1>3. CASE Newer(f, n) = {}
  <2>1. ValueTold(history, since, base, f, Len(history)) = ValueTold(history, since, base, f, n)
    BY <1>1, <1>3, ValueStays DEF Newer, EntriesOf
  <2> QED
    BY <1>1, <1>2, <1>3, <2>1 DEF TaleOK, Tells, ValueAt
<1>4. CASE Newer(f, n) # {}
  <2> DEFINE k == Max(Newer(f, n))
  <2>1. k \in n + 1..Len(history) /\ history[k].field = f
    <3>1. /\ EntriesOf(history, f, n, Len(history)) # {} /\ n \in Nat
          /\ Len(history) \in Nat /\ Len(history) \in 0..Len(history)
      BY <1>1, <1>4 DEF Newer
    <3>2. LET j == Max(EntriesOf(history, f, n, Len(history))) IN
          j \in n + 1..Len(history) /\ history[j].field = f
      BY <3>1, NewestEntry
    <3> QED
      BY <3>2 DEF Newer
  <2>2. k \in Newer(f, n)
    BY <2>1 DEF Newer, EntriesOf
  <2> HIDE DEF k
  <2>3. \A j \in n + 1..k - 1 : history[j].field # f
    BY <1>1, <2>1, <2>2 DEF Newer, EntriesOf
  <2>4. ValueTold(history, since, base, f, k - 1) = ValueTold(history, since, base, f, n)
    BY <1>1, <2>1, <2>3, ValueStays
  <2>5. history[k].from = ValueTold(history, since, base, f, k - 1)
    BY <1>1, <2>1 DEF TaleOK, Tells
  <2> QED
    BY <1>2, <1>4, <2>4, <2>5 DEF ValueAt, k
<1> QED
  BY <1>3, <1>4

\* Rolling back over at most one change of each field is what the page
\* promises, whatever happened before.
THEOREM RollbacksUndo == Spec => RollbackUndoesAChange
<1>1. TaleInd /\ [Next]_vars =>
        [ request'.op = "rollback" /\ issue # Null =>
            LET n == request'.to IN
            \A f \in Restorable :
              since <= n /\ (\A j, k \in Newer(f, n) : j = k) => issue'[f] = ValueAt(f, n) ]_vars
  <2> SUFFICES ASSUME TaleInd, Next, request'.op = "rollback",
                      NEW f \in Restorable, since <= request'.to,
                      \A j, k \in Newer(f, request'.to) : j = k
               PROVE  issue'[f] = ValueAt(f, request'.to)
    OBVIOUS
  <2>1. PICK n \in 0..Len(history) : Rollback(n)
    BY DEF Next, Create, Delete, Import, Update, WebEdit, Transition
  <2>2. request'.to = n
    BY <2>1 DEF Rollback
  <2> QED
    BY <2>1, <2>2, RollbackUndoes
<1> QED
  BY <1>1, TaleInvariant, PTL DEF Spec, RollbackUndoesAChange
=============================================================================
