---------------------------- MODULE FieldUpdates ----------------------------
(***************************************************************************)
(* The collections of an issue that a request replaces ("fields"), changes *)
(* with a list of operations ("update"), or both, in this order: labels,   *)
(* components, fixVersions and versions (the affected ones).               *)
(*                                                                         *)
(* The four blocks of _apply_field_updates and _apply_update_ops are       *)
(* independent of each other, so a behaviour is about one of them, field.  *)
(* What they share is how they treat the session: the operations look at   *)
(* the collection that was loaded with the issue, deletions and insertions *)
(* wait for the next flush, and a query flushes.  A flush that breaks a    *)
(* unique key fails the request, which is rolled back as a whole.          *)
(*                                                                         *)
(* A request that deletes a row again after the flush that deleted it is   *)
(* left out: what its session does then is SQLAlchemy's and SQLite's       *)
(* business, a second DELETE by the row's key, which for labels is an id   *)
(* that a row of the list may have got in the meantime.                    *)
(***************************************************************************)
EXTENDS Integers, FiniteSets, SequencesExt

CONSTANTS
  FieldValues,      \* names of labels, components or versions
  MaxListed,        \* bound: names of a list, and operations of a request
  MaxLabelEntries   \* bound: requests of a behaviour that leave label entries

ASSUME FieldUpdatesAssumption == MaxListed \in Nat /\ MaxLabelEntries \in Nat

VARIABLES
  field,          \* the collection this behaviour is about
  held,           \* the committed rows: names the issue has in it
  labelHistory,   \* since the labels were last set without an entry, the entries
                  \* <<from, to>> of each request that left any
  base,           \* the labels at that moment
  outcome         \* of the last request: "none", "ok" or "failed"

fieldVars == <<field, held, labelHistory, base, outcome>>

FieldNames == {"labels", "components", "fixVersions", "versions"}

FieldInit ==
  /\ field \in FieldNames
  /\ held = {} /\ base = {} /\ labelHistory = <<>>
  /\ outcome = "none"
-----------------------------------------------------------------------------
(***************************************************************************)
(* A request at work on the rows: those loaded with the issue, those in    *)
(* the table, and the insertions and deletions the next flush will write.  *)
(***************************************************************************)
Loaded(names) ==
  [loaded |-> names, table |-> names, new |-> {}, gone |-> {}, failed |-> FALSE,
   dead |-> {},       \* loaded rows that a flush has deleted
   again |-> FALSE,   \* one of them was deleted again
   seen |-> {}]       \* components the operations have added

Flushed(w) ==
  [w EXCEPT !.table = (@ \ w.gone) \cup w.new, !.new = {}, !.gone = {}, !.dead = @ \cup w.gone,
            !.failed = @ \/ w.new \cap (w.table \ w.gone) # {}]

\* db.add: the key is checked at the flush, against the other insertions too.
Inserted(w, name) ==
  [w EXCEPT !.new = @ \cup {name}, !.failed = @ \/ name \in w.new]

\* The rows removed are objects of the loaded collection, whatever happened since.
Deleted(w, names) ==
  [w EXCEPT !.gone = @ \cup (names \cap w.loaded),
            !.again = @ \/ names \cap w.dead # {}]

\* Versions and components are looked up, which flushes; labels are not.
LookedUp(w) == IF field = "labels" THEN w ELSE Flushed(w)

\* Fault for Decided: the check is left out for labels as it is for versions.
DecidedUnchecked(w, name) == field = "components" /\ name \in w.loaded

\* Whether an addition is left out.  It is decided on the loaded collection,
\* not on what the request has made of it, and for versions not at all.
Decided(w, name) == field # "fixVersions" /\ name \in w.loaded

\* A component is added once in a request: its second addition does nothing.
Added(w, name) ==
  IF field = "components" /\ name \in w.seen THEN w
  ELSE LET q == [LookedUp(w) EXCEPT !.seen = @ \cup {name}]
       IN  IF Decided(w, name) THEN q ELSE Inserted(q, name)

\* Lists of labels and components drop repeated names, lists of versions do not.
Listed(names) == IF field \in {"labels", "components"} THEN SetToSeq(ToSet(names)) ELSE names

\* All loaded rows go, and the names of the list come.
Refilled(w, names) ==
  LET u[n \in 0..Len(names)] ==
        IF n = 0 THEN Flushed(Deleted(w, w.loaded)) ELSE Inserted(LookedUp(u[n - 1]), names[n])
  IN  u[Len(names)]

\* Components know no "set", the affected versions no operations.
Verbs == CASE field \in {"labels", "fixVersions"} -> {"add", "remove", "set"}
           [] field = "components" -> {"add", "remove"}
           [] OTHER -> {}

Applied(w, op) ==
  CASE op.verb = "add"    -> Added(w, op.name)
    [] op.verb = "remove" -> Deleted(w, {op.name})
    [] op.verb = "set"    -> Refilled(w, Listed(op.names))

\* The operations of a request, one by one, on a session that is at start.
Result(start, ops) ==
  LET w[n \in 0..Len(ops)] == IF n = 0 THEN start ELSE Applied(w[n - 1], ops[n])
  IN  Flushed(w[Len(ops)])

NameLists == SeqOf(FieldValues, MaxListed)

Operations ==
  {op \in [verb : {"add", "remove"}, name : FieldValues] : op.verb \in Verbs}
    \cup {op \in [verb : {"set"}, names : NameLists] : op.verb \in Verbs}

OpLists == SeqOf(Operations, MaxListed)
-----------------------------------------------------------------------------
\* Fault for Told: the old labels are read after the update.
ToldTooLate(from, to) == IF ToSet(from) # ToSet(to) THEN <<<<to, to>>>> ELSE <<>>

\* The entry a change of the labels leaves, from the sorted lists before and after.
Told(from, to) == IF from # to THEN <<<<from, to>>>> ELSE <<>>

InOrder(names) == SetToSeq(names)

\* "fields" names the list as it was sent, repeats included.
ToldAsSent(names) ==
  Told(InOrder(held), IF IsInjective(names) THEN InOrder(ToSet(names)) ELSE names)

\* "update" names the rows found after the operations, and as the labels
\* before it those that were loaded with the issue.
ToldAsFound(w) == Told(InOrder(held), InOrder(w.table))

\* A request that fails leaves everything as it was.
Finish(w, entries) ==
  /\ ~w.again
  /\ IF w.failed
     THEN outcome' = "failed" /\ UNCHANGED <<field, held, labelHistory, base>>
     ELSE /\ outcome' = "ok" /\ held' = w.table
          /\ labelHistory' = IF field = "labels" /\ entries # <<>>
                             THEN Append(labelHistory, entries) ELSE labelHistory
          /\ UNCHANGED <<field, base>>

Room == outcome # "none" /\ (field = "labels" => Len(labelHistory) < MaxLabelEntries)

\* The session after the "fields" of a request.
ListReplaced(names) == Refilled(Loaded(held), Listed(names))

\* PUT with "fields".
ReplaceList(names) == Room /\ Finish(Flushed(ListReplaced(names)), ToldAsSent(names))

\* PUT with "update".
UpdateOps(ops) ==
  LET w == Result(Loaded(held), ops) IN Room /\ Finish(w, ToldAsFound(w))

\* PUT with both: the operations find the session as "fields" left it, and the
\* loaded collection as it was before the request.
ReplaceAndUpdate(names, ops) ==
  LET w == Result(ListReplaced(names), ops) IN Room /\ Finish(w, ToldAsSent(names) \o ToldAsFound(w))

\* The values an issue is created with, or an import sets, leave no entry.
SetSilently(w) ==
  IF w.failed
  THEN outcome' = "failed" /\ UNCHANGED <<field, held, labelHistory, base>>
  ELSE outcome' = "ok" /\ held' = w.table /\ base' = w.table /\ labelHistory' = <<>> /\ UNCHANGED field

CreateWith(names) ==
  /\ outcome = "none"
  /\ SetSilently(Flushed(Refilled(Loaded({}), Listed(names))))

\* An import drops repeated components; a repeated label or version breaks the key.
ImportList(names) ==
  /\ outcome # "none"
  /\ SetSilently(Flushed(Refilled(Loaded(held),
                                  IF field = "components" THEN Listed(names) ELSE names)))

FieldNext ==
  \/ \E names \in NameLists : CreateWith(names) \/ ReplaceList(names) \/ ImportList(names)
  \/ \E ops \in OpLists :
       UpdateOps(ops) \/ \E names \in NameLists : ReplaceAndUpdate(names, ops)

FieldSpec == FieldInit /\ [][FieldNext]_fieldVars
-----------------------------------------------------------------------------
\* The reference: each operation applied to what the one before it left.
AfterOp(names, op) == CASE op.verb = "add"    -> names \cup {op.name}
                        [] op.verb = "remove" -> names \ {op.name}
                        [] op.verb = "set"    -> ToSet(op.names)

Sequential(ops) ==
  LET s[n \in 0..Len(ops)] == IF n = 0 THEN held ELSE AfterOp(s[n - 1], ops[n])
  IN  s[Len(ops)]

\* Additions and removals of different names, or a replacement alone.
OnDistinctNames(ops) ==
  Len(ops) > 1 => \A i, j \in DOMAIN ops :
                    ops[i].verb # "set" /\ (i # j => ops[i].name # ops[j].name)

\* What breaks a unique key: a version the issue has already, or twice in a list.
Repeats(op) ==
  /\ field = "fixVersions"
  /\ \/ op.verb = "add" /\ op.name \in held
     \/ op.verb = "set" /\ ~IsInjective(op.names)

\* Although every operation of a request is decided on the collection loaded
\* with the issue, and the rows are written in another order than the
\* operations, operations on different names do what they would do one after
\* the other; a request fails for a version added twice and for nothing else
\* (issue_service.py:831-858, 872-946).
OpsApplyInOrder ==
  \A ops \in OpLists : OnDistinctNames(ops) =>
    LET w == Result(Loaded(held), ops)
    IN  /\ ~w.again
        /\ w.failed <=> \E i \in DOMAIN ops : Repeats(ops[i])
        /\ w.table = Sequential(ops)

Plain(ops) == \A i \in DOMAIN ops : ops[i].verb # "set"

NamedBy(ops, verb) == {ops[i].name : i \in {j \in DOMAIN ops : ops[j].verb = verb}}

\* The names a request's additions bring: of labels and components those the
\* issue had not when it was loaded.
Brought(ops) == NamedBy(ops, "add") \ (IF field = "fixVersions" THEN {} ELSE held)

\* A name brought by two additions, or by one and the list before them.
BroughtTwice(names, ops) ==
  \/ Brought(ops) \cap names # {}
  \/ /\ field # "components"
     /\ \E i, j \in DOMAIN ops : i # j /\ ops[i] = ops[j] /\ ops[i].verb = "add"
                               /\ ops[i].name \in Brought(ops)

\* Operations on one name, or after a list, do not see each other: whatever
\* their order, the additions that count are those of names the issue had not
\* when it was loaded, and the removals those of names it had.  Adding a label
\* back after its removal leaves it removed, removing one that the request
\* added leaves it there, adding one twice fails the request; after a list, a
\* name only the list brought is not removed, and one that the list dropped is
\* not added back.  Versions are added unseen: a request that brings one twice
\* fails, unless its row was removed in between (issue_service.py:478-482, 831-858, 868-946).
LoadedRowsDecide ==
  \A ops \in OpLists : Plain(ops) =>
    /\ LET w == Result(Loaded(held), ops)
       IN  ~w.again =>
             /\ ~w.failed => w.table = (held \ NamedBy(ops, "remove")) \cup Brought(ops)
             /\ field # "fixVersions" => (w.failed <=> BroughtTwice({}, ops))
    /\ \A names \in NameLists :
         LET w == Result(ListReplaced(names), ops)
         IN  ~w.again =>
               /\ ~w.failed => w.table = ToSet(names) \cup Brought(ops)
               /\ w.failed <=> \/ BroughtTwice(ToSet(names), ops)
                              \/ ~IsInjective(Listed(names))

\* The label history, read in order from the labels an issue was created or
\* imported with, tells each change of the labels up to those there are now,
\* whichever form of a request made it: the entries a request leaves, two when
\* it has both forms, all start from the labels before the request, and the
\* last of them ends in those after it.  The second entry of a request does
\* not start where the first ends (issue_service.py:668-686, 831, 859-874).
LabelHistoryTellsTheLabels ==
  field = "labels" =>
    LET told(k) == IF k = 0 THEN base ELSE ToSet(Last(labelHistory[k])[2])
    IN  /\ \A k \in DOMAIN labelHistory : \A e \in ToSet(labelHistory[k]) :
             ToSet(e[1]) = told(k - 1)
        /\ held = told(Len(labelHistory))

\* What an update does to a collection, and that the history of the labels
\* tells it (issue_service.py:478-482, 663-754, 799-946).
UpdatesDoAndTell ==
  outcome # "none" => OpsApplyInOrder /\ LoadedRowsDecide /\ LabelHistoryTellsTheLabels
=============================================================================
