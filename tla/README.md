# A TLA+ model of jira-emulator

jira-emulator is a FastAPI server that imitates the Jira REST API over one
SQLite file, with a web interface, a webhook worker, snapshots and a destructive
reset. This directory models the parts whose correctness depends on the order of
things: overlapping transactions, locks, crashes, retries, files beside the
database, and long sequences of requests. Paths below are relative to
`src/src/jira_emulator/` unless they start with `src/`.

Contents: [inventory](#inventory) · [modules](#modules) · [runs and bounds](#runs-and-bounds)
· [fairness](#fairness) · [proofs](#proofs) · [where code and documents differ](#where-code-and-documents-differ)
· [not modelled](#not-modelled) · [plan](#plan)

## Inventory

The process is one asyncio event loop. Every request but `POST /api/admin/reset`
passes `DatabaseOperationMiddleware` (`app.py:184`), which holds one asyncio lock
from before the handler until the response starts; the webhook worker
(`app.py:96`) takes the same lock for a whole cycle. A handler gets a SQLite
session from `get_db` (`database.py:66`), which commits before the response
starts and rolls back on an exception.

| Component | State | Operations | Interacts through | Hard behaviour | What makes it correct |
|---|---|---|---|---|---|
| Issue keys (`issue_service.create_issue`, `import_service.import_issues`, `project_admin_service`) | `issue_sequences`, keys of `issues` | reserve and insert, import over, delete, create and delete project | SQLite's write lock | overlapping sessions, rollback after the reservation, keys compared as strings | a reserved number is free and not reused; a gap comes from a failed web form only |
| Webhook outbox and worker (`webhook_service`, `app.py`) | `webhook_outbox`, the claimed batch in memory | enqueue, claim, post, record, recover, back off | the operation lock, the request's transaction, HTTP | crash between any two steps, lost answers, retry limit, restore to an older outbox | events of committed changes only, bounded posts, no row left behind |
| Operation lock, reset, restore, startup (`app.py`, `routers/admin.py`, `snapshot_service`, `seed_service`) | the lock's queue, SQLite's lock, tables that exist or not | request, reset, web reset, restore, start | lock, blocked event loop, DDL that commits by itself | three locks, authentication outside the lock, crash between DDL statements | nobody works on a half-dropped database, answers are true, nobody waits for ever |
| Issue lifecycle (`issue_service`, `workflow_service`, `history_service`, `web/routes.py`) | issue row, `issue_history` | create, edit (REST, web), transition, rollback, import, delete | rows and history of one issue | handlers that bypass one another's rules, in any order | the history accounts for the row; resolution, date and status agree after a transition |
| Attachments (`routers/attachments.py`, `snapshot_service`) | rows, files `{id}_{name}`, snapshot directories | upload, delete, cascade, reset, snapshot, restore | row ids that SQLite reuses, files outside the transaction | failure or crash between file and commit | a row's file holds what was uploaded with it |
| Field updates (`issue_service`, `import_service`) | labels, components, fix versions, affected versions, custom field values | replacement, add/remove/set operations, both in one request, import, change of a field's type | the session's deferred writes; the type a field has by now | operations decided on the collection loaded before them; a value in the column of an earlier type | operations on different names do what they would one after the other, the others what the loaded rows decide; the history tells it; a field never shows an old value |
| Components of a project (`routers/projects.py`) | `components`, `issue_components` | create, rename, delete, move issues | ids that SQLite reuses | associations left behind | an issue has the component it was given |
| Comments (`routers/issues.py`, `web/routes.py`) | comment tree | add, reply, import, delete with the issue | parent ids | REST and web form disagree about depth, outdated pages, bodies that are empty | threads are one level deep, imports carry them |
| Links, remote links, properties | link tables | create, upsert, delete, export, import | links of an import that wait for all issues | both issues show a link, each the other way round | a link is one row; a global id is one link |
| Import batch (`import_service.import_issues`) | collected errors, parents for the second pass, the session | passes over the file | one session for all issues | one failing flush spoils the session | an issue is kept or reported; order does not matter |
| Accounts (`auth_service`, `user_service`, `routers/tokens.py`) | users, tokens | create, update, deactivate, use, revoke, expire | every request | users that are made on the way, reactivation | an ended token never works again; a managed address is one user's |
| Webhook registry (`webhook_service`, `routers/webhooks.py`) | registrations | register, refresh, update, delete, expire | outbox | limits per owner, expired rows that come back, checks that insert a row | limits hold, owners are apart, one post per receiver |
| JQL (`jql/transformer.py`) | none | conditions to SQL | the issues table | NULL; one field translated in several places | a clause and its negation split the issues |
| Search (`search_service`) | none; the token is an offset | page | the issues table | changes between two pages | an unchanged result is read completely and once |
| Request audit (`request_audit.py`) | ring, sequence number | record, read since, clear | every write request, a polling reader | requests that end in another order, entries dropped unread | each request is told of once, or was lost |
| Configuration import (`config_import_service`) | statuses, transitions, associations | import | issue imports | importing twice, unknown statuses, a file that breaks off | a second import changes nothing |
| Metadata, ADF, schemas, pages, scripts, MCP server | tables of reference data | read | - | - | conversions and listings |

The hazards of this code, each with its line and the properties that would catch
it, are listed in `PROJECT.json`.

## Modules

**IssueKeys** — `committed` is the database between transactions, `image` what the
writing transaction sees, `writer` SQLite's write lock. `ResolveProject`,
`ReserveKey`, `InsertIssue`, `Commit` and `Rollback` are the steps of
`create_issue` inside `get_db`; the upsert of `issue_service.py:234` is one
atomic step (`UpsertNumber`). `CreateFailsInWeb` is the create that finds no status
after it (`issue_service.py:322`): `create_issue_web` catches the error and answers
with a page, so the request commits and the number is used up (`burnt`), where REST
rolls it back. (The comment at `issue_service.py:202`, that a rejected create cannot
mutate the sequence, is about the validation of the description, which comes first.)
`ImportIssue`, `ImportRejected` and `ImportFinish`
are an import, whose `func.max(Issue.key)` compares strings (`LexMax`).
The operation lock is deliberately left out: the upsert's own comment claims
correctness for concurrent sessions, and that is what is checked.

**WebhookOutbox** — one action per database commit of the worker and per post.
`row` is the table, `dueQ` the order of `next_attempt_at` among pending rows that
are due, `batch` the worker's memory, `holder` the operation lock. `Enqueue` and
`EnqueueRaises` run in the request's transaction `txn`. `posts`, `acks`, `fate`
are history. **EventDelivery** is the abstract promise: an event is owed until it
is accepted or given up, and does not stay owed. `WebhookOutbox` implements it
under the mapping "pending and delivering are owed".

**DatabaseLock** — `lockQ` is the asyncio lock with its waiters in order, `sql`
SQLite's write lock; the event loop itself is the third lock, which a running
`restore_snapshot` blocks (`LoopRuns`). A reset authenticates in its own session
first (`auth`, `authWrote`), queues, then drops, creates and seeds statement by
statement, because pysqlite opens no transaction for DDL. `Crash` and `Startup`
keep what is in the file.

**IssueLifecycle** — one issue. Because the lock runs one request at a time, a handler
is one action: `Create`, `Update` (PUT), `WebEdit`, `Transition`, `Rollback`, `Import`,
`Delete`. A rollback looks its target up by the entry's id alone, so an entry of another
issue will do: `Rollback(n)` goes back to the latest of the issue's own entries before
it, or with n = 0 to before them all. `issue` is the row, `dated` says `resolved_at` is
set, `history` holds the entries by id. `base` and `since` are history variables: the
row and the length of the history at the latest change that no field entry tells
(creation, import, rollback; a new row begins at 0, so an entry left by an earlier row
would count against it). `Recording` is the history with the entries of a request,
`ValueTold` the value a field has by the entries up to one of them, and `Undone` what
the entries newer than one say a field had before. `summary` stands for the description
as well, `assignee` for the reporter. Labels, components and versions are left to
FieldUpdates.

**Attachments** — `rows` are committed, `job.image` is what the request's
transaction sees, `disk` is `ATTACHMENT_DIR`, changed at once and never rolled
back. `NextId` is SQLite's rowid rule: one past the highest id in use. A snapshot
and a restore are two steps each, database then files; `Fail` ends any job at any
step, a copy with any part of its files.

**FieldUpdates** — a behaviour is about one of the four collections (`field`), whose
blocks in `_apply_field_updates` and `_apply_update_ops` are independent. `held` is
the table between requests. A request works on a record of what was loaded with the
issue, what is in the table, and what the session will insert and delete at the next
flush; a query flushes (`LookedUp`), and a flush that breaks a unique key fails the
request. A PUT with both "fields" and "update" (`ReplaceAndUpdate`) applies the
operations to the session as the list left it, and still looks at what was loaded before
the request; it can leave two label entries, both of which start from the labels before
it. `labelHistory` holds the entries of each request, from `base` on. `OpsApplyInOrder`
says that operations on different names do what they would one after the other,
`LoadedRowsDecide` what those on one name, or after a list, do instead. Left out are
requests that delete a row again after its deletion was flushed (`again`), e.g. a
removal after a list: what the session then deletes is SQLAlchemy's and SQLite's choice.

**CustomFields** — one custom field of one issue: `ftype` is the type the field has
now, `cell` the three columns of the value. `WriteField`, `ImportById`, `ImportByName`
choose a column by the type at the time of writing; `Reading` chooses by the type now;
`Retype` and `Relist` are the imports of field metadata that change it.

**ProjectComponents** — `components` are the rows by id, `tagged` the associations;
`born`, in both, tells two components apart that had the same id. `Moved` is the loop
of `moveIssuesTo`.

**IssueLinks** — `links` counts the rows of each link, so that a second row of the
same link shows. `Shown` is what an issue's JSON says of its links, `Row` what the
import makes of that; `ImportFile` puts all issues of the file there and `ImportLink`
makes one of its links at a time, in any order, on a session whose earlier links the
query already finds; the others wait, as for any writing transaction.
**RemoteLinks** — `PostRemote` updates by global id, `PutRemote` replaces by id and
looks at no other link; `put` remembers which global ids a PUT has doubled.

**CommentThreads** — `Reply` is REST, `ReplyOnPage` the web form, with ids from a page
that may be outdated; `stray` marks what such a form left. REST stores comments with an
empty body, and `ImportThreads` skips them (`Kept`): their ids are not mapped, so the
replies to them come to the top level. `DeleteThreads` and
`CascadeThreads` are the two ways in which an issue's comments go; `Under` is what the
database's cascade takes along, the replies and the replies to them.

**Accounts** — `SetUserActive` with the tokens it revokes, `CreateOnTheWay` for the
users that imports, logins and comments make unchecked; `ended` remembers tokens that
may never work again.

**ImportBatch** — one action per issue of the batch. `work` is what the session sees,
`kept` the database; `usable` is the session's transaction, which a constraint that
fails at a flush spoils for every later issue, `parents` what the second pass sets. A
`trouble` says where the import of an issue goes wrong.

**RequestAudit** — requests end in any order and take their number then; `Poll`
follows `last_seq`, `PollSome` the last entry of a limited answer; `lost` is history.

**ConfigImport** — statuses, the transitions of a workflow as a bag, because the
importer may write one twice, and the project's associations. `previous` is the file of
the step before, so that importing it again can be compared.

**WebhookRegistry** — registrations by id with owner, address and expiry; `Posted`
groups those an event matches. What becomes of a post is WebhookOutbox, which takes
the registrations as given.

**JqlClauses** — the issue is the only state; the conditions of `=`, `!=`, `IN`,
`NOT IN`, `IS EMPTY`, `~`, `!~` and the comparisons of dates are operators with SQL's
three values, one for each kind of field that the transformer treats in its own way.

**SearchPages** — `offset` is what the token says, `found` the result, which changes
between two pages; `stayed`, `came`, `went` are history.

These fourteen parts (with Attachments) share no state but the lock, and each handler is
one action, because the lock runs one request at a time. **MCIssueAndComments** checks
the comments beside the life of an issue, **MCParts** puts the other thirteen side by
side: a behaviour is about one `part`, chosen at the start, and the variables of the
others stay as they are, so that the state spaces are added and not multiplied. Where a
part promises several things, its last property is the conjunction of them
(`RegistryStaysInOrder`, `ComponentsStayRight`, ...), and the conjuncts are stated and
explained one by one above it.

The `MC*` modules give the small instances. A definition introduced by "Fault
for X" is a plausible bug in X. Put in X's place it violates the property it belongs
to: one fault for each property is listed among the mutants of `PROJECT.json`, the
others do the same for the other conjuncts of a property.

## Runs and bounds

| Run | Module | Question | Bounds and why they are enough |
|---|---|---|---|
| `issue_keys` | MCIssueKeys | Is a reserved number free and unused before, and every gap a failed form's? | 2 sessions (writers exclude each other, so a third only waits), 1 project (rows are independent), imports of 9 and 10 (the step where string and number order differ), 4 issues |
| `issue_keys_import` | MCIssueKeys | Is the sequence past the maximum after an import? *No.* | same |
| `outbox` | MCWebhookOutbox | What is posted, how often, and does every step implement EventDelivery? | 2 hooks with separate deliveries, batch of 1 (below the number of due rows), 2 attempts, 1 crash, 1 restore |
| `outbox_live` | MCWebhookOutbox | Is every committed row settled? | 2 changes, one of which fails for a missing URL variable, 2 attempts, 1 crash |
| `lock` | MCDatabaseLock | Do the locks exclude, are answers true, is everybody served? | one client of each kind (request, restore, reset, web reset), each sending for ever, and the worker; 1 crash |
| `lock_restore_returns` | MCDatabaseLock | Does a restore return? *Not with a Bearer token.* | one client |
| `lock_reseeds` | MCDatabaseLock | Does a reset reseed? *Not beside a second one.* | all kinds, no crash |
| `lock_starts` | MCDatabaseLock | Does the server start with seed data? *Not after a crash in a reset.* | all kinds, 1 crash |
| `lifecycle` | MCIssueAndComments | Does the history account for the row, and does a transition repair what others left? Do threads of comments stay one level deep, and does an import carry them? | of the issue a workflow of 4 statuses with a global transition, one edit per case the handlers distinguish, 4 history entries (`MaxHistory`), so two changes of a field with another in between, rollbacks to each of them and to before the first; of comments 2 issues (symmetric), ids up to 4, one at a time without a body (`MaxEmpty`): a thread under it, its import, its import again, and an outdated page |
| `lifecycle_rollback` | MCIssueLifecycle | Does a rollback reverse all newer changes? *Only the newest of each field.* | the issue's, as in `lifecycle` |
| `lifecycle_resolution` | MCIssueLifecycle | Does a transition keep a resolution? *No.* | the issue's, as in `lifecycle` |
| `parts` | MCParts | Does each of the other thirteen parts keep its promises through all its operations in every order? | see below |

The bounds of `parts`, by part:

| Part | Bounds and why they are enough |
|---|---|
| attachments | 2 issues and 2 names (symmetric), 3 uploads, 1 snapshot, 2 failures: enough to fail, reuse the id, and fail again |
| fields | 2 names, lists of up to 2 names, requests of up to 2 operations (`MaxListed`), 2 requests with label entries: every pair of verbs on the same and on different names, and after every list |
| custom | all types and kinds of value, values of 2 times (old and new) |
| components | 2 projects with 2 issues each, 2 names, 3 components ever created: an id is reused while another component stands |
| links | 2 issues, 2 types, 2 links when one is made or an export is written (an import may make more), among them links of an issue to itself |
| remote | 2 issues, 2 global ids, ids up to 3: a doubled global id and a third link |
| accounts | the default user and another, 1 token each, 1 more address, so that two users want one |
| import | batches of 2 over 2 keys, with every trouble at every place: one issue before and one after it |
| audit | a ring of 2, 5 requests: it overflows twice; limits 1 and 2 |
| config | 2 statuses, workflows of up to 2 entries, repeated, unknown and broken off |
| webhooks | 2 users, 2 addresses, limit 2, batches of 2, ids up to 3: one more than fits |
| jql | 2 values, 1 unknown, 1 word, 2 days: no clause compares more than a value with a list |
| pages | 4 issues, pages of 1 and 2, 2 changes |

`MCParts` is symmetric in issues `i1`, `i2` and in the names `a`, `b`; where an order
or an arithmetic matters the sets are numbers or strings and not part of the symmetry.
Deadlock is checked in `parts`, `lock` and wherever the cfg does not say otherwise.

Named bounds: `MaxIssues`, `MaxCrashes`, `MaxWipes`, `MaxAttempts` (6 in the code),
`Limit` (20 in the code), `DynamicLimit` (5 in the code), `MaxEntries` (the size of the
ring, a setting), `MaxHistory`, `MaxUploads`, `MaxFailures`, `MaxListed`,
`MaxLabelEntries`, `MaxComponents`, `MaxLinks`, `MaxRemote`, `MaxComments`, `MaxEmpty`,
`MaxItems`, `MaxRequests`, `MaxStatuses`, `MaxHooks`, `MaxBatch`, `MaxChanges`.
`MaxAttempts`, `Limit`, `DynamicLimit` and `MaxEntries` are parameters of the code; the
others only stop the checker. Where a property counts (`PostsBounded`,
`AcknowledgedOnce`) the bound appears in it.

What the properties say is written above each of them. The ones to read first:

- `ReservationFresh`, `NoReissue`, `GapsAreFailedForms` (IssueKeys): what the upsert promises.
- `BatchIsWhatIsDelivering` (WebhookOutbox): the worker's memory is never stale
  while it posts, which is why it may write outcomes from it.
- `StepsImplement`, `Implements`: the outbox is an EventDelivery.
- `LockExcludes`, `EveryoneIsServed` (DatabaseLock).
- `HistoryTellsTheRow` (IssueLifecycle): each entry starts where the one before
  ended and the last ends in the row, whichever handler wrote it.
- `ContentKept`, `RestoreBringsBack` (Attachments).
- `OpsApplyInOrder`, `LoadedRowsDecide`, `LabelHistoryTellsTheLabels` (FieldUpdates): the
  operations of a request compared with doing them one after the other, what becomes of
  them where the two differ, and what the history says of it.
- `ImportKeepsThreads` (CommentThreads): what an import makes of a file's comments.
- `NeverAnOldValue` (CustomFields): whatever types the field has had in between.
- `EachRequestOnce` (RequestAudit), `PagesMissOnlyAfterChanges` (SearchPages): what a
  reader can rely on while others write.
- `ImportAccountsForAll` (ImportBatch): what is lost when a flush fails.
- `ClausesAgree` (JqlClauses): four ways to ask the same, over NULL.

## Fairness

- WebhookOutbox: strong fairness of `WorkerRecover`, because the lock is first
  come, first served and a polling worker's turn comes although requests take the
  lock again and again; weak fairness of the rest of a cycle and of the end of a
  request, because whoever holds the lock runs on; weak fairness of the end of a
  backoff, which is a point in time.
- DatabaseLock: strong fairness of each client's own steps, because the event loop
  runs every ready coroutine before it runs one again, however often a restore
  blocks it in between; weak fairness of the worker and of the restart by the
  process supervisor. No fairness makes a client arrive or a handler fail.
- The other modules state safety only.

## Proofs

**IssueKeysProofs** proves for any projects, sessions, import numbers and bounds:

| Theorem | Says |
|---|---|
| `TypeCorrect` | `Spec => []TypeOK` |
| `KeysFresh` | `Spec => []ReservationFresh` |
| `NumbersNotReissued` | `Spec => []NoReissue` |
| `GapsHaveACause` | `Spec => []GapsAreFailedForms` |

Assumption: `NumbersAssumption` (imported numbers are positive, the bound is a number,
nobody is called NoSession). The properties are not inductive: they speak of the moment
after the upsert only. `IndInv` adds what holds between operations, `ProjectOK`: the
sequence row is one past a number the project used (had, or burnt in a failed form), and
past every number handed out. That does not hold in the writer's image between upsert
and INSERT, so the phase "reserved" has a clause of its own, `Reservation`, which says
that the image is the committed database with the row advanced. There is one lemma per
operation, and the theorems follow by `PTL`. That `func.max` compares strings does not
matter to the proof: `LexMaxIsKey` needs only that it yields some key of the project,
and that is why a sequence that falls behind does no harm.

**WebhookOutboxProofs** proves for any finite sets of changes and registrations, any
batch size, attempt limit and bounds:

| Theorem | Says |
|---|---|
| `TypeCorrect` | `Spec => []TypeOK` |
| `BatchIsCurrent` | `Spec => []BatchIsWhatIsDelivering` |
| `PostsAreOfCommittedChanges` | `Spec => []OnlyCommittedChangesArePosted` |
| `AcknowledgedOnceEach` | `Spec => []AcknowledgedOnce` |
| `SettledStays` | `Spec => SettledForGood` |
| `OutboxImplementsDelivery` | `Spec => StepsImplement`: every step is a step of EventDelivery or a stutter |
| `PostsAreBounded` | `Spec => []PostsBounded` |

`IndInv` has a part for the table and its due rows (`TableOK`), for the saved copy a
restore goes back to (`SnapOK`, which says the same of the old table), the open
transaction (`TxnOK`), the batch and where in a cycle the worker is (`BatchOK`: its
memory is exactly the rows in "delivering"), and the history (`HistoryOK`). None of the
properties is inductive alone. A crash loses an answer and leaves its row in
"delivering", to be posted again: `HistoryOK` therefore allows one acknowledgement
more only while it is recorded or about to be (`Acknowledged`), and every other one is
paid for by a crash or a restore; `Interrupted` gives such a row one more attempt.
The bound on posts has an invariant of its own, `PostsInd`: the posts a row has had and
those it may still have if nothing goes wrong (`Left`, by its state and attempts) are
together within the bound. A post moves one from the second to the first, a recorded
answer or a claim adds none; recovering a row after a crash gives back at most the one
that was under way, and a restore at most a whole round of attempts.
The sets are finite (`OutboxAssumption`) because rows enter the due queue in some
order, as a sequence.

**DatabaseLockProofs** proves for any clients of any kinds:

| Theorem | Says |
|---|---|
| `TypeCorrect` | `Spec => []TypeOK` |
| `LockIsExclusive` | `Spec => []LockExcludes` |
| `SessionsUndisturbed` | `Spec => NothingChangesUnderASession` |
| `AnswersAreTrue` | `Spec => AnswerIsCommitted` |

The strengthening: an actor is in the queue exactly while it waits or works
(`QueueOK`); who works is the head of the queue, so there is one at most (`HolderOK`,
lemma `OneBusy`); each kind of actor has its own places (`PlacesOK`); tables are missing
only while a reset is between two of its statements, or until the process that
crashed in one starts again (`TablesOK`); what is about to be answered is in the file
(`CommitsOK`); a stopped process has nobody at work (`DownOK`). A reset authenticates
outside the lock, and the proof needs no more of that than that it leaves the tables
and the seed data alone.

**AttachmentsProofs** proves for any issues, names, snapshots and bounds:

| Theorem | Says |
|---|---|
| `TypeCorrect` | `Spec => []TypeOK` |
| `DownloadsStay` | `Spec => ContentKept` |
| `AnsweredUploadsAreStored` | `Spec => UploadsAreStored` |
| `RestoreIsComplete` | `Spec => RestoreBringsBack` |

The argument: the committed rows are part of the transaction's image, SQLite's next
id is free in the image (`NextIdFree`, from the well-foundedness of the naturals, as
no induction is at hand to show that a bounded set has a maximum), and different ids
have different paths (`OtherIdOtherPath`). So a write never meets the file of a row
that counts. That the id may have been used before, and a stale file lie at its path,
does no harm because the upload overwrites it.

**IssueLifecycleProofs** proves for any workflow, edits, forms and imports:

| Theorem | Says |
|---|---|
| `TypeCorrect` | `Spec => []TypeOK` |
| `HistoryAccounts` | `Spec => []HistoryTellsTheRow` |
| `RollbacksUndo` | `Spec => RollbackUndoesAChange` |
| `TransitionsSettle` | `Spec => TransitionSettles` |
| `DatesFollow` | `Spec => DateFollowsResolution` |

The last two need of the state only that a row has its columns (`RowInd`): what the
history holds plays no part, because a rollback has no branch for the resolution and
does not touch the date, whatever entries it reads (`UndoneRow`). The others rest on
`TaleInd`: for each field, every entry since `base` starts from the value that the
entries before it leave (`ValueTold`), and the last value is the row's (`Tells`). A
request appends entries for the fields it changes, at most one for each (`Recording`),
so every value told before it stays as it was; a rollback adds an entry of no field and
starts afresh, and the entries it reads lie in `since + 1..Len(history)`, where `Tells`
says what the row had before them. A rollback's entry holds the number of an entry
before it, or 0 (`EntryOK`).
`LifecycleAssumption` says which columns requests may name, and that `Null` and
`Unknown` are no values of theirs; that the web form names no resolution is used.

**ReaderProofs** proves what readers are told, for any size of the ring, any number of
requests and any limits, any finite set of issues and any sizes of pages, any values,
words and days:

| Theorem | Says |
|---|---|
| `AuditTypeCorrect` | `AuditSpec => []AuditTypeOK` |
| `ReaderToldOnce` | `AuditSpec => []EachRequestOnce` |
| `PagesMissOnlyWhatMoved` | `PageSpec => []PagesMissOnlyAfterChanges` |
| `ClausesAlwaysAgree` | `JqlSpec => []ClausesAgree` |

Audit: the ring holds each request under one number, which has been given, and only
requests that have ended (`RingOK`), and so do the reader and the record of losses
(`HistoryOK`). Without it an entry could repeat a request under another number. A limited
poll is the step that needs care: what lies before its last entry is in it as well
(`FirstAreAllBefore`), by comparing cardinalities.

Pages: `Place` is how many issues the result has before an issue. `PagesInd` compares it
with the offset, in two directions. An issue that stayed and whose place the offset has
passed was read, unless others before it have gone (`PassedIsRead`). And the offset has
counted each reading of an issue, besides the issues before it that have been there all
along (`ReadIsPassed`); those that have come account for the rest, which bounds how often
it is read. The step that reads a page needs that the next offset lies behind every
place on the page although a page may be short (`PageIs`): the issues before one of the
page's are `offset` many at most and others of the page, by an injection from issues to
places (`PlacedWithin`).

JQL: the invariant is only what the columns hold (`IssueTypeOK`). The work is in the
conditions: when each of SQL's operators holds and when it is false (`SqlOrHolds`, ...),
then when a comparison and a list hold and are false in the words of the issue
(`ComparisonHolds`, `ListHolds`), for each kind of field. `JqlAssumption` says that NULL
is no name and that the unknown name is not among those that exist.

**ImportProofs** proves what imports and requests leave behind between them, for any
users, names of tokens and addresses, any lists of names and of operations, any times of
values, any batches, issues and link types, statuses and workflows:

| Theorem | Says |
|---|---|
| `AccountTablesCorrect` | `AccountSpec => []TablesOK` |
| `AccountsInHand` | `AccountSpec => []AccountsStayInHand` |
| `UpdatesAreDoneAndTold` | `FieldSpec => []UpdatesDoAndTell` |
| `ValuesStayReadable` | `CustomSpec => ValuesOutliveTypes` |
| `ImportLosesNothing` | `ImportSpec => ImportAccountsForAll` |
| `LinksComeBack` | `LinkSpec => LinksSurviveImports` |
| `ImportsSettle` | `ConfigSpec => ImportSettles` |

Accounts: `EndedTokensStayEnded` speaks of the owner's status and is not inductive: an
administrator could bring a token back by activating its owner. `EndedOK` says that an
ended token is revoked or expired by itself, which is what deactivation's loop over the
tokens is for.

Collections: of a request at work it matters what the next flush will leave in the table
(`InEffect`) and whether a key is broken by then (`Breaking`). A query that flushes
changes neither (`LookedUpKeeps`). Operations on different names find each name where it
was when the issue was loaded (`Untouched`), so they do what the reference does
(`AddedKeeps`, `RemovedKeeps`); a list starts from an empty table and breaks the key
exactly if it has a name twice (`RefilledIs`). For operations on any names there is an
invariant over the operations done so far: what they added and removed, whatever their
order, decides what is in effect (`FromLoaded`; for versions `FromVersions`, because an
addition of a version the issue has waits in the session until a removal of its row goes
in the same flush, or breaks the key). After a list no loaded row is left, so nothing is
removed and no name of before the request is added (`AfterList`). For the history
`FieldInd` has the labels with it; a request tells them if each of its entries starts
from the labels before it and the last ends in those after it (`Tells`). In the combined
form that needs an argument only if the operations end where the request began and so
leave no entry: then the list before them did so too and left none either
(`LabelsEndAsTheyWere`). Requests are of any length: the functions that go through their
operations exist and are what their equations say (`RefilledSteps`, `ResultSteps`,
`SequentialSteps`), by the least number at which they would not (`StepByStep`).

Custom fields: every column that holds something holds the last value (`ColumnsAreNew`),
because a write clears all three; the last value, if it fits the type it was written
under, lies where a field of that type is read (`ValueIsThere`). For exports the kinds
matter: without a name of its own a field has lists only in its json column and numbers
only in its number column (`CellsOK`), so what is read is written to the same column.

Batches: while the session is usable, what it sees is the database with rows added and
no parent changed, every issue that had its turn has a row or an error, and the parents
collected so far are the last ones named (`SessionOK`, `NamesLast`). Of a session that is
not usable nothing need be known, because such an import answers with an error.

Links: during an import every issue of the file exists, and each of its links has a row
or is still deferred, unless an issue of it is missing (`MadeOrDeferred`). The order plays
no part, as a step only adds a row where there is none (`JoinedIs`), and the row is of
the link that was shown (`RowIs`, both directions).

Configurations: after an import the statuses, the workflow and the project are as the
file has them (`AsImported`), and then the same import computes what is there. Every
place of a workflow has an entry, because no place has two (`PlacesAreTaken`); without
unknown statuses no step of the chain is passed over, and each is counted as often as it
occurs (`RebuiltIs`); and who goes from step to step comes to the end (`StepsLead`).

**ReusedIdsProofs** proves for four tables whose ids come back, for any constants:

| Theorem | Says |
|---|---|
| `ComponentsRight` | `ComponentSpec => ComponentsStayRight` |
| `RegistryInOrder` | `HookSpec => RegistryStaysInOrder` |
| `GlobalIdsNameOneLink` | `RemoteSpec => []OneLinkPerGlobalId` |
| `ThreadsAreWhole` | `ThreadSpec => ThreadsStayWhole` |

All rest on `GreatestExists`: SQLite's next id is past all that are in use. For the
components the ids are bounded by how many were ever created and each component is told
by when it was (`born`), so an association that points to the right one is never taken
over by the next of the same id. For the registrations the limit is inductive only for
live and expired ones together (`WithinLimit`), which is why the code counts both. That
the posts of an event are disjoint (`PostsPartition`) holds of every state. Two remote
links share a global id only if a PUT gave it to one of them (`DoublesArePut`). A
comment's parent is in the table and older than it (`ParentsOK`), so a new comment never
finds replies waiting under its id; what a file holds has one level (`FileOK`);
the comments of a file that are not skipped get ids in the order of the file, past all
that are in use (`ImportAdds`), and the parent of one, if it was not skipped, came before
it (`NewParentIs`); and what
goes when an issue or a project is deleted is closed under replies (`Under`), so no reply
is left without its parent.

`IndInv` of the first four modules, `TaleInd`, `PostsInd` and `PagesInd` were
model-checked as invariants of the run's instance before they were proved.

What stays with TLC: liveness and the refinement with fairness (`EventuallySettled`,
`Implements`, `EveryoneIsServed`), which are out of the prover's reach. Every other
property of a passing run is stated by a theorem.

## Where code and documents differ

Shown by runs (the findings of `PROJECT.json` quote the lines):

- after an import the sequence may lie below the maximum (`import_service.py:912`);
- a restore authenticated by a Bearer token never returns (`snapshot_service.py:161`);
- two resets can leave an unseeded database (`seed_service.py:267`), a crash in a
  reset a half-empty one that counts as seeded (`seed_service.py:163`);
- a rollback undoes only the newest change of each field (`web/routes.py:1009`);
- a transition to a done status replaces a resolution that is set
  (`workflow_service.py:180`).

Noticed while modelling, in the models as the code has them, without a run:

- the first post of an event already carries `X-Atlassian-Webhook-Retry: 1`
  (src/references/jira-webhooks-specification.md:430);
- a crash between claim and outcome costs a post that is not counted as an attempt,
  so a seventh is possible (:443); `PostsBounded` has the term for it;
- a registration whose URL template has no value in an event fails the change that
  caused the event instead of being rejected when it is registered (:452);
- a restore is not alone, as the docstring of `snapshot_service.py` says: a reset
  may be authenticating in a session of its own;
- an import sets and clears the resolution and never `resolved_at`;
- a rollback does not restore resolution or labels, and records one "Rollback"
  entry only, so rolling back a rollback does nothing;
- deleting an attachment removes its file before the commit: if the request then
  fails, the row stays without content; `ContentKept` excludes that one row;
- a snapshot whose creation was cut off before its files were copied is restored as
  one that predates attachments, with rows over whatever files are there;
- a create by the web form that fails after its reservation uses the number up
  (`web/routes.py:860`), where REST gives it back; it takes a database without the status
  "New" and without a workflow;
- a PUT with "fields" and "update" for the labels leaves two history entries that both
  start from the labels before the request (`issue_service.py:831`); adding a label back
  after its removal in one request leaves it removed;
- an import skips comments without a body, which REST stores, and moves the replies to
  them to the top level (`import_service.py:685`);
- a rollback accepts the id of another issue's history entry (`web/routes.py:982`);
- an import by field id drops the values of fields that the file format has a name of
  its own for (`import_service.py:624`), whether or not they came by that name;
- a PUT may give a remote link the global id of another; POST and DELETE by that id
  fail from then on (`OneLinkPerGlobalId` has the term for it);
- the web form, an import, or a page loaded before an issue was deleted can give a
  comment a parent that REST would not (the comment at `issues.py:388` speaks of one
  level); deleting a project takes replies on other issues along, deleting an issue
  makes them comments of their own;
- users made on the way get `<username>@example.com` unchecked, which may be the address
  of another user;
- `moveIssuesTo` with the component itself takes it from all its issues; adding a fix
  version the issue has fails the update with 500; `set` of components is ignored;
- one row that violates a constraint fails the whole import with 500, although errors
  are collected per issue; an issue import without a status category resets the
  category of a status that is there; comments are doubled by importing a file again;
- `NOT text ~ w` and `text !~ w` differ for an issue without a description; a number
  custom field is never found by `=` and counts as empty although `>` finds it;
  `labels = EMPTY` looks for a label "None"; `assignee != someone-unknown` finds the
  unassigned and nobody else;
- the paged search with `maxResults=0` returns the same token for ever;
- a limited read of the audit has to go on from its last entry: `last_seq` of the
  answer is past entries that were not in it;
- deleting a project leaves the properties of its issues, whose ids are given again
  (the docstring of `project_admin_service.py:88` says otherwise);
- when no workflow is configured the code allows no transition
  (`workflow_service.py:140`), where src/SPECIFICATION.md:1273 uses the Default workflow.

## Not modelled

- The JQL grammar (given to a parser library), its date functions and lists of dates; the
  clauses for parents and comments; and those for issue properties, of which `=` compares
  the value as it is (`jql/transformer.py:780`) and `IN` in lower case (`:926`), so that
  `ClausesAgree` could not be asked of them. `affectedVersion` knows `=` and `!=` only:
  its lists and `IS EMPTY` are errors (`:943`, `:1028`).
- ADF conversion, response formatting, pages, metadata listings, settings, schemas, the
  client scripts and the MCP server: conversions and listings without state.
- Issue properties, watchers, and versions apart from those of an issue: tables that
  are written by key, with one handler for each operation.
- Unpacking of import archives and envelopes.
- Bcrypt, HTTP and SQLite are environment: SQLite by its write lock, its commit, its
  non-transactional DDL under pysqlite, its rowid rule and its three truth values; HTTP
  by the classes of answers the worker tells apart. Wall-clock time appears as events
  ("the backoff is over", "the registration expired").

## Plan

What would come next:

1. WebhookRegistry composed with WebhookOutbox: registrations that expire or go while a
   post of theirs is pending.
2. The steps by which liveness of the outbox would follow, as far as they are safety:
   that every cycle of the worker brings a due row nearer to its end.
