----------------------------- MODULE DatabaseLock -----------------------------
(***************************************************************************)
(* The database-operation lock: who waits for it, what is done under it,   *)
(* and what a destructive reset or an in-place restore does to the others. *)
(*                                                                         *)
(* Three things serialise the process: the asyncio lock (lockQ, first      *)
(* come, first served), SQLite's write lock (sql), and the event loop      *)
(* itself, which restore_snapshot blocks because it is not a coroutine.    *)
(* A request's session is opened, used and committed under the asyncio     *)
(* lock.  POST /api/admin/reset alone authenticates in a session of its    *)
(* own before it queues.                                                   *)
(*                                                                         *)
(* DDL is not transactional under pysqlite, so a reset passes through      *)
(* databases without tables and without rows.  parents stands for the      *)
(* tables others refer to, projects and users among them, children for     *)
(* those dropped before: issues, sequences, workflow assignments.          *)
(***************************************************************************)
EXTENDS Integers, Sequences, FiniteSets

CONSTANTS
  Clients,       \* each sends one request after the other
  Kind,          \* Kind[c] in {"request", "restore", "reset", "webReset"}
  AuthWrites,    \* clients whose authentication writes: a Bearer token's
                 \* last_used_at, or a user unknown so far
  CreatesAdmin,  \* resets that authenticate as DEFAULT_USER, created if missing
  Worker,        \* the webhook worker
  MaxCrashes     \* bound: crashes of the process

ASSUME LockAssumption ==
  /\ Kind \in [Clients -> {"request", "restore", "reset", "webReset"}]
  /\ AuthWrites \subseteq Clients /\ CreatesAdmin \subseteq Clients
  /\ Worker \notin Clients
  /\ MaxCrashes \in Nat

Actors == Clients \cup {Worker}
Resets(c) == Kind[c] \in {"reset", "webReset"}

VARIABLES
  lockQ,   \* the asyncio lock: its head holds it, the others wait
  sql,     \* who has SQLite's write lock, or "free"
  pc,      \* how far each actor is
  answer,  \* answer[c]: the answer to the latest request of c
  db,      \* the committed database
  up,      \* the process runs
  crashes  \* history

vars == <<lockQ, sql, pc, answer, db, up, crashes>>

\* data is the set of clients whose latest write the database holds.
Database ==
  [parents : {"absent", "empty", "full"}, children : {"absent", "empty", "full"},
   admin : BOOLEAN, data : SUBSET Clients]

SeededDb == [parents |-> "full", children |-> "full", admin |-> TRUE, data |-> {}]

Init ==
  /\ lockQ = <<>> /\ sql = "free"
  /\ pc = [a \in Actors |-> "idle"]
  /\ answer = [c \in Clients |-> "none"]
  /\ db = SeededDb
  /\ up = TRUE /\ crashes = 0
-----------------------------------------------------------------------------
\* The event loop turns unless a restore blocks it.
LoopRuns == up /\ \A c \in Clients : pc[c] # "restoring"

Holds(a) == lockQ # <<>> /\ Head(lockQ) = a
Queue(a) == lockQ' = Append(lockQ, a)

\* Fault for Release: the last to come is served next.
ReleaseToLast(a) ==
  lockQ' = IF Len(lockQ) = 1 THEN <<>>
           ELSE <<lockQ[Len(lockQ)]>> \o SubSeq(lockQ, 2, Len(lockQ) - 1)

\* asyncio.Lock wakes its waiters in the order they came.
Release(a) == lockQ' = Tail(lockQ)

\* Step a from one place to the next, waiting for SQLite's lock where it writes.
At(a, place) == LoopRuns /\ pc[a] = place
Goto(a, place) == pc' = [pc EXCEPT ![a] = place]
MayWrite(a) == sql \in {"free", a}
Reply(c, what) == answer' = [answer EXCEPT ![c] = what]

\* c is done: its answer goes out and the lock is released.
Finish(c, what) == Goto(c, "idle") /\ Reply(c, what) /\ Release(c)

EndSql(a) == sql' = IF sql = a THEN "free" ELSE sql
-----------------------------------------------------------------------------
(* Requests under DatabaseOperationMiddleware.                             *)

\* Every path but /api/admin/reset queues for the lock first.
Arrive(c) ==
  /\ At(c, "idle")
  /\ IF Kind[c] = "reset" THEN Goto(c, "auth") /\ UNCHANGED lockQ
                          ELSE Goto(c, "queued") /\ Queue(c)
  /\ Reply(c, "none")
  /\ db' = [db EXCEPT !.data = @ \ {c}]
  /\ UNCHANGED <<sql, up, crashes>>

\* Fault for OpenSession: the middleware does not take the lock.
OpenSessionUnlocked(c) ==
  /\ At(c, "queued") /\ ~Resets(c)
  /\ IF c \in AuthWrites THEN sql = "free" /\ sql' = c ELSE UNCHANGED sql
  /\ Goto(c, "open")
  /\ UNCHANGED <<lockQ, answer, db, up, crashes>>

\* get_db opens the session, get_current_user authenticates in it.
OpenSession(c) ==
  /\ At(c, "queued") /\ Holds(c) /\ ~Resets(c)
  /\ IF c \in AuthWrites THEN sql = "free" /\ sql' = c ELSE UNCHANGED sql
  /\ Goto(c, "open")
  /\ UNCHANGED <<lockQ, answer, db, up, crashes>>

Write(c) ==
  /\ At(c, "open") /\ Kind[c] = "request" /\ MayWrite(c)
  /\ sql' = c
  /\ Goto(c, "wrote")
  /\ UNCHANGED <<lockQ, answer, db, up, crashes>>

\* get_db is declared with scope="function": the commit precedes the answer.
CommitRequest(c) ==
  /\ At(c, "wrote")
  /\ db' = [db EXCEPT !.data = @ \cup {c}]
  /\ EndSql(c) /\ Goto(c, "committed")
  /\ UNCHANGED <<lockQ, answer, up, crashes>>

\* The handler raises: rollback, then an error answer.
RollbackRequest(c) ==
  /\ LoopRuns /\ pc[c] \in {"open", "wrote"}
  /\ EndSql(c) /\ Finish(c, "error")
  /\ UNCHANGED <<db, up, crashes>>

\* Fault for Answer: the commit runs after the response, as it did with
\* request-scoped sessions.
AnswerFirst(c) ==
  /\ LoopRuns /\ pc[c] \in {"wrote", "committed"}
  /\ EndSql(c) /\ Finish(c, "ok")
  /\ UNCHANGED <<db, up, crashes>>

\* call_next returns when the response starts; the middleware lets go.
Answer(c) ==
  /\ At(c, "committed")
  /\ EndSql(c) /\ Finish(c, "ok")
  /\ UNCHANGED <<db, up, crashes>>

\* restore_snapshot is called: nothing else of the process runs until it ends.
BeginRestore(c) ==
  /\ At(c, "open") /\ Kind[c] = "restore"
  /\ Goto(c, "restoring")
  /\ UNCHANGED <<lockQ, sql, answer, db, up, crashes>>

\* The backup API retries until no connection has the write lock.
FinishRestore(c) ==
  /\ up /\ pc[c] = "restoring" /\ sql = "free"
  /\ db' = SeededDb
  /\ Goto(c, "committed")
  /\ UNCHANGED <<lockQ, sql, answer, up, crashes>>
-----------------------------------------------------------------------------
(* Resets.                                                                 *)

\* _authenticate_reset_request, outside the lock: 401, or no users table.
AuthFails(c) ==
  /\ At(c, "auth")
  /\ Goto(c, "idle") /\ Reply(c, "error")
  /\ UNCHANGED <<lockQ, sql, db, up, crashes>>

NeedsWrite(c) == c \in AuthWrites \/ (c \in CreatesAdmin /\ ~db.admin)

AuthWrite(c) ==
  /\ At(c, "auth") /\ db.parents # "absent" /\ NeedsWrite(c)
  /\ sql = "free" /\ sql' = c
  /\ Goto(c, "authWrote")
  /\ UNCHANGED <<lockQ, answer, db, up, crashes>>

\* The session commits and closes; only then does the reset queue.
AuthDone(c) ==
  /\ LoopRuns
  /\ \/ pc[c] = "authWrote"
     \/ pc[c] = "auth" /\ db.parents # "absent" /\ ~NeedsWrite(c)
  /\ db' = [db EXCEPT !.admin = @ \/ c \in CreatesAdmin]
  /\ EndSql(c) /\ Queue(c) /\ Goto(c, "queued")
  /\ UNCHANGED <<answer, up, crashes>>

\* Fault for DropChildren: the reset does not wait for the lock.
DropChildrenUnlocked(c) ==
  /\ At(c, "queued") /\ Resets(c) /\ MayWrite(c)
  /\ db' = [db EXCEPT !.children = "absent", !.data = {}]
  /\ Goto(c, "dropping")
  /\ UNCHANGED <<lockQ, sql, answer, up, crashes>>

\* drop_all, children first, every DROP committed by itself.
DropChildren(c) ==
  /\ At(c, "queued") /\ Holds(c) /\ Resets(c) /\ MayWrite(c)
  /\ db' = [db EXCEPT !.children = "absent", !.data = {}]
  /\ Goto(c, "dropping")
  /\ UNCHANGED <<lockQ, sql, answer, up, crashes>>

DropParents(c) ==
  /\ At(c, "dropping") /\ MayWrite(c)
  /\ db' = [db EXCEPT !.parents = "absent", !.admin = FALSE]
  /\ Goto(c, "dropped")
  /\ UNCHANGED <<lockQ, sql, answer, up, crashes>>

CreateTables(c) ==
  /\ At(c, "dropped") /\ MayWrite(c)
  /\ db' = [db EXCEPT !.parents = "empty", !.children = "empty"]
  /\ Goto(c, "created")
  /\ UNCHANGED <<lockQ, sql, answer, up, crashes>>

\* load_seed_data is one transaction that inserts the admin user.
Seed(c) ==
  /\ At(c, "created") /\ MayWrite(c) /\ ~db.admin
  /\ sql' = c
  /\ Goto(c, "seeding")
  /\ UNCHANGED <<lockQ, answer, db, up, crashes>>

SeedCommit(c) ==
  /\ At(c, "seeding")
  /\ db' = SeededDb
  /\ EndSql(c) /\ Goto(c, "committed")
  /\ UNCHANGED <<lockQ, answer, up, crashes>>

\* Fault for SeedFails: the failure is swallowed.
SeedFailsQuietly(c) ==
  /\ At(c, "created") /\ MayWrite(c) /\ db.admin
  /\ Finish(c, "ok")
  /\ UNCHANGED <<sql, db, up, crashes>>

\* The admin user exists already: IntegrityError, nothing is seeded.
SeedFails(c) ==
  /\ At(c, "created") /\ MayWrite(c) /\ db.admin
  /\ Finish(c, "error")
  /\ UNCHANGED <<sql, db, up, crashes>>
-----------------------------------------------------------------------------
(* The webhook worker, and the process itself.                             *)

WorkerPoll ==
  /\ At(Worker, "idle")
  /\ Goto(Worker, "queued") /\ Queue(Worker)
  /\ UNCHANGED <<sql, answer, db, up, crashes>>

WorkerClaim ==
  /\ At(Worker, "queued") /\ Holds(Worker) /\ MayWrite(Worker)
  /\ Goto(Worker, "claimed")
  /\ UNCHANGED <<lockQ, sql, answer, db, up, crashes>>

\* Fault for WorkerFinish: the lock is kept while the worker sleeps.
WorkerFinishKeepsLock ==
  /\ At(Worker, "claimed") /\ MayWrite(Worker)
  /\ Goto(Worker, "idle")
  /\ UNCHANGED <<lockQ, sql, answer, db, up, crashes>>

WorkerFinish ==
  /\ At(Worker, "claimed") /\ MayWrite(Worker)
  /\ Goto(Worker, "idle") /\ Release(Worker)
  /\ UNCHANGED <<sql, answer, db, up, crashes>>

\* Transactions that were open are gone; every statement of DDL that ran stays.
Crash ==
  /\ up /\ crashes < MaxCrashes
  /\ up' = FALSE /\ crashes' = crashes + 1
  /\ lockQ' = <<>> /\ sql' = "free"
  /\ pc' = [a \in Actors |-> "idle"]
  /\ answer' = [c \in Clients |-> "none"]
  /\ UNCHANGED db

\* lifespan: create the tables that are missing, seed if there is no project.
\* A failure to seed is logged and the server starts.
Startup ==
  /\ ~up /\ up' = TRUE
  /\ db' = IF db.parents = "full"
             THEN [db EXCEPT !.children = IF @ = "absent" THEN "empty" ELSE @]
           ELSE IF db.admin
             THEN [db EXCEPT !.parents = "empty", !.children = "empty"]
           ELSE SeededDb
  /\ UNCHANGED <<lockQ, sql, pc, answer, crashes>>

\* What c does by itself once it has arrived.
Progress(c) ==
  \/ OpenSession(c) \/ Write(c) \/ CommitRequest(c) \/ Answer(c)
  \/ BeginRestore(c) \/ FinishRestore(c)
  \/ AuthFails(c) \/ AuthWrite(c) \/ AuthDone(c)
  \/ DropChildren(c) \/ DropParents(c) \/ CreateTables(c)
  \/ Seed(c) \/ SeedCommit(c) \/ SeedFails(c)

WorkerProgress == WorkerPoll \/ WorkerClaim \/ WorkerFinish

Next ==
  \/ \E c \in Clients : Arrive(c) \/ RollbackRequest(c) \/ Progress(c)
  \/ WorkerProgress
  \/ Crash \/ Startup

Spec == Init /\ [][Next]_vars

\* The event loop runs every ready coroutine before it runs one again, so an
\* actor that can go on, however often a restore blocks the loop in between,
\* does (SF).  The process is started again; nobody has to arrive.
Fairness ==
  /\ \A c \in Clients : SF_vars(Progress(c))
  /\ WF_vars(WorkerProgress) /\ WF_vars(Startup)

FairSpec == Spec /\ Fairness
-----------------------------------------------------------------------------
(* Properties.                                                             *)

Places ==
  {"idle", "auth", "authWrote", "queued", "open", "wrote", "restoring", "committed",
   "dropping", "dropped", "created", "seeding", "claimed"}

Working(a) == pc[a] \in {"open", "wrote", "restoring", "claimed"}

\* Every variable has its type, and nobody queues twice.
TypeOK ==
  /\ lockQ \in Seq(Actors)
  /\ \A i, j \in DOMAIN lockQ : lockQ[i] = lockQ[j] => i = j
  /\ sql \in Actors \cup {"free"}
  /\ pc \in [Actors -> Places]
  /\ answer \in [Clients -> {"none", "ok", "error"}]
  /\ db \in Database
  /\ up \in BOOLEAN /\ crashes \in 0..MaxCrashes

\* The lock serialises: at most one actor works on the database, nobody works
\* while a reset has it between two statements of DDL, and no table is missing.
LockExcludes ==
  \A a \in Actors : Working(a) =>
    /\ Holds(a)
    /\ \A b \in Actors \ {a} : pc[b] \in {"idle", "auth", "authWrote", "queued"}
    /\ db.parents # "absent" /\ db.children # "absent"

\* While an actor works, nobody else changes what it reads, except that a reset
\* that waits may have added its user.
NothingChangesUnderASession ==
  [][\A a \in Actors : Working(a) /\ pc'[a] = pc[a] =>
       db' = [db EXCEPT !.admin = db'.admin, !.data = db'.data]]_vars

\* When "ok" goes out, what it says is committed: a write is in the database, a
\* reset or a restore has left the database it promised.
AnswerIsCommitted ==
  [][\A c \in Clients : answer'[c] = "ok" /\ answer[c] # "ok" =>
       IF Kind[c] = "request" THEN c \in db'.data
       ELSE db' = [SeededDb EXCEPT !.data = db'.data]]_vars

\* Who queues is served, whatever the others do: no deadlock between the three
\* locks, and neither clients nor worker starve.
EveryoneIsServed == \A a \in Actors : pc[a] # "idle" ~> pc[a] = "idle"
-----------------------------------------------------------------------------
(* What the documents say and the code does not do.                        *)

\* docs/bugs/snapshot-restore-never-applies-in-k3s.md:37: the restore happens
\* synchronously, and the restored data is live when the call returns.
RestoreReturns == \A c \in Clients : pc[c] = "restoring" ~> pc[c] # "restoring"

\* admin.py:229: a reset drops all tables, recreates and reseeds them.
ResetReseeds ==
  [][\A c \in Clients : Resets(c) /\ pc[c] # "auth" /\ pc'[c] = "idle" /\ up' =>
       pc[c] = "idle" \/ db'.parents = "full"]_vars

\* README.md:88: the server starts with its seed data, projects, issue types
\* and workflows.
StartsWithSeedData ==
  [][~up /\ up' => db'.parents = "full" /\ db'.children = "full"]_vars
=============================================================================
