---------------------------- MODULE WebhookOutbox ----------------------------
(***************************************************************************)
(* The durable webhook outbox: enqueue_event writes outbox rows in the     *)
(* transaction of the request that causes the event, and the worker of     *)
(* app.py claims them, posts them and records the outcome.                 *)
(*                                                                         *)
(* Requests and the worker hold the database-operation lock (holder) for   *)
(* all they do; a crash may come between any two of their steps.  The      *)
(* lock's queue and the reset that bypasses part of it are in              *)
(* DatabaseLock.                                                           *)
(*                                                                         *)
(* next_attempt_at appears as the queue dueQ: the pending rows whose time  *)
(* has come, in the order in which it came, which is the order claim_due   *)
(* reads them in.  A pending row outside dueQ is still backing off.        *)
(* posts, acks, fate, crashes and wipes are history.                       *)
(***************************************************************************)
EXTENDS Integers, Sequences, FiniteSets, SequencesExt

CONSTANTS
  Hooks,        \* webhook registrations
  Mutations,    \* changes that cause an event; each is attempted once
  Group,        \* Group[h]: hooks of one owner and URL share a delivery
  Wants,        \* Wants[h]: mutations that pass the filters of hook h
  Unavailable,  \* Unavailable[h]: those without a variable of its URL
  Limit,        \* rows claimed at once (20)
  MaxAttempts,  \* attempts before a row fails (6)
  MaxCrashes,   \* bound: crashes of the process
  MaxWipes      \* bound: resets and restores

Groups == {Group[h] : h \in Hooks}
Rows == Mutations \X Groups

ASSUME OutboxAssumption ==
  /\ IsFiniteSet(Hooks) /\ IsFiniteSet(Mutations)
  /\ Group \in [Hooks -> Groups]
  /\ Wants \in [Hooks -> SUBSET Mutations]
  /\ Unavailable \in [Hooks -> SUBSET Mutations]
  /\ Limit \in Nat \ {0} /\ MaxAttempts \in Nat \ {0}
  /\ MaxCrashes \in Nat /\ MaxWipes \in Nat

VARIABLES
  row,      \* the outbox: state and attempt_count of every row
  dueQ,     \* pending rows that are due, longest first
  hooks,    \* registrations that are enabled and have not expired
  fate,     \* fate[m]: "new", "open", "committed" or "rejected"
  holder,   \* who holds the operation lock
  txn,      \* rows added by the request in progress
  batch,    \* rows the worker claimed and has not finished
  reply,    \* outcome of the post of the first row of batch, or "none"
  snap,     \* the snapshot an administrator took, a set of at most one
  posts,    \* posts[r]: how often row r was posted
  acks,     \* acks[r]: how often its receiver answered 2xx
  crashes, wipes

vars == <<row, dueQ, hooks, fate, holder, txn, batch, reply, snap,
          posts, acks, crashes, wipes>>

outboxVars  == <<row, dueQ>>
workerVars  == <<batch, reply>>
historyVars == <<posts, acks, crashes, wipes>>

Absent == [state |-> "none", attempts |-> 0]

Init ==
  /\ row = [r \in Rows |-> Absent]
  /\ dueQ = <<>>
  /\ hooks = {}
  /\ fate = [m \in Mutations |-> "new"]
  /\ holder = "nobody" /\ txn = <<>>
  /\ batch = <<>> /\ reply = "none"
  /\ snap = {}
  /\ posts = [r \in Rows |-> 0] /\ acks = [r \in Rows |-> 0]
  /\ crashes = 0 /\ wipes = 0
-----------------------------------------------------------------------------
(* Requests.                                                               *)

BeginRequest ==
  /\ holder = "nobody"
  /\ holder' = "request"
  /\ UNCHANGED <<outboxVars, workerVars, historyVars, hooks, fate, txn, snap>>

\* The hooks that get an event for m.
Matching(m) == {h \in hooks : m \in Wants[h]}

\* Fault for Enqueue: the rows are committed by a session of their own.
EnqueueAtOnce(m) ==
  LET added == {<<m, Group[h]>> : h \in Matching(m)} IN
  /\ holder = "request" /\ fate[m] = "new"
  /\ \A h \in Matching(m) : m \notin Unavailable[h]
  /\ row' = [r \in Rows |-> IF r \in added
                              THEN [state |-> "pending", attempts |-> 0] ELSE row[r]]
  /\ fate' = [fate EXCEPT ![m] = "open"]
  /\ UNCHANGED <<dueQ, workerVars, historyVars, hooks, holder, txn, snap>>

\* enqueue_event: one row for each group of matching registrations.
Enqueue(m) ==
  /\ holder = "request" /\ fate[m] = "new"
  /\ \A h \in Matching(m) : m \notin Unavailable[h]
  /\ \E added \in SetToSeqs({<<m, Group[h]>> : h \in Matching(m)}) :
       txn' = txn \o added
  /\ fate' = [fate EXCEPT ![m] = "open"]
  /\ UNCHANGED <<outboxVars, workerVars, historyVars, hooks, holder, snap>>

\* The request is over without a commit.
Abandon(rejected) ==
  /\ holder' = "nobody" /\ txn' = <<>>
  /\ fate' = [m \in Mutations |->
                IF fate[m] = "open" \/ m \in rejected THEN "rejected" ELSE fate[m]]

\* _substitute raises: the whole request fails with the mutation it is for.
EnqueueRaises(m) ==
  /\ holder = "request" /\ fate[m] = "new"
  /\ \E h \in Matching(m) : m \in Unavailable[h]
  /\ Abandon({m})
  /\ UNCHANGED <<outboxVars, workerVars, historyVars, hooks, snap>>

RollbackRequest ==
  /\ holder = "request"
  /\ Abandon({})
  /\ UNCHANGED <<outboxVars, workerVars, historyVars, hooks, snap>>

CommitRequest ==
  /\ holder = "request"
  /\ row' = [r \in Rows |-> IF r \in ToSet(txn)
                              THEN [state |-> "pending", attempts |-> 0] ELSE row[r]]
  /\ dueQ' = dueQ \o txn
  /\ fate' = [m \in Mutations |-> IF fate[m] = "open" THEN "committed" ELSE fate[m]]
  /\ holder' = "nobody" /\ txn' = <<>>
  /\ UNCHANGED <<workerVars, historyVars, hooks, snap>>

\* Requests that touch registrations or the whole database.  Each has the
\* lock for its one transaction.
Register(h) ==
  /\ holder = "nobody" /\ hooks' = hooks \cup {h}
  /\ UNCHANGED <<outboxVars, workerVars, historyVars, fate, holder, txn, snap>>

\* Deleted or disabled.  Rows already enqueued keep their URL and payload.
Unregister(h) ==
  /\ holder = "nobody" /\ hooks' = hooks \ {h}
  /\ UNCHANGED <<outboxVars, workerVars, historyVars, fate, holder, txn, snap>>

\* A dynamic registration is thirty days old; nobody needs the lock for that.
Expire(h) ==
  /\ hooks' = hooks \ {h}
  /\ UNCHANGED <<outboxVars, workerVars, historyVars, fate, holder, txn, snap>>

TakeSnapshot ==
  /\ holder = "nobody" /\ wipes < MaxWipes
  /\ snap' = {[row |-> row, dueQ |-> dueQ, hooks |-> hooks]}
  /\ UNCHANGED <<outboxVars, workerVars, historyVars, hooks, fate, holder, txn>>

\* Registrations of the snapshot may have expired since.
BackTo(s) == row' = s.row /\ dueQ' = s.dueQ /\ hooks' \in SUBSET s.hooks

\* Fault for RestoreSnapshot: it does not wait for the lock.
RestoreUnlocked ==
  /\ wipes < MaxWipes
  /\ \E s \in snap : BackTo(s)
  /\ wipes' = wipes + 1
  /\ UNCHANGED <<workerVars, fate, holder, txn, snap, posts, acks, crashes>>

RestoreSnapshot ==
  /\ holder = "nobody" /\ wipes < MaxWipes
  /\ \E s \in snap : BackTo(s)
  /\ wipes' = wipes + 1
  /\ UNCHANGED <<workerVars, fate, holder, txn, snap, posts, acks, crashes>>

Reset ==
  /\ holder = "nobody" /\ wipes < MaxWipes
  /\ row' = [r \in Rows |-> Absent] /\ dueQ' = <<>> /\ hooks' = {}
  /\ wipes' = wipes + 1
  /\ UNCHANGED <<workerVars, fate, holder, txn, snap, posts, acks, crashes>>
-----------------------------------------------------------------------------
(* The worker, one action per database commit and one per post.            *)

Delivering == {r \in Rows : row[r].state = "delivering"}

\* Fault for WorkerRecover: rows a crash left in "delivering" stay there.
WorkerRecoverNothing ==
  /\ holder = "nobody" /\ holder' = "recovered"
  /\ UNCHANGED <<outboxVars, workerVars, historyVars, hooks, fate, txn, snap>>

\* Fault for WorkerRecover: failed rows are taken for interrupted ones.
WorkerRecoverFailed ==
  LET stale == {r \in Rows : row[r].state \in {"delivering", "failed"}} IN
  /\ holder = "nobody" /\ holder' = "recovered"
  /\ row' = [r \in Rows |-> IF r \in stale
                              THEN [row[r] EXCEPT !.state = "pending"] ELSE row[r]]
  /\ UNCHANGED <<dueQ, workerVars, historyVars, hooks, fate, txn, snap>>

\* The cycle starts: rows that a crash left in "delivering" are due again.
WorkerRecover ==
  /\ holder = "nobody" /\ holder' = "recovered"
  /\ row' = [r \in Rows |-> IF r \in Delivering
                              THEN [row[r] EXCEPT !.state = "pending"] ELSE row[r]]
  /\ \E stale \in SetToSeqs(Delivering) : dueQ' = dueQ \o stale
  /\ UNCHANGED <<workerVars, historyVars, hooks, fate, txn, snap>>

\* claim_due: the longest due rows, the attempt counted before it is made.
WorkerClaim ==
  LET n == IF Len(dueQ) < Limit THEN Len(dueQ) ELSE Limit
      claimed == SubSeq(dueQ, 1, n)
  IN
  /\ holder = "recovered" /\ holder' = "worker"
  /\ batch' = claimed
  /\ dueQ' = SubSeq(dueQ, n + 1, Len(dueQ))
  /\ row' = [r \in Rows |-> IF r \in ToSet(claimed)
               THEN [state |-> "delivering", attempts |-> row[r].attempts + 1]
               ELSE row[r]]
  /\ UNCHANGED <<reply, historyVars, hooks, fate, txn, snap>>

\* deliver_once.  "retry" is a timeout, a network error, 408, 409, 425, 429 or
\* 5xx; "permanent" any other answer outside 2xx.
WorkerPost ==
  /\ holder = "worker" /\ batch # <<>> /\ reply = "none"
  /\ reply' \in {"ok", "retry", "permanent"}
  /\ posts' = [posts EXCEPT ![Head(batch)] = @ + 1]
  /\ acks' = [acks EXCEPT ![Head(batch)] = IF reply' = "ok" THEN @ + 1 ELSE @]
  /\ UNCHANGED <<outboxVars, batch, hooks, fate, holder, txn, snap, crashes, wipes>>

\* Faults for Outcome: the bound is one off, or missing; the answer is not
\* looked at, or a retryable failure is taken for success.
OutcomeOneMore(r, answer) ==
  IF answer = "ok" THEN "delivered"
  ELSE IF answer = "permanent" \/ row[r].attempts > MaxAttempts THEN "failed" ELSE "pending"
OutcomeIgnoresAnswer(r, answer) ==
  IF row[r].attempts >= MaxAttempts THEN "failed" ELSE "pending"
OutcomeUnbounded(r, answer) ==
  CASE answer = "ok" -> "delivered"
    [] answer = "permanent" -> "failed"
    [] OTHER -> "pending"
OutcomeOptimistic(r, answer) ==
  IF answer = "permanent" THEN "failed" ELSE "delivered"

Outcome(r, answer) ==
  IF answer = "ok" THEN "delivered"
  ELSE IF answer = "permanent" \/ row[r].attempts >= MaxAttempts THEN "failed" ELSE "pending"

\* The outcome is recorded, unless the row is gone; a row that is pending
\* again backs off first.
WorkerRecord ==
  /\ holder = "worker" /\ batch # <<>> /\ reply # "none"
  /\ LET r == Head(batch) IN
       row' = IF row[r] = Absent THEN row
              ELSE [row EXCEPT ![r].state = Outcome(r, reply)]
  /\ batch' = Tail(batch) /\ reply' = "none"
  /\ UNCHANGED <<dueQ, historyVars, hooks, fate, holder, txn, snap>>

WorkerSleep ==
  /\ holder = "worker" /\ batch = <<>>
  /\ holder' = "nobody"
  /\ UNCHANGED <<outboxVars, workerVars, historyVars, hooks, fate, txn, snap>>

\* The backoff of r is over.
BecomeDue(r) ==
  /\ row[r].state = "pending" /\ r \notin ToSet(dueQ)
  /\ dueQ' = Append(dueQ, r)
  /\ UNCHANGED <<row, workerVars, historyVars, hooks, fate, holder, txn, snap>>

\* The process dies and is started again: the file stays, the request's
\* transaction and what the worker had in memory are gone.
Crash ==
  /\ crashes < MaxCrashes /\ crashes' = crashes + 1
  /\ batch' = <<>> /\ reply' = "none"
  /\ Abandon({})
  /\ UNCHANGED <<outboxVars, hooks, snap, posts, acks, wipes>>

Worker == WorkerRecover \/ WorkerClaim \/ WorkerPost \/ WorkerRecord \/ WorkerSleep

Next ==
  \/ Worker
  \/ BeginRequest \/ RollbackRequest \/ CommitRequest
  \/ TakeSnapshot \/ RestoreSnapshot \/ Reset \/ Crash
  \/ \E m \in Mutations : Enqueue(m) \/ EnqueueRaises(m)
  \/ \E h \in Hooks : Register(h) \/ Unregister(h) \/ Expire(h)
  \/ \E r \in Rows : BecomeDue(r)

Spec == Init /\ [][Next]_vars

\* The lock is first come, first served, so a worker that polls gets it (SF);
\* whoever holds it runs on, and backoffs end.
Fairness ==
  /\ SF_vars(WorkerRecover)
  /\ WF_vars(WorkerClaim \/ WorkerPost \/ WorkerRecord \/ WorkerSleep)
  /\ WF_vars(CommitRequest \/ RollbackRequest)
  /\ \A r \in Rows : WF_vars(BecomeDue(r))

FairSpec == Spec /\ Fairness
-----------------------------------------------------------------------------
(* Properties.                                                             *)

Settled(r) == row[r].state \in {"delivered", "failed"}

\* Every variable has its type; attempts are bounded by the limit and one more
\* for each crash, since a claim counts before the post it is for.
TypeOK ==
  /\ row \in [Rows -> [state : {"none", "pending", "delivering", "delivered", "failed"},
                       attempts : 0..MaxAttempts + MaxCrashes]]
  /\ dueQ \in Seq(Rows) /\ txn \in Seq(Rows) /\ batch \in Seq(Rows)
  /\ hooks \in SUBSET Hooks
  /\ fate \in [Mutations -> {"new", "open", "committed", "rejected"}]
  /\ holder \in {"nobody", "request", "recovered", "worker"}
  /\ reply \in {"none", "ok", "retry", "permanent"}
  /\ Cardinality(snap) <= 1
  /\ posts \in [Rows -> Nat] /\ acks \in [Rows -> Nat]
  /\ crashes \in 0..MaxCrashes /\ wipes \in 0..MaxWipes

\* What the worker holds in memory is what the database says it claimed: while
\* it delivers, the rows in "delivering" are exactly those of its batch, so the
\* rows it read before the posts are not stale when it records the outcomes.
BatchIsWhatIsDelivering ==
  holder = "worker" => Delivering = ToSet(batch) /\ IsInjective(batch)

\* Nothing is posted for a change that was rejected or is not committed yet.
OnlyCommittedChangesArePosted ==
  \A r \in Rows : posts[r] > 0 => fate[r[1]] = "committed"

\* A receiver that answered 2xx is not posted the same row again, unless a
\* crash lost the answer or an administrator went back in time.
AcknowledgedOnce == \A r \in Rows : acks[r] <= 1 + crashes + wipes

\* No row is posted more often than the limit allows, with one post more for
\* each crash and a fresh count after each restore.
PostsBounded ==
  \A r \in Rows : posts[r] <= MaxAttempts * (1 + wipes) + crashes

\* A delivered or failed row is never touched again, but by a reset or restore.
SettledForGood ==
  [][\A r \in Rows : Settled(r) /\ wipes' = wipes => row'[r] = row[r]]_vars

\* Every row of a committed change is delivered or failed some day, or wiped,
\* whatever happens to its registration, the receiver or the process.
EventuallySettled ==
  \A r \in Rows : row[r].state = "pending" ~> row[r].state \in {"delivered", "failed", "none"}

\* The outbox does what EventDelivery promises: every step is one of its steps
\* or a stutter, and what is owed does not stay owed.
Delivery == INSTANCE EventDelivery WITH
  Deliveries <- Rows,
  status <- [r \in Rows |-> IF row[r].state \in {"pending", "delivering"}
                              THEN "owed" ELSE row[r].state],
  accepted <- {r \in Rows : acks[r] > 0}

StepsImplement == Delivery!Init /\ [][Delivery!Next]_(Delivery!vars)

Implements == Delivery!Spec
=============================================================================
