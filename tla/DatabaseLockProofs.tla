-------------------------- MODULE DatabaseLockProofs --------------------------
(***************************************************************************)
(* Proofs about DatabaseLock: the lock serialises sessions, the worker and *)
(* destructive operations, and no answer precedes its commit, for any      *)
(* clients of any kinds, any authentication and any number of crashes.     *)
(*                                                                         *)
(* LockExcludes is not inductive: it does not know that whoever works is   *)
(* still in the queue, nor that tables are missing only while somebody     *)
(* drops them.  IndInv adds the queue's side of it (QueueOK, HolderOK),    *)
(* what each place in a handler implies (PlacesOK), where tables may be    *)
(* missing (TablesOK) and what a committed handler leaves (CommitsOK).     *)
(***************************************************************************)
EXTENDS DatabaseLock, TLAPS

\* Places reached by holding the lock, and those of an actor in the queue.
DropPlaces == {"dropping", "dropped", "created", "seeding"}
Busy == {"open", "wrote", "restoring", "committed", "claimed"} \cup DropPlaces
InLine == Busy \cup {"queued"}

Queued(a) == \E i \in DOMAIN lockQ : lockQ[i] = a

QueueOK == \A a \in Actors : pc[a] \in InLine <=> Queued(a)

HolderOK == \A a \in Actors : pc[a] \in Busy => Holds(a)

\* Which places the handler of an actor has.
Fits(a, p) ==
  IF a = Worker THEN p \in {"idle", "queued", "claimed"}
  ELSE /\ p # "claimed"
       /\ p = "wrote" => Kind[a] = "request"
       /\ p \in {"open", "restoring"} => ~Resets(a)
       /\ p = "restoring" => Kind[a] = "restore"
       /\ p \in DropPlaces => Resets(a)

PlacesOK == \A a \in Actors : Fits(a, pc[a])

\* Tables are missing only while a reset is between two of its statements, or
\* before the process that crashed in one is started again.
TablesOK ==
  up /\ (\A c \in Clients : pc[c] \notin {"dropping", "dropped"})
    => db.parents # "absent" /\ db.children # "absent"

CommitsOK ==
  \A c \in Clients : pc[c] = "committed" =>
    IF Kind[c] = "request" THEN c \in db.data
    ELSE db = [SeededDb EXCEPT !.data = db.data]

DownOK == ~up => lockQ = <<>> /\ \A a \in Actors : pc[a] = "idle"

IndInv ==
  /\ TypeOK /\ QueueOK /\ HolderOK /\ PlacesOK /\ TablesOK /\ CommitsOK /\ DownOK
-----------------------------------------------------------------------------
(* The queue.                                                              *)

QueueTyped ==
  /\ lockQ \in Seq(Actors)
  /\ \A i, j \in DOMAIN lockQ : lockQ[i] = lockQ[j] => i = j

\* Two actors that are at work are one: both are the head of the queue.
LEMMA OneBusy ==
  ASSUME HolderOK, NEW a \in Actors, NEW b \in Actors, pc[a] \in Busy, pc[b] \in Busy
  PROVE  a = b
  BY DEF HolderOK, Holds

\* a goes on where it is, in the queue or outside it.
LEMMA StayOK ==
  ASSUME QueueTyped, QueueOK, HolderOK, pc \in [Actors -> Places],
         NEW a \in Actors, NEW p \in Places, Goto(a, p), UNCHANGED lockQ,
         p \in InLine <=> pc[a] \in InLine,
         p \in Busy => Holds(a)
  PROVE  QueueTyped' /\ QueueOK' /\ HolderOK'
  BY DEF QueueTyped, QueueOK, HolderOK, Goto, Queued, Holds

\* a, which is not in the queue yet, joins it at its end.
LEMMA JoinOK ==
  ASSUME QueueTyped, QueueOK, HolderOK, pc \in [Actors -> Places],
         NEW a \in Actors, Goto(a, "queued"), Queue(a), pc[a] \notin InLine
  PROVE  QueueTyped' /\ QueueOK' /\ HolderOK'
<1>1. lockQ' \in Seq(Actors) /\ Len(lockQ') = Len(lockQ) + 1
  BY DEF QueueTyped, Queue
<1>2. DOMAIN lockQ = 1..Len(lockQ) /\ DOMAIN lockQ' = 1..Len(lockQ) + 1 /\ Len(lockQ) \in Nat
  BY <1>1 DEF QueueTyped
<1>3. /\ \A i \in DOMAIN lockQ : lockQ'[i] = lockQ[i]
      /\ lockQ'[Len(lockQ) + 1] = a
  BY <1>2 DEF QueueTyped, Queue
<1>4. ~Queued(a)
  BY DEF QueueOK
<1>5. QueueTyped'
  BY <1>1, <1>2, <1>3, <1>4 DEF QueueTyped, Queued
<1>6. \A b \in Actors : Queued(b)' <=> Queued(b) \/ b = a
  BY <1>2, <1>3 DEF Queued
<1>7. QueueOK'
  BY <1>6 DEF QueueOK, Goto, InLine, Busy, DropPlaces
<1>8. HolderOK'
  <2>. SUFFICES ASSUME NEW b \in Actors, pc'[b] \in Busy PROVE Holds(b)'
    BY DEF HolderOK
  <2>1. b # a /\ Holds(b)
    BY DEF HolderOK, Goto, Busy, DropPlaces
  <2>. QED
    BY <2>1, <1>1, <1>2, <1>3 DEF Holds, QueueTyped
<1>. QED
  BY <1>5, <1>7, <1>8

\* a, which holds the lock, lets go and is out of the queue.
LEMMA LeaveOK ==
  ASSUME QueueTyped, QueueOK, HolderOK, pc \in [Actors -> Places],
         NEW a \in Actors, NEW p \in Places, Goto(a, p), Release(a), pc[a] \in Busy, p \notin InLine
  PROVE  QueueTyped' /\ QueueOK' /\ HolderOK'
<1>1. lockQ # <<>> /\ Head(lockQ) = a
  BY DEF HolderOK, Holds
<1>2. lockQ' \in Seq(Actors) /\ Len(lockQ') = Len(lockQ) - 1 /\ Len(lockQ) \in Nat \ {0}
  BY <1>1 DEF QueueTyped, Release
<1>3. DOMAIN lockQ = 1..Len(lockQ) /\ DOMAIN lockQ' = 1..Len(lockQ) - 1 /\ lockQ[1] = a
  BY <1>1, <1>2 DEF QueueTyped
<1>4. \A i \in DOMAIN lockQ' : i + 1 \in DOMAIN lockQ /\ lockQ'[i] = lockQ[i + 1]
  BY <1>1, <1>2, <1>3 DEF QueueTyped, Release
<1>5. QueueTyped'
  BY <1>2, <1>3, <1>4 DEF QueueTyped
<1>6. \A b \in Actors : Queued(b)' <=> Queued(b) /\ b # a
  <2>. TAKE b \in Actors
  <2>1. Queued(b)' => Queued(b) /\ b # a
    BY <1>2, <1>3, <1>4 DEF Queued, QueueTyped
  <2>2. ASSUME Queued(b), b # a PROVE Queued(b)'
    <3>1. PICK i \in DOMAIN lockQ : lockQ[i] = b
      BY <2>2 DEF Queued
    <3>2. i - 1 \in DOMAIN lockQ' /\ lockQ'[i - 1] = b
      BY <3>1, <2>2, <1>2, <1>3, <1>4
    <3>. QED
      BY <3>2 DEF Queued
  <2>. QED
    BY <2>1, <2>2
<1>7. QueueOK'
  BY <1>6 DEF QueueOK, Goto
<1>8. HolderOK'
  <2>. SUFFICES ASSUME NEW b \in Actors, pc'[b] \in Busy PROVE FALSE
    BY DEF HolderOK
  <2>1. b # a /\ pc[b] \in Busy
    BY DEF Goto, InLine
  <2>. QED
    BY <2>1, OneBusy
<1>. QED
  BY <1>5, <1>7, <1>8
-----------------------------------------------------------------------------
(* One actor's step, from what it does to the queue, the place and the     *)
(* database.                                                               *)

QueueStep(a, p) ==
  \/ UNCHANGED lockQ /\ (p \in InLine <=> pc[a] \in InLine) /\ (p \in Busy => Holds(a))
  \/ Queue(a) /\ p = "queued" /\ pc[a] \notin InLine
  \/ Release(a) /\ pc[a] \in Busy /\ p \notin InLine

LEMMA StepOK ==
  ASSUME IndInv, NEW a \in Actors, NEW p \in Places, up,
         Goto(a, p), QueueStep(a, p), Fits(a, p),
         sql' \in Actors \cup {"free"},
         answer' \in [Clients -> {"none", "ok", "error"}],
         db' \in Database, UNCHANGED <<up, crashes>>,
         TablesOK', CommitsOK'
  PROVE  IndInv'
<1>1. QueueTyped /\ pc \in [Actors -> Places] /\ QueueOK /\ HolderOK
  BY DEF IndInv, TypeOK, QueueTyped
<1>2. QueueTyped' /\ QueueOK' /\ HolderOK'
  <2>1. CASE UNCHANGED lockQ /\ (p \in InLine <=> pc[a] \in InLine) /\ (p \in Busy => Holds(a))
    BY <2>1, <1>1, StayOK
  <2>2. CASE Queue(a) /\ p = "queued" /\ pc[a] \notin InLine
    BY <2>2, <1>1, JoinOK
  <2>3. CASE Release(a) /\ pc[a] \in Busy /\ p \notin InLine
    BY <2>3, <1>1, LeaveOK
  <2>. QED
    BY <2>1, <2>2, <2>3 DEF QueueStep
<1>3. TypeOK'
  BY <1>1, <1>2 DEF IndInv, TypeOK, QueueTyped, Goto
<1>4. PlacesOK'
  BY <1>1 DEF IndInv, PlacesOK, Goto
<1>. QED
  BY <1>2, <1>3, <1>4 DEF IndInv, DownOK

\* A committed handler's promise holds on when the database keeps it.
LEMMA CommitsKept ==
  ASSUME CommitsOK, pc \in [Actors -> Places], NEW a \in Actors, NEW p \in Places \ {"committed"},
         Goto(a, p), UNCHANGED db
  PROVE  CommitsOK'
  BY DEF CommitsOK, Goto, Actors

\* Who holds the lock is alone, so only its own promise counts.
LEMMA CommitsAlone ==
  ASSUME HolderOK, pc \in [Actors -> Places], NEW c \in Clients, NEW p \in Places,
         Holds(c), Goto(c, p),
         p = "committed" =>
           IF Kind[c] = "request" THEN c \in db'.data
           ELSE db' = [SeededDb EXCEPT !.data = db'.data]
  PROVE  CommitsOK'
  BY DEF CommitsOK, HolderOK, Holds, Goto, Actors, Busy

LEMMA TablesKept ==
  ASSUME TablesOK, pc \in [Actors -> Places], NEW a \in Actors, NEW p,
         Goto(a, p), UNCHANGED up, pc[a] \notin {"dropping", "dropped"},
         db'.parents = db.parents, db'.children = db.children
  PROVE  TablesOK'
  BY DEF TablesOK, Goto, Actors
-----------------------------------------------------------------------------
(* Each action preserves IndInv.                                           *)

LEMMA InitOK == Init => IndInv
  BY LockAssumption DEF Init, IndInv, TypeOK, Places, QueueOK, Queued, HolderOK, InLine, Busy,
     DropPlaces, PlacesOK, Fits, TablesOK, CommitsOK, DownOK, SeededDb, Database, Actors

\* Steps that stay in or out of the queue and leave the database alone.
LEMMA QuietStepOK ==
  ASSUME IndInv, NEW a \in Actors, NEW p \in Places \ {"committed"}, up,
         Goto(a, p), QueueStep(a, p), Fits(a, p), pc[a] \notin {"dropping", "dropped"},
         sql' \in Actors \cup {"free"},
         answer' \in [Clients -> {"none", "ok", "error"}],
         UNCHANGED <<db, up, crashes>>
  PROVE  IndInv'
<1>1. pc \in [Actors -> Places] /\ db' \in Database
  BY DEF IndInv, TypeOK
<1>2. CommitsOK'
  BY <1>1, CommitsKept DEF IndInv
<1>3. TablesOK'
  BY <1>1, TablesKept DEF IndInv
<1>. QED
  BY <1>1, <1>2, <1>3, StepOK

LEMMA ArriveOK ==
  ASSUME IndInv, NEW c \in Clients, Arrive(c) PROVE IndInv'
<1>. DEFINE p == IF Kind[c] = "reset" THEN "auth" ELSE "queued"
<1>1. c \in Actors /\ p \in Places /\ c # Worker
  BY LockAssumption DEF Actors, Places
<1>2. up /\ pc[c] = "idle" /\ Goto(c, p) /\ pc \in [Actors -> Places]
  BY DEF Arrive, At, LoopRuns, IndInv, TypeOK
<1>3. QueueStep(c, p)
  BY <1>2 DEF Arrive, QueueStep, InLine, Busy, DropPlaces
<1>4. db' \in Database /\ db'.parents = db.parents /\ db'.children = db.children
  BY DEF Arrive, IndInv, TypeOK, Database
<1>5. TablesOK'
  BY <1>1, <1>2, <1>4, TablesKept DEF Arrive, IndInv
<1>6. CommitsOK'
  BY <1>1, <1>2 DEF Arrive, IndInv, TypeOK, Database, CommitsOK, Goto, Actors, SeededDb
<1>7. answer' \in [Clients -> {"none", "ok", "error"}] /\ sql' \in Actors \cup {"free"}
  BY DEF Arrive, Reply, IndInv, TypeOK
<1>. QED
  BY <1>1, <1>2, <1>3, <1>4, <1>5, <1>6, <1>7, StepOK DEF Arrive, Fits, DropPlaces

LEMMA SessionOK ==
  ASSUME IndInv, NEW c \in Clients,
         OpenSession(c) \/ Write(c) \/ BeginRestore(c) \/ RollbackRequest(c) \/ Answer(c)
  PROVE  IndInv'
<1>1. c \in Actors /\ c # Worker /\ pc \in [Actors -> Places] /\ Fits(c, pc[c])
  BY LockAssumption DEF Actors, IndInv, TypeOK, PlacesOK
<1>2. pc[c] \in Busy => Holds(c)
  BY <1>1 DEF IndInv, HolderOK
<1>3. sql \in Actors \cup {"free"} /\ answer \in [Clients -> {"none", "ok", "error"}]
  BY DEF IndInv, TypeOK
<1>4. CASE OpenSession(c)
  <2>1. Goto(c, "open") /\ pc[c] = "queued" /\ QueueStep(c, "open") /\ Fits(c, "open")
    BY <1>1, <1>4 DEF OpenSession, At, QueueStep, InLine, Busy, DropPlaces, Fits
  <2>. QED
    BY <1>1, <1>3, <1>4, <2>1, QuietStepOK DEF OpenSession, At, LoopRuns, Places
<1>5. CASE Write(c)
  <2>1. Goto(c, "wrote") /\ pc[c] = "open" /\ QueueStep(c, "wrote") /\ Fits(c, "wrote")
    BY <1>1, <1>2, <1>5 DEF Write, At, QueueStep, InLine, Busy, DropPlaces, Fits
  <2>. QED
    BY <1>1, <1>3, <1>5, <2>1, QuietStepOK DEF Write, At, LoopRuns, Places
<1>6. CASE BeginRestore(c)
  <2>1. Goto(c, "restoring") /\ pc[c] = "open" /\ QueueStep(c, "restoring") /\ Fits(c, "restoring")
    BY <1>1, <1>2, <1>6 DEF BeginRestore, At, QueueStep, InLine, Busy, DropPlaces, Fits, Resets
  <2>. QED
    BY <1>1, <1>3, <1>6, <2>1, QuietStepOK DEF BeginRestore, At, LoopRuns, Places
<1>7. CASE RollbackRequest(c) \/ Answer(c)
  <2>1. Goto(c, "idle") /\ pc[c] \in {"open", "wrote", "committed"}
        /\ QueueStep(c, "idle") /\ Fits(c, "idle")
    BY <1>1, <1>7 DEF RollbackRequest, Answer, Finish, At, QueueStep, InLine, Busy, DropPlaces, Fits
  <2>2. answer' \in [Clients -> {"none", "ok", "error"}] /\ sql' \in Actors \cup {"free"}
    BY <1>3, <1>7 DEF RollbackRequest, Answer, Finish, Reply, EndSql
  <2>. QED
    BY <1>1, <1>7, <2>1, <2>2, QuietStepOK DEF RollbackRequest, Answer, At, LoopRuns, Places
<1>. QED
  BY <1>4, <1>5, <1>6, <1>7

\* Steps of the holder that leave another database.
LEMMA HolderStepOK ==
  ASSUME IndInv, NEW c \in Clients, NEW p \in Busy, up, Holds(c), pc[c] \in InLine,
         Goto(c, p), Fits(c, p), UNCHANGED <<lockQ, answer, up, crashes>>,
         sql' \in Actors \cup {"free"}, db' \in Database,
         p \notin {"dropping", "dropped"}
           => db'.parents # "absent" /\ db'.children # "absent",
         p = "committed" =>
           IF Kind[c] = "request" THEN c \in db'.data
           ELSE db' = [SeededDb EXCEPT !.data = db'.data]
  PROVE  IndInv'
<1>1. c \in Actors /\ p \in Places /\ pc \in [Actors -> Places] /\ HolderOK
  BY DEF Actors, Places, Busy, DropPlaces, IndInv, TypeOK
<1>2. CommitsOK'
  BY <1>1, CommitsAlone
<1>3. TablesOK'
  BY <1>1 DEF TablesOK, Goto
<1>4. QueueStep(c, p)
  BY DEF QueueStep, InLine
<1>. QED
  BY <1>1, <1>2, <1>3, <1>4, StepOK DEF IndInv, TypeOK

\* Nobody drops tables while another has the lock.
LEMMA TablesThere ==
  ASSUME IndInv, NEW c \in Clients, up, Holds(c), pc[c] \notin {"dropping", "dropped"}
  PROVE  db.parents # "absent" /\ db.children # "absent"
<1>1. \A b \in Clients : pc[b] \notin {"dropping", "dropped"}
  BY DEF IndInv, HolderOK, Holds, Actors, Busy, DropPlaces
<1>. QED
  BY <1>1 DEF IndInv, TablesOK

LEMMA CommitOK ==
  ASSUME IndInv, NEW c \in Clients, CommitRequest(c) \/ FinishRestore(c) \/ SeedCommit(c)
  PROVE  IndInv'
<1>1. c \in Actors /\ c # Worker /\ pc \in [Actors -> Places] /\ Fits(c, pc[c])
  BY LockAssumption DEF Actors, IndInv, TypeOK, PlacesOK
<1>2. pc[c] \in Busy => Holds(c)
  BY <1>1 DEF IndInv, HolderOK
<1>3. sql \in Actors \cup {"free"} /\ answer \in [Clients -> {"none", "ok", "error"}] /\ db \in Database
  BY DEF IndInv, TypeOK
<1>4. /\ pc[c] \in Busy /\ Holds(c) /\ Goto(c, "committed") /\ up
      /\ "committed" \in Busy /\ Fits(c, "committed")
  BY <1>1, <1>2 DEF CommitRequest, FinishRestore, SeedCommit, At, LoopRuns, Busy, DropPlaces, Fits
<1>5. sql' \in Actors \cup {"free"} /\ UNCHANGED <<lockQ, answer, up, crashes>>
  BY <1>3 DEF CommitRequest, FinishRestore, SeedCommit, EndSql
<1>6. CASE CommitRequest(c)
  <2>1. /\ Kind[c] = "request" /\ db' \in Database /\ c \in db'.data
        /\ db'.parents = db.parents /\ db'.children = db.children
    BY <1>1, <1>3, <1>6 DEF CommitRequest, At, Fits, Database
  <2>2. db.parents # "absent" /\ db.children # "absent"
    BY <1>4, <1>6, TablesThere DEF CommitRequest, At
  <2>. QED
    BY <1>4, <1>5, <2>1, <2>2, HolderStepOK DEF InLine
<1>7. CASE FinishRestore(c) \/ SeedCommit(c)
  <2>1. Kind[c] # "request" /\ db' = SeededDb
    BY <1>1, <1>7 DEF FinishRestore, SeedCommit, At, Fits, DropPlaces, Resets
  <2>2. /\ db' \in Database /\ db' = [SeededDb EXCEPT !.data = db'.data]
        /\ db'.parents # "absent" /\ db'.children # "absent"
    BY <2>1 DEF SeededDb, Database
  <2>. QED
    BY <1>4, <1>5, <2>1, <2>2, HolderStepOK DEF InLine
<1>. QED
  BY <1>6, <1>7

LEMMA AuthOK ==
  ASSUME IndInv, NEW c \in Clients, AuthFails(c) \/ AuthWrite(c) \/ AuthDone(c)
  PROVE  IndInv'
<1>1. c \in Actors /\ c # Worker /\ pc \in [Actors -> Places] /\ Fits(c, pc[c])
  BY LockAssumption DEF Actors, IndInv, TypeOK, PlacesOK
<1>2. pc[c] \in Busy => Holds(c)
  BY <1>1 DEF IndInv, HolderOK
<1>3. sql \in Actors \cup {"free"} /\ answer \in [Clients -> {"none", "ok", "error"}] /\ db \in Database
  BY DEF IndInv, TypeOK
<1>4. CASE AuthFails(c)
  <2>1. Goto(c, "idle") /\ pc[c] = "auth" /\ QueueStep(c, "idle") /\ Fits(c, "idle")
    BY <1>1, <1>4 DEF AuthFails, At, QueueStep, InLine, Busy, DropPlaces, Fits
  <2>. QED
    BY <1>1, <1>3, <1>4, <2>1, QuietStepOK DEF AuthFails, At, LoopRuns, Reply, Places
<1>5. CASE AuthWrite(c)
  <2>1. Goto(c, "authWrote") /\ pc[c] = "auth" /\ QueueStep(c, "authWrote") /\ Fits(c, "authWrote")
    BY <1>1, <1>5 DEF AuthWrite, At, QueueStep, InLine, Busy, DropPlaces, Fits
  <2>. QED
    BY <1>1, <1>3, <1>5, <2>1, QuietStepOK DEF AuthWrite, At, LoopRuns, Places
<1>6. CASE AuthDone(c)
  <2>1. /\ up /\ pc[c] \in {"auth", "authWrote"} /\ Goto(c, "queued")
        /\ QueueStep(c, "queued") /\ Fits(c, "queued") /\ "queued" \in Places
    BY <1>1, <1>6 DEF AuthDone, LoopRuns, QueueStep, InLine, Busy, DropPlaces, Fits, Places
  <2>2. /\ db' \in Database /\ db'.parents = db.parents /\ db'.children = db.children
        /\ db'.data = db.data /\ (db.admin => db'.admin)
    BY <1>3, <1>6 DEF AuthDone, Database
  <2>3. TablesOK'
    BY <1>1, <1>6, <2>1, <2>2, TablesKept DEF IndInv, AuthDone
  <2>4. CommitsOK'
    BY <1>1, <1>3, <2>1, <2>2 DEF IndInv, CommitsOK, Goto, Actors, SeededDb, Database
  <2>. QED
    BY <1>1, <1>3, <1>6, <2>1, <2>2, <2>3, <2>4, StepOK DEF AuthDone, EndSql
<1>. QED
  BY <1>4, <1>5, <1>6

LEMMA ResetOK ==
  ASSUME IndInv, NEW c \in Clients,
         DropChildren(c) \/ DropParents(c) \/ CreateTables(c) \/ Seed(c) \/ SeedFails(c)
  PROVE  IndInv'
<1>1. c \in Actors /\ c # Worker /\ pc \in [Actors -> Places] /\ Fits(c, pc[c])
  BY LockAssumption DEF Actors, IndInv, TypeOK, PlacesOK
<1>2. pc[c] \in Busy => Holds(c)
  BY <1>1 DEF IndInv, HolderOK
<1>3. sql \in Actors \cup {"free"} /\ answer \in [Clients -> {"none", "ok", "error"}] /\ db \in Database
  BY DEF IndInv, TypeOK
<1>4. CASE DropChildren(c)
  <2>1. db' \in Database /\ Goto(c, "dropping") /\ "dropping" \in Busy
    BY <1>3, <1>4 DEF DropChildren, Database, Busy, DropPlaces
  <2>. QED
    BY <1>1, <1>3, <1>4, <2>1, HolderStepOK
       DEF DropChildren, At, LoopRuns, InLine, Fits
<1>5. CASE DropParents(c)
  <2>1. db' \in Database /\ Goto(c, "dropped") /\ pc[c] \in Busy /\ "dropped" \in Busy
    BY <1>3, <1>5 DEF DropParents, At, Database, Busy, DropPlaces
  <2>. QED
    BY <1>1, <1>2, <1>3, <1>5, <2>1, HolderStepOK
       DEF DropParents, At, LoopRuns, InLine, Fits, DropPlaces
<1>6. CASE CreateTables(c)
  <2>1. /\ db' \in Database /\ db'.parents = "empty" /\ db'.children = "empty"
        /\ Goto(c, "created") /\ pc[c] \in Busy /\ "created" \in Busy
    BY <1>3, <1>6 DEF CreateTables, At, Database, Busy, DropPlaces
  <2>. QED
    BY <1>1, <1>2, <1>3, <1>6, <2>1, HolderStepOK
       DEF CreateTables, At, LoopRuns, InLine, Fits, DropPlaces
<1>7. CASE Seed(c)
  <2>1. Goto(c, "seeding") /\ pc[c] = "created" /\ QueueStep(c, "seeding") /\ Fits(c, "seeding")
    BY <1>1, <1>2, <1>7 DEF Seed, At, QueueStep, InLine, Busy, DropPlaces, Fits
  <2>. QED
    BY <1>1, <1>3, <1>7, <2>1, QuietStepOK DEF Seed, At, LoopRuns, Places
<1>8. CASE SeedFails(c)
  <2>1. Goto(c, "idle") /\ pc[c] = "created" /\ QueueStep(c, "idle") /\ Fits(c, "idle")
    BY <1>1, <1>8 DEF SeedFails, Finish, At, QueueStep, InLine, Busy, DropPlaces, Fits
  <2>. QED
    BY <1>1, <1>3, <1>8, <2>1, QuietStepOK DEF SeedFails, Finish, Reply, At, LoopRuns, Places
<1>. QED
  BY <1>4, <1>5, <1>6, <1>7, <1>8

LEMMA WorkerOK ==
  ASSUME IndInv, WorkerProgress PROVE IndInv'
<1>1. Worker \in Actors /\ pc \in [Actors -> Places]
  BY DEF Actors, IndInv, TypeOK
<1>2. pc[Worker] \in Busy => Holds(Worker)
  BY <1>1 DEF IndInv, HolderOK
<1>3. sql \in Actors \cup {"free"} /\ answer \in [Clients -> {"none", "ok", "error"}]
  BY DEF IndInv, TypeOK
<1>4. CASE WorkerPoll
  <2>1. Goto(Worker, "queued") /\ pc[Worker] = "idle" /\ QueueStep(Worker, "queued")
    BY <1>4 DEF WorkerPoll, At, QueueStep, InLine, Busy, DropPlaces
  <2>. QED
    BY <1>1, <1>3, <1>4, <2>1, QuietStepOK DEF WorkerPoll, At, LoopRuns, Places, Fits
<1>5. CASE WorkerClaim
  <2>1. Goto(Worker, "claimed") /\ pc[Worker] = "queued" /\ QueueStep(Worker, "claimed")
    BY <1>5 DEF WorkerClaim, At, QueueStep, InLine, Busy, DropPlaces
  <2>. QED
    BY <1>1, <1>3, <1>5, <2>1, QuietStepOK DEF WorkerClaim, At, LoopRuns, Places, Fits
<1>6. CASE WorkerFinish
  <2>1. Goto(Worker, "idle") /\ pc[Worker] = "claimed" /\ QueueStep(Worker, "idle")
    BY <1>6 DEF WorkerFinish, At, QueueStep, InLine, Busy, DropPlaces
  <2>. QED
    BY <1>1, <1>3, <1>6, <2>1, QuietStepOK DEF WorkerFinish, At, LoopRuns, Places, Fits
<1>. QED
  BY <1>4, <1>5, <1>6 DEF WorkerProgress

LEMMA CrashOK ==
  ASSUME IndInv, Crash PROVE IndInv'
<1>1. TypeOK'
  <2>1. crashes' \in 0..MaxCrashes /\ lockQ' \in Seq(Actors) /\ DOMAIN lockQ' = {}
    BY LockAssumption DEF IndInv, TypeOK, Crash
  <2>2. pc' \in [Actors -> Places] /\ answer' \in [Clients -> {"none", "ok", "error"}]
    BY DEF Crash, Places
  <2>. QED
    BY <2>1, <2>2 DEF IndInv, TypeOK, Crash
<1>2. \A a \in Actors : pc'[a] = "idle"
  BY DEF Crash
<1>3. QueueOK' /\ HolderOK' /\ DownOK'
  BY <1>2 DEF Crash, QueueOK, Queued, HolderOK, DownOK, InLine, Busy, DropPlaces
<1>4. PlacesOK' /\ TablesOK' /\ CommitsOK'
  BY <1>2 DEF Crash, PlacesOK, Fits, DropPlaces, TablesOK, CommitsOK, Actors
<1>. QED
  BY <1>1, <1>3, <1>4 DEF IndInv

LEMMA StartupOK ==
  ASSUME IndInv, Startup PROVE IndInv'
<1>1. db' \in Database /\ db'.parents # "absent" /\ db'.children # "absent"
  BY DEF IndInv, TypeOK, Startup, Database, SeededDb
<1>2. TypeOK' /\ QueueOK' /\ HolderOK' /\ PlacesOK' /\ DownOK'
  BY <1>1 DEF IndInv, TypeOK, Startup, QueueOK, Queued, HolderOK, Holds, PlacesOK, DownOK
<1>3. CommitsOK'
  BY DEF IndInv, DownOK, Startup, CommitsOK, Actors
<1>. QED
  BY <1>1, <1>2, <1>3 DEF IndInv, TablesOK

LEMMA StutterOK ==
  ASSUME IndInv, UNCHANGED vars PROVE IndInv'
  BY DEF vars, IndInv, TypeOK, QueueOK, Queued, HolderOK, Holds, PlacesOK, TablesOK,
     CommitsOK, DownOK

LEMMA NextOK ==
  ASSUME IndInv, [Next]_vars PROVE IndInv'
<1>1. CASE UNCHANGED vars
  BY <1>1, StutterOK
<1>2. ASSUME NEW c \in Clients, Arrive(c) \/ RollbackRequest(c) \/ Progress(c) PROVE IndInv'
  BY <1>2, ArriveOK, SessionOK, CommitOK, AuthOK, ResetOK DEF Progress
<1>. QED
  BY <1>1, <1>2, WorkerOK, CrashOK, StartupOK DEF Next

\* IndInv holds in every reachable state.
LEMMA Inductive == Spec => []IndInv
  BY InitOK, NextOK, PTL DEF Spec
-----------------------------------------------------------------------------
(* The theorems.                                                           *)

\* Every variable has its type and nobody queues twice, whoever the clients are.
THEOREM TypeCorrect == Spec => []TypeOK
<1>1. IndInv => TypeOK
  BY DEF IndInv
<1>. QED
  BY <1>1, Inductive, PTL

\* What makes a session safe: its actor is the head of the queue, nobody else is
\* past it, and every table is there.
LEMMA IndInvExcludes == IndInv => LockExcludes
<1>. SUFFICES ASSUME IndInv, NEW a \in Actors, Working(a)
              PROVE  /\ Holds(a)
                     /\ \A b \in Actors \ {a} : pc[b] \in {"idle", "auth", "authWrote", "queued"}
                     /\ db.parents # "absent" /\ db.children # "absent"
  BY DEF LockExcludes
<1>1. pc \in [Actors -> Places] /\ pc[a] \in Busy /\ Holds(a)
  BY DEF IndInv, TypeOK, HolderOK, Working, Busy
<1>2. \A b \in Actors \ {a} : pc[b] \notin Busy
  BY <1>1, OneBusy DEF IndInv
<1>3. \A b \in Actors \ {a} : pc[b] \in {"idle", "auth", "authWrote", "queued"}
  BY <1>1, <1>2 DEF Busy, DropPlaces, Places
<1>4. up
  BY <1>1 DEF IndInv, DownOK, Holds
<1>5. db.parents # "absent" /\ db.children # "absent"
  BY <1>3, <1>4 DEF IndInv, TablesOK, Actors, Working
<1>. QED
  BY <1>1, <1>3, <1>5

\* The lock of DatabaseOperationMiddleware, the resets and the worker serialises
\* them all, although a reset authenticates outside it and restarts come anywhere.
THEOREM LockIsExclusive == Spec => []LockExcludes
  BY Inductive, IndInvExcludes, PTL

\* No step takes tables or seed data from under an actor at work.
THEOREM SessionsUndisturbed == Spec => NothingChangesUnderASession
<1>1. ASSUME IndInv, Next, NEW a \in Actors, Working(a), pc'[a] = pc[a]
      PROVE  db' = [db EXCEPT !.admin = db'.admin, !.data = db'.data]
  <2>1. /\ pc \in [Actors -> Places] /\ db \in Database /\ pc[a] \in Busy /\ Holds(a)
        /\ \A b \in Actors \ {a} : pc[b] \notin Busy /\ ~Holds(b)
    BY <1>1, OneBusy DEF IndInv, TypeOK, HolderOK, Holds, Working, Busy
  <2>2. up
    BY <1>1, <2>1 DEF IndInv, DownOK, Holds
  <2>3. CASE UNCHANGED db
    BY <2>1, <2>3 DEF Database
  <2>4. ASSUME NEW c \in Clients, Arrive(c) \/ CommitRequest(c) \/ AuthDone(c)
        PROVE  db' = [db EXCEPT !.admin = db'.admin, !.data = db'.data]
    BY <2>1, <2>4 DEF Arrive, CommitRequest, AuthDone, Database
  <2>5. ASSUME NEW c \in Clients,
               FinishRestore(c) \/ SeedCommit(c) \/ DropParents(c) \/ CreateTables(c)
        PROVE  FALSE
    <3>1. pc[c] \in Busy /\ c \in Actors /\ pc'[c] # pc[c]
      BY <2>1, <2>5 DEF FinishRestore, SeedCommit, DropParents, CreateTables, At, Goto, Busy,
         DropPlaces, Actors
    <3>. QED
      BY <1>1, <2>1, <3>1
  <2>6. ASSUME NEW c \in Clients, DropChildren(c) PROVE FALSE
    <3>1. Holds(c) /\ pc[c] = "queued" /\ c \in Actors
      BY <2>6 DEF DropChildren, At, Actors
    <3>. QED
      BY <2>1, <3>1 DEF Busy, DropPlaces
  <2>7. CASE Crash
    BY <2>7, <2>3 DEF Crash
  <2>8. ~Startup
    BY <2>2 DEF Startup
  <2>9. ASSUME NEW c \in Clients,
               \/ RollbackRequest(c) \/ OpenSession(c) \/ Write(c) \/ Answer(c)
               \/ BeginRestore(c) \/ AuthFails(c) \/ AuthWrite(c) \/ Seed(c) \/ SeedFails(c)
        PROVE  UNCHANGED db
    BY <2>9 DEF RollbackRequest, OpenSession, Write, Answer, BeginRestore, AuthFails, AuthWrite,
       Seed, SeedFails
  <2>10. WorkerProgress => UNCHANGED db
    BY DEF WorkerProgress, WorkerPoll, WorkerClaim, WorkerFinish
  <2>. QED
    BY <1>1, <2>3, <2>4, <2>5, <2>6, <2>7, <2>8, <2>9, <2>10 DEF Next, Progress
<1>2. ASSUME IndInv, UNCHANGED vars, NEW a \in Actors
      PROVE  db' = [db EXCEPT !.admin = db'.admin, !.data = db'.data]
  BY <1>2 DEF IndInv, TypeOK, Database, vars
<1>3. IndInv /\ [Next]_vars =>
        [\A a \in Actors : Working(a) /\ pc'[a] = pc[a] =>
           db' = [db EXCEPT !.admin = db'.admin, !.data = db'.data]]_vars
  BY <1>1, <1>2
<1>. QED
  BY <1>3, Inductive, PTL DEF Spec, NothingChangesUnderASession

\* An "ok" means what it says: the change is committed, the database is the
\* seeded or the restored one.
THEOREM AnswersAreTrue == Spec => AnswerIsCommitted
<1>1. ASSUME IndInv, [Next]_vars, NEW c \in Clients, answer'[c] = "ok", answer[c] # "ok"
      PROVE  IF Kind[c] = "request" THEN c \in db'.data
             ELSE db' = [SeededDb EXCEPT !.data = db'.data]
  <2>1. answer \in [Clients -> {"none", "ok", "error"}]
    BY <1>1 DEF IndInv, TypeOK
  <2>2. ASSUME NEW b \in Clients,
               \/ Arrive(b) \/ RollbackRequest(b) \/ AuthFails(b) \/ SeedFails(b)
        PROVE  FALSE
    BY <1>1, <2>1, <2>2 DEF Arrive, RollbackRequest, AuthFails, SeedFails, Finish, Reply
  <2>3. ASSUME NEW b \in Clients,
               \/ OpenSession(b) \/ Write(b) \/ CommitRequest(b) \/ BeginRestore(b)
               \/ FinishRestore(b) \/ AuthWrite(b) \/ AuthDone(b) \/ DropChildren(b)
               \/ DropParents(b) \/ CreateTables(b) \/ Seed(b) \/ SeedCommit(b)
        PROVE  UNCHANGED answer
    BY <2>3 DEF OpenSession, Write, CommitRequest, BeginRestore, FinishRestore, AuthWrite,
       AuthDone, DropChildren, DropParents, CreateTables, Seed, SeedCommit
  <2>4. WorkerProgress \/ Startup \/ UNCHANGED vars => UNCHANGED answer
    BY DEF WorkerProgress, WorkerPoll, WorkerClaim, WorkerFinish, Startup, vars
  <2>5. ~Crash
    BY <1>1 DEF Crash
  <2>6. PICK b \in Clients : Answer(b)
    BY <1>1, <2>2, <2>3, <2>4, <2>5 DEF Next, Progress
  <2>7. b = c /\ pc[c] = "committed" /\ UNCHANGED db
    BY <1>1, <2>1, <2>6 DEF Answer, At, Finish, Reply
  <2>. QED
    BY <1>1, <2>7 DEF IndInv, CommitsOK
<1>2. IndInv /\ [Next]_vars =>
        [\A c \in Clients : answer'[c] = "ok" /\ answer[c] # "ok" =>
           IF Kind[c] = "request" THEN c \in db'.data
           ELSE db' = [SeededDb EXCEPT !.data = db'.data]]_vars
  BY <1>1
<1>. QED
  BY <1>2, Inductive, PTL DEF Spec, AnswerIsCommitted
=============================================================================
