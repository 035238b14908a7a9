------------------------------ MODULE IssueKeys ------------------------------
(***************************************************************************)
(* How the emulator allocates issue keys.                                  *)
(*                                                                         *)
(* A key is "<project>-<number>".  The number comes from the table         *)
(* issue_sequences, one row per project, which create_issue reads and      *)
(* advances with a single upsert; imports write issues under keys of their *)
(* own and then overwrite the row; deleting a project deletes the row.     *)
(*                                                                         *)
(* Sessions are SQLite connections.  Reads are not serialised, writes are: *)
(* the first write of a transaction takes SQLite's write lock (writer),    *)
(* the transaction works on its own image of the database, and COMMIT      *)
(* makes the image the committed database.  The allocation is written to   *)
(* be correct under overlapping sessions, so the operation lock of         *)
(* app.py is deliberately not assumed here (DatabaseLock models it).       *)
(*                                                                         *)
(* The fields ever, burnt and issued of a project are history: the numbers *)
(* its issues ever had, those reserved for an issue that was never         *)
(* inserted, and those create_issue reserved since the last import.        *)
(* Nothing in the code stores them; they commit and roll back with the     *)
(* rest of the image.                                                      *)
(***************************************************************************)
EXTENDS Integers, FiniteSets

CONSTANTS
  Projects,       \* project keys
  Sessions,       \* database sessions that may overlap
  ImportNumbers,  \* numbers that occur in imported issue keys
  MaxIssues,      \* bound: no create once a project used this many numbers
  NoSession       \* nobody holds SQLite's write lock

ASSUME NumbersAssumption ==
  /\ ImportNumbers \subseteq Nat \ {0}
  /\ MaxIssues \in Nat
  /\ NoSession \notin Sessions

VARIABLES
  committed,  \* the committed database: one record per project
  image,      \* the database as the writing transaction sees it
  writer,     \* the session that holds the write lock, or NoSession
  phase,      \* phase[s]: how far the operation of session s has come
  target,     \* target[s]: the project the create of session s resolved
  number,     \* number[s]: the number the create of session s reserved
  touched     \* projects named by the import in progress

vars == <<committed, image, writer, phase, target, number, touched>>

Phases == {"idle", "resolved", "reserved", "importing", "imported", "ready"}

\* next = 0 stands for "no row in issue_sequences".
ProjectState ==
  [exists : BOOLEAN, next : Nat, issues : SUBSET Nat,
   ever : SUBSET Nat, burnt : SUBSET Nat, issued : SUBSET Nat]

\* A project with sequence value n and no issues.
EmptyProject(exists, n) ==
  [exists |-> exists, next |-> n, issues |-> {},
   ever |-> {}, burnt |-> {}, issued |-> {}]

NoProject == EmptyProject(FALSE, 0)

\* A project as create_project, the seed and the configuration import leave it.
NewProject == EmptyProject(TRUE, 1)

\* A project row without its sequence row, as import_issue inserts it and as
\* an older database file may hold it.
BareProject == EmptyProject(TRUE, 0)

\* ps with an issue numbered n more, counted as issued if given by create.
WithIssue(ps, n, given) ==
  [exists |-> ps.exists, next |-> ps.next,
   issues |-> ps.issues \cup {n}, ever |-> ps.ever \cup {n}, burnt |-> ps.burnt,
   issued |-> IF given THEN ps.issued \cup {n} ELSE ps.issued]

\* ps with the reserved number n left without an issue.
WithoutIssue(ps, n) ==
  [exists |-> ps.exists, next |-> ps.next,
   issues |-> ps.issues, ever |-> ps.ever, burnt |-> ps.burnt \cup {n},
   issued |-> ps.issued \cup {n}]

\* The numbers ps ever used up.
Used(ps) == ps.ever \cup ps.burnt

\* ps with sequence value n and nothing issued yet.
WithSequence(ps, n) ==
  [exists |-> ps.exists, next |-> n,
   issues |-> ps.issues, ever |-> ps.ever, burnt |-> ps.burnt, issued |-> {}]
-----------------------------------------------------------------------------
(* Comparing keys of one project as strings, and as numbers.               *)

Digits(n) == CHOOSE w \in 1..9 : 10^(w - 1) <= n /\ n < 10^w

\* "P-a" <= "P-b" in SQLite's BINARY collation: digit by digit, a proper
\* prefix first.
LexLeq(a, b) ==
  IF Digits(a) <= Digits(b)
    THEN a * 10^(Digits(b) - Digits(a)) <= b
    ELSE a < b * 10^(Digits(a) - Digits(b))

\* func.max(Issue.key), then the number after the dash; 0 when there is none.
LexMax(S) ==
  LET tops == {m \in S : \A k \in S : LexLeq(k, m)}
  IN  IF tops = {} THEN 0 ELSE CHOOSE m \in tops : TRUE

\* h = COALESCE(MAX(CAST(SUBSTR(key, ...) AS INTEGER)), 0) over the issues S.
IsHighest(h, S) == h \in S \cup {0} /\ \A k \in S : k <= h

\* Faults for UpsertNumber: the row alone, as before the repair of stale rows;
\* the highest issue alone, as if the row were not kept.
RowOnlyNumber(ps, h) == IF ps.next > 0 THEN ps.next ELSE h + 1
HighestOnlyNumber(ps, h) == h + 1

\* The number the upsert returns when the highest existing one is h: the
\* sequence row if it is ahead, otherwise one past the highest issue.
UpsertNumber(ps, h) == IF ps.next > h + 1 THEN ps.next ELSE h + 1
-----------------------------------------------------------------------------
Init ==
  /\ committed \in [Projects -> {NoProject, NewProject, BareProject}]
  /\ image = committed
  /\ writer = NoSession
  /\ phase = [s \in Sessions |-> "idle"]
  /\ target \in [Sessions -> Projects]
  /\ number = [s \in Sessions |-> 0]
  /\ touched = {}

\* s has nothing open and may start a transaction with its first write.
StartsWriting(s) == phase[s] = "idle" /\ writer = NoSession /\ writer' = s

\* create_issue looks its project up; nothing is written yet.
ResolveProject(s, p) ==
  /\ phase[s] = "idle"
  /\ committed[p].exists
  /\ phase' = [phase EXCEPT ![s] = "resolved"]
  /\ target' = [target EXCEPT ![s] = p]
  /\ UNCHANGED <<committed, image, writer, number, touched>>

\* The upsert: one statement computes the number, advances the row and takes
\* the write lock.
ReserveKey(s) ==
  LET p == target[s] IN
  /\ phase[s] = "resolved"
  /\ writer = NoSession
  /\ committed[p].exists
  /\ Cardinality(Used(committed[p])) < MaxIssues
  /\ \E h \in committed[p].issues \cup {0} :
       LET n == UpsertNumber(committed[p], h) IN
       /\ IsHighest(h, committed[p].issues)
       /\ image' = [committed EXCEPT ![p].next = n + 1]
       /\ number' = [number EXCEPT ![s] = n]
  /\ writer' = s
  /\ phase' = [phase EXCEPT ![s] = "reserved"]
  /\ UNCHANGED <<committed, target, touched>>

\* The create is rejected before it writes: the issue type is unknown, or the
\* project went away after the lookup and the upsert violates its foreign key.
CreateRejected(s) ==
  /\ phase[s] = "resolved"
  /\ phase' = [phase EXCEPT ![s] = "idle"]
  /\ UNCHANGED <<committed, image, writer, target, number, touched>>

\* The issue row is inserted under the reserved number.
InsertIssue(s) ==
  LET p == target[s]
      n == number[s]
  IN
  /\ phase[s] = "reserved"
  /\ image' = [image EXCEPT ![p] = WithIssue(@, n, TRUE)]
  /\ phase' = [phase EXCEPT ![s] = "ready"]
  /\ UNCHANGED <<committed, writer, target, number, touched>>

\* create_issue finds no status for the new issue (no workflow, and no status
\* named "New") after the upsert.  create_issue_web answers the ValueError with
\* a page of its own, so get_db sees no exception and the reservation will be
\* committed; REST turns the error into an HTTPException, which is a Rollback.
CreateFailsInWeb(s) ==
  LET p == target[s]
      n == number[s]
  IN
  /\ phase[s] = "reserved"
  /\ image' = [image EXCEPT ![p] = WithoutIssue(@, n)]
  /\ phase' = [phase EXCEPT ![s] = "ready"]
  /\ UNCHANGED <<committed, writer, target, number, touched>>

\* delete_issue: the row goes, the sequence stays.
DeleteIssue(s, p, n) ==
  /\ StartsWriting(s)
  /\ n \in committed[p].issues
  /\ image' = [committed EXCEPT ![p].issues = @ \ {n}]
  /\ phase' = [phase EXCEPT ![s] = "ready"]
  /\ UNCHANGED <<committed, target, number, touched>>

\* create_project: refused when the key is taken.
CreateProject(s, p) ==
  /\ StartsWriting(s)
  /\ ~committed[p].exists
  /\ image' = [committed EXCEPT ![p] = NewProject]
  /\ phase' = [phase EXCEPT ![s] = "ready"]
  /\ UNCHANGED <<committed, target, number, touched>>

\* delete_project: issues, sequence and project row together.
DeleteProject(s, p) ==
  /\ StartsWriting(s)
  /\ committed[p].exists
  /\ image' = [committed EXCEPT ![p] = NoProject]
  /\ phase' = [phase EXCEPT ![s] = "ready"]
  /\ UNCHANGED <<committed, target, number, touched>>

\* The import transaction is open, or is opened by its first write.
Importing(s) ==
  /\ \/ StartsWriting(s)
     \/ phase[s] = "importing" /\ UNCHANGED writer
  /\ phase' = [phase EXCEPT ![s] = "importing"]

ImportView(s) == IF phase[s] = "idle" THEN committed ELSE image

\* import_issue for "p-n": find or create the project, insert or update.
ImportIssue(s, p, n) ==
  LET ps == IF ImportView(s)[p].exists THEN ImportView(s)[p] ELSE BareProject IN
  /\ Importing(s)
  /\ image' = [ImportView(s) EXCEPT ![p] = WithIssue(ps, n, FALSE)]
  /\ touched' = touched \cup {p}
  /\ UNCHANGED <<committed, target, number>>

\* import_issue rejects the issue before it looks anything up; the key still
\* counts when the sequences are rewritten.
ImportRejected(s, p) ==
  /\ Importing(s)
  /\ image' = ImportView(s)
  /\ touched' = touched \cup {p}
  /\ UNCHANGED <<committed, target, number>>

\* Fault for ImportedState: the greatest number is decremented.
ImportedStateOffByOne(ps) == WithSequence(ps, LexMax(ps.issues) - 1)

\* The end of import_issues: the row of every project named in the batch is
\* set from the greatest key, greatest as a string.
ImportedState(ps) == WithSequence(ps, LexMax(ps.issues) + 1)

ImportFinish(s) ==
  /\ phase[s] = "importing"
  /\ image' = [p \in Projects |->
                 IF p \in touched /\ image[p].exists
                   THEN ImportedState(image[p]) ELSE image[p]]
  /\ phase' = [phase EXCEPT ![s] = "imported"]
  /\ UNCHANGED <<committed, writer, target, number, touched>>

EndsTransaction(s) ==
  /\ writer' = NoSession
  /\ phase' = [phase EXCEPT ![s] = "idle"]
  /\ touched' = {}
  /\ number' = [number EXCEPT ![s] = 0]
  /\ UNCHANGED target

Commit(s) ==
  /\ phase[s] \in {"ready", "imported"}
  /\ committed' = image
  /\ UNCHANGED image
  /\ EndsTransaction(s)

\* Fault for Rollback: the sequence row is advanced outside the transaction.
RollbackKeepsSequence(s) ==
  /\ phase[s] \in {"reserved", "ready", "importing", "imported"}
  /\ committed' = [p \in Projects |->
                     [committed[p] EXCEPT !.next = image[p].next]]
  /\ image' = committed'
  /\ EndsTransaction(s)

\* An exception anywhere after the first write that reaches get_db: it rolls
\* back.
Rollback(s) ==
  /\ phase[s] \in {"reserved", "ready", "importing", "imported"}
  /\ image' = committed
  /\ UNCHANGED committed
  /\ EndsTransaction(s)

Next ==
  \E s \in Sessions :
    \/ ReserveKey(s) \/ CreateRejected(s)
    \/ InsertIssue(s) \/ CreateFailsInWeb(s)
    \/ ImportFinish(s) \/ Commit(s) \/ Rollback(s)
    \/ \E p \in Projects :
         \/ ResolveProject(s, p)
         \/ CreateProject(s, p) \/ DeleteProject(s, p)
         \/ ImportRejected(s, p)
         \/ \E n \in ImportNumbers : ImportIssue(s, p, n)
         \/ \E n \in committed[p].issues : DeleteIssue(s, p, n)

Spec == Init /\ [][Next]_vars
-----------------------------------------------------------------------------
(* Properties.                                                             *)

\* Every variable has its type.
TypeOK ==
  /\ committed \in [Projects -> ProjectState]
  /\ image \in [Projects -> ProjectState]
  /\ writer \in Sessions \cup {NoSession}
  /\ phase \in [Sessions -> Phases]
  /\ target \in [Sessions -> Projects]
  /\ number \in [Sessions -> Nat]
  /\ touched \in SUBSET Projects

\* The reserved number is free: no issue of the project has it, neither in
\* the transaction's image nor in the committed database, and no other
\* session holds a reservation of it.  The INSERT therefore never fails on
\* UNIQUE issues.key, whatever was imported, deleted or rolled back before.
ReservationFresh ==
  \A s \in Sessions : phase[s] = "reserved" =>
    /\ number[s] \notin image[target[s]].issues
    /\ number[s] \notin committed[target[s]].issues
    /\ \A t \in Sessions \ {s} :
         ~(phase[t] = "reserved" /\ target[t] = target[s] /\ number[t] = number[s])

\* A number that create_issue reserved, and committed, is not handed out a
\* second time after its issue was deleted or was never inserted, as long as no
\* import rewrote the sequence in between.
NoReissue ==
  \A s \in Sessions :
    phase[s] = "reserved" => number[s] \notin image[target[s]].issued

\* Every gap has a cause, and a rollback is none: the number before a reserved
\* one was at some time the number of an issue of the project, or a creation by
\* the web form that failed after its reservation has committed it.  Rejected,
\* rolled-back and overlapping creates and deletions skip no number, and after
\* an import the numbers go on from one the project had.
GapsAreFailedForms ==
  \A s \in Sessions : phase[s] = "reserved" =>
    \/ number[s] = 1
    \/ number[s] - 1 \in Used(image[target[s]])

\* The comment at import_service.py:909 and SPECIFICATION.md:1360: after an
\* import the sequence is one past the maximum issue number of the project.
ImportSetsNextPastMaximum ==
  \A s \in Sessions : phase[s] = "imported" =>
    \A p \in touched : image[p].exists =>
      \A n \in image[p].issues : n < image[p].next
-----------------------------------------------------------------------------
(* The inductive invariant behind these properties (IssueKeysProofs).      *)

\* What every project satisfies between operations: the sequence row is one
\* past a number the project used, and past every number handed out.
ProjectOK(ps) ==
  /\ ~ps.exists => ps = NoProject
  /\ ps.issues \subseteq ps.ever
  /\ \A n \in ps.issued : n < ps.next
  /\ ps.next \in {0, 1} \/ ps.next - 1 \in Used(ps)

\* What the upsert established about the number n reserved in project p.
Reservation(p, n) ==
  /\ committed[p].exists
  /\ image = [committed EXCEPT ![p].next = n + 1]
  /\ n = 1 \/ n - 1 \in Used(committed[p])
  /\ \A k \in committed[p].issues \cup committed[p].issued : k < n

IndInv ==
  /\ TypeOK
  /\ \A p \in Projects : ProjectOK(committed[p])
  /\ \A s \in Sessions : phase[s] \notin {"idle", "resolved"} => writer = s
  /\ \A s \in Sessions : phase[s] \in {"importing", "imported", "ready"} =>
       \A p \in Projects : ProjectOK(image[p])
  /\ \A s \in Sessions : phase[s] = "reserved" => Reservation(target[s], number[s])
=============================================================================
