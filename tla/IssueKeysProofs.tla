--------------------------- MODULE IssueKeysProofs ---------------------------
(***************************************************************************)
(* Proofs about IssueKeys: the allocator never hands out a taken or an     *)
(* already issued number, and only failed web forms leave gaps, for any    *)
(* projects, sessions, imported keys and bounds.                           *)
(*                                                                         *)
(* The invariant IndInv carries the proof.  Its heart is ProjectOK: the    *)
(* sequence row is one past some number the project used.  Between the     *)
(* upsert and the INSERT that is not true of the writer's image, so the    *)
(* phase "reserved" has a clause of its own, Reservation.                  *)
(***************************************************************************)
EXTENDS IssueKeys, TLAPS

\* The number read off the lexically greatest key is a number of the project
\* or 0, whatever the order on keys is.
LEMMA LexMaxIsKey ==
  ASSUME NEW S \in SUBSET Nat
  PROVE  LexMax(S) \in S \cup {0}
  BY DEF LexMax

\* What an import leaves behind is a project state that satisfies ProjectOK.
LEMMA ImportedStateOK ==
  ASSUME NEW ps \in ProjectState, ps.exists, ProjectOK(ps)
  PROVE  /\ ImportedState(ps) \in ProjectState
         /\ ProjectOK(ImportedState(ps))
<1>1. ps.issues \in SUBSET Nat
  BY DEF ProjectState
<1>2. LexMax(ps.issues) \in ps.issues \cup {0}
  BY <1>1, LexMaxIsKey
<1>3. LexMax(ps.issues) \in Nat
  BY <1>1, <1>2
<1>. QED
  BY <1>2, <1>3 DEF ImportedState, WithSequence, ProjectState, ProjectOK, Used

\* The states a project can start from are well formed.
LEMMA EmptyProjectsOK ==
  /\ NoProject \in ProjectState /\ ProjectOK(NoProject)
  /\ NewProject \in ProjectState /\ ProjectOK(NewProject)
  /\ BareProject \in ProjectState /\ ProjectOK(BareProject)
  BY DEF NoProject, NewProject, BareProject, EmptyProject, ProjectState, ProjectOK

\* Inserting an imported issue keeps an existing project well formed.
LEMMA ImportedIssueOK ==
  ASSUME NEW ps \in ProjectState, ProjectOK(ps), ps.exists, NEW n \in Nat
  PROVE  /\ WithIssue(ps, n, FALSE) \in ProjectState
         /\ ProjectOK(WithIssue(ps, n, FALSE))
  BY DEF WithIssue, ProjectState, ProjectOK, Used

\* The number the upsert computes is past every existing and every issued
\* number, and follows one the project used.
LEMMA UpsertNumberOK ==
  ASSUME NEW ps \in ProjectState, ProjectOK(ps),
         NEW h \in ps.issues \cup {0}, IsHighest(h, ps.issues)
  PROVE  /\ UpsertNumber(ps, h) \in Nat
         /\ \A k \in ps.issues \cup ps.issued : k < UpsertNumber(ps, h)
         /\ UpsertNumber(ps, h) = 1 \/ UpsertNumber(ps, h) - 1 \in Used(ps)
  BY DEF Used, UpsertNumber, IsHighest, ProjectOK, ProjectState
-----------------------------------------------------------------------------
LEMMA InitOK == Init => IndInv
<1>. SUFFICES ASSUME Init PROVE IndInv
  OBVIOUS
<1>1. committed \in [Projects -> {NoProject, NewProject, BareProject}]
  BY DEF Init
<1>2. TypeOK
  BY EmptyProjectsOK DEF Init, TypeOK, Phases
<1>3. \A p \in Projects : ProjectOK(committed[p])
  BY <1>1, EmptyProjectsOK
<1>. QED
  BY <1>2, <1>3 DEF Init, IndInv
-----------------------------------------------------------------------------
(* Each operation preserves IndInv.                                        *)

\* A transaction that ends leaves the committed database cdb, well formed.
LEMMA EndsOK ==
  ASSUME IndInv, NEW s \in Sessions, EndsTransaction(s),
         committed' \in [Projects -> ProjectState],
         image' \in [Projects -> ProjectState],
         \A p \in Projects : ProjectOK(committed'[p]),
         writer = s
  PROVE  IndInv'
<1>1. TypeOK'
  BY DEF IndInv, TypeOK, EndsTransaction, Phases
<1>2. \A t \in Sessions : phase'[t] \in {"idle", "resolved"}
  BY DEF IndInv, TypeOK, EndsTransaction, Phases
<1>. QED
  BY <1>1, <1>2 DEF IndInv

\* A transaction opened by its only write, whose image is well formed.
LEMMA OneWriteOK ==
  ASSUME IndInv, NEW s \in Sessions, StartsWriting(s),
         phase' = [phase EXCEPT ![s] = "ready"],
         NEW p \in Projects, NEW ps \in ProjectState, ProjectOK(ps),
         image' = [committed EXCEPT ![p] = ps],
         UNCHANGED <<committed, target, number, touched>>
  PROVE  IndInv'
<1>1. TypeOK'
  BY DEF IndInv, TypeOK, StartsWriting, Phases
<1>2. \A q \in Projects : ProjectOK(image'[q])
  BY DEF IndInv, TypeOK
<1>3. \A t \in Sessions : t # s => phase'[t] \in {"idle", "resolved"}
  BY NumbersAssumption DEF IndInv, TypeOK, StartsWriting, Phases
<1>4. phase'[s] = "ready" /\ writer' = s
  BY DEF IndInv, TypeOK, StartsWriting
<1>. QED
  BY <1>1, <1>2, <1>3, <1>4 DEF IndInv

\* One step of an import, whose image is well formed.
LEMMA ImportingOK ==
  ASSUME IndInv, NEW s \in Sessions, Importing(s),
         image' \in [Projects -> ProjectState],
         \A p \in Projects : ProjectOK(image'[p]),
         touched' \in SUBSET Projects,
         UNCHANGED <<committed, target, number>>
  PROVE  IndInv'
<1>1. writer' = s
  BY DEF IndInv, Importing, StartsWriting
<1>2. TypeOK'
  BY <1>1 DEF IndInv, TypeOK, Importing, Phases
<1>3. \A t \in Sessions : t # s => phase'[t] \in {"idle", "resolved"}
  BY NumbersAssumption DEF IndInv, TypeOK, Importing, StartsWriting, Phases
<1>4. phase'[s] = "importing"
  BY DEF IndInv, TypeOK, Importing
<1>. QED
  BY <1>1, <1>2, <1>3, <1>4 DEF IndInv

\* The database an import step starts from is well formed.
LEMMA ImportViewOK ==
  ASSUME IndInv, NEW s \in Sessions, Importing(s)
  PROVE  /\ ImportView(s) \in [Projects -> ProjectState]
         /\ \A p \in Projects : ProjectOK(ImportView(s)[p])
  BY DEF IndInv, TypeOK, Importing, StartsWriting, ImportView

\* A project state in the image between the upsert that reserved n and the end
\* of its create.
Reserved(ps, n) ==
  /\ ps.exists /\ ps.next = n + 1
  /\ ps.issues \subseteq ps.ever
  /\ \A k \in ps.issued : k < n

\* The reservation in terms of the image alone.
LEMMA ReservedOK ==
  ASSUME IndInv, NEW p \in Projects, NEW n \in Nat, Reservation(p, n)
  PROVE  image[p] \in ProjectState /\ Reserved(image[p], n)
<1>1. /\ committed[p] \in ProjectState /\ ProjectOK(committed[p])
      /\ committed[p].exists /\ image[p] \in ProjectState
  BY DEF IndInv, TypeOK, Reservation
<1>2. image[p] = [committed[p] EXCEPT !.next = n + 1]
  BY DEF IndInv, TypeOK, Reservation
<1>3. /\ image[p].exists /\ image[p].next = n + 1
      /\ image[p].issues = committed[p].issues
      /\ image[p].ever = committed[p].ever
      /\ image[p].issued = committed[p].issued
  BY <1>1, <1>2 DEF ProjectState
<1>4. \A k \in committed[p].issued : k < n
  BY DEF Reservation
<1>. QED
  BY <1>1, <1>3, <1>4 DEF Reserved, ProjectOK

\* A create that ends, with its issue or without, leaves a well-formed project.
LEMMA CreateEndsOK ==
  ASSUME NEW n \in Nat, NEW ps \in ProjectState, Reserved(ps, n)
  PROVE  /\ WithIssue(ps, n, TRUE) \in ProjectState
         /\ ProjectOK(WithIssue(ps, n, TRUE))
         /\ WithoutIssue(ps, n) \in ProjectState
         /\ ProjectOK(WithoutIssue(ps, n))
<1>1. /\ \A k \in ps.issued \cup {n} : k < n + 1
      /\ n + 1 - 1 = n
  BY DEF Reserved, ProjectState
<1>. QED
  BY <1>1 DEF Reserved, WithIssue, WithoutIssue, ProjectState, ProjectOK, Used

LEMMA StepOK == IndInv /\ [Next]_vars => IndInv'
<1>. SUFFICES ASSUME IndInv, [Next]_vars
              PROVE  IndInv'
  OBVIOUS
<1>1. ASSUME NEW s \in Sessions, NEW p \in Projects, ResolveProject(s, p)
      PROVE  IndInv'
  <2>1. TypeOK'
    BY <1>1 DEF IndInv, TypeOK, ResolveProject, Phases
  <2>2. \A t \in Sessions : t # s => phase'[t] = phase[t] /\ target'[t] = target[t]
    BY <1>1 DEF ResolveProject, IndInv, TypeOK
  <2>3. phase'[s] = "resolved"
    BY <1>1 DEF IndInv, TypeOK, ResolveProject
  <2>4. UNCHANGED <<committed, image, writer, number>>
    BY <1>1 DEF ResolveProject
  <2>5. \A t \in Sessions : phase'[t] = "reserved" => Reservation(target[t], number[t])'
    <3>. SUFFICES ASSUME NEW t \in Sessions, phase'[t] = "reserved"
                  PROVE  Reservation(target[t], number[t])'
      OBVIOUS
    <3>1. t # s /\ phase[t] = "reserved" /\ target'[t] = target[t]
      BY <2>2, <2>3
    <3>2. Reservation(target[t], number[t])
      BY <3>1 DEF IndInv
    <3>. QED
      BY <2>4, <3>1, <3>2 DEF Reservation
  <2>6. /\ \A p2 \in Projects : ProjectOK(committed'[p2])
        /\ \A t \in Sessions : phase'[t] \notin {"idle", "resolved"} => writer' = t
        /\ \A t \in Sessions : phase'[t] \in {"importing", "imported", "ready"} =>
             \A p2 \in Projects : ProjectOK(image'[p2])
    BY <2>2, <2>3, <2>4 DEF IndInv
  <2>. QED
    BY <2>1, <2>5, <2>6 DEF IndInv
<1>2. ASSUME NEW s \in Sessions, ReserveKey(s)
      PROVE  IndInv'
  <2>. DEFINE p == target[s]
              ps == committed[p]
  <2>1. p \in Projects /\ ps \in ProjectState /\ ProjectOK(ps)
    BY DEF IndInv, TypeOK
  <2>2. PICK h \in ps.issues \cup {0} :
           /\ IsHighest(h, ps.issues)
           /\ image' = [committed EXCEPT ![p].next = UpsertNumber(ps, h) + 1]
           /\ number' = [number EXCEPT ![s] = UpsertNumber(ps, h)]
    BY <1>2 DEF ReserveKey
  <2>. DEFINE n == UpsertNumber(ps, h)
  <2>3. /\ n \in Nat
        /\ \A k \in ps.issues \cup ps.issued : k < n
        /\ n = 1 \/ n - 1 \in Used(ps)
    BY <2>1, <2>2, UpsertNumberOK
  <2>4. image' \in [Projects -> ProjectState]
    <3>1. [ps EXCEPT !.next = n + 1] \in ProjectState
      BY <2>1, <2>3 DEF ProjectState
    <3>2. image' = [committed EXCEPT ![p] = [ps EXCEPT !.next = n + 1]]
      BY <2>2
    <3>. HIDE DEF ps, n
    <3>. QED
      BY <2>1, <3>1, <3>2 DEF IndInv, TypeOK
  <2>5. number' = [number EXCEPT ![s] = n]
    BY <2>2
  <2>6. TypeOK'
    BY <1>2, <2>3, <2>4, <2>5 DEF IndInv, TypeOK, ReserveKey, Phases
  <2>7. \A t \in Sessions : t # s => phase'[t] \in {"idle", "resolved"}
    BY <1>2, NumbersAssumption DEF IndInv, TypeOK, ReserveKey, Phases
  <2>8. phase'[s] = "reserved" /\ writer' = s
    BY <1>2 DEF IndInv, TypeOK, ReserveKey
  <2>9. number'[s] = n /\ target' = target /\ committed' = committed /\ ps.exists
    BY <1>2, <2>5 DEF IndInv, TypeOK, ReserveKey
  <2>10. image' = [committed EXCEPT ![p].next = n + 1]
    BY <2>2
  <2>11. Reservation(target[s], number[s])'
    BY <2>3, <2>9, <2>10 DEF Reservation
  <2>. QED
    BY <2>6, <2>7, <2>8, <2>9, <2>11 DEF IndInv
<1>3. ASSUME NEW s \in Sessions, CreateRejected(s)
      PROVE  IndInv'
  <2>1. TypeOK'
    BY <1>3 DEF IndInv, TypeOK, CreateRejected, Phases
  <2>2. \A t \in Sessions : t # s => phase'[t] = phase[t]
    BY <1>3 DEF IndInv, TypeOK, CreateRejected
  <2>3. phase'[s] = "idle"
    BY <1>3 DEF IndInv, TypeOK, CreateRejected
  <2>. QED
    BY <1>3, <2>1, <2>2, <2>3 DEF IndInv, CreateRejected, Reservation
<1>4. ASSUME NEW s \in Sessions, InsertIssue(s) \/ CreateFailsInWeb(s)
      PROVE  IndInv'
  <2>. DEFINE p == target[s]
              n == number[s]
  <2>1. p \in Projects /\ n \in Nat /\ writer = s /\ Reservation(p, n)
    BY <1>4 DEF IndInv, TypeOK, InsertIssue, CreateFailsInWeb
  <2>2. image[p] \in ProjectState /\ Reserved(image[p], n)
    BY <2>1, ReservedOK
  <2>3. /\ WithIssue(image[p], n, TRUE) \in ProjectState
        /\ ProjectOK(WithIssue(image[p], n, TRUE))
        /\ WithoutIssue(image[p], n) \in ProjectState
        /\ ProjectOK(WithoutIssue(image[p], n))
    BY <2>1, <2>2, CreateEndsOK
  <2>4. PICK new \in ProjectState : ProjectOK(new) /\ image' = [image EXCEPT ![p] = new]
    BY <1>4, <2>3 DEF InsertIssue, CreateFailsInWeb
  <2>5. /\ phase' = [phase EXCEPT ![s] = "ready"]
        /\ UNCHANGED <<committed, writer, target, number, touched>>
    BY <1>4 DEF InsertIssue, CreateFailsInWeb
  <2>6. \A q \in Projects : q # p => image[q] = committed[q]
    BY <2>1 DEF Reservation, IndInv, TypeOK
  <2>7. \A q \in Projects : ProjectOK(image'[q])
    BY <2>1, <2>4, <2>6 DEF IndInv, TypeOK
  <2>8. TypeOK'
    <3>1. image' \in [Projects -> ProjectState]
      BY <2>4 DEF IndInv, TypeOK
    <3>. QED
      BY <2>5, <3>1 DEF IndInv, TypeOK, Phases
  <2>9. \A t \in Sessions : t # s => phase'[t] \in {"idle", "resolved"}
    BY <2>1, <2>5 DEF IndInv, TypeOK, Phases
  <2>10. phase'[s] = "ready" /\ UNCHANGED <<writer, committed>>
    BY <2>5 DEF IndInv, TypeOK
  <2>. QED
    BY <2>1, <2>7, <2>8, <2>9, <2>10 DEF IndInv
<1>5. ASSUME NEW s \in Sessions, NEW p \in Projects, NEW n, DeleteIssue(s, p, n)
      PROVE  IndInv'
  <2>. DEFINE ps == [committed[p] EXCEPT !.issues = @ \ {n}]
  <2>a. committed[p] \in ProjectState /\ ProjectOK(committed[p]) /\ n \in committed[p].issues
    BY <1>5 DEF IndInv, TypeOK, DeleteIssue
  <2>b. committed[p].exists
    BY <2>a DEF ProjectOK, NoProject, EmptyProject
  <2>1. ps \in ProjectState /\ ProjectOK(ps)
    BY <2>a, <2>b DEF ProjectState, ProjectOK, Used
  <2>2. image' = [committed EXCEPT ![p] = ps]
    BY <1>5 DEF DeleteIssue
  <2>. QED
    BY <1>5, <2>1, <2>2, OneWriteOK DEF DeleteIssue
<1>6. ASSUME NEW s \in Sessions, NEW p \in Projects, CreateProject(s, p)
      PROVE  IndInv'
  <2>1. StartsWriting(s) /\ phase' = [phase EXCEPT ![s] = "ready"]
        /\ image' = [committed EXCEPT ![p] = NewProject]
        /\ UNCHANGED <<committed, target, number, touched>>
    BY <1>6 DEF CreateProject
  <2>. QED
    BY <2>1, EmptyProjectsOK, OneWriteOK, Zenon
<1>7. ASSUME NEW s \in Sessions, NEW p \in Projects, DeleteProject(s, p)
      PROVE  IndInv'
  BY <1>7, EmptyProjectsOK, OneWriteOK DEF DeleteProject
<1>8. ASSUME NEW s \in Sessions, NEW p \in Projects, NEW n \in ImportNumbers,
             ImportIssue(s, p, n)
      PROVE  IndInv'
  <2>. DEFINE old == ImportView(s)
              base == IF old[p].exists THEN old[p] ELSE BareProject
              new == WithIssue(base, n, FALSE)
  <2>1. Importing(s) /\ image' = [old EXCEPT ![p] = new]
    BY <1>8 DEF ImportIssue
  <2>2. /\ old \in [Projects -> ProjectState]
        /\ \A q \in Projects : ProjectOK(old[q])
    BY <2>1, ImportViewOK
  <2>3. base \in ProjectState /\ ProjectOK(base) /\ base.exists
    BY <2>2, EmptyProjectsOK DEF BareProject, EmptyProject
  <2>4. new \in ProjectState /\ ProjectOK(new)
    BY <2>3, ImportedIssueOK, NumbersAssumption
  <2>. HIDE DEF old, new
  <2>5. /\ image' \in [Projects -> ProjectState]
        /\ \A q \in Projects : ProjectOK(image'[q])
    BY <2>1, <2>2, <2>4
  <2>6. touched' \in SUBSET Projects /\ UNCHANGED <<committed, target, number>>
    BY <1>8 DEF ImportIssue, IndInv, TypeOK
  <2>. QED
    BY <2>1, <2>5, <2>6, ImportingOK
<1>9. ASSUME NEW s \in Sessions, NEW p \in Projects, ImportRejected(s, p)
      PROVE  IndInv'
  <2>1. Importing(s) /\ image' = ImportView(s) /\ UNCHANGED <<committed, target, number>>
    BY <1>9 DEF ImportRejected
  <2>2. touched' \in SUBSET Projects
    BY <1>9 DEF ImportRejected, IndInv, TypeOK
  <2>. QED
    BY <2>1, <2>2, ImportViewOK, ImportingOK
<1>10. ASSUME NEW s \in Sessions, ImportFinish(s)
      PROVE  IndInv'
  <2>1. phase[s] = "importing" /\ writer = s /\ \A q \in Projects : ProjectOK(image[q])
    BY <1>10 DEF IndInv, ImportFinish
  <2>2. \A q \in Projects : image[q] \in ProjectState
    BY DEF IndInv, TypeOK
  <2>3. \A q \in Projects : image[q].exists =>
          ImportedState(image[q]) \in ProjectState /\ ProjectOK(ImportedState(image[q]))
    BY <2>1, <2>2, ImportedStateOK
  <2>4. image' = [p \in Projects |->
                    IF p \in touched /\ image[p].exists
                      THEN ImportedState(image[p]) ELSE image[p]]
    BY <1>10 DEF ImportFinish
  <2>5. /\ image' \in [Projects -> ProjectState]
        /\ \A q \in Projects : ProjectOK(image'[q])
    BY <2>1, <2>2, <2>3, <2>4
  <2>6. TypeOK'
    BY <1>10, <2>5 DEF IndInv, TypeOK, ImportFinish, Phases
  <2>7. \A t \in Sessions : t # s => phase'[t] \in {"idle", "resolved"}
    BY <1>10, <2>1 DEF IndInv, TypeOK, ImportFinish, Phases
  <2>8. phase'[s] = "imported" /\ UNCHANGED <<writer, committed>>
    BY <1>10 DEF IndInv, TypeOK, ImportFinish
  <2>. QED
    BY <2>1, <2>5, <2>6, <2>7, <2>8 DEF IndInv
<1>11. ASSUME NEW s \in Sessions, Commit(s)
      PROVE  IndInv'
  BY <1>11, EndsOK DEF Commit, IndInv, TypeOK
<1>12. ASSUME NEW s \in Sessions, Rollback(s)
      PROVE  IndInv'
  BY <1>12, EndsOK DEF Rollback, IndInv, TypeOK
<1>13. CASE UNCHANGED vars
  BY <1>13 DEF vars, IndInv, TypeOK, Reservation
<1>. QED
  BY <1>1, <1>2, <1>3, <1>4, <1>5, <1>6, <1>7, <1>8, <1>9, <1>10, <1>11, <1>12,
     <1>13 DEF Next
-----------------------------------------------------------------------------
\* IndInv holds throughout, so every statement it implies does.
THEOREM Invariance == Spec => []IndInv
  BY InitOK, StepOK, PTL DEF Spec

\* Every variable keeps its type.
THEOREM TypeCorrect == Spec => []TypeOK
<1>1. IndInv => TypeOK
  BY DEF IndInv
<1>. QED
  BY <1>1, Invariance, PTL

\* A reserved number is free: the INSERT cannot violate UNIQUE issues.key.
THEOREM KeysFresh == Spec => []ReservationFresh
<1>1. IndInv => ReservationFresh
  <2>. SUFFICES ASSUME IndInv, NEW s \in Sessions, phase[s] = "reserved"
                PROVE  /\ number[s] \notin image[target[s]].issues
                       /\ number[s] \notin committed[target[s]].issues
                       /\ \A t \in Sessions \ {s} : phase[t] # "reserved"
    BY DEF ReservationFresh
  <2>. DEFINE p == target[s]
              n == number[s]
  <2>1. p \in Projects /\ n \in Nat /\ Reservation(p, n) /\ committed[p] \in ProjectState
    BY DEF IndInv, TypeOK
  <2>2. n \notin committed[p].issues
    BY <2>1 DEF Reservation
  <2>3. image[p].issues = committed[p].issues
    BY <2>1 DEF Reservation, IndInv, TypeOK, ProjectState
  <2>. QED
    BY <2>2, <2>3 DEF IndInv
<1>. QED
  BY <1>1, Invariance, PTL

\* A number handed out is not handed out again after its issue is deleted.
THEOREM NumbersNotReissued == Spec => []NoReissue
<1>1. IndInv => NoReissue
  <2>. SUFFICES ASSUME IndInv, NEW s \in Sessions, phase[s] = "reserved"
                PROVE  number[s] \notin image[target[s]].issued
    BY DEF NoReissue
  <2>1. target[s] \in Projects /\ number[s] \in Nat /\ Reservation(target[s], number[s])
    BY DEF IndInv, TypeOK
  <2>2. image[target[s]].issued = committed[target[s]].issued
    BY <2>1 DEF Reservation, IndInv, TypeOK, ProjectState
  <2>. QED
    BY <2>1, <2>2 DEF Reservation
<1>. QED
  BY <1>1, Invariance, PTL

\* A gap in the numbers is the mark of a web form that failed.
THEOREM GapsHaveACause == Spec => []GapsAreFailedForms
<1>1. IndInv => GapsAreFailedForms
  <2>. SUFFICES ASSUME IndInv, NEW s \in Sessions, phase[s] = "reserved"
                PROVE  number[s] = 1 \/ number[s] - 1 \in Used(image[target[s]])
    BY DEF GapsAreFailedForms
  <2>1. target[s] \in Projects /\ Reservation(target[s], number[s])
    BY DEF IndInv, TypeOK
  <2>2. /\ image[target[s]].ever = committed[target[s]].ever
        /\ image[target[s]].burnt = committed[target[s]].burnt
    BY <2>1 DEF Reservation, IndInv, TypeOK, ProjectState
  <2>. QED
    BY <2>1, <2>2 DEF Reservation, Used
<1>. QED
  BY <1>1, Invariance, PTL
=============================================================================
