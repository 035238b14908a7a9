-------------------------- MODULE AttachmentsProofs --------------------------
(***************************************************************************)
(* Proofs about Attachments: although SQLite gives the id of a deleted row *)
(* to the next one, no upload, deletion, failure or crash touches the file *)
(* of another attachment, and a restore brings back what could be          *)
(* downloaded, for any issues, names, snapshots, uploads and failures.     *)
(*                                                                         *)
(* Everything rests on two facts: the id of a new row is free in the       *)
(* transaction's image of the rows, committed and not (NextIdFree), and    *)
(* paths of different ids differ.                                          *)
(***************************************************************************)
EXTENDS Attachments, WellFoundedInduction, TLAPS

\* Rows as they can be in the table, in an image or in a snapshot: every id was
\* once an upload's, so none is greater than the number of uploads.
RowsOK(rs) ==
  /\ DOMAIN rs \subseteq 1..uploads
  /\ \A id \in DOMAIN rs :
       rs[id] \in [issue : Issues, name : Names, content : 1..uploads]

FilesOK(files) == \A p \in DOMAIN files : files[p] \in 1..uploads

SnapshotOK(s) ==
  /\ s = [rows |-> s.rows, files |-> s.files, copied |-> s.copied, kept |-> s.kept]
  /\ RowsOK(s.rows) /\ FilesOK(s.files) /\ s.copied \in {"no", "some", "all"}
  /\ s.copied = "all" => \A id \in s.kept : Holds(s.rows, s.files, id)

SnapsOK ==
  /\ snaps = [s \in DOMAIN snaps |-> snaps[s]] /\ DOMAIN snaps \subseteq Snapshots
  /\ \A s \in DOMAIN snaps : SnapshotOK(snaps[s])

\* An upload has added rows to the committed ones, each with its file.
UploadOK ==
  job.op = "upload" =>
    /\ job = [op |-> "upload", issue |-> job.issue, image |-> job.image, stored |-> job.stored]
    /\ job.issue \in Issues /\ RowsOK(job.image)
    /\ \A id \in DOMAIN rows : id \in DOMAIN job.image /\ job.image[id] = rows[id]
    /\ \A id \in job.stored : Holds(job.image, disk, id)

DeleteOK == job.op = "delete" => job.image = Without(rows, {job.id})

\* What the snapshot at work should keep is still on disk.
SnapshotJobOK ==
  job.op = "snapshot" =>
    job.of \in DOMAIN snaps /\ \A id \in snaps[job.of].kept : Holds(snaps[job.of].rows, disk, id)

RestoreJobOK ==
  job.op = "restore" => job.of \in DOMAIN snaps /\ rows = snaps[job.of].rows

IndInv ==
  /\ RowsOK(rows) /\ FilesOK(disk) /\ SnapsOK
  /\ job.op \in {"idle", "upload", "delete", "snapshot", "restore"}
  /\ job.op = "idle" => job = Idle
  /\ UploadOK /\ DeleteOK /\ SnapshotJobOK /\ RestoreJobOK
  /\ uploads \in 0..MaxUploads /\ failures \in 0..MaxFailures
-----------------------------------------------------------------------------
\* A set of natural numbers with a bound has a greatest element.
LEMMA MaxOK ==
  ASSUME NEW n \in Nat, NEW S \in SUBSET (0..n), S # {}
  PROVE  Max(S) \in S /\ \A x \in S : x <= Max(S)
<1>. DEFINE T == {n - x : x \in S}
<1>1. T \subseteq Nat /\ T # {}
  <2>1. \A x \in S : n - x \in Nat
    OBVIOUS
  <2>. QED
    BY <2>1
<1>2. IsWellFoundedOn(OpToRel(<, Nat), Nat)
  BY NatLessThanWellFounded
<1>3. PICK t \in T : \A y \in T : ~(<<y, t>> \in OpToRel(<, Nat))
  BY <1>1, <1>2, WFMin
<1>4. \A y \in T : ~(y < t)
  BY <1>1, <1>3 DEF OpToRel
<1>5. PICK x \in S : t = n - x
  OBVIOUS
<1>6. \A y \in S : x >= y
  <2>. TAKE y \in S
  <2>1. ~(n - y < n - x)
    BY <1>4, <1>5
  <2>. QED
    BY <2>1
<1>. HIDE DEF T
<1>7. Max(S) \in S /\ \A y \in S : Max(S) >= y
  BY <1>6 DEF Max
<1>. QED
  BY <1>7

\* SQLite's next id is free, and no greater than the number of uploads to come.
LEMMA NextIdFree ==
  ASSUME NEW rs, uploads \in Nat, RowsOK(rs)
  PROVE  NextId(rs) \in 1..uploads + 1 /\ NextId(rs) \notin DOMAIN rs
<1>. DEFINE S == DOMAIN rs \cup {0}
<1>1. S \in SUBSET (0..uploads) /\ S # {}
  BY DEF RowsOK
<1>. HIDE DEF S
<1>2. Max(S) \in S /\ \A x \in S : x <= Max(S)
  BY <1>1, MaxOK
<1>3. Max(S) \in 0..uploads
  BY <1>1, <1>2
<1>4. Max(S) + 1 \in 1..uploads + 1 /\ Max(S) + 1 \notin S
  BY <1>2, <1>3
<1>. QED
  BY <1>4 DEF NextId, S

\* Rows, files and snapshots stay well formed as uploads go on.
LEMMA MoreUploads ==
  ASSUME NEW rs, NEW files, uploads \in Nat, uploads' \in Nat, uploads' >= uploads
  PROVE  /\ RowsOK(rs) => RowsOK(rs)'
         /\ FilesOK(files) => FilesOK(files)'
  BY DEF RowsOK, FilesOK

\* Another path of a directory does not matter to a row.
LEMMA OtherPath ==
  ASSUME NEW rs, NEW files, NEW id, Holds(rs, files, id), NEW p, p # PathOf(rs, id), NEW v
  PROVE  Holds(rs, With(files, p, v), id) /\ Holds(rs, Without(files, {p}), id)
  BY DEF Holds, With, Without

LEMMA OtherIdOtherPath ==
  ASSUME NEW rs, NEW id, NEW j, NEW name, j # id
  PROVE  FilePath(j, name) # PathOf(rs, id)
  BY DEF PathOf, FilePath
-----------------------------------------------------------------------------
(* Each action preserves IndInv.                                           *)

LEMMA InitOK == Init => IndInv
  BY AttachmentsAssumption
  DEF Init, Empty, Idle, IndInv, RowsOK, FilesOK, SnapsOK, UploadOK, DeleteOK, SnapshotJobOK,
      RestoreJobOK

\* Steps that leave rows, files, snapshots and uploads as they are.
LEMMA BeginUploadOK ==
  ASSUME IndInv, NEW i \in Issues, BeginUpload(i) PROVE IndInv'
<1>1. job' = [op |-> "upload", issue |-> i, image |-> rows, stored |-> {}]
      /\ UNCHANGED <<rows, disk, snaps, uploads, failures>>
  BY DEF BeginUpload
<1>2. UploadOK'
  BY <1>1 DEF UploadOK, IndInv, RowsOK, Holds
<1>3. RowsOK(rows)' /\ FilesOK(disk)' /\ SnapsOK'
  BY <1>1 DEF IndInv, RowsOK, FilesOK, SnapsOK, SnapshotOK, Holds
<1>. QED
  BY <1>1, <1>2, <1>3 DEF IndInv, DeleteOK, SnapshotJobOK, RestoreJobOK

\* The fresh id: neither the rows nor the image have it, so neither has its path.
LEMMA StoreFileOK ==
  ASSUME IndInv, NEW name \in Names, StoreFile(name) PROVE IndInv'
<1>. DEFINE id == NextId(job.image)
            new == [issue |-> job.issue, name |-> name, content |-> uploads + 1]
            path == FilePath(id, name)
<1>1. uploads \in Nat /\ uploads' = uploads + 1 /\ uploads' \in 0..MaxUploads
  BY AttachmentsAssumption DEF StoreFile, IndInv
<1>2. /\ job.op = "upload" /\ job.issue \in Issues /\ RowsOK(job.image)
      /\ job = [op |-> "upload", issue |-> job.issue, image |-> job.image, stored |-> job.stored]
  BY DEF StoreFile, IndInv, UploadOK
<1>3. id \in 1..uploads + 1 /\ id \notin DOMAIN job.image
  BY <1>1, <1>2, NextIdFree
<1>4. /\ job' = [job EXCEPT !.image = With(job.image, id, new), !.stored = job.stored \cup {id}]
      /\ disk' = With(disk, path, uploads + 1)
      /\ UNCHANGED <<rows, snaps, failures>>
  BY DEF StoreFile, Stored
<1>5. /\ job'.op = "upload" /\ job'.issue = job.issue
      /\ job'.image = With(job.image, id, new) /\ job'.stored = job.stored \cup {id}
      /\ job' = [op |-> "upload", issue |-> job'.issue, image |-> job'.image, stored |-> job'.stored]
  BY <1>2, <1>4
<1>6. PathOf(job'.image, id) = path /\ Holds(job'.image, disk', id)
  BY <1>4, <1>5 DEF PathOf, Holds, With
<1>. HIDE DEF id, path
<1>7. RowsOK(job.image)'
  BY <1>1, <1>2, <1>3, <1>5 DEF RowsOK, With
<1>8. \A j \in DOMAIN job.image : j \in DOMAIN job'.image /\ job'.image[j] = job.image[j]
  BY <1>3, <1>5 DEF With
<1>9. ASSUME NEW j \in DOMAIN job.image, Holds(job.image, disk, j)
      PROVE  Holds(job'.image, disk', j)
  <2>1. path # PathOf(job.image, j)
    BY <1>3, OtherIdOtherPath DEF path
  <2>2. Holds(job.image, disk', j)
    BY <1>4, <1>9, <2>1, OtherPath
  <2>. QED
    BY <1>8, <2>2 DEF Holds, PathOf
<1>10. UploadOK'
  <2>1. \A j \in DOMAIN rows' : j \in DOMAIN job'.image /\ job'.image[j] = rows'[j]
    BY <1>2, <1>4, <1>8 DEF IndInv, UploadOK
  <2>2. \A j \in job'.stored : Holds(job'.image, disk', j)
    BY <1>2, <1>5, <1>6, <1>9 DEF IndInv, UploadOK, Holds
  <2>3. job'.issue \in Issues
    BY <1>2, <1>5
  <2>. QED
    BY <1>5, <1>7, <2>1, <2>2, <2>3 DEF UploadOK
<1>11. RowsOK(rows)' /\ FilesOK(disk)'
  BY <1>1, <1>4 DEF IndInv, RowsOK, FilesOK, With
<1>12. SnapsOK'
  BY <1>1, <1>4, MoreUploads DEF IndInv, SnapsOK, SnapshotOK, RowsOK, FilesOK, Holds
<1>. QED
  BY <1>1, <1>4, <1>5, <1>10, <1>11, <1>12 DEF IndInv, DeleteOK, SnapshotJobOK, RestoreJobOK

\* What an action leaves of the snapshots when uploads do not change.
LEMMA SnapsKept ==
  ASSUME SnapsOK, UNCHANGED <<snaps, uploads>> PROVE SnapsOK'
  BY DEF SnapsOK, SnapshotOK, RowsOK, FilesOK, Holds

LEMMA DeleteAttachmentOK ==
  ASSUME IndInv, NEW id \in DOMAIN rows, DeleteAttachment(id) PROVE IndInv'
<1>1. /\ disk' = Without(disk, {PathOf(rows, id)})
      /\ job' = [op |-> "delete", id |-> id, image |-> Without(rows, {id})]
      /\ UNCHANGED <<rows, snaps, uploads, failures>>
  BY DEF DeleteAttachment, Removed
<1>2. FilesOK(disk)'
  BY <1>1 DEF IndInv, FilesOK, Without
<1>3. RowsOK(rows)' /\ SnapsOK'
  BY <1>1, SnapsKept DEF IndInv, RowsOK
<1>4. DeleteOK' /\ UploadOK' /\ SnapshotJobOK' /\ RestoreJobOK'
  BY <1>1 DEF DeleteOK, UploadOK, SnapshotJobOK, RestoreJobOK
<1>. QED
  BY <1>1, <1>2, <1>3, <1>4 DEF IndInv

\* Steps that end in an idle server.
LEMMA IdleOK ==
  ASSUME IndInv, job' = Idle, UNCHANGED uploads, failures' \in 0..MaxFailures,
         RowsOK(rows)', FilesOK(disk)', SnapsOK'
  PROVE  IndInv'
  BY DEF IndInv, Idle, UploadOK, DeleteOK, SnapshotJobOK, RestoreJobOK

LEMMA FewerRows ==
  ASSUME NEW rs, NEW S, RowsOK(rs)
  PROVE  RowsOK(Without(rs, S)) /\ RowsOK(Empty)
  BY DEF RowsOK, Without, Empty

LEMMA FewerFiles ==
  ASSUME NEW files, NEW S, FilesOK(files)
  PROVE  FilesOK(Without(files, S)) /\ FilesOK(Empty)
  BY DEF FilesOK, Without, Empty

LEMMA CommitOK ==
  ASSUME IndInv, Commit PROVE IndInv'
<1>1. RowsOK(job.image)
  <2>1. CASE job.op = "upload"
    BY <2>1 DEF IndInv, UploadOK
  <2>2. CASE job.op = "delete"
    BY <2>2, FewerRows DEF IndInv, DeleteOK
  <2>. QED
    BY <2>1, <2>2 DEF Commit
<1>2. rows' = job.image /\ job' = Idle /\ UNCHANGED <<disk, snaps, uploads, failures>>
  BY DEF Commit
<1>3. RowsOK(rows)' /\ FilesOK(disk)' /\ SnapsOK'
  BY <1>1, <1>2, SnapsKept DEF IndInv, RowsOK, FilesOK
<1>. QED
  BY <1>2, <1>3, IdleOK DEF IndInv

LEMMA RowsGoOK ==
  ASSUME IndInv, Reset \/ \E i \in Issues : DeleteIssue(i) PROVE IndInv'
<1>1. job' = Idle /\ UNCHANGED <<disk, snaps, uploads, failures>>
  BY DEF Reset, DeleteIssue
<1>2. PICK S : rows' = Without(rows, S) \/ rows' = Empty
  BY DEF Reset, DeleteIssue
<1>3. RowsOK(rows')
  BY <1>2, FewerRows DEF IndInv
<1>4. RowsOK(rows)' /\ FilesOK(disk)' /\ SnapsOK'
  BY <1>1, <1>3, SnapsKept DEF IndInv, RowsOK, FilesOK
<1>. QED
  BY <1>1, <1>4, IdleOK DEF IndInv

LEMMA BeginSnapshotOK ==
  ASSUME IndInv, NEW s \in Snapshots, BeginSnapshot(s) PROVE IndInv'
<1>. DEFINE new == [rows |-> rows, files |-> Empty, copied |-> "no",
                    kept |-> {id \in DOMAIN rows : Holds(rows, disk, id)}]
<1>1. /\ snaps' = With(snaps, s, new) /\ job' = [op |-> "snapshot", of |-> s]
      /\ UNCHANGED <<rows, disk, uploads, failures>>
  BY DEF BeginSnapshot
<1>2. SnapshotOK(new)
  BY FewerFiles DEF IndInv, SnapshotOK, FilesOK, Empty
<1>3. SnapshotJobOK'
  BY <1>1 DEF SnapshotJobOK, With, Holds, PathOf
<1>4. /\ DOMAIN snaps' = DOMAIN snaps \cup {s} /\ snaps' = [t \in DOMAIN snaps' |-> snaps'[t]]
      /\ \A t \in DOMAIN snaps' : SnapshotOK(snaps'[t])
  <2>. HIDE DEF new
  <2>. QED
    BY <1>1, <1>2 DEF IndInv, SnapsOK, With
<1>5. SnapsOK'
  <2>1. \A t \in DOMAIN snaps' : SnapshotOK(snaps[t])'
    BY <1>1, <1>4 DEF SnapshotOK, RowsOK, FilesOK, Holds
  <2>. QED
    BY <1>4, <2>1 DEF IndInv, SnapsOK
<1>6. RowsOK(rows)' /\ FilesOK(disk)'
  BY <1>1 DEF IndInv, RowsOK, FilesOK
<1>. QED
  BY <1>1, <1>3, <1>5, <1>6 DEF IndInv, UploadOK, DeleteOK, RestoreJobOK

\* A snapshot whose files become those given, as far as they were copied.
LEMMA CopyOK ==
  ASSUME IndInv, job.op = "snapshot", NEW files, FilesOK(files), NEW how \in {"some", "all"},
         how = "all" => files = disk,
         snaps' = [snaps EXCEPT ![job.of].files = files, ![job.of].copied = how],
         job' = Idle, UNCHANGED <<rows, disk, uploads>>, failures' \in 0..MaxFailures
  PROVE  IndInv'
<1>. DEFINE old == snaps[job.of]
            new == [rows |-> old.rows, files |-> files, copied |-> how, kept |-> old.kept]
<1>1. job.of \in DOMAIN snaps /\ SnapshotOK(old) /\ \A id \in old.kept : Holds(old.rows, disk, id)
  BY DEF IndInv, SnapshotJobOK, SnapsOK
<1>2. SnapshotOK(new)
  BY <1>1 DEF SnapshotOK
<1>3. /\ DOMAIN snaps' = DOMAIN snaps /\ snaps' = [t \in DOMAIN snaps' |-> snaps'[t]]
      /\ snaps'[job.of] = new /\ \A t \in DOMAIN snaps : t # job.of => snaps'[t] = snaps[t]
  BY <1>1 DEF IndInv, SnapsOK, SnapshotOK
<1>. HIDE DEF new, old
<1>4. \A t \in DOMAIN snaps' : SnapshotOK(snaps'[t])
  BY <1>2, <1>3 DEF IndInv, SnapsOK
<1>5. \A t \in DOMAIN snaps' : SnapshotOK(snaps[t])'
  BY <1>4 DEF SnapshotOK, RowsOK, FilesOK, Holds
<1>6. SnapsOK'
  BY <1>3, <1>5 DEF IndInv, SnapsOK
<1>7. RowsOK(rows)' /\ FilesOK(disk)'
  BY DEF IndInv, RowsOK, FilesOK
<1>. QED
  BY <1>6, <1>7, IdleOK

LEMMA CopyToSnapshotOK ==
  ASSUME IndInv, CopyToSnapshot PROVE IndInv'
  BY CopyOK DEF CopyToSnapshot, IndInv

LEMMA BeginRestoreOK ==
  ASSUME IndInv, NEW s \in Snapshots, BeginRestore(s) PROVE IndInv'
<1>1. /\ s \in DOMAIN snaps /\ rows' = snaps[s].rows /\ job' = [op |-> "restore", of |-> s]
      /\ UNCHANGED <<disk, snaps, uploads, failures>>
  BY DEF BeginRestore
<1>2. RowsOK(rows)' /\ FilesOK(disk)' /\ SnapsOK'
  BY <1>1, SnapsKept DEF IndInv, SnapsOK, SnapshotOK, RowsOK, FilesOK
<1>3. RestoreJobOK' /\ UploadOK' /\ DeleteOK' /\ SnapshotJobOK'
  BY <1>1 DEF RestoreJobOK, UploadOK, DeleteOK, SnapshotJobOK
<1>. QED
  BY <1>1, <1>2, <1>3 DEF IndInv

LEMMA CopyFromSnapshotOK ==
  ASSUME IndInv, CopyFromSnapshot PROVE IndInv'
<1>1. job.of \in DOMAIN snaps /\ FilesOK(snaps[job.of].files)
  BY DEF CopyFromSnapshot, IndInv, RestoreJobOK, SnapsOK, SnapshotOK
<1>2. FilesOK(disk')
  BY <1>1 DEF CopyFromSnapshot, Replaced, IndInv
<1>3. RowsOK(rows)' /\ FilesOK(disk)' /\ SnapsOK'
  BY <1>2, SnapsKept DEF CopyFromSnapshot, IndInv, RowsOK, FilesOK
<1>. QED
  BY <1>3, IdleOK DEF CopyFromSnapshot, IndInv

LEMMA DeleteSnapshotOK ==
  ASSUME IndInv, NEW s \in Snapshots, DeleteSnapshot(s) PROVE IndInv'
<1>1. snaps' = Without(snaps, {s}) /\ job' = Idle /\ UNCHANGED <<rows, disk, uploads, failures>>
  BY DEF DeleteSnapshot
<1>2. \A t \in DOMAIN snaps' : t \in DOMAIN snaps /\ snaps'[t] = snaps[t]
  BY <1>1 DEF Without
<1>3. snaps' = [t \in DOMAIN snaps' |-> snaps'[t]]
  BY <1>1 DEF Without
<1>6. \A t \in DOMAIN snaps' : SnapshotOK(snaps'[t])
  BY <1>2 DEF IndInv, SnapsOK
<1>7. \A t \in DOMAIN snaps' : SnapshotOK(snaps[t])'
  BY <1>1, <1>6 DEF SnapshotOK, RowsOK, FilesOK, Holds
<1>4. SnapsOK'
  BY <1>2, <1>3, <1>7 DEF IndInv, SnapsOK
<1>5. RowsOK(rows)' /\ FilesOK(disk)'
  BY <1>1 DEF IndInv, RowsOK, FilesOK
<1>. QED
  BY <1>1, <1>4, <1>5, IdleOK DEF IndInv

LEMMA FailOK ==
  ASSUME IndInv, Fail PROVE IndInv'
<1>1. /\ job' = Idle /\ UNCHANGED <<rows, uploads>> /\ failures' \in 0..MaxFailures
      /\ RowsOK(rows)'
  BY AttachmentsAssumption DEF Fail, IndInv, RowsOK
<1>2. CASE UNCHANGED <<disk, snaps>>
  BY <1>1, <1>2, IdleOK, SnapsKept DEF IndInv, FilesOK
<1>3. ASSUME job.op = "snapshot", UNCHANGED disk, NEW P \in SUBSET DOMAIN disk,
             snaps' = [snaps EXCEPT ![job.of].files = Without(disk, P), ![job.of].copied = "some"]
      PROVE  IndInv'
  <2>1. FilesOK(Without(disk, P))
    BY FewerFiles DEF IndInv
  <2>. QED
    BY <1>1, <1>3, <2>1, CopyOK
<1>4. ASSUME job.op = "restore", UNCHANGED snaps, NEW files, FilesOK(files), NEW P,
             disk' = Without(files, P)
      PROVE  IndInv'
  <2>1. FilesOK(disk)' /\ SnapsOK'
    BY <1>1, <1>4, FewerFiles, SnapsKept DEF IndInv, FilesOK
  <2>. QED
    BY <1>1, <2>1, IdleOK
<1>5. job.op = "restore" => FilesOK(disk) /\ FilesOK(snaps[job.of].files)
  BY DEF IndInv, RestoreJobOK, SnapsOK, SnapshotOK
<1>. QED
  BY <1>2, <1>3, <1>4, <1>5 DEF Fail

LEMMA StutterOK ==
  ASSUME IndInv, UNCHANGED vars PROVE IndInv'
<1>1. SnapsOK'
  BY SnapsKept DEF vars, IndInv
<1>. QED
  BY <1>1 DEF vars, IndInv, RowsOK, FilesOK, UploadOK, DeleteOK, SnapshotJobOK, RestoreJobOK, Holds

LEMMA NextOK ==
  ASSUME IndInv, [Next]_vars PROVE IndInv'
  BY BeginUploadOK, StoreFileOK, DeleteAttachmentOK, CommitOK, RowsGoOK, BeginSnapshotOK,
     CopyToSnapshotOK, BeginRestoreOK, CopyFromSnapshotOK, DeleteSnapshotOK, FailOK, StutterOK
  DEF Next

\* IndInv holds in every reachable state.
LEMMA Inductive == Spec => []IndInv
  BY InitOK, NextOK, PTL DEF Spec
-----------------------------------------------------------------------------
(* The theorems.                                                           *)

\* Every variable has its type, no id is greater than the number of uploads, and
\* two rows never share a file.
THEOREM TypeCorrect == Spec => []TypeOK
<1>1. ASSUME IndInv, NEW rs, RowsOK(rs) PROVE Rows(rs)
  BY <1>1, AttachmentsAssumption DEF IndInv, RowsOK, Rows
<1>2. ASSUME IndInv, job.op = "delete" PROVE RowsOK(job.image)
  BY <1>2 DEF IndInv, DeleteOK, RowsOK, Without
<1>3. ASSUME NEW i \in DOMAIN rows, NEW j \in DOMAIN rows, PathOf(rows, i) = PathOf(rows, j)
      PROVE  i = j
  BY <1>3, OtherIdOtherPath DEF PathOf
<1>4. ASSUME IndInv, NEW s \in DOMAIN snaps
      PROVE  RowsOK(snaps[s].rows) /\ snaps[s].copied \in {"no", "some", "all"}
  BY <1>4 DEF IndInv, SnapsOK, SnapshotOK
<1>5. IndInv => TypeOK
  BY <1>1, <1>2, <1>3, <1>4 DEF IndInv, TypeOK, UploadOK, SnapsOK, FilesOK
<1>. QED
  BY <1>5, Inductive, PTL

\* No request, failure or crash touches the file of an attachment that is not
\* deleted itself, whatever ids SQLite gives again.
THEOREM DownloadsStay == Spec => ContentKept
<1>1. ASSUME IndInv, [Next]_vars, NEW id \in DOMAIN rows, Holds(rows, disk, id),
             id \in DOMAIN rows', rows'[id] = rows[id],
             ~(job'.op = "delete" /\ job'.id = id), job.op # "restore"
      PROVE  Holds(rows', disk', id)
  <2>1. CASE UNCHANGED disk
    BY <1>1, <2>1 DEF Holds, PathOf
  <2>2. Holds(rows, disk', id) => Holds(rows', disk', id)
    BY <1>1 DEF Holds, PathOf
  <2>3. ASSUME NEW name \in Names, StoreFile(name) PROVE Holds(rows, disk', id)
    <3>1. NextId(job.image) # id
      BY <1>1, <2>3, NextIdFree DEF StoreFile, IndInv, UploadOK
    <3>2. disk' = With(disk, FilePath(NextId(job.image), name), uploads + 1)
      BY <2>3 DEF StoreFile, Stored
    <3>. QED
      BY <1>1, <3>1, <3>2, OtherIdOtherPath, OtherPath
  <2>4. ASSUME NEW j \in DOMAIN rows, DeleteAttachment(j) PROVE Holds(rows, disk', id)
    <3>1. j # id /\ disk' = Without(disk, {PathOf(rows, j)})
      BY <1>1, <2>4 DEF DeleteAttachment, Removed
    <3>2. PathOf(rows, j) # PathOf(rows, id)
      BY <3>1, OtherIdOtherPath DEF PathOf
    <3>. QED
      BY <1>1, <3>1, <3>2, OtherPath
  <2>5. ~CopyFromSnapshot /\ (Fail => UNCHANGED disk)
    BY <1>1 DEF CopyFromSnapshot, Fail
  <2>6. ASSUME \/ \E i \in Issues : BeginUpload(i) \/ DeleteIssue(i)
               \/ \E s \in Snapshots : BeginSnapshot(s) \/ BeginRestore(s) \/ DeleteSnapshot(s)
               \/ Commit \/ Reset \/ CopyToSnapshot \/ UNCHANGED vars
        PROVE  UNCHANGED disk
    BY <2>6 DEF BeginUpload, DeleteIssue, BeginSnapshot, BeginRestore, DeleteSnapshot, Commit,
       Reset, CopyToSnapshot, vars
  <2>. QED
    BY <1>1, <2>1, <2>2, <2>3, <2>4, <2>5, <2>6 DEF Next
<1>2. IndInv /\ [Next]_vars =>
        [\A id \in DOMAIN rows :
           /\ Holds(rows, disk, id)
           /\ id \in DOMAIN rows' /\ rows'[id] = rows[id]
           /\ ~(job'.op = "delete" /\ job'.id = id) /\ job.op # "restore"
           => Holds(rows', disk', id)]_vars
  BY <1>1
<1>. QED
  BY <1>2, Inductive, PTL DEF Spec, ContentKept

\* Every file of an upload that is answered holds its own bytes, also where an
\* attempt that failed left a file under the same name.
THEOREM AnsweredUploadsAreStored == Spec => UploadsAreStored
<1>1. ASSUME IndInv, [Next]_vars, job.op = "upload", rows' # rows
      PROVE  rows' = job.image /\ UNCHANGED disk
  <2>1. Commit => rows' = job.image /\ UNCHANGED disk
    BY DEF Commit
  <2>2. job # Idle
    BY <1>1 DEF Idle
  <2>3. ASSUME \/ \E i \in Issues : BeginUpload(i) \/ DeleteIssue(i)
               \/ \E name \in Names : StoreFile(name)
               \/ \E id \in DOMAIN rows : DeleteAttachment(id)
               \/ \E s \in Snapshots : BeginSnapshot(s) \/ BeginRestore(s) \/ DeleteSnapshot(s)
               \/ Reset \/ CopyToSnapshot \/ CopyFromSnapshot \/ Fail \/ UNCHANGED vars
        PROVE  FALSE
    BY <1>1, <2>2, <2>3 DEF BeginUpload, DeleteIssue, StoreFile, DeleteAttachment, BeginSnapshot,
       BeginRestore, DeleteSnapshot, Reset, CopyToSnapshot, CopyFromSnapshot, Fail, vars
  <2>. QED
    BY <1>1, <2>1, <2>3 DEF Next
<1>2. ASSUME IndInv, [Next]_vars, job.op = "upload", rows' # rows, NEW id \in job.stored
      PROVE  Holds(rows', disk', id)
  BY <1>1, <1>2 DEF IndInv, UploadOK
<1>3. IndInv /\ [Next]_vars =>
        [job.op = "upload" /\ rows' # rows =>
           \A id \in job.stored : Holds(rows', disk', id)]_vars
  BY <1>2
<1>. QED
  BY <1>3, Inductive, PTL DEF Spec, UploadsAreStored

\* A restore that is answered brings back, with its content, what could be
\* downloaded when its snapshot was taken.
THEOREM RestoreIsComplete == Spec => RestoreBringsBack
<1>1. ASSUME IndInv, [Next]_vars, job.op = "restore", job' = Idle, failures' = failures,
             snaps[job.of].copied = "all", NEW id \in snaps[job.of].kept
      PROVE  Holds(rows', disk', id)
  <2>1. job # Idle /\ failures \in Nat
    BY <1>1 DEF Idle, IndInv
  <2>2. ASSUME \/ \E i \in Issues : BeginUpload(i) \/ DeleteIssue(i)
               \/ \E j \in DOMAIN rows : DeleteAttachment(j)
               \/ \E s \in Snapshots : BeginSnapshot(s) \/ BeginRestore(s) \/ DeleteSnapshot(s)
               \/ Reset
        PROVE  FALSE
    BY <2>1, <2>2 DEF BeginUpload, DeleteIssue, DeleteAttachment, BeginSnapshot, BeginRestore,
       DeleteSnapshot, Reset
  <2>3. ASSUME (\E name \in Names : StoreFile(name)) \/ Commit \/ CopyToSnapshot \/ Fail
               \/ UNCHANGED vars
        PROVE  FALSE
    BY <1>1, <2>1, <2>3 DEF StoreFile, Commit, CopyToSnapshot, Fail, vars
  <2>4. CopyFromSnapshot
    BY <1>1, <2>2, <2>3 DEF Next
  <2>5. rows' = snaps[job.of].rows /\ disk' = snaps[job.of].files
    BY <1>1, <2>4 DEF CopyFromSnapshot, Replaced, IndInv, RestoreJobOK
  <2>6. Holds(snaps[job.of].rows, snaps[job.of].files, id)
    BY <1>1 DEF IndInv, RestoreJobOK, SnapsOK, SnapshotOK
  <2>. QED
    BY <2>5, <2>6
<1>2. IndInv /\ [Next]_vars =>
        [job.op = "restore" /\ job' = Idle /\ failures' = failures /\ snaps[job.of].copied = "all"
         => \A id \in snaps[job.of].kept : Holds(rows', disk', id)]_vars
  BY <1>1
<1>. QED
  BY <1>2, Inductive, PTL DEF Spec, RestoreBringsBack
=============================================================================
