---------------------------- MODULE Attachments ----------------------------
(***************************************************************************)
(* Attachments: a row in the database and a file named {id}_{filename}     *)
(* under ATTACHMENT_DIR, which no transaction covers.                      *)
(*                                                                         *)
(* Files are written and removed before the commit, a rollback or a crash  *)
(* leaves them as they are, and SQLite gives the highest free row id to    *)
(* the next upload, so a path may be written again by another attachment.  *)
(* Snapshots copy the database first and the directory after it; a restore *)
(* writes the database back first and the directory after it.              *)
(*                                                                         *)
(* The operation lock admits one request at a time (DatabaseLock): job is  *)
(* the one at work.  A content is the number of the upload it came with.   *)
(***************************************************************************)
EXTENDS Integers, FiniteSets, FiniteSetsExt

CONSTANTS
  Issues,        \* issues that exist
  Names,         \* file names clients send
  Snapshots,     \* names of snapshots
  MaxUploads,    \* bound: files uploaded in a behaviour
  MaxFailures    \* bound: crashes and failing requests

ASSUME AttachmentsAssumption == MaxUploads \in Nat /\ MaxFailures \in Nat

VARIABLES
  rows,      \* the committed rows: id -> issue, name, content
  disk,      \* ATTACHMENT_DIR: path -> content
  job,       \* the request at work, with its transaction's image of the rows
  snaps,     \* the snapshots on disk: name -> rows, directory, copied or not
  uploads,   \* how many files were uploaded so far
  failures   \* history

vars == <<rows, disk, job, snaps, uploads, failures>>

Empty == [x \in {} |-> 0]
Without(f, S) == [x \in DOMAIN f \ S |-> f[x]]
With(f, x, v) == [y \in DOMAIN f \cup {x} |-> IF y = x THEN v ELSE f[y]]

Idle == [op |-> "idle"]

Init ==
  /\ rows = Empty /\ disk = Empty /\ snaps = Empty
  /\ job = Idle
  /\ uploads = 0 /\ failures = 0

\* Fault for FilePath: the file is named like the upload.
FilePathByName(id, name) == <<0, name>>

FilePath(id, name) == <<id, name>>

PathOf(rs, id) == FilePath(id, rs[id].name)

\* The row's file holds what was uploaded with it.
Holds(rs, files, id) ==
  id \in DOMAIN rs /\ PathOf(rs, id) \in DOMAIN files /\ files[PathOf(rs, id)] = rs[id].content

\* SQLite's id for a new row: one past the highest in use, not past the highest ever.
NextId(rs) == Max(DOMAIN rs \cup {0}) + 1
-----------------------------------------------------------------------------
\* A request begins; it may carry several files, so it stores them one by one.
BeginUpload(i) ==
  /\ job = Idle /\ uploads < MaxUploads
  /\ job' = [op |-> "upload", issue |-> i, image |-> rows, stored |-> {}]
  /\ UNCHANGED <<rows, disk, snaps, uploads, failures>>

\* Fault for Stored: a file that is there already is not written again.
StoredOnce(files, path, content) ==
  IF path \in DOMAIN files THEN files ELSE With(files, path, content)

\* open(path, "wb"): whatever the path held is gone.
Stored(files, path, content) == With(files, path, content)

StoreFile(name) ==
  /\ job.op = "upload" /\ uploads < MaxUploads
  /\ LET id == NextId(job.image) IN
     /\ job' = [job EXCEPT !.image = With(@, id, [issue |-> job.issue, name |-> name,
                                                  content |-> uploads + 1]),
                           !.stored = @ \cup {id}]
     /\ disk' = Stored(disk, FilePath(id, name), uploads + 1)
  /\ uploads' = uploads + 1
  /\ UNCHANGED <<rows, snaps, failures>>

\* Fault for Removed: every file of that name goes.
RemovedByName(files, path) == Without(files, {p \in DOMAIN files : p[2] = path[2]})

Removed(files, path) == Without(files, {path})

\* The file goes before the row does.
DeleteAttachment(id) ==
  /\ job = Idle /\ id \in DOMAIN rows
  /\ disk' = Removed(disk, PathOf(rows, id))
  /\ job' = [op |-> "delete", id |-> id, image |-> Without(rows, {id})]
  /\ UNCHANGED <<rows, snaps, uploads, failures>>

Commit ==
  /\ job.op \in {"upload", "delete"}
  /\ job.op = "upload" => job.stored # {}
  /\ rows' = job.image
  /\ job' = Idle
  /\ UNCHANGED <<disk, snaps, uploads, failures>>

\* Deleting an issue or its project deletes the rows and not the files.
DeleteIssue(i) ==
  /\ job = Idle /\ \E id \in DOMAIN rows : rows[id].issue = i
  /\ rows' = Without(rows, {id \in DOMAIN rows : rows[id].issue = i})
  /\ UNCHANGED <<disk, job, snaps, uploads, failures>>

\* A reset drops and creates the tables; ATTACHMENT_DIR stays as it is.
Reset ==
  /\ job = Idle /\ rows # Empty
  /\ rows' = Empty
  /\ UNCHANGED <<disk, job, snaps, uploads, failures>>
-----------------------------------------------------------------------------
\* The backup of the database; kept is what a restore should bring back.
BeginSnapshot(s) ==
  /\ job = Idle /\ s \notin DOMAIN snaps
  /\ snaps' = With(snaps, s, [rows |-> rows, files |-> Empty, copied |-> "no",
                              kept |-> {id \in DOMAIN rows : Holds(rows, disk, id)}])
  /\ job' = [op |-> "snapshot", of |-> s]
  /\ UNCHANGED <<rows, disk, uploads, failures>>

\* copytree beside the backup.
CopyToSnapshot ==
  /\ job.op = "snapshot"
  /\ snaps' = [snaps EXCEPT ![job.of].files = disk, ![job.of].copied = "all"]
  /\ job' = Idle
  /\ UNCHANGED <<rows, disk, uploads, failures>>

BeginRestore(s) ==
  /\ job = Idle /\ s \in DOMAIN snaps
  /\ rows' = snaps[s].rows
  /\ job' = [op |-> "restore", of |-> s]
  /\ UNCHANGED <<disk, snaps, uploads, failures>>

\* Fault for Replaced: files that are there already are kept.
ReplacedIfMissing(files, copy) ==
  [p \in DOMAIN files \cup DOMAIN copy |-> IF p \in DOMAIN files THEN files[p] ELSE copy[p]]

\* rmtree, then copytree.
Replaced(files, copy) == copy

\* A snapshot without a directory beside it leaves the files alone.
CopyFromSnapshot ==
  /\ job.op = "restore"
  /\ disk' = IF snaps[job.of].copied = "no" THEN disk ELSE Replaced(disk, snaps[job.of].files)
  /\ job' = Idle
  /\ UNCHANGED <<rows, snaps, uploads, failures>>

DeleteSnapshot(s) ==
  /\ job = Idle /\ s \in DOMAIN snaps
  /\ snaps' = Without(snaps, {s})
  /\ UNCHANGED <<rows, disk, job, uploads, failures>>
-----------------------------------------------------------------------------
\* The request fails, or the process dies: the transaction is rolled back, the
\* files stay as they are, and a copy under way ends at any of its files.
Fail ==
  /\ job # Idle /\ failures < MaxFailures
  /\ failures' = failures + 1
  /\ job' = Idle
  /\ UNCHANGED <<rows, uploads>>
  /\ \/ UNCHANGED <<disk, snaps>>
     \/ /\ job.op = "snapshot"
        /\ \E P \in SUBSET DOMAIN disk :
             snaps' = [snaps EXCEPT ![job.of].files = Without(disk, P),
                                    ![job.of].copied = "some"]
        /\ UNCHANGED disk
     \/ /\ job.op = "restore" /\ snaps[job.of].copied # "no"
        /\ \E P \in SUBSET DOMAIN disk : disk' = Without(disk, P)
        /\ UNCHANGED snaps
     \/ /\ job.op = "restore" /\ snaps[job.of].copied # "no"
        /\ \E P \in SUBSET DOMAIN snaps[job.of].files :
             disk' = Without(snaps[job.of].files, P)
        /\ UNCHANGED snaps

Next ==
  \/ \E i \in Issues : BeginUpload(i) \/ DeleteIssue(i)
  \/ \E name \in Names : StoreFile(name)
  \/ \E id \in DOMAIN rows : DeleteAttachment(id)
  \/ Commit \/ Reset
  \/ \E s \in Snapshots : BeginSnapshot(s) \/ BeginRestore(s) \/ DeleteSnapshot(s)
  \/ CopyToSnapshot \/ CopyFromSnapshot
  \/ Fail

Spec == Init /\ [][Next]_vars
-----------------------------------------------------------------------------
Rows(rs) ==
  /\ DOMAIN rs \subseteq 1..MaxUploads
  /\ \A id \in DOMAIN rs :
       rs[id] \in [issue : Issues, name : Names, content : 1..uploads]

\* Type correctness; two rows never share a file.
TypeOK ==
  /\ Rows(rows)
  /\ job.op \in {"upload", "delete"} => Rows(job.image)
  /\ \A p \in DOMAIN disk : disk[p] \in 1..uploads
  /\ DOMAIN snaps \subseteq Snapshots
  /\ \A s \in DOMAIN snaps : Rows(snaps[s].rows) /\ snaps[s].copied \in {"no", "some", "all"}
  /\ uploads \in 0..MaxUploads /\ failures \in 0..MaxFailures
  /\ \A i, j \in DOMAIN rows : PathOf(rows, i) = PathOf(rows, j) => i = j

\* An attachment that can be downloaded can be downloaded until it is deleted
\* itself or a snapshot is restored: no other upload, committed, failed or
\* cut off, whatever id it was given, writes or removes its file
\* (attachments.py:88-110, 201-207).
ContentKept ==
  [][ \A id \in DOMAIN rows :
        /\ Holds(rows, disk, id)
        /\ id \in DOMAIN rows' /\ rows'[id] = rows[id]
        /\ ~(job'.op = "delete" /\ job'.id = id) /\ job.op # "restore"
        => Holds(rows', disk', id) ]_vars

\* An upload that is answered is stored: each of its rows has its own bytes,
\* although an earlier attempt may have left a file under the very same name
\* (attachments.py:83-110).
UploadsAreStored ==
  [][ job.op = "upload" /\ rows' # rows => \A id \in job.stored : Holds(rows', disk', id) ]_vars

\* A restore that is answered, from a snapshot whose creation was answered,
\* brings back every attachment that could be downloaded then, with its
\* content, whatever was uploaded under its name since
\* (snapshot_service.py:144-174).
RestoreBringsBack ==
  [][ job.op = "restore" /\ job' = Idle /\ failures' = failures /\ snaps[job.of].copied = "all"
      => \A id \in snaps[job.of].kept : Holds(rows', disk', id) ]_vars
=============================================================================
