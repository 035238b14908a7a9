--------------------------- MODULE CommentThreads ---------------------------
(***************************************************************************)
(* Comments and their replies.  REST takes any comment of the issue as the *)
(* parent and answers to the root of its thread; the page offers the       *)
(* comments it shows at the top level, and the form takes the id it is     *)
(* sent; an import skips comments with an empty body, which REST accepts,  *)
(* and gives every other one of the file a new id, once more each time.    *)
(* The page shows a comment at the top level or under one.                 *)
(*                                                                         *)
(* Comments go with their issue only, and SQLite gives the highest free    *)
(* ids again, so a page that was loaded before may name another comment.   *)
(* A deleted issue may be imported again under its key.                    *)
(***************************************************************************)
EXTENDS Integers, FiniteSets, FiniteSetsExt

CONSTANTS
  Threaded,      \* issues
  MaxComments,   \* bound: the highest id of a comment
  MaxEmpty       \* bound: comments with an empty body at a time

ASSUME CommentsAssumption == MaxComments \in Nat /\ MaxEmpty \in Nat

VARIABLES
  comments,   \* id -> issue, parent, whether the body is empty, and whether it
              \* comes from an outdated page
  outdated,   \* issues were deleted since a page was loaded that is still open
  threadFile  \* an exported issue: id -> parent, and whether the body is empty

threadVars == <<comments, outdated, threadFile>>

TopLevel == 0   \* parent_id NULL

Of(i) == {id \in DOMAIN comments : comments[id].issue = i}
LastComment == Max(DOMAIN comments \cup {0})
NoFile == [id \in {} |-> 0]

ThreadInit ==
  /\ comments = [id \in {} |-> 0]
  /\ outdated = FALSE /\ threadFile = NoFile

\* One more row; a reply to a stray comment is as stray as that is.
Insert(i, parent, empty, stray) ==
  LET new == LastComment + 1 IN
  /\ new <= MaxComments
  /\ empty => Cardinality({id \in DOMAIN comments : comments[id].empty}) < MaxEmpty
  /\ comments' = [id \in DOMAIN comments \cup {new} |->
                    IF id = new
                    THEN [issue |-> i, parent |-> parent, empty |-> empty, stray |-> stray]
                    ELSE comments[id]]
-----------------------------------------------------------------------------
\* A comment by REST or by an update operation, neither of which asks for a body.
Comment(i, empty) == Insert(i, TopLevel, empty, FALSE) /\ UNCHANGED <<outdated, threadFile>>

\* Fault for Root: the comment itself.
RootItself(id) == id

\* The thread a reply to the comment goes to.
Root(id) == IF comments[id].parent = TopLevel THEN id ELSE comments[id].parent

\* The parent has to be a comment of the issue.
Reply(i, id, empty) ==
  /\ id \in Of(i)
  /\ Insert(i, Root(id), empty, comments[id].stray)
  /\ UNCHANGED <<outdated, threadFile>>

\* The form inserts the id its page offered, whatever that is by now: a page
\* that is up to date offers the comments at the top level, an older one ids
\* that may have come back.  An id that is gone breaks the foreign key.  The
\* form asks for a body.
ReplyOnPage(i, id) ==
  /\ \/ id \in Of(i) /\ comments[id].parent = TopLevel /\ Insert(i, id, FALSE, FALSE)
     \/ outdated /\ Insert(i, id, FALSE, TRUE)
  /\ UNCHANGED <<outdated, threadFile>>

\* Only issues without stray comments are exported, to keep the model small.
Export(i) ==
  /\ Of(i) # {} /\ \A id \in Of(i) : ~comments[id].stray
  /\ threadFile' = [id \in Of(i) |-> [parent |-> comments[id].parent, empty |-> comments[id].empty]]
  /\ UNCHANGED <<comments, outdated>>

\* Those of the file that an import does not skip.
Kept == {id \in DOMAIN threadFile : ~threadFile[id].empty}

\* The ids they get, in the order of the file.
NewId(id) == LastComment + Cardinality({k \in Kept : k <= id})

\* Fault for NewParent: the parent's id in the file.
OldParent(id) == threadFile[id].parent

\* A parent that was not inserted before the comment is left out: only a comment
\* that was is in comment_id_map.
NewParent(id) ==
  LET parent == threadFile[id].parent IN
  IF parent \in Kept /\ parent < id THEN NewId(parent) ELSE TopLevel

ImportThreads(i) ==
  LET OldId(k) == CHOOSE id \in Kept : NewId(id) = k
      added == {NewId(id) : id \in Kept}
  IN  /\ threadFile # NoFile /\ \A k \in added : k <= MaxComments
      /\ comments' = [k \in DOMAIN comments \cup added |->
                        IF k \in added
                        THEN [issue |-> i, parent |-> NewParent(OldId(k)),
                              empty |-> FALSE, stray |-> FALSE]
                        ELSE comments[k]]
      /\ UNCHANGED <<outdated, threadFile>>

\* The issue is deleted: a reply elsewhere to one of its comments becomes a
\* comment of its own.
DeleteThreads(i) ==
  /\ Of(i) # {}
  /\ comments' = [id \in DOMAIN comments \ Of(i) |->
                    [comments[id] EXCEPT !.parent = IF @ \in Of(i) THEN TopLevel ELSE @]]
  /\ outdated' = TRUE
  /\ UNCHANGED threadFile

\* What goes with its parent.
WithReplies(S) == \A id \in DOMAIN comments : comments[id].parent \in S => id \in S

\* The comments of the issue, the replies to them, and so on.
Under(i) ==
  {id \in DOMAIN comments :
     \A S \in SUBSET DOMAIN comments : Of(i) \subseteq S /\ WithReplies(S) => id \in S}

\* The project of the issue is deleted: the table's own cascade takes replies
\* elsewhere along.
CascadeThreads(i) ==
  /\ Of(i) # {}
  /\ comments' = [id \in DOMAIN comments \ Under(i) |-> comments[id]]
  /\ outdated' = TRUE
  /\ UNCHANGED threadFile

ThreadNext ==
  \E i \in Threaded :
    \/ \E empty \in BOOLEAN :
         Comment(i, empty) \/ \E id \in DOMAIN comments : Reply(i, id, empty)
    \/ Export(i) \/ ImportThreads(i) \/ DeleteThreads(i) \/ CascadeThreads(i)
    \/ \E id \in DOMAIN comments : ReplyOnPage(i, id)

ThreadSpec == ThreadInit /\ [][ThreadNext]_threadVars
-----------------------------------------------------------------------------
\* The page shows every comment of an issue, at the top level or under a
\* comment at the top level: a reply's parent is a comment of the same issue
\* that is no reply, however replies by REST, by the page and by imports
\* follow each other.  Only a form sent from a page that was loaded before an
\* issue was deleted can break it (issues.py:376-399, web/routes.py:1085-1098,
\* issue_detail.html:225-245).
EveryCommentIsShown ==
  \A id \in DOMAIN comments :
    LET parent == comments[id].parent IN
    ~comments[id].stray /\ parent # TopLevel =>
      parent \in Of(comments[id].issue) /\ comments[parent].parent = TopLevel

\* An import adds the file's comments that have a body with the threads they
\* had, also when the issue has comments already, some of them from the same
\* file, and touches none of those.  Only the replies to a comment without a
\* body lose their thread: it is skipped, and they come to the top level
\* (import_service.py:682-712).
ImportKeepsThreads ==
  [][ \A i \in Threaded : ImportThreads(i) =>
        /\ DOMAIN comments' = DOMAIN comments \cup {NewId(x) : x \in Kept}
        /\ \A id \in DOMAIN comments : comments'[id] = comments[id]
        /\ \A x, y \in Kept :
             (threadFile[x].parent = y) <=> (comments'[NewId(x)].parent = NewId(y))
        /\ \A x \in Kept :
             threadFile[x].parent \notin Kept => comments'[NewId(x)].parent = TopLevel ]_threadVars

\* Both: threads stay one level deep, and imports carry them
\* (issues.py:376-399, import_service.py:682-712).
ThreadsStayWhole == ImportKeepsThreads /\ []EveryCommentIsShown
=============================================================================
