------------------------- MODULE MCIssueAndComments -------------------------
(***************************************************************************)
(* The life of one issue (the instance of MCIssueLifecycle), or the        *)
(* comments of two issues, with room for a thread of a file next to the    *)
(* one it was exported from and for a comment without a body.  The two     *)
(* share no state, so a behaviour is about one of them.                    *)
(***************************************************************************)
EXTENDS MCIssueLifecycle, CommentThreads, TLC

CONSTANTS i1, i2

VARIABLE about   \* what the behaviour is about

StoryInit ==
  /\ about \in {"issue", "comments"}
  /\ Init /\ ThreadInit

StoryNext ==
  /\ \/ about = "issue" /\ Next /\ UNCHANGED threadVars
     \/ about = "comments" /\ ThreadNext /\ UNCHANGED vars
  /\ UNCHANGED about

StorySpec == StoryInit /\ [][StoryNext]_<<about, vars, threadVars>>

\* The issues with comments are interchangeable.
MCSymmetry == Permutations({i1, i2})
=============================================================================
