----------------------------- MODULE MCIssueKeys -----------------------------
(* Small instances of IssueKeys for TLC. *)
EXTENDS IssueKeys, TLC

SessionSymmetry == Permutations(Sessions)
=============================================================================
