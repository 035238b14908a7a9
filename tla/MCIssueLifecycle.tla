-------------------------- MODULE MCIssueLifecycle --------------------------
(***************************************************************************)
(* The RHAISTRAT workflow cut to four statuses; one request per kind of    *)
(* edit the handlers tell apart.                                           *)
(***************************************************************************)
EXTENDS IssueLifecycle

CONSTANTS s1, s2, major, minor, alice, duplicate

\* New -> In Progress -> Done -> In Progress, and Closed from anywhere.
MCTransitions ==
  { [from |-> "New", to |-> "In Progress"], [from |-> "In Progress", to |-> "Done"],
    [from |-> "Done", to |-> "In Progress"], [from |-> Null, to |-> "Closed"] }

\* Set, change and clear; several fields at once; an unknown name.
MCEdits ==
  { [summary |-> s2], [assignee |-> alice], [assignee |-> Null],
    [priority |-> major], [priority |-> Unknown], [resolution |-> duplicate],
    [resolution |-> Unknown], [summary |-> s1, priority |-> Null, resolution |-> Null] }

\* The form sends every field; a status that stays is no change.
MCWebEdits ==
  { [summary |-> s1, priority |-> major, assignee |-> Null, status |-> "New"],
    [summary |-> s2, priority |-> minor, assignee |-> alice, status |-> "Done"] }

\* A resolved row and an open one.
MCImports ==
  { [summary |-> s1, priority |-> minor, assignee |-> Null,
     resolution |-> duplicate, status |-> "Closed", dated |-> FALSE],
    [summary |-> s2, priority |-> Null, assignee |-> alice,
     resolution |-> Null, status |-> "In Progress", dated |-> FALSE] }
=============================================================================
