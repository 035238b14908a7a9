---------------------------- MODULE ConfigImport ----------------------------
(***************************************************************************)
(* A project configuration, imported over whatever is there: statuses are  *)
(* updated or added by name, the transitions of the workflow of the file   *)
(* are replaced by a chain through its statuses, and the project is given  *)
(* issue types and workflows.  Issue imports change statuses too.          *)
(* Everything of one import is one transaction.                            *)
(***************************************************************************)
EXTENDS Integers, Sequences, FiniteSets, Bags, SequencesExt

CONSTANTS
  StatusNames,   \* statuses; a configuration's ids are its names
  MaxStatuses,   \* bound: statuses of a workflow
  NoStatus       \* an entry without a status id

ASSUME ConfigAssumption == NoStatus \notin StatusNames /\ MaxStatuses \in Nat

Categories == {"indeterminate", "done"}
Anywhere == "anywhere"   \* the source of a global transition

\* place is the sequence number of an entry; a permutation here.
Orders == UNION {[1..n -> [status : StatusNames \cup {NoStatus}, place : 1..n]] : n \in 0..MaxStatuses}
Configs ==
  [statuses : UNION {[S -> Categories] : S \in SUBSET StatusNames},
   entries : {o \in Orders : IsInjective([n \in DOMAIN o |-> o[n].place])},
   project : BOOLEAN]   \* the project, with an issue type that has the workflow

VARIABLES
  statuses,      \* name -> category
  transitions,   \* the rows of the file's workflow: from, to, and how many
  offered,       \* how many times the project has the issue type
  follows,       \* the workflow of the issue type: "none", "seeded", "imported"
  previous       \* history: the configuration of the step before, if it was an import

configVars == <<statuses, transitions, offered, follows, previous>>

NoConfig == [statuses |-> [s \in {} |-> "done"], entries |-> <<>>, project |-> FALSE]

ConfigInit ==
  /\ statuses = [s \in {} |-> "done"]
  /\ transitions = EmptyBag
  /\ offered = 0
  /\ follows \in {"none", "seeded"}
  /\ previous = NoConfig

\* The statuses of the file, over those that are there.
StatusesAfter(c) ==
  [s \in DOMAIN statuses \cup DOMAIN c.statuses |->
     IF s \in DOMAIN c.statuses THEN c.statuses[s] ELSE statuses[s]]

\* Fault for Ordered: as the file lists them.
AsListed(c) == [n \in DOMAIN c.entries |-> c.entries[n].status]

\* The statuses of the workflow by their sequence numbers.
Ordered(c) ==
  [n \in DOMAIN c.entries |-> (CHOOSE e \in ToSet(c.entries) : e.place = n).status]

\* Only the statuses of the file itself are known.
Known(c, s) == s \in DOMAIN c.statuses

\* An entry without an id ends the workflow with an error: the transitions
\* before it stay, and the workflow is not given to the project.
Breaks(c) == \E n \in DOMAIN c.entries : Ordered(c)[n] = NoStatus

Reached(c) ==
  IF Breaks(c) THEN SelectInSeq(Ordered(c), LAMBDA s : s = NoStatus) - 1 ELSE Len(c.entries)

\* Unknown statuses are passed over with an error, and so are the transitions
\* from and to them.
Chain(c) ==
  LET o == Ordered(c)
      steps == {n \in 2..Reached(c) : Known(c, o[n - 1]) /\ Known(c, o[n])}
  IN [t \in {<<o[n - 1], o[n]>> : n \in steps} |-> Cardinality({n \in steps : <<o[n - 1], o[n]>> = t})]

\* Into the last status from anywhere, when it is a done one.
Close(c) ==
  LET final == Ordered(c)[Len(c.entries)] IN
  IF c.entries # <<>> /\ ~Breaks(c) /\ Known(c, final) /\ c.statuses[final] = "done"
  THEN SetToBag({<<Anywhere, final>>}) ELSE EmptyBag

\* Fault for Rebuilt: the transitions of the workflow are not deleted first.
AddedTo(c) == transitions (+) Chain(c) (+) Close(c)

Rebuilt(c) == Chain(c) (+) Close(c)

\* Fault for Offered: the association is added unseen.
OfferedAgain(c) == IF c.project THEN offered + 1 ELSE offered

\* The issue type is given to the project unless the project has it.
Offered(c) == IF c.project /\ offered = 0 THEN 1 ELSE offered

ImportConfig(c) ==
  /\ statuses' = StatusesAfter(c)
  /\ transitions' = Rebuilt(c)
  /\ offered' = Offered(c)
  /\ follows' = IF c.project /\ ~Breaks(c) THEN "imported" ELSE follows
  /\ previous' = c

\* An issue is imported; without a category its status gets the default one.
ImportStatus(s, category) ==
  /\ statuses' = [t \in DOMAIN statuses \cup {s} |-> IF t = s THEN category ELSE statuses[t]]
  /\ previous' = NoConfig
  /\ UNCHANGED <<transitions, offered, follows>>

ConfigNext ==
  \/ \E c \in Configs : ImportConfig(c)
  \/ \E s \in StatusNames, category \in Categories : ImportStatus(s, category)

ConfigSpec == ConfigInit /\ [][ConfigNext]_configVars
-----------------------------------------------------------------------------
\* Importing a file a second time changes nothing, as the importer promises,
\* whatever was there before the first time (config_import_service.py:40-43,
\* 191-209, 290-322).
ImportIsIdempotent ==
  [][ previous # NoConfig /\ previous' = previous
      => UNCHANGED <<statuses, transitions, offered, follows>> ]_configVars

\* One gets from s to t: no set that transitions do not lead out of has only s.
Leads(s, t) ==
  \A region \in SUBSET StatusNames :
    /\ s \in region
    /\ \A step \in DOMAIN transitions : step[1] \in region => step[2] \in region
    => t \in region

\* A workflow imported without an error leads from each status to those that
\* have a greater sequence number, in whatever order the file lists them, and
\* to a done one at the end from everywhere; nothing of an earlier workflow is
\* left in it, nor a row twice that is there once in the file
\* (config_import_service.py:204-247).
WorkflowLeadsToItsEnd ==
  LET StatusAt(n) == (CHOOSE e \in ToSet(previous.entries) : e.place = n).status
      end == Len(previous.entries)
      closing == <<Anywhere, StatusAt(end)>>
  IN previous # NoConfig /\ (\A e \in ToSet(previous.entries) : Known(previous, e.status))
     => /\ \A m \in 1..end : \A n \in m..end : Leads(StatusAt(m), StatusAt(n))
        /\ end > 0 /\ previous.statuses[StatusAt(end)] = "done" => closing \in DOMAIN transitions
        /\ \A step \in DOMAIN transitions :
             transitions[step] <= Cardinality({n \in 2..end : step = <<StatusAt(n - 1), StatusAt(n)>>})
                                  + (IF step = closing THEN 1 ELSE 0)

\* An import ends in the state its file describes, and a second one finds it so
\* (config_import_service.py:40-66).
ImportSettles == ImportIsIdempotent /\ []WorkflowLeadsToItsEnd
=============================================================================
