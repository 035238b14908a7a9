------------------------------ MODULE MCParts ------------------------------
(***************************************************************************)
(* The parts that share nothing with each other but the lock, checked in   *)
(* one run.  A behaviour is about one part, chosen at the start; the       *)
(* variables of the others keep their initial values, so that the state    *)
(* spaces are added and not multiplied.                                    *)
(***************************************************************************)
EXTENDS Attachments, FieldUpdates, CustomFields, ProjectComponents, IssueLinks,
        RemoteLinks, Accounts, ImportBatch,
        RequestAudit, ConfigImport, WebhookRegistry, JqlClauses, SearchPages, TLC

CONSTANTS i1, i2, a, b

\* Issues and the names of files are interchangeable.
MCSymmetry == Permutations({i1, i2}) \cup Permutations({a, b})

VARIABLE part   \* the part this behaviour is about

PartsInit ==
  /\ part \in {"attachments", "fields", "custom", "components", "links", "remote",
              "accounts", "import", "audit", "config", "webhooks", "jql", "pages"}
  /\ Init
  /\ FieldInit
  /\ CustomInit
  /\ ComponentInit
  /\ LinkInit
  /\ RemoteInit
  /\ AccountInit
  /\ ImportInit
  /\ AuditInit
  /\ ConfigInit
  /\ HookInit
  /\ JqlInit
  /\ PageInit
  /\ part # "fields" => field = "labels"
  /\ part # "custom" => mapped = "no"
  /\ part # "config" => follows = "none"
  /\ part # "pages" => found = {}

\* The others stay as they are.
OthersStay ==
  /\ IF part = "attachments" THEN TRUE ELSE UNCHANGED vars
  /\ IF part = "fields" THEN TRUE ELSE UNCHANGED fieldVars
  /\ IF part = "custom" THEN TRUE ELSE UNCHANGED customVars
  /\ IF part = "components" THEN TRUE ELSE UNCHANGED componentVars
  /\ IF part = "links" THEN TRUE ELSE UNCHANGED linkVars
  /\ IF part = "remote" THEN TRUE ELSE UNCHANGED remoteVars
  /\ IF part = "accounts" THEN TRUE ELSE UNCHANGED accountVars
  /\ IF part = "import" THEN TRUE ELSE UNCHANGED importVars
  /\ IF part = "audit" THEN TRUE ELSE UNCHANGED auditVars
  /\ IF part = "config" THEN TRUE ELSE UNCHANGED configVars
  /\ IF part = "webhooks" THEN TRUE ELSE UNCHANGED hookVars
  /\ IF part = "jql" THEN TRUE ELSE UNCHANGED jqlVars
  /\ IF part = "pages" THEN TRUE ELSE UNCHANGED pageVars

PartsNext ==
  /\ UNCHANGED part
  /\ \/ part = "attachments" /\ Next
     \/ part = "fields" /\ FieldNext
     \/ part = "custom" /\ CustomNext
     \/ part = "components" /\ ComponentNext
     \/ part = "links" /\ LinkNext
     \/ part = "remote" /\ RemoteNext
     \/ part = "accounts" /\ AccountNext
     \/ part = "import" /\ ImportNext
     \/ part = "audit" /\ AuditNext
     \/ part = "config" /\ ConfigNext
     \/ part = "webhooks" /\ HookNext
     \/ part = "jql" /\ JqlNext
     \/ part = "pages" /\ PageNext
  /\ OthersStay

PartsSpec == PartsInit /\ [][PartsNext]_<<part, vars, fieldVars, customVars, componentVars, linkVars, remoteVars,
                     accountVars, importVars, auditVars, configVars, hookVars, jqlVars, pageVars>>
=============================================================================
