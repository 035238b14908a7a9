---------------------------- MODULE MCDatabaseLock ----------------------------
(* Small instances of DatabaseLock. *)
EXTENDS DatabaseLock

KindOf(c) == CASE c = "writer" -> "request"
               [] c = "restorer" -> "restore"
               [] c = "web" -> "webReset"
               [] OTHER -> "reset"

\* A writer, a restore and one reset of each sort.
AllClients == {"writer", "restorer", "reset", "web"}
AllKinds == [c \in AllClients |-> KindOf(c)]

Restorer == {"restorer"}
RestorerKind == [c \in Restorer |-> KindOf(c)]
=============================================================================
