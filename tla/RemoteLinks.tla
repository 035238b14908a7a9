---------------------------- MODULE RemoteLinks ----------------------------
(***************************************************************************)
(* The remote links of an issue.  POST with a globalId updates the link    *)
(* that has it; PUT replaces a link by its id, its globalId included, and  *)
(* compares it with no other; nothing in the table keeps globalIds apart.  *)
(* A lookup by a globalId that two links have fails the request.           *)
(***************************************************************************)
EXTENDS Integers, FiniteSets, FiniteSetsExt

CONSTANTS
  LinkOwners,   \* issues that exist
  GlobalIds,
  MaxRemote     \* bound: the highest id

VARIABLES
  remote,    \* remote_links: id -> issue, globalId
  put        \* history: pairs of issue and globalId that a PUT gave to a second link

remoteVars == <<remote, put>>

NoGlobalId == "none"

ASSUME RemoteLinksAssumption == MaxRemote \in Nat /\ NoGlobalId \notin GlobalIds

RemoteInit == remote = [id \in {} |-> 0] /\ put = {}

ByGlobalId(i, g) == {id \in DOMAIN remote : remote[id].issue = i /\ remote[id].globalId = g}

WithoutRemote(ids) == [id \in DOMAIN remote \ ids |-> remote[id]]

\* Fault for Upserted: a link is created by every POST.
UpsertedAnew(i, g) == {}

\* The links a POST updates: none without a globalId.
Upserted(i, g) == IF g = NoGlobalId THEN {} ELSE ByGlobalId(i, g)
-----------------------------------------------------------------------------
\* Creates a link or rewrites the one that has the globalId; two fail.
PostRemote(i, g) ==
  /\ Cardinality(Upserted(i, g)) < 2
  /\ IF Upserted(i, g) # {} THEN UNCHANGED remote
     ELSE LET new == Max(DOMAIN remote \cup {0}) + 1 IN
          /\ new <= MaxRemote
          /\ remote' = [id \in DOMAIN remote \cup {new} |->
                          IF id = new THEN [issue |-> i, globalId |-> g] ELSE remote[id]]
  /\ UNCHANGED put

PutRemote(id, g) ==
  /\ remote' = [remote EXCEPT ![id].globalId = g]
  /\ put' = IF g # NoGlobalId /\ ByGlobalId(remote[id].issue, g) \ {id} # {}
            THEN put \cup {<<remote[id].issue, g>>} ELSE put

DeleteRemote(id) == remote' = WithoutRemote({id}) /\ UNCHANGED put

DeleteByGlobalId(i, g) ==
  /\ Cardinality(ByGlobalId(i, g)) = 1
  /\ remote' = WithoutRemote(ByGlobalId(i, g))
  /\ UNCHANGED put

RemoteNext ==
  \/ \E i \in LinkOwners, g \in GlobalIds \cup {NoGlobalId} : PostRemote(i, g)
  \/ \E i \in LinkOwners, g \in GlobalIds : DeleteByGlobalId(i, g)
  \/ \E id \in DOMAIN remote :
       DeleteRemote(id) \/ \E g \in GlobalIds \cup {NoGlobalId} : PutRemote(id, g)

RemoteSpec == RemoteInit /\ [][RemoteNext]_remoteVars
-----------------------------------------------------------------------------
\* A globalId names one link of an issue, however often it is posted and
\* whatever was deleted and renamed in between; only a PUT that gives a link
\* the globalId of another one breaks this, and the lookups by globalId with it
\* (remote_links.py:105-121, 144-149).
OneLinkPerGlobalId ==
  \A i \in LinkOwners, g \in GlobalIds :
    Cardinality(ByGlobalId(i, g)) > 1 => <<i, g>> \in put
=============================================================================
