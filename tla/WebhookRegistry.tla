--------------------------- MODULE WebhookRegistry ---------------------------
(***************************************************************************)
(* Webhook registrations.  A user registers dynamic webhooks in batches,   *)
(* up to a limit; they expire, and an expired one stays in the table, where*)
(* its owner can refresh or delete it.  Administrators keep webhooks of    *)
(* their own, with a secret.  An event is posted once for each owner and   *)
(* address of the dynamic registrations it matches.                        *)
(***************************************************************************)
EXTENDS Integers, Sequences, FiniteSets, FiniteSetsExt, SequencesExt

CONSTANTS
  Owners,
  Addresses,      \* URLs
  DynamicLimit,   \* 5 in the code
  MaxHooks,       \* bound: ids
  MaxBatch        \* bound: registrations in one request

Nobody == "nobody"   \* the owner of an administrator's webhook

ASSUME RegistryAssumption ==
  /\ DynamicLimit \in Nat /\ MaxHooks \in Nat /\ MaxBatch \in Nat
  /\ Nobody \notin Owners

VARIABLES hooks   \* the rows by id

hookVars == <<hooks>>

HookInit == hooks = [id \in {} |-> 0]

Dynamic(u) == {id \in DOMAIN hooks : hooks[id].owner = u}
AdminHooks == Dynamic(Nobody)

\* SQLite gives the id after the greatest that is left.
NextHookId == Max(DOMAIN hooks \cup {0}) + 1

NewHook(u, address, signed) ==
  [owner |-> u, address |-> address, expired |-> FALSE, signed |-> signed]

\* Fault for Counted: the expired registrations do not count.
CountedLive(u) == {id \in Dynamic(u) : ~hooks[id].expired}

\* An expired registration counts: it may be refreshed.
Counted(u) == Dynamic(u)

\* Each entry by itself, good or not: those beyond the limit fail as well.
CreateDynamic(u, address, entries) ==
  LET good == Cardinality({n \in DOMAIN entries : entries[n]})
      room == Max({0, DynamicLimit - Cardinality(Counted(u))})
      made == NextHookId .. (NextHookId + Min({good, room}) - 1)
  IN /\ made \subseteq 1..MaxHooks
     /\ hooks' = [id \in DOMAIN hooks \cup made |->
                    IF id \in made THEN NewHook(u, address, FALSE) ELSE hooks[id]]

\* Fault for Own: whoever names the ids.
Anyones(u, ids) == {id \in ids \cap DOMAIN hooks : hooks[id].owner # Nobody}

\* The ids named by u that are of its own registrations; others are ignored.
Own(u, ids) == ids \cap Dynamic(u)

DeleteDynamic(u, ids) == hooks' = [id \in DOMAIN hooks \ Own(u, ids) |-> hooks[id]]

RefreshDynamic(u, ids) ==
  hooks' = [id \in DOMAIN hooks |->
              IF id \in Own(u, ids) THEN [hooks[id] EXCEPT !.expired = FALSE] ELSE hooks[id]]

ExpireHook(id) ==
  /\ hooks[id].owner # Nobody /\ ~hooks[id].expired
  /\ hooks' = [hooks EXCEPT ![id].expired = TRUE]

CreateAdmin(address, signed) ==
  /\ NextHookId <= MaxHooks
  /\ hooks' = [id \in DOMAIN hooks \cup {NextHookId} |->
                 IF id \in DOMAIN hooks THEN hooks[id] ELSE NewHook(Nobody, address, signed)]

\* Fault for Overwritten: the row that is made to check the request stays.
ReplacementStays(id, row) ==
  [h \in DOMAIN hooks \cup {NextHookId} |-> IF h \in {id, NextHookId} THEN row ELSE hooks[h]]

\* The request is checked by making a new webhook of it, whose fields the old
\* one takes; then the new one is deleted.
Overwritten(id, row) == [hooks EXCEPT ![id] = row]

\* secret is "kept" when the request does not name one.
UpdateAdmin(id, address, secret) ==
  /\ NextHookId <= MaxHooks
  /\ hooks' = Overwritten(id, NewHook(Nobody, address, IF secret = "kept" THEN hooks[id].signed ELSE secret = "new"))

DeleteAdmin(id) == hooks' = [h \in DOMAIN hooks \ {id} |-> hooks[h]]

HookNext ==
  \/ \E u \in Owners :
       \/ \E address \in Addresses, entries \in BoundedSeq(BOOLEAN, MaxBatch) : CreateDynamic(u, address, entries)
       \/ \E ids \in SUBSET DOMAIN hooks : DeleteDynamic(u, ids) \/ RefreshDynamic(u, ids)
  \/ \E id \in DOMAIN hooks : ExpireHook(id)
  \/ \E address \in Addresses :
       \/ \E signed \in BOOLEAN : CreateAdmin(address, signed)
       \/ \E id \in AdminHooks, secret \in {"kept", "new", "removed"} : UpdateAdmin(id, address, secret)
  \/ \E id \in AdminHooks : DeleteAdmin(id)

HookSpec == HookInit /\ [][HookNext]_hookVars
-----------------------------------------------------------------------------
\* Fault for Group: registrations of one address are posted to together.
GroupByAddress(id) == hooks[id].address

\* What is posted together: an owner's registrations of one address, and an
\* administrator's webhook by itself.
Group(id) == [owner |-> hooks[id].owner, address |-> hooks[id].address,
              admin |-> IF hooks[id].owner = Nobody THEN id ELSE 0]

\* The posts of an event that the registrations of that set match.
Posted(matching) ==
  LET live == {id \in matching : ~hooks[id].expired}
  IN {{id \in live : Group(id) = Group(first)} : first \in live}
-----------------------------------------------------------------------------
\* No user ever has more live registrations than the limit: neither requests
\* with several of them nor expiring, registering anew and refreshing the old
\* ones get past it (webhook_service.py:209-267, webhooks.py:75-95).
LiveWithinLimit ==
  \A u \in Owners : Cardinality({id \in Dynamic(u) : ~hooks[id].expired}) <= DynamicLimit

\* A step changes or removes the webhooks of one owner at most, although ids
\* come back and the ids in a request are whatever the client remembers: those
\* of another owner, or an administrator's, stay (webhooks.py:54-95).
OthersAreUntouched ==
  [][ \A id, other \in DOMAIN hooks :
        LET Changed(x) == x \notin DOMAIN hooks' \/ hooks'[x] # hooks[x]
        IN Changed(id) /\ Changed(other) => hooks[id].owner = hooks[other].owner ]_hookVars

\* An event reaches every live registration it matches by exactly one post,
\* and a post names registrations of one owner and one address, so that no
\* user is told of another's and each gets one post for all of its own
\* (webhook_service.py:288-333).
OnePostPerReceiver ==
  \A matching \in SUBSET DOMAIN hooks :
    /\ \A id \in matching : hooks[id].expired <=> id \notin UNION Posted(matching)
    /\ \A post \in Posted(matching) : \A x, y \in post :
         hooks[x].owner = hooks[y].owner /\ hooks[x].address = hooks[y].address
    /\ \A p, q \in Posted(matching) :
         p # q => p \cap q = {} /\ \A x \in p, y \in q :
                    hooks[x].owner = hooks[y].owner /\ hooks[x].owner # Nobody => hooks[x].address # hooks[y].address

\* Updating a webhook leaves as many as there were: the row that checks the
\* request never receives an event of its own (webhooks.py:164-184).
UpdatesAddNothing ==
  [][ \A id \in AdminHooks : id \in DOMAIN hooks' /\ hooks'[id].address # hooks[id].address
        => DOMAIN hooks' = DOMAIN hooks ]_hookVars

\* All four: the registrations stay within their limits and their owners'
\* hands, and an event uses each of them once (webhook_service.py:209-333).
RegistryStaysInOrder ==
  /\ OthersAreUntouched /\ UpdatesAddNothing
  /\ [](LiveWithinLimit /\ OnePostPerReceiver)
=============================================================================
