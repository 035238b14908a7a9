------------------------------ MODULE Accounts ------------------------------
(***************************************************************************)
(* Users and their API tokens.  Users are created by administrators, with  *)
(* checks, and on the way by imports, logins and comments, without.  A     *)
(* token is never deleted: it is revoked, by its owner, an administrator   *)
(* or the owner's deactivation, or it expires.  Whether a token is good is *)
(* decided from the token and its owner when it is used.                   *)
(***************************************************************************)
EXTENDS Integers, FiniteSets

CONSTANTS
  Users,         \* usernames
  DefaultUser,   \* DEFAULT_USER, which cannot be deactivated
  TokenNames,    \* names of tokens, unique for their owner
  OtherEmails    \* addresses besides <username>@example.com

ASSUME AccountsAssumption == DefaultUser \in Users

VARIABLES
  users,     \* username -> email, active, and whether it was made on the way
  tokens,    \* <<owner, name>> -> active, expires, expired
  ended      \* history: tokens that were revoked or expired, or whose owner was deactivated

accountVars == <<users, tokens, ended>>

Emails == Users \cup OtherEmails   \* a username stands for its address at example.com
TokenIds == Users \X TokenNames

AccountInit ==
  /\ users = [u \in {DefaultUser} |-> [email |-> DefaultUser, active |-> TRUE, managed |-> FALSE]]
  /\ tokens = [t \in {} |-> 0]
  /\ ended = {}

\* Fault for EmailTaken: the address is compared with the user's own.
EmailUnchanged(email, u) == u \in DOMAIN users /\ users[u].email = email

\* Another user has the address.
EmailTaken(email, u) == \E v \in DOMAIN users \ {u} : users[v].email = email

Existing == DOMAIN users

WithUser(u, email, managed) ==
  [v \in DOMAIN users \cup {u} |->
     IF v = u THEN [email |-> email, active |-> TRUE, managed |-> managed] ELSE users[v]]
-----------------------------------------------------------------------------
CreateManagedUser(u, email) ==
  /\ u \notin Existing /\ ~EmailTaken(email, u)
  /\ users' = WithUser(u, email, TRUE)
  /\ UNCHANGED <<tokens, ended>>

\* get_or_create_user: the address is made from the name and not checked.
CreateOnTheWay(u) ==
  /\ u \notin Existing
  /\ users' = WithUser(u, u, FALSE)
  /\ UNCHANGED <<tokens, ended>>

UpdateProfile(u, email) ==
  /\ u \in Existing /\ ~EmailTaken(email, u)
  /\ users' = [users EXCEPT ![u].email = email, ![u].managed = TRUE]
  /\ UNCHANGED <<tokens, ended>>

OwnedBy(u) == {t \in DOMAIN tokens : t[1] = u}

\* Fault for AfterStatus: the tokens follow the user's status.
TokensFollow(u, active) ==
  [t \in DOMAIN tokens |-> IF t[1] = u THEN [tokens[t] EXCEPT !.active = active] ELSE tokens[t]]

\* Deactivating revokes every token of the user; activating brings none back.
AfterStatus(u, active) ==
  [t \in DOMAIN tokens |-> IF t[1] = u /\ ~active THEN [tokens[t] EXCEPT !.active = FALSE] ELSE tokens[t]]

SetUserActive(u, active) ==
  /\ u \in Existing /\ (u = DefaultUser => active)
  /\ users' = [users EXCEPT ![u].active = active]
  /\ tokens' = AfterStatus(u, active)
  /\ ended' = IF active THEN ended ELSE ended \cup OwnedBy(u)

\* The name stays taken after the token is revoked.
CreateToken(u, name, expires) ==
  /\ u \in Existing /\ <<u, name>> \notin DOMAIN tokens
  /\ tokens' = [t \in DOMAIN tokens \cup {<<u, name>>} |->
                  IF t = <<u, name>> THEN [active |-> TRUE, expires |-> expires, expired |-> FALSE, used |-> FALSE]
                  ELSE tokens[t]]
  /\ UNCHANGED <<users, ended>>

\* By the owner or by an administrator, for a token of the user named only.
RevokeToken(t) ==
  /\ tokens' = [tokens EXCEPT ![t].active = FALSE]
  /\ ended' = ended \cup {t}
  /\ UNCHANGED users

\* Its time passes.
ExpireToken(t) ==
  /\ tokens[t].expires /\ ~tokens[t].expired
  /\ tokens' = [tokens EXCEPT ![t].expired = TRUE]
  /\ ended' = ended \cup {t}
  /\ UNCHANGED users

Good(t) == tokens[t].active /\ ~tokens[t].expired /\ users[t[1]].active

\* A request with the token: last_used_at is set.
UseToken(t) ==
  /\ Good(t)
  /\ tokens' = [tokens EXCEPT ![t].used = TRUE]
  /\ UNCHANGED <<users, ended>>

AccountNext ==
  \/ \E u \in Users :
       \/ CreateOnTheWay(u)
       \/ \E email \in Emails : CreateManagedUser(u, email) \/ UpdateProfile(u, email)
       \/ \E active \in BOOLEAN : SetUserActive(u, active)
       \/ \E name \in TokenNames, expires \in BOOLEAN : CreateToken(u, name, expires)
  \/ \E t \in DOMAIN tokens : RevokeToken(t) \/ ExpireToken(t) \/ UseToken(t)

AccountSpec == AccountInit /\ [][AccountNext]_accountVars
-----------------------------------------------------------------------------
\* A token that was revoked or has expired, or whose owner was deactivated
\* after it was made, is never good again: activating the owner brings none
\* back, nor does anything else that is done to users and tokens
\* (auth_service.py:64-84, user_service.py:139-146).
EndedTokensStayEnded ==
  \A t \in ended : ~Good(t)

\* Two users have one address only if one of them was made on the way, with
\* the address made from its name: among the users that administrators created
\* or changed an address belongs to one, so that logging in with it finds one
\* (user_service.py:86-92, 115-136, auth_service.py:90-93).
ManagedEmailsUnique ==
  \A u, v \in Existing :
    users[u].email = users[v].email /\ users[u].managed /\ users[v].managed => u = v

\* Both: what administrators take away stays away, and an address that they
\* give is one user's (user_service.py:86-146).
AccountsStayInHand == EndedTokensStayEnded /\ ManagedEmailsUnique
=============================================================================
