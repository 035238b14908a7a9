---------------------------- MODULE ImportProofs ----------------------------
(***************************************************************************)
(* What requests and imports both write stays right, whichever of them     *)
(* comes when: accounts and their tokens, the collections and the custom   *)
(* fields of an issue, the issues of a batch and their parents, links, and *)
(* the configuration of a project; for any users, values, lists, batches,  *)
(* issues and statuses.                                                    *)
(***************************************************************************)
EXTENDS Accounts, FieldUpdates, CustomFields, ImportBatch, IssueLinks, ConfigImport,
        FiniteSetTheorems, TLAPS
-----------------------------------------------------------------------------
(* Accounts: tokens that were taken away stay away and managed addresses   *)
(* stay apart.                                                             *)

UserRow == [email : Emails, active : BOOLEAN, managed : BOOLEAN]
TokenRow == [active : BOOLEAN, expires : BOOLEAN, expired : BOOLEAN, used : BOOLEAN]

\* The tables: every token has an owner.
TablesOK ==
  /\ DOMAIN users \subseteq Users /\ users \in [DOMAIN users -> UserRow]
  /\ DOMAIN tokens \subseteq TokenIds /\ tokens \in [DOMAIN tokens -> TokenRow]
  /\ \A t \in DOMAIN tokens : t[1] \in DOMAIN users

\* A token that has ended is so by itself, and not by its owner's status,
\* which may change back.
EndedOK ==
  /\ ended \subseteq DOMAIN tokens
  /\ \A t \in ended : ~tokens[t].active \/ tokens[t].expired

AccountInd == TablesOK /\ EndedOK /\ ManagedEmailsUnique

LEMMA AccountInitInd == AccountInit => AccountInd
  BY AccountsAssumption
  DEF AccountInit, AccountInd, TablesOK, EndedOK, ManagedEmailsUnique, UserRow, TokenRow,
      Emails, Existing

\* A user is created, who has no token yet.
LEMMA CreateUserInd ==
  ASSUME AccountInd, NEW u \in Users, NEW email \in Emails, NEW managed \in BOOLEAN,
         u \notin Existing, managed => ~EmailTaken(email, u),
         users' = WithUser(u, email, managed), UNCHANGED <<tokens, ended>>
  PROVE  AccountInd'
<1>1. /\ DOMAIN users' = DOMAIN users \cup {u}
      /\ users'[u] = [email |-> email, active |-> TRUE, managed |-> managed]
      /\ \A v \in DOMAIN users : users'[v] = users[v]
  BY DEF WithUser, Existing
<1>2. TablesOK'
  BY <1>1 DEF AccountInd, TablesOK, UserRow, WithUser
<1>3. EndedOK'
  BY DEF AccountInd, EndedOK
<1>4. ManagedEmailsUnique'
  BY <1>1 DEF AccountInd, ManagedEmailsUnique, EmailTaken, Existing
<1> QED
  BY <1>2, <1>3, <1>4 DEF AccountInd

\* An administrator changes an address, to one that nobody else has.
LEMMA UpdateProfileInd ==
  ASSUME AccountInd, NEW u \in Users, NEW email \in Emails, UpdateProfile(u, email)
  PROVE  AccountInd'
<1>1. /\ DOMAIN users' = DOMAIN users /\ u \in DOMAIN users
      /\ users'[u].email = email /\ users'[u].managed /\ users'[u] \in UserRow
      /\ \A v \in DOMAIN users \ {u} : users'[v] = users[v]
  BY DEF UpdateProfile, Existing, AccountInd, TablesOK, UserRow
<1>2. TablesOK'
  BY <1>1 DEF UpdateProfile, AccountInd, TablesOK
<1>3. EndedOK'
  BY DEF UpdateProfile, AccountInd, EndedOK
<1>4. ManagedEmailsUnique'
  BY <1>1 DEF UpdateProfile, AccountInd, ManagedEmailsUnique, EmailTaken, Existing
<1> QED
  BY <1>2, <1>3, <1>4 DEF AccountInd

\* Deactivating ends the user's tokens; activating ends none and revives none.
LEMMA SetUserActiveInd ==
  ASSUME AccountInd, NEW u \in Users, NEW active \in BOOLEAN, SetUserActive(u, active)
  PROVE  AccountInd'
<1>1. /\ DOMAIN users' = DOMAIN users /\ users' \in [DOMAIN users -> UserRow]
      /\ \A v \in DOMAIN users : users'[v].email = users[v].email /\ users'[v].managed = users[v].managed
  BY DEF SetUserActive, Existing, AccountInd, TablesOK, UserRow
<1>2. /\ DOMAIN tokens' = DOMAIN tokens
      /\ \A t \in DOMAIN tokens :
           tokens'[t] = IF t[1] = u /\ ~active THEN [tokens[t] EXCEPT !.active = FALSE] ELSE tokens[t]
  BY DEF SetUserActive, AfterStatus
<1>3. tokens' \in [DOMAIN tokens -> TokenRow]
  BY DEF SetUserActive, AfterStatus, AccountInd, TablesOK, TokenRow
<1>4. TablesOK'
  BY <1>1, <1>2, <1>3 DEF AccountInd, TablesOK
<1>5. EndedOK'
  <2>1. ended' \subseteq DOMAIN tokens
    BY DEF SetUserActive, OwnedBy, AccountInd, EndedOK
  <2>2. ASSUME NEW t \in ended'
        PROVE  ~tokens'[t].active \/ tokens'[t].expired
    <3>1. CASE t[1] = u /\ ~active
      BY <1>2, <2>1, <3>1 DEF AccountInd, TablesOK, TokenRow
    <3>2. CASE ~(t[1] = u /\ ~active)
      <4>1. t \in ended
        BY <3>2 DEF SetUserActive, OwnedBy
      <4> QED
        BY <1>2, <3>2, <4>1 DEF AccountInd, EndedOK
    <3> QED
      BY <3>1, <3>2
  <2> QED
    BY <1>2, <2>1, <2>2 DEF EndedOK
<1>6. ManagedEmailsUnique'
  BY <1>1 DEF AccountInd, ManagedEmailsUnique, Existing
<1> QED
  BY <1>4, <1>5, <1>6 DEF AccountInd

\* A token is new: no ended one has its name, as none is ever deleted.
LEMMA CreateTokenInd ==
  ASSUME AccountInd, NEW u \in Users, NEW name \in TokenNames, NEW expires \in BOOLEAN,
         CreateToken(u, name, expires)
  PROVE  AccountInd'
<1>1. /\ DOMAIN tokens' = DOMAIN tokens \cup {<<u, name>>}
      /\ tokens'[<<u, name>>] \in TokenRow
      /\ \A t \in DOMAIN tokens : tokens'[t] = tokens[t]
      /\ tokens' \in [DOMAIN tokens' -> TokenRow]
  BY DEF CreateToken, TokenRow, AccountInd, TablesOK
<1>2. TablesOK'
  BY <1>1 DEF CreateToken, Existing, AccountInd, TablesOK, TokenIds
<1>3. EndedOK'
  BY <1>1 DEF CreateToken, AccountInd, EndedOK
<1>4. ManagedEmailsUnique'
  BY DEF CreateToken, AccountInd, ManagedEmailsUnique, Existing
<1> QED
  BY <1>2, <1>3, <1>4 DEF AccountInd

\* What a request does to one token never makes it active or unexpired.
LEMMA TokenInd ==
  ASSUME AccountInd, NEW t \in DOMAIN tokens, RevokeToken(t) \/ ExpireToken(t) \/ UseToken(t)
  PROVE  AccountInd'
<1>1. users' = users /\ DOMAIN tokens' = DOMAIN tokens
  BY DEF RevokeToken, ExpireToken, UseToken
<1>2. tokens' \in [DOMAIN tokens -> TokenRow]
  BY DEF RevokeToken, ExpireToken, UseToken, AccountInd, TablesOK, TokenRow
<1>3. TablesOK'
  BY <1>1, <1>2 DEF AccountInd, TablesOK
<1>4. EndedOK'
  <2>1. CASE RevokeToken(t)
    BY <2>1 DEF RevokeToken, AccountInd, TablesOK, TokenRow, EndedOK
  <2>2. CASE ExpireToken(t)
    BY <2>2 DEF ExpireToken, AccountInd, TablesOK, TokenRow, EndedOK
  <2>3. CASE UseToken(t)
    BY <2>3 DEF UseToken, AccountInd, TablesOK, TokenRow, EndedOK
  <2> QED
    BY <2>1, <2>2, <2>3
<1>5. ManagedEmailsUnique'
  BY <1>1 DEF AccountInd, ManagedEmailsUnique, Existing
<1> QED
  BY <1>3, <1>4, <1>5 DEF AccountInd

\* One case for each operation.
LEMMA AccountStep == AccountInd /\ [AccountNext]_accountVars => AccountInd'
<1> SUFFICES ASSUME AccountInd, [AccountNext]_accountVars
             PROVE  AccountInd'
  OBVIOUS
<1>1. ASSUME NEW u \in Users, CreateOnTheWay(u)
      PROVE  AccountInd'
  <2>1. u \in Emails /\ FALSE \in BOOLEAN
    BY DEF Emails
  <2> QED
    BY <1>1, <2>1, CreateUserInd DEF CreateOnTheWay
<1>2. ASSUME NEW u \in Users, NEW email \in Emails, CreateManagedUser(u, email)
      PROVE  AccountInd'
  BY <1>2, CreateUserInd DEF CreateManagedUser
<1>3. ASSUME NEW u \in Users, NEW email \in Emails, UpdateProfile(u, email)
      PROVE  AccountInd'
  BY <1>3, UpdateProfileInd
<1>4. ASSUME NEW u \in Users, NEW active \in BOOLEAN, SetUserActive(u, active)
      PROVE  AccountInd'
  BY <1>4, SetUserActiveInd
<1>5. ASSUME NEW u \in Users, NEW name \in TokenNames, NEW expires \in BOOLEAN,
             CreateToken(u, name, expires)
      PROVE  AccountInd'
  BY <1>5, CreateTokenInd
<1>6. ASSUME NEW t \in DOMAIN tokens, RevokeToken(t) \/ ExpireToken(t) \/ UseToken(t)
      PROVE  AccountInd'
  BY <1>6, TokenInd
<1>7. CASE UNCHANGED accountVars
  BY <1>7 DEF accountVars, AccountInd, TablesOK, EndedOK, ManagedEmailsUnique, Existing
<1> QED
  BY <1>1, <1>2, <1>3, <1>4, <1>5, <1>6, <1>7 DEF AccountNext

LEMMA AccountInvariant == AccountSpec => []AccountInd
  BY AccountInitInd, AccountStep, PTL DEF AccountSpec

\* Every user has a row, every token an owner, and both are of their types.
THEOREM AccountTablesCorrect == AccountSpec => []TablesOK
<1>1. AccountInd => TablesOK
  BY DEF AccountInd
<1> QED
  BY <1>1, AccountInvariant, PTL

\* A token that was revoked, has expired, or whose owner was deactivated is
\* never good again, and an address that administrators give is one user's,
\* whatever else is done to users and tokens and in whatever order.
THEOREM AccountsInHand == AccountSpec => []AccountsStayInHand
<1>1. AccountInd => AccountsStayInHand
  BY DEF AccountInd, AccountsStayInHand, EndedOK, EndedTokensStayEnded, Good
<1> QED
  BY <1>1, AccountInvariant, PTL
-----------------------------------------------------------------------------
(* Collections: what a request does to labels, components or versions, for *)
(* lists of names and of operations of any length.                         *)

\* Step by step a set of numbers comes to contain all of them.
LEMMA StepByStep ==
  ASSUME NEW N \in Nat, NEW G, 0 \in G, \A n \in 1..N : n - 1 \in G => n \in G
  PROVE  \A n \in 0..N : n \in G
<1> DEFINE T == (0..N) \ G
<1>1. SUFFICES ASSUME T # {} PROVE FALSE
  BY <1>1
<1>2. IsWellFoundedOn(OpToRel(<, Nat), Nat)
  BY NatLessThanWellFounded
<1>3. T \subseteq Nat
  OBVIOUS
<1>4. PICK t \in T : \A y \in T : ~(<<y, t>> \in OpToRel(<, Nat))
  BY <1>1, <1>2, <1>3, WFMin
<1>5. \A y \in T : ~(y < t)
  BY <1>3, <1>4 DEF OpToRel
<1>6. t # 0 /\ t \in 1..N /\ t - 1 \in 0..N /\ t - 1 < t
  OBVIOUS
<1>7. t - 1 \in G
  BY <1>5, <1>6
<1> QED
  BY <1>6, <1>7

\* Values on the steps of a list, each made from the one before it.
StepFunctions(N, W) == [W \X (1..N) -> W]
IsRun(f, N, W, start, step) ==
  /\ f \in [0..N -> W] /\ f[0] = start
  /\ \A n \in 1..N : f[n] = step[<<f[n - 1], n>>]

LEMMA Steps ==
  ASSUME NEW N \in Nat, NEW W, NEW start \in W, NEW step \in StepFunctions(N, W)
  PROVE  \E f : IsRun(f, N, W, start, step)
<1> DEFINE Is(f, k) == f \in [0..k -> W] /\ f[0] = start
                       /\ \A n \in 1..k : f[n] = step[<<f[n - 1], n>>]
           G == {k \in 0..N : \E f \in [0..k -> W] : Is(f, k)}
<1>1. 0 \in G
  <2> DEFINE g == [n \in 0..0 |-> start]
  <2>1. g \in [0..0 -> W] /\ Is(g, 0)
    OBVIOUS
  <2> HIDE DEF g, Is
  <2>2. 0 \in 0..N
    OBVIOUS
  <2> QED
    BY <2>1, <2>2
<1>2. ASSUME NEW k \in 1..N, k - 1 \in G
      PROVE  k \in G
  <2>1. PICK f \in [0..(k - 1) -> W] : Is(f, k - 1)
    BY <1>2
  <2> DEFINE g == [n \in 0..k |-> IF n = k THEN step[<<f[k - 1], k>>] ELSE f[n]]
  <2>2. f[k - 1] \in W /\ k \in 1..N
    OBVIOUS
  <2>3. step[<<f[k - 1], k>>] \in W
    BY <2>2 DEF StepFunctions
  <2>4. g \in [0..k -> W]
    BY <2>3
  <2>5. Is(g, k)
    <3>1. g[0] = start
      BY <2>1
    <3>2. ASSUME NEW n \in 1..k
          PROVE  g[n] = step[<<g[n - 1], n>>]
      <4>1. CASE n = k
        <5>1. k \in 0..k /\ k - 1 \in 0..k /\ k - 1 # k
          OBVIOUS
        <5>2. g[k] = step[<<f[k - 1], k>>] /\ g[k - 1] = f[k - 1]
          BY <5>1
        <5> QED
          BY <4>1, <5>2
      <4>2. CASE n # k
        <5>1. n \in 1..(k - 1) /\ g[n] = f[n] /\ g[n - 1] = f[n - 1]
          BY <4>2
        <5> QED
          BY <2>1, <5>1
      <4> QED
        BY <4>1, <4>2
    <3> QED
      BY <2>4, <3>1, <3>2
  <2>6. k \in 0..N
    OBVIOUS
  <2> HIDE DEF g, Is
  <2> QED
    BY <2>4, <2>5, <2>6
<1> HIDE DEF G
<1>3. \A n \in 0..N : n \in G
  BY <1>1, <1>2, StepByStep
<1>4. \E f : Is(f, N)
  BY <1>3 DEF G
<1> QED
  BY <1>4 DEF IsRun
-----------------------------------------------------------------------------
\* Sets of names of the collection, as rows hold them.
NameSets == {S \in SUBSET FieldValues : IsFiniteSet(S)}
Work == [loaded : NameSets, table : NameSets, new : NameSets, gone : NameSets, failed : BOOLEAN,
         dead : NameSets, again : BOOLEAN, seen : NameSets]

\* What the next flush will leave in the table, and whether a key is or will be broken.
InEffect(w) == (w.table \ w.gone) \cup w.new
Breaking(w) == w.failed \/ w.new \cap (w.table \ w.gone) # {}

LEMMA NameSetsOK ==
  /\ {} \in NameSets
  /\ \A S, T \in NameSets : S \cup T \in NameSets /\ S \ T \in NameSets
  /\ \A S \in NameSets : \A T : S \cap T \in NameSets /\ T \cap S \in NameSets
  /\ \A name \in FieldValues : {name} \in NameSets
<1>1. {} \in NameSets
  BY FS_EmptySet DEF NameSets
<1>2. ASSUME NEW S \in NameSets, NEW T \in NameSets
      PROVE  S \cup T \in NameSets /\ S \ T \in NameSets
  BY FS_Union, FS_Subset DEF NameSets
<1>3. ASSUME NEW S \in NameSets, NEW T
      PROVE  S \cap T \in NameSets /\ T \cap S \in NameSets
  <2>1. IsFiniteSet(S \cap T)
    BY FS_Subset DEF NameSets
  <2>2. S \cap T = T \cap S
    OBVIOUS
  <2> QED
    BY <2>1, <2>2 DEF NameSets
<1>4. ASSUME NEW name \in FieldValues
      PROVE  {name} \in NameSets
  BY FS_Singleton DEF NameSets
<1> QED
  BY <1>1, <1>2, <1>3, <1>4

LEMMA FlushedIs ==
  ASSUME NEW w \in Work
  PROVE  LET v == Flushed(w)
         IN  /\ v \in Work /\ v.loaded = w.loaded /\ v.table = InEffect(w)
             /\ v.new = {} /\ v.gone = {} /\ v.failed = Breaking(w)
             /\ v.dead = w.dead \cup w.gone /\ v.again = w.again /\ v.seen = w.seen
             /\ InEffect(v) = InEffect(w) /\ (Breaking(v) <=> Breaking(w))
<1> DEFINE b == w.failed \/ w.new \cap (w.table \ w.gone) # {}
           t == (w.table \ w.gone) \cup w.new
           d == w.dead \cup w.gone
           v == Flushed(w)
<1>1. v = [w EXCEPT !.table = t, !.new = {}, !.gone = {}, !.dead = d, !.failed = b]
  BY DEF Flushed
<1>2. {} \in NameSets /\ b \in BOOLEAN /\ t \in NameSets /\ d \in NameSets
  BY NameSetsOK DEF Work
<1> HIDE DEF b, t, d, v
<1>3. /\ v \in Work /\ v.loaded = w.loaded /\ v.table = t /\ v.new = {} /\ v.gone = {}
      /\ v.failed = b /\ v.dead = d /\ v.again = w.again /\ v.seen = w.seen
  BY <1>1, <1>2 DEF Work
<1>4. t = InEffect(w) /\ b = Breaking(w)
  BY DEF b, t, InEffect, Breaking
<1>5. InEffect(v) = t /\ (Breaking(v) <=> b)
  BY <1>3 DEF InEffect, Breaking
<1> QED
  BY <1>3, <1>4, <1>5 DEF d, v

\* A query changes when rows are written, and not which.
LEMMA LookedUpIs ==
  ASSUME NEW w \in Work
  PROVE  LET v == LookedUp(w)
         IN  /\ v \in Work /\ v.loaded = w.loaded /\ v.again = w.again /\ v.seen = w.seen
             /\ v.dead \cup v.gone = w.dead \cup w.gone /\ w.dead \subseteq v.dead
             /\ v.gone \subseteq w.gone /\ v.new \subseteq w.new
             /\ InEffect(v) = InEffect(w) /\ (Breaking(v) <=> Breaking(w))
             /\ v = IF field = "labels" THEN w ELSE Flushed(w)
<1> DEFINE v == LookedUp(w)
<1>1. CASE field = "labels"
  <2>1. v = w
    BY <1>1 DEF LookedUp
  <2> HIDE DEF v
  <2>2. v = IF field = "labels" THEN w ELSE Flushed(w)
    BY <1>1, <2>1
  <2> QED
    BY <2>1, <2>2 DEF v
<1>2. CASE field # "labels"
  <2>1. v = Flushed(w)
    BY <1>2 DEF LookedUp
  <2> HIDE DEF v
  <2>2. /\ v \in Work /\ v.loaded = w.loaded /\ v.again = w.again /\ v.seen = w.seen
        /\ v.new = {} /\ v.gone = {} /\ v.dead = w.dead \cup w.gone
        /\ InEffect(v) = InEffect(w) /\ (Breaking(v) <=> Breaking(w))
    BY <2>1, FlushedIs
  <2>3. v = IF field = "labels" THEN w ELSE Flushed(w)
    BY <1>2, <2>1
  <2>4. /\ v.dead \cup v.gone = w.dead \cup w.gone /\ w.dead \subseteq v.dead
        /\ v.gone \subseteq w.gone /\ v.new \subseteq w.new
    BY <2>2
  <2> QED
    BY <2>2, <2>3, <2>4 DEF v
<1> QED
  BY <1>1, <1>2

\* An insertion breaks the key when the name will be in the table.
LEMMA InsertedIs ==
  ASSUME NEW w \in Work, NEW name \in FieldValues
  PROVE  LET v == Inserted(w, name)
         IN  /\ v \in Work /\ v.loaded = w.loaded /\ v.table = w.table /\ v.gone = w.gone
             /\ v.new = w.new \cup {name} /\ v.failed = (w.failed \/ name \in w.new)
             /\ v.dead = w.dead /\ v.again = w.again /\ v.seen = w.seen
             /\ InEffect(v) = InEffect(w) \cup {name}
             /\ Breaking(v) <=> Breaking(w) \/ name \in InEffect(w)
<1> DEFINE n == w.new \cup {name}
           b == w.failed \/ name \in w.new
           v == Inserted(w, name)
<1>1. n \in NameSets /\ b \in BOOLEAN
  BY NameSetsOK DEF Work
<1>2. v = [w EXCEPT !.new = n, !.failed = b]
  BY DEF Inserted
<1> HIDE DEF n, b, v
<1>3. /\ v \in Work /\ v.loaded = w.loaded /\ v.table = w.table /\ v.gone = w.gone
      /\ v.new = n /\ v.failed = b /\ v.dead = w.dead /\ v.again = w.again /\ v.seen = w.seen
  BY <1>1, <1>2 DEF Work
<1>4. InEffect(v) = InEffect(w) \cup {name}
  BY <1>3 DEF InEffect, n
<1>5. Breaking(v) <=> Breaking(w) \/ name \in InEffect(w)
  BY <1>3 DEF InEffect, Breaking, n, b
<1> QED
  BY <1>3, <1>4, <1>5 DEF n, b, v

LEMMA DeletedIs ==
  ASSUME NEW w \in Work, NEW names
  PROVE  LET v == Deleted(w, names)
         IN  /\ v \in Work /\ v.loaded = w.loaded /\ v.table = w.table
             /\ v.new = w.new /\ v.failed = w.failed
             /\ v.gone = w.gone \cup (names \cap w.loaded)
             /\ v.dead = w.dead /\ v.seen = w.seen
             /\ v.again = (w.again \/ names \cap w.dead # {})
<1> DEFINE g == w.gone \cup (names \cap w.loaded)
           b == w.again \/ names \cap w.dead # {}
           v == Deleted(w, names)
<1>1. g \in NameSets /\ b \in BOOLEAN
  BY NameSetsOK DEF Work
<1>2. v = [w EXCEPT !.gone = g, !.again = b]
  BY DEF Deleted
<1> HIDE DEF g, b, v
<1>3. /\ v \in Work /\ v.loaded = w.loaded /\ v.table = w.table /\ v.new = w.new
      /\ v.failed = w.failed /\ v.gone = g /\ v.dead = w.dead /\ v.seen = w.seen /\ v.again = b
  BY <1>1, <1>2 DEF Work
<1> QED
  BY <1>3 DEF g, b, v
-----------------------------------------------------------------------------
LEMMA LoadedIs ==
  ASSUME NEW names \in NameSets
  PROVE  LET w == Loaded(names)
         IN  /\ w \in Work /\ w.loaded = names /\ w.table = names /\ w.new = {} /\ w.gone = {}
             /\ w.failed = FALSE /\ w.dead = {} /\ w.again = FALSE /\ w.seen = {}
             /\ InEffect(w) = names /\ ~Breaking(w)
<1> DEFINE w == Loaded(names)
<1>1. /\ w \in Work /\ w.loaded = names /\ w.table = names /\ w.new = {} /\ w.gone = {}
      /\ w.failed = FALSE /\ w.dead = {} /\ w.again = FALSE /\ w.seen = {}
  BY NameSetsOK DEF Loaded, Work
<1>2. InEffect(w) = names /\ ~Breaking(w)
  BY <1>1 DEF InEffect, Breaking
<1> QED
  BY <1>1, <1>2

\* A list replaces a collection name by name.
LEMMA RefilledSteps ==
  ASSUME NEW w \in Work, NEW names \in Seq(FieldValues)
  PROVE  \E u \in [0..Len(names) -> Work] :
           /\ u[0] = Flushed(Deleted(w, w.loaded))
           /\ \A n \in 1..Len(names) : u[n] = Inserted(LookedUp(u[n - 1]), names[n])
           /\ Refilled(w, names) = u[Len(names)]
<1> DEFINE N == Len(names)
           start == Flushed(Deleted(w, w.loaded))
           step == [p \in Work \X (1..N) |-> Inserted(LookedUp(p[1]), names[p[2]])]
           Def(u) == [n \in 0..N |-> IF n = 0 THEN start
                                     ELSE Inserted(LookedUp(u[n - 1]), names[n])]
           u == CHOOSE u : u = Def(u)
<1>1. N \in Nat /\ \A n \in 1..N : names[n] \in FieldValues
  OBVIOUS
<1>2. start \in Work
  BY DeletedIs, FlushedIs
<1>3. step \in StepFunctions(N, Work)
  <2>1. ASSUME NEW p \in Work \X (1..N)
        PROVE  Inserted(LookedUp(p[1]), names[p[2]]) \in Work
    <3>1. p[1] \in Work /\ names[p[2]] \in FieldValues
      BY <1>1
    <3>2. LookedUp(p[1]) \in Work
      BY <3>1, LookedUpIs
    <3> QED
      BY <3>1, <3>2, InsertedIs
  <2> QED
    BY <2>1 DEF StepFunctions
<1>4. \A q \in Work, n \in 1..N : step[<<q, n>>] = Inserted(LookedUp(q), names[n])
  OBVIOUS
<1> HIDE DEF start, step, N
<1>5. PICK f : IsRun(f, N, Work, start, step)
  BY <1>1, <1>2, <1>3, Steps
<1>6. \A n \in 1..N : f[n] = Inserted(LookedUp(f[n - 1]), names[n])
  <2> TAKE n \in 1..N
  <2>1. n - 1 \in 0..N
    BY <1>1
  <2>2. f[n - 1] \in Work /\ f[n] = step[<<f[n - 1], n>>]
    BY <1>5, <2>1 DEF IsRun
  <2> QED
    BY <1>4, <2>2
<1>7. f = Def(f)
  <2>1. \A n \in 0..N : f[n] = Def(f)[n]
    <3> TAKE n \in 0..N
    <3>1. CASE n = 0
      BY <1>5, <3>1 DEF IsRun
    <3>2. CASE n # 0
      <4>1. n \in 1..N
        BY <1>1, <3>2
      <4> QED
        BY <1>6, <3>2, <4>1
    <3> QED
      BY <3>1, <3>2
  <2> QED
    BY <1>5, <2>1 DEF IsRun
<1>8. u = Def(u)
  BY <1>7
<1>9. Refilled(w, names) = u[N]
  BY DEF Refilled, start, N
<1> HIDE DEF u
<1>10. u[0] = start /\ \A n \in 1..N : u[n] = Inserted(LookedUp(u[n - 1]), names[n])
  <2>1. 0 \in 0..N /\ \A n \in 1..N : n \in 0..N /\ n # 0
    BY <1>1
  <2> QED
    BY <1>8, <2>1
<1>11. \A n \in 0..N : u[n] \in Work
  <2> DEFINE G == {n \in 0..N : u[n] \in Work}
  <2>1. 0 \in G
    BY <1>1, <1>2, <1>10
  <2>2. ASSUME NEW n \in 1..N, n - 1 \in G
        PROVE  n \in G
    <3>1. LookedUp(u[n - 1]) \in Work
      BY <2>2, LookedUpIs
    <3>2. names[n] \in FieldValues /\ u[n] = Inserted(LookedUp(u[n - 1]), names[n])
      BY <1>1, <1>10
    <3>3. u[n] \in Work
      BY <3>1, <3>2, InsertedIs
    <3> QED
      BY <1>1, <3>3
  <2> HIDE DEF G
  <2>3. \A n \in 0..N : n \in G
    BY <1>1, <2>1, <2>2, StepByStep
  <2> QED
    BY <2>3 DEF G
<1>12. u \in [0..N -> Work]
  BY <1>8, <1>11
<1> QED
  BY <1>9, <1>10, <1>12 DEF start, N

\* All loaded rows of a collection give way to the names of the list; a name that is
\* there, or twice in the list, breaks the key.
Emptied(w) == Deleted(w, w.loaded)

LEMMA RefilledIs ==
  ASSUME NEW w \in Work, NEW names \in Seq(FieldValues)
  PROVE  LET r == Refilled(w, names)
             e == Emptied(w)
         IN  /\ r \in Work /\ r.loaded = w.loaded /\ r.seen = w.seen /\ r.gone = {}
             /\ r.dead = w.dead \cup (w.gone \cup w.loaded)
             /\ r.again = (w.again \/ w.loaded \cap w.dead # {})
             /\ InEffect(r) = InEffect(e) \cup ToSet(names)
             /\ Breaking(r) <=> \/ Breaking(e) \/ InEffect(e) \cap ToSet(names) # {}
                                \/ ~IsInjective(names)
<1> DEFINE N == Len(names)
           e == Emptied(w)
<1>1. N \in Nat /\ \A n \in 1..N : names[n] \in FieldValues
  OBVIOUS
<1>2. PICK u \in [0..N -> Work] :
        /\ u[0] = Flushed(e)
        /\ \A n \in 1..N : u[n] = Inserted(LookedUp(u[n - 1]), names[n])
        /\ Refilled(w, names) = u[N]
  BY RefilledSteps DEF Emptied
<1>3. /\ e \in Work /\ e.loaded = w.loaded /\ e.seen = w.seen /\ e.dead = w.dead
      /\ e.gone = w.gone \cup w.loaded /\ e.again = (w.again \/ w.loaded \cap w.dead # {})
  <2> DEFINE all == w.loaded
  <2>1. /\ Deleted(w, all) \in Work /\ Deleted(w, all).loaded = w.loaded
        /\ Deleted(w, all).seen = w.seen /\ Deleted(w, all).dead = w.dead
        /\ Deleted(w, all).gone = w.gone \cup (all \cap w.loaded)
        /\ Deleted(w, all).again = (w.again \/ all \cap w.dead # {})
    <3> HIDE DEF all
    <3> QED
      BY DeletedIs
  <2>2. all \cap w.loaded = w.loaded
    OBVIOUS
  <2> QED
    BY <2>1, <2>2 DEF Emptied
<1> DEFINE First(n) == {names[i] : i \in 1..n}
           Twice(n) == \E i, j \in 1..n : i < j /\ names[i] = names[j]
           Same(v) == v.loaded = e.loaded /\ v.seen = e.seen /\ v.gone = {} /\ v.again = e.again
                      /\ v.dead = e.dead \cup e.gone
           OK(n) == /\ Same(u[n]) /\ InEffect(u[n]) = InEffect(e) \cup First(n)
                    /\ Breaking(u[n]) <=> \/ Breaking(e) \/ InEffect(e) \cap First(n) # {}
                                          \/ Twice(n)
           G == {n \in 0..N : OK(n)}
<1> HIDE DEF e
<1>4. 0 \in G
  <2>1. /\ u[0].loaded = e.loaded /\ u[0].seen = e.seen /\ u[0].gone = {} /\ u[0].again = e.again
        /\ u[0].dead = e.dead \cup e.gone
        /\ InEffect(u[0]) = InEffect(e) /\ (Breaking(u[0]) <=> Breaking(e))
    BY <1>2, <1>3, FlushedIs
  <2>2. First(0) = {} /\ ~Twice(0) /\ 0 \in 0..N
    BY <1>1
  <2> HIDE DEF First, Twice
  <2> QED
    BY <2>1, <2>2
<1>5. ASSUME NEW n \in 1..N, n - 1 \in G
      PROVE  n \in G
  <2> DEFINE p == u[n - 1]
             q == LookedUp(p)
             name == names[n]
  <2>1. n - 1 \in 0..N /\ n \in 0..N /\ n - 1 \in Nat /\ p \in Work /\ OK(n - 1) /\ name \in FieldValues
    BY <1>1, <1>5
  <2>2. u[n] = Inserted(q, name)
    BY <1>2
  <2>3. First(n) = First(n - 1) \cup {name}
    <3>1. 1..n = (1..(n - 1)) \cup {n}
      BY <2>1
    <3> QED
      BY <3>1
  <2>4. Twice(n) <=> Twice(n - 1) \/ name \in First(n - 1)
    <3>1. ASSUME NEW i \in 1..n, NEW j \in 1..n, i < j, names[i] = names[j]
          PROVE  Twice(n - 1) \/ name \in First(n - 1)
      <4>1. CASE j = n
        BY <2>1, <3>1, <4>1
      <4>2. CASE j # n
        BY <2>1, <3>1, <4>2
      <4> QED
        BY <4>1, <4>2
    <3>2. Twice(n - 1) => Twice(n)
      BY <2>1
    <3>3. ASSUME name \in First(n - 1)
          PROVE  Twice(n)
      <4>1. PICK i \in 1..(n - 1) : names[i] = name
        BY <3>3
      <4> QED
        BY <2>1, <4>1
    <3> QED
      BY <3>1, <3>2, <3>3
  <2>5. /\ Same(p) /\ InEffect(p) = InEffect(e) \cup First(n - 1)
        /\ Breaking(p) <=> \/ Breaking(e) \/ InEffect(e) \cap First(n - 1) # {} \/ Twice(n - 1)
    BY <2>1
  <2> HIDE DEF p, q, name, First, Twice
  <2>6. /\ q \in Work /\ Same(q) /\ InEffect(q) = InEffect(p) /\ (Breaking(q) <=> Breaking(p))
    <3>1. /\ q \in Work /\ q.loaded = p.loaded /\ q.again = p.again /\ q.seen = p.seen
          /\ q.dead \cup q.gone = p.dead \cup p.gone /\ q.gone \subseteq p.gone
          /\ InEffect(q) = InEffect(p) /\ (Breaking(q) <=> Breaking(p))
      BY <2>1, LookedUpIs DEF q
    <3> QED
      BY <2>5, <3>1
  <2>7. /\ Same(u[n]) /\ InEffect(u[n]) = InEffect(q) \cup {name}
        /\ Breaking(u[n]) <=> Breaking(q) \/ name \in InEffect(q)
    <3>1. name \in FieldValues
      BY <2>1
    <3>2. /\ Inserted(q, name).loaded = q.loaded /\ Inserted(q, name).gone = q.gone
          /\ Inserted(q, name).dead = q.dead /\ Inserted(q, name).again = q.again
          /\ Inserted(q, name).seen = q.seen
          /\ InEffect(Inserted(q, name)) = InEffect(q) \cup {name}
          /\ Breaking(Inserted(q, name)) <=> Breaking(q) \/ name \in InEffect(q)
      BY <2>6, <3>1, InsertedIs, ZenonT(30)
    <3>3. /\ u[n].loaded = q.loaded /\ u[n].gone = q.gone
          /\ u[n].dead = q.dead /\ u[n].again = q.again /\ u[n].seen = q.seen
          /\ InEffect(u[n]) = InEffect(q) \cup {name}
          /\ Breaking(u[n]) <=> Breaking(q) \/ name \in InEffect(q)
      BY <2>2, <3>2, Zenon
    <3>4. Same(u[n])
      BY <2>6, <3>3
    <3> QED
      BY <3>3, <3>4
  <2>8. InEffect(u[n]) = InEffect(e) \cup First(n)
    BY <2>3, <2>5, <2>6, <2>7
  <2>9. Breaking(u[n]) <=> \/ Breaking(e) \/ InEffect(e) \cap First(n) # {} \/ Twice(n)
    BY <2>3, <2>4, <2>5, <2>6, <2>7
  <2> QED
    BY <2>1, <2>7, <2>8, <2>9
<1>6. N \in G
  <2> HIDE DEF G, N
  <2>1. \A n \in 0..N : n \in G
    BY <1>1, <1>4, <1>5, StepByStep
  <2> QED
    BY <1>1, <2>1
<1> HIDE DEF G
<1>7. u[N] \in Work /\ OK(N)
  BY <1>1, <1>2, <1>6 DEF G
<1>8. First(N) = ToSet(names) /\ (Twice(N) <=> ~IsInjective(names))
  <2>1. DOMAIN names = 1..N
    OBVIOUS
  <2>2. ASSUME ~IsInjective(names)
        PROVE  Twice(N)
    <3>1. PICK i, j \in 1..N : names[i] = names[j] /\ i # j
      BY <2>1, <2>2 DEF IsInjective
    <3>2. i < j \/ j < i
      BY <1>1, <3>1
    <3> QED
      BY <3>1, <3>2
  <2>3. ASSUME Twice(N)
        PROVE  ~IsInjective(names)
    BY <1>1, <2>1, <2>3 DEF IsInjective
  <2> QED
    BY <2>1, <2>2, <2>3 DEF ToSet
<1> DEFINE r == u[N]
<1>9. /\ r \in Work /\ r.loaded = w.loaded /\ r.seen = w.seen /\ r.gone = {}
      /\ r.dead = w.dead \cup (w.gone \cup w.loaded)
      /\ r.again = (w.again \/ w.loaded \cap w.dead # {})
  BY <1>3, <1>7
<1> HIDE DEF First, Twice, N
<1>10. /\ InEffect(r) = InEffect(e) \cup ToSet(names)
       /\ Breaking(r) <=> \/ Breaking(e) \/ InEffect(e) \cap ToSet(names) # {}
                          \/ ~IsInjective(names)
  BY <1>7, <1>8
<1>11. r = Refilled(w, names)
  BY <1>2
<1> HIDE DEF r
<1> QED
  BY <1>9, <1>10, <1>11 DEF e

\* A whole collection replaced by a list.
LEMMA RefilledFromIs ==
  ASSUME NEW old \in NameSets, NEW names \in Seq(FieldValues)
  PROVE  LET r == Refilled(Loaded(old), names)
         IN  /\ r \in Work /\ r.loaded = old /\ r.seen = {} /\ r.gone = {}
             /\ r.dead = old /\ r.again = FALSE
             /\ InEffect(r) = ToSet(names) /\ (Breaking(r) <=> ~IsInjective(names))
             /\ Flushed(r) \in Work /\ Flushed(r).again = FALSE
             /\ Flushed(r).table = ToSet(names) /\ Flushed(r).failed = ~IsInjective(names)
<1> DEFINE w == Loaded(old)
           e == Emptied(w)
           r == Refilled(w, names)
<1>1. /\ w \in Work /\ w.loaded = old /\ w.table = old /\ w.new = {} /\ w.gone = {}
      /\ w.failed = FALSE /\ w.dead = {} /\ w.again = FALSE /\ w.seen = {}
  BY LoadedIs
<1> HIDE DEF w
<1>2. InEffect(e) = {} /\ ~Breaking(e)
  <2> DEFINE all == w.loaded
             d == Deleted(w, all)
  <2>1. /\ d.table = w.table /\ d.new = w.new /\ d.failed = w.failed
        /\ d.gone = w.gone \cup (all \cap w.loaded)
    <3> HIDE DEF all
    <3> QED
      BY <1>1, DeletedIs
  <2>2. e = d
    BY DEF Emptied
  <2> HIDE DEF d
  <2>3. d.table = old /\ d.new = {} /\ d.failed = FALSE /\ d.gone = old
    BY <1>1, <2>1
  <2> QED
    BY <2>2, <2>3 DEF InEffect, Breaking
<1>3. /\ r \in Work /\ r.loaded = w.loaded /\ r.seen = w.seen /\ r.gone = {}
      /\ r.dead = w.dead \cup (w.gone \cup w.loaded)
      /\ r.again = (w.again \/ w.loaded \cap w.dead # {})
      /\ InEffect(r) = InEffect(e) \cup ToSet(names)
      /\ Breaking(r) <=> Breaking(e) \/ InEffect(e) \cap ToSet(names) # {} \/ ~IsInjective(names)
  BY <1>1, RefilledIs
<1> HIDE DEF r, e
<1>4. /\ r \in Work /\ r.loaded = old /\ r.seen = {} /\ r.gone = {}
      /\ r.dead = old /\ r.again = FALSE
      /\ InEffect(r) = ToSet(names) /\ (Breaking(r) <=> ~IsInjective(names))
  BY <1>1, <1>2, <1>3
<1>5. /\ Flushed(r) \in Work /\ Flushed(r).again = r.again
      /\ Flushed(r).table = InEffect(r) /\ Flushed(r).failed = Breaking(r)
  BY <1>4, FlushedIs
<1>6. Breaking(r) \in BOOLEAN /\ IsInjective(names) \in BOOLEAN
  BY <1>4 DEF Breaking, Work, IsInjective
<1> QED
  BY <1>4, <1>5, <1>6 DEF r, w
-----------------------------------------------------------------------------
\* The names of a set in an order: all of them, each once.
LEMMA InOrderIs ==
  ASSUME NEW S, IsFiniteSet(S)
  PROVE  /\ SetToSeq(S) \in Seq(S) /\ ToSet(SetToSeq(S)) = S /\ IsInjective(SetToSeq(S))
<1> DEFINE N == Cardinality(S)
           f == SetToSeq(S)
<1>1. N \in Nat /\ ExistsBijection(1..N, S)
  BY FS_CardinalityType
<1>2. PICK g \in Bijection(1..N, S) : TRUE
  BY <1>1 DEF ExistsBijection
<1>3. g \in [1..N -> S] /\ IsInjective(g)
  BY <1>2 DEF Bijection, Injection
<1>4. f \in [1..N -> S] /\ IsInjective(f)
  BY <1>3 DEF SetToSeq
<1> HIDE DEF f
<1>5. f \in Injection(1..N, S)
  BY <1>4 DEF Injection
<1>6. Cardinality(1..N) = N
  BY <1>1, FS_Interval
<1> HIDE DEF N
<1>7. f \in Surjection(1..N, S)
  BY <1>5, <1>6, FS_Injection DEF N
<1>8. ToSet(f) = S
  BY <1>4, <1>7 DEF Surjection, ToSet
<1>9. f \in Seq(S)
  BY <1>1, <1>4
<1> QED
  BY <1>4, <1>8, <1>9 DEF f

LEMMA ListsOK ==
  ASSUME NEW names \in NameLists
  PROVE  names \in Seq(FieldValues) /\ ToSet(names) \in NameSets
<1>1. PICK m \in 0..MaxListed : names \in [1..m -> FieldValues]
  BY DEF NameLists, SeqOf
<1>2. m \in Nat
  BY FieldUpdatesAssumption
<1>3. names \in Seq(FieldValues)
  BY <1>1, <1>2
<1>4. names \in Surjection(1..m, ToSet(names))
  BY <1>1 DEF Surjection, ToSet
<1>5. IsFiniteSet(1..m)
  BY <1>2, FS_Interval
<1>6. IsFiniteSet(ToSet(names))
  BY <1>4, <1>5, FS_Surjection
<1>7. ToSet(names) \subseteq FieldValues
  BY <1>1 DEF ToSet
<1> QED
  BY <1>3, <1>6, <1>7 DEF NameSets

\* Of labels and components a list has each name once, whatever the request says.
LEMMA ListedIs ==
  ASSUME NEW names \in NameLists
  PROVE  /\ Listed(names) \in Seq(FieldValues) /\ ToSet(Listed(names)) = ToSet(names)
         /\ IsInjective(Listed(names)) = (field \in {"labels", "components"} \/ IsInjective(names))
<1>1. names \in Seq(FieldValues) /\ ToSet(names) \in NameSets
  BY ListsOK
<1> DEFINE S == ToSet(names)
<1>2. IsFiniteSet(S) /\ S \subseteq FieldValues
  BY <1>1 DEF NameSets
<1> HIDE DEF S
<1>3. SetToSeq(S) \in Seq(S) /\ ToSet(SetToSeq(S)) = S /\ IsInjective(SetToSeq(S))
  BY <1>2, InOrderIs
<1>4. SetToSeq(S) \in Seq(FieldValues)
  BY <1>2, <1>3
<1>5. CASE field \in {"labels", "components"}
  <2>1. Listed(names) = SetToSeq(S)
    BY <1>5 DEF Listed, S
  <2>2. IsInjective(Listed(names)) = TRUE
    BY <1>3, <2>1 DEF IsInjective
  <2> QED
    BY <1>3, <1>4, <1>5, <2>1, <2>2 DEF S
<1>6. CASE ~(field \in {"labels", "components"})
  <2>1. Listed(names) = names
    BY <1>6 DEF Listed
  <2> QED
    BY <1>1, <1>6, <2>1 DEF IsInjective
<1> QED
  BY <1>5, <1>6
-----------------------------------------------------------------------------
LEMMA OperationIs ==
  ASSUME NEW op \in Operations
  PROVE  \/ op.verb \in {"add", "remove"} /\ op.name \in FieldValues
         \/ op.verb = "set" /\ op.names \in NameLists
  BY DEF Operations

LEMMA AppliedIs ==
  ASSUME NEW w, NEW op \in Operations
  PROVE  /\ op.verb = "add" => Applied(w, op) = Added(w, op.name)
         /\ op.verb = "remove" => Applied(w, op) = Deleted(w, {op.name})
         /\ op.verb = "set" => Applied(w, op) = Refilled(w, Listed(op.names))
  BY DEF Applied

\* Whether an addition inserts a row.
Inserts(w, name) ==
  ~(field = "components" /\ name \in w.seen) /\ ~(field # "fixVersions" /\ name \in w.loaded)

LEMMA AddedIs ==
  ASSUME NEW w \in Work, NEW name \in FieldValues
  PROVE  LET v == Added(w, name)
         IN  /\ v \in Work /\ v.loaded = w.loaded /\ v.again = w.again
             /\ v.seen = w.seen \cup {name}
                \/ (v = w /\ field = "components" /\ name \in w.seen)
             /\ v.dead \cup v.gone = w.dead \cup w.gone /\ w.dead \subseteq v.dead
             /\ v.gone \subseteq w.gone
             /\ InEffect(v) = InEffect(w) \cup (IF Inserts(w, name) THEN {name} ELSE {})
             /\ Breaking(v) <=> Breaking(w) \/ (Inserts(w, name) /\ name \in InEffect(w))
             /\ v.new \subseteq w.new \cup (IF Inserts(w, name) THEN {name} ELSE {})
             /\ ~(field = "components" /\ name \in w.seen) =>
                  /\ v.table = LookedUp(w).table /\ v.dead = LookedUp(w).dead
                  /\ v.failed = (LookedUp(w).failed \/ (Inserts(w, name) /\ name \in LookedUp(w).new))
                  /\ v.new = LookedUp(w).new \cup (IF Inserts(w, name) THEN {name} ELSE {})
<1> DEFINE v == Added(w, name)
           l == LookedUp(w)
           s == l.seen \cup {name}
           q == [l EXCEPT !.seen = s]
<1>1. /\ l \in Work /\ l.loaded = w.loaded /\ l.again = w.again /\ l.seen = w.seen
      /\ l.dead \cup l.gone = w.dead \cup w.gone /\ w.dead \subseteq l.dead
      /\ l.gone \subseteq w.gone /\ l.new \subseteq w.new /\ l.failed \in BOOLEAN
      /\ InEffect(l) = InEffect(w) /\ (Breaking(l) <=> Breaking(w))
  BY LookedUpIs DEF Work
<1>2. s \in NameSets
  <2>1. l.seen \in NameSets /\ {name} \in NameSets
    BY <1>1, NameSetsOK DEF Work
  <2> QED
    BY <2>1, NameSetsOK
<1>3. CASE field = "components" /\ name \in w.seen
  <2>1. v = w
    BY <1>3 DEF Added
  <2>2. ~Inserts(w, name)
    BY <1>3 DEF Inserts
  <2> HIDE DEF v
  <2> QED
    BY <1>3, <2>1, <2>2 DEF v
<1>4. CASE ~(field = "components" /\ name \in w.seen)
  <2>1. v = IF Decided(w, name) THEN q ELSE Inserted(q, name)
    BY <1>4 DEF Added
  <2>2. Decided(w, name) <=> ~Inserts(w, name)
    BY <1>4 DEF Decided, Inserts
  <2> HIDE DEF l, s, v
  <2>3. /\ q \in Work /\ q.loaded = l.loaded /\ q.again = l.again /\ q.seen = s
        /\ q.dead = l.dead /\ q.gone = l.gone /\ q.table = l.table /\ q.new = l.new
        /\ q.failed = l.failed
    BY <1>1, <1>2 DEF Work
  <2> HIDE DEF q
  <2>4. InEffect(q) = InEffect(l) /\ (Breaking(q) <=> Breaking(l))
    BY <2>3 DEF InEffect, Breaking
  <2>5. CASE Inserts(w, name)
    <3>1. v = Inserted(q, name)
      BY <2>1, <2>2, <2>5
    <3>2. /\ Inserted(q, name) \in Work /\ Inserted(q, name).loaded = q.loaded
          /\ Inserted(q, name).table = q.table
          /\ Inserted(q, name).gone = q.gone /\ Inserted(q, name).new = q.new \cup {name}
          /\ Inserted(q, name).dead = q.dead /\ Inserted(q, name).again = q.again
          /\ Inserted(q, name).seen = q.seen
          /\ Inserted(q, name).failed = (q.failed \/ name \in q.new)
          /\ InEffect(Inserted(q, name)) = InEffect(q) \cup {name}
          /\ Breaking(Inserted(q, name)) <=> Breaking(q) \/ name \in InEffect(q)
      BY <2>3, InsertedIs, ZenonT(30)
    <3>3. /\ v \in Work /\ v.loaded = q.loaded /\ v.table = q.table /\ v.gone = q.gone
          /\ v.failed = (q.failed \/ name \in q.new)
          /\ v.new = q.new \cup {name} /\ v.dead = q.dead /\ v.again = q.again /\ v.seen = q.seen
          /\ InEffect(v) = InEffect(q) \cup {name}
          /\ Breaking(v) <=> Breaking(q) \/ name \in InEffect(q)
      BY <3>1, <3>2, Zenon
    <3> QED
      BY <1>1, <1>4, <2>3, <2>4, <2>5, <3>3 DEF v, l, s
  <2>6. CASE ~Inserts(w, name)
    <3>1. v = q
      BY <2>1, <2>2, <2>6
    <3>2. InEffect(v) = InEffect(w) \cup {} /\ v.new = l.new \cup {}
      BY <1>1, <2>3, <2>4, <3>1
    <3> QED
      BY <1>1, <1>4, <2>3, <2>4, <2>6, <3>1, <3>2 DEF v, l, s
  <2> QED
    BY <2>5, <2>6
<1> QED
  BY <1>3, <1>4

LEMMA AppliedOK ==
  ASSUME NEW w \in Work, NEW op \in Operations
  PROVE  Applied(w, op) \in Work
<1>1. CASE op.verb = "add"
  <2> DEFINE name == op.name
  <2>1. name \in FieldValues
    BY <1>1, OperationIs
  <2>2. Applied(w, op) = Added(w, name)
    BY <1>1, AppliedIs
  <2> HIDE DEF name
  <2>3. Added(w, name) \in Work
    BY <2>1, AddedIs, Zenon
  <2> QED
    BY <2>2, <2>3
<1>2. CASE op.verb = "remove"
  <2> DEFINE names == {op.name}
  <2>1. Applied(w, op) = Deleted(w, names)
    BY <1>2, AppliedIs
  <2> HIDE DEF names
  <2> QED
    BY <2>1, DeletedIs
<1>3. CASE op.verb = "set"
  <2> DEFINE names == Listed(op.names)
  <2>1. names \in Seq(FieldValues)
    BY <1>3, OperationIs, ListedIs
  <2>2. Applied(w, op) = Refilled(w, names)
    BY <1>3, AppliedIs
  <2> HIDE DEF names
  <2>3. PICK u \in [0..Len(names) -> Work] : Refilled(w, names) = u[Len(names)]
    BY <2>1, RefilledSteps
  <2>4. Len(names) \in 0..Len(names)
    BY <2>1
  <2> QED
    BY <2>2, <2>3, <2>4
<1> QED
  BY <1>1, <1>2, <1>3, OperationIs

\* A request does its operations one by one.
LEMMA ResultSteps ==
  ASSUME NEW start \in Work, NEW ops \in Seq(Operations)
  PROVE  \E u \in [0..Len(ops) -> Work] :
           /\ u[0] = start /\ \A n \in 1..Len(ops) : u[n] = Applied(u[n - 1], ops[n])
           /\ Result(start, ops) = Flushed(u[Len(ops)])
<1> DEFINE N == Len(ops)
           step == [p \in (Work) \X (1..N) |-> Applied(p[1], ops[p[2]])]
           Def(u) == [n \in 0..N |-> IF n = 0 THEN start ELSE Applied(u[n - 1], ops[n])]
           u == CHOOSE u : u = Def(u)
<1>1. N \in Nat /\ \A n \in 1..N : ops[n] \in Operations
  OBVIOUS
<1>2. start \in Work
  OBVIOUS
<1>3. step \in StepFunctions(N, Work)
  <2>1. ASSUME NEW p \in (Work) \X (1..N)
        PROVE  Applied(p[1], ops[p[2]]) \in Work
    <3>1. p[1] \in Work /\ ops[p[2]] \in Operations
      BY <1>1
    <3> QED
      BY <3>1, AppliedOK
  <2> QED
    BY <2>1 DEF StepFunctions
<1>4. \A q \in Work, n \in 1..N : step[<<q, n>>] = Applied(q, ops[n])
  OBVIOUS
<1> HIDE DEF step, N
<1>5. PICK f : IsRun(f, N, Work, start, step)
  BY <1>1, <1>2, <1>3, Steps
<1>6. \A n \in 1..N : f[n] = Applied(f[n - 1], ops[n])
  <2> TAKE n \in 1..N
  <2>1. n - 1 \in 0..N
    BY <1>1
  <2>2. f[n - 1] \in Work /\ f[n] = step[<<f[n - 1], n>>]
    BY <1>5, <2>1 DEF IsRun
  <2> QED
    BY <1>4, <2>2
<1>7. f = Def(f)
  <2>1. \A n \in 0..N : f[n] = Def(f)[n]
    <3> TAKE n \in 0..N
    <3>1. CASE n = 0
      BY <1>5, <3>1 DEF IsRun
    <3>2. CASE n # 0
      <4>1. n \in 1..N
        BY <1>1, <3>2
      <4> QED
        BY <1>6, <3>2, <4>1
    <3> QED
      BY <3>1, <3>2
  <2> QED
    BY <1>5, <2>1 DEF IsRun
<1>8. u = Def(u)
  BY <1>7
<1>9. Result(start, ops) = Flushed(u[N])
  BY DEF Result, N
<1> HIDE DEF u
<1>10. u[0] = start /\ \A n \in 1..N : u[n] = Applied(u[n - 1], ops[n])
  <2>1. 0 \in 0..N /\ \A n \in 1..N : n \in 0..N /\ n # 0
    BY <1>1
  <2> QED
    BY <1>8, <2>1
<1>11. \A n \in 0..N : u[n] \in Work
  <2> DEFINE G == {n \in 0..N : u[n] \in Work}
  <2>1. 0 \in G
    BY <1>1, <1>2, <1>10
  <2>2. ASSUME NEW n \in 1..N, n - 1 \in G
        PROVE  n \in G
    <3>1. ops[n] \in Operations /\ u[n - 1] \in Work
      BY <1>1, <2>2
    <3>2. u[n] = Applied(u[n - 1], ops[n])
      BY <1>10
    <3>3. u[n] \in Work
      BY <3>1, <3>2, AppliedOK
    <3> QED
      BY <1>1, <3>3
  <2> HIDE DEF G
  <2>3. \A n \in 0..N : n \in G
    BY <1>1, <2>1, <2>2, StepByStep
  <2> QED
    BY <2>3 DEF G
<1>12. u \in [0..N -> Work]
  BY <1>8, <1>11
<1> QED
  BY <1>9, <1>10, <1>12 DEF N

LEMMA AfterOpOK ==
  ASSUME NEW names \in SUBSET FieldValues, NEW op \in Operations
  PROVE  /\ AfterOp(names, op) \in SUBSET FieldValues
         /\ op.verb = "add" => AfterOp(names, op) = names \cup {op.name}
         /\ op.verb = "remove" => AfterOp(names, op) = names \ {op.name}
         /\ op.verb = "set" => AfterOp(names, op) = ToSet(op.names)
<1>1. CASE op.verb = "add"
  BY <1>1, OperationIs DEF AfterOp
<1>2. CASE op.verb = "remove"
  BY <1>2, OperationIs DEF AfterOp
<1>3. CASE op.verb = "set"
  BY <1>3, OperationIs, ListsOK DEF AfterOp, NameSets
<1> QED
  BY <1>1, <1>2, <1>3, OperationIs

\* So does the reference.
LEMMA SequentialSteps ==
  ASSUME held \in SUBSET FieldValues, NEW ops \in Seq(Operations)
  PROVE  \E u \in [0..Len(ops) -> SUBSET FieldValues] :
           /\ u[0] = held /\ \A n \in 1..Len(ops) : u[n] = AfterOp(u[n - 1], ops[n])
           /\ Sequential(ops) = u[Len(ops)]
<1> DEFINE N == Len(ops)
           start == held
           step == [p \in (SUBSET FieldValues) \X (1..N) |-> AfterOp(p[1], ops[p[2]])]
           Def(u) == [n \in 0..N |-> IF n = 0 THEN start ELSE AfterOp(u[n - 1], ops[n])]
           u == CHOOSE u : u = Def(u)
<1>1. N \in Nat /\ \A n \in 1..N : ops[n] \in Operations
  OBVIOUS
<1>2. start \in SUBSET FieldValues
  OBVIOUS
<1>3. step \in StepFunctions(N, SUBSET FieldValues)
  <2>1. ASSUME NEW p \in (SUBSET FieldValues) \X (1..N)
        PROVE  AfterOp(p[1], ops[p[2]]) \in SUBSET FieldValues
    <3>1. p[1] \in SUBSET FieldValues /\ ops[p[2]] \in Operations
      BY <1>1
    <3> QED
      BY <3>1, AfterOpOK
  <2> QED
    BY <2>1 DEF StepFunctions
<1>4. \A q \in SUBSET FieldValues, n \in 1..N : step[<<q, n>>] = AfterOp(q, ops[n])
  OBVIOUS
<1> HIDE DEF start, step, N
<1>5. PICK f : IsRun(f, N, SUBSET FieldValues, start, step)
  BY <1>1, <1>2, <1>3, Steps
<1>6. \A n \in 1..N : f[n] = AfterOp(f[n - 1], ops[n])
  <2> TAKE n \in 1..N
  <2>1. n - 1 \in 0..N
    BY <1>1
  <2>2. f[n - 1] \in SUBSET FieldValues /\ f[n] = step[<<f[n - 1], n>>]
    BY <1>5, <2>1 DEF IsRun
  <2> QED
    BY <1>4, <2>2
<1>7. f = Def(f)
  <2>1. \A n \in 0..N : f[n] = Def(f)[n]
    <3> TAKE n \in 0..N
    <3>1. CASE n = 0
      BY <1>5, <3>1 DEF IsRun
    <3>2. CASE n # 0
      <4>1. n \in 1..N
        BY <1>1, <3>2
      <4> QED
        BY <1>6, <3>2, <4>1
    <3> QED
      BY <3>1, <3>2
  <2> QED
    BY <1>5, <2>1 DEF IsRun
<1>8. u = Def(u)
  BY <1>7
<1>9. Sequential(ops) = u[N]
  BY DEF Sequential, start, N
<1> HIDE DEF u
<1>10. u[0] = start /\ \A n \in 1..N : u[n] = AfterOp(u[n - 1], ops[n])
  <2>1. 0 \in 0..N /\ \A n \in 1..N : n \in 0..N /\ n # 0
    BY <1>1
  <2> QED
    BY <1>8, <2>1
<1>11. \A n \in 0..N : u[n] \in SUBSET FieldValues
  <2> DEFINE G == {n \in 0..N : u[n] \in SUBSET FieldValues}
  <2>1. 0 \in G
    BY <1>1, <1>2, <1>10
  <2>2. ASSUME NEW n \in 1..N, n - 1 \in G
        PROVE  n \in G
    <3>1. ops[n] \in Operations /\ u[n - 1] \in SUBSET FieldValues
      BY <1>1, <2>2
    <3>2. u[n] = AfterOp(u[n - 1], ops[n])
      BY <1>10
    <3>3. u[n] \in SUBSET FieldValues
      BY <3>1, <3>2, AfterOpOK
    <3> QED
      BY <1>1, <3>3
  <2> HIDE DEF G
  <2>3. \A n \in 0..N : n \in G
    BY <1>1, <2>1, <2>2, StepByStep
  <2> QED
    BY <2>3 DEF G
<1>12. u \in [0..N -> SUBSET FieldValues]
  BY <1>8, <1>11
<1> QED
  BY <1>9, <1>10, <1>12 DEF start, N
-----------------------------------------------------------------------------
\* A name that the request has not come to yet is where it was before.
Untouched(w, name) ==
  name \notin (w.new \cup w.seen) \cup (w.dead \cup w.gone) /\ (name \in w.table <=> name \in held)

LEMMA UntouchedIs ==
  ASSUME NEW w \in Work, NEW name, Untouched(w, name)
  PROVE  name \in InEffect(w) <=> name \in held
  BY DEF Untouched, InEffect

LEMMA LookedUpKeeps ==
  ASSUME NEW w \in Work, NEW x, Untouched(w, x)
  PROVE  Untouched(LookedUp(w), x)
<1> DEFINE q == LookedUp(w)
<1>1. /\ q.seen = w.seen /\ q.dead \cup q.gone = w.dead \cup w.gone /\ q.new \subseteq w.new
      /\ q = IF field = "labels" THEN w ELSE Flushed(w)
  BY LookedUpIs
<1>2. CASE field = "labels"
  BY <1>1, <1>2
<1>3. CASE field # "labels"
  <2>1. q = Flushed(w)
    BY <1>1, <1>3
  <2> HIDE DEF q
  <2>2. q.table = InEffect(w)
    BY <2>1, FlushedIs
  <2>3. x \in q.table <=> x \in held
    BY <2>2, UntouchedIs
  <2>4. Untouched(q, x)
    BY <1>1, <2>3 DEF Untouched
  <2> QED
    BY <2>4 DEF q
<1> QED
  BY <1>2, <1>3

LEMMA AddedKeeps ==
  ASSUME NEW w \in Work, NEW name \in FieldValues, w.loaded = held, Untouched(w, name)
  PROVE  LET v == Added(w, name)
         IN  /\ v \in Work /\ v.loaded = held /\ v.again = w.again
             /\ InEffect(v) = InEffect(w) \cup {name}
             /\ Breaking(v) <=> Breaking(w) \/ (field = "fixVersions" /\ name \in held)
             /\ \A x : x # name /\ Untouched(w, x) => Untouched(v, x)
<1> DEFINE v == Added(w, name)
           q == LookedUp(w)
           more == IF Inserts(w, name) THEN {name} ELSE {}
<1>1. name \notin w.seen /\ (name \in InEffect(w) <=> name \in held)
  BY UntouchedIs DEF Untouched
<1>2. Inserts(w, name) <=> field = "fixVersions" \/ name \notin held
  BY <1>1 DEF Inserts
<1>3. /\ v \in Work /\ v.loaded = w.loaded /\ v.again = w.again /\ v.seen = w.seen \cup {name}
      /\ v.dead \cup v.gone = w.dead \cup w.gone
      /\ InEffect(v) = InEffect(w) \cup more
      /\ Breaking(v) <=> Breaking(w) \/ (Inserts(w, name) /\ name \in InEffect(w))
      /\ v.table = q.table /\ v.new = q.new \cup more
  <2>1. /\ v \in Work /\ v.loaded = w.loaded /\ v.again = w.again
        /\ v.seen = w.seen \cup {name} \/ (v = w /\ field = "components" /\ name \in w.seen)
        /\ v.dead \cup v.gone = w.dead \cup w.gone
        /\ InEffect(v) = InEffect(w) \cup more
        /\ Breaking(v) <=> Breaking(w) \/ (Inserts(w, name) /\ name \in InEffect(w))
        /\ ~(field = "components" /\ name \in w.seen) => v.table = q.table /\ v.new = q.new \cup more
    BY AddedIs, ZenonT(30)
  <2> HIDE DEF v, q, more
  <2> QED
    BY <1>1, <2>1
<1>4. \A x : Untouched(w, x) => Untouched(q, x)
  BY LookedUpKeeps
<1>5. q.seen = w.seen /\ q.dead \cup q.gone = w.dead \cup w.gone
  BY LookedUpIs
<1> HIDE DEF v, q
<1>6. InEffect(v) = InEffect(w) \cup {name}
  BY <1>1, <1>2, <1>3
<1>7. Breaking(v) <=> Breaking(w) \/ (field = "fixVersions" /\ name \in held)
  BY <1>1, <1>2, <1>3
<1>8. \A x : x # name /\ Untouched(w, x) => Untouched(v, x)
  BY <1>3, <1>4, <1>5 DEF Untouched
<1> QED
  BY <1>3, <1>6, <1>7, <1>8 DEF v

LEMMA RemovedKeeps ==
  ASSUME NEW w \in Work, NEW name \in FieldValues, w.loaded = held, Untouched(w, name)
  PROVE  LET v == Deleted(w, {name})
         IN  /\ v \in Work /\ v.loaded = held /\ v.again = w.again
             /\ InEffect(v) = InEffect(w) \ {name}
             /\ Breaking(v) <=> Breaking(w)
             /\ \A x : x # name /\ Untouched(w, x) => Untouched(v, x)
<1> DEFINE names == {name}
           v == Deleted(w, names)
<1> HIDE DEF names
<1>1. /\ v \in Work /\ v.loaded = held /\ v.table = w.table /\ v.new = w.new /\ v.failed = w.failed
      /\ v.gone = w.gone \cup (names \cap held) /\ v.dead = w.dead /\ v.seen = w.seen
      /\ v.again = (w.again \/ names \cap w.dead # {})
  BY DeletedIs
<1> HIDE DEF v
<1>2. InEffect(v) = InEffect(w) \ {name}
  BY <1>1 DEF InEffect, Untouched, names
<1>3. Breaking(v) <=> Breaking(w)
  BY <1>1 DEF Breaking, Untouched, names
<1>4. \A x : x # name /\ Untouched(w, x) => Untouched(v, x)
  BY <1>1 DEF Untouched, names
<1>5. v.again = w.again
  <2>1. names \cap w.dead = {} /\ w.again \in BOOLEAN
    BY DEF Untouched, names, Work
  <2> QED
    BY <1>1, <2>1
<1> QED
  BY <1>1, <1>2, <1>3, <1>4, <1>5 DEF v, names
-----------------------------------------------------------------------------
LEMMA RepeatsIs ==
  ASSUME NEW op \in Operations, op.verb \in {"add", "remove"}
  PROVE  Repeats(op) <=> op.verb = "add" /\ field = "fixVersions" /\ op.name \in held
  BY DEF Repeats

\* Additions and removals of different names.
LEMMA DistinctNames ==
  ASSUME held \in NameSets, NEW ops \in Seq(Operations),
         \A i \in 1..Len(ops) : ops[i].verb \in {"add", "remove"},
         \A i, j \in 1..Len(ops) : i # j => ops[i].name # ops[j].name
  PROVE  LET v == Result(Loaded(held), ops)
         IN  /\ v.table = Sequential(ops) /\ ~v.again
             /\ v.failed <=> \E i \in 1..Len(ops) : Repeats(ops[i])
<1> DEFINE N == Len(ops)
<1>1. /\ N \in Nat
      /\ \A n \in 1..N : ops[n] \in Operations /\ ops[n].name \in FieldValues
  <2>1. N \in Nat /\ \A n \in 1..N : ops[n] \in Operations
    OBVIOUS
  <2> QED
    BY <2>1, OperationIs
<1>2. PICK w \in [0..N -> Work] :
        /\ w[0] = Loaded(held) /\ \A n \in 1..N : w[n] = Applied(w[n - 1], ops[n])
        /\ Result(Loaded(held), ops) = Flushed(w[N])
  <2> DEFINE start == Loaded(held)
  <2>1. start \in Work
    BY LoadedIs
  <2> HIDE DEF start
  <2>2. \E w \in [0..N -> Work] :
          /\ w[0] = start /\ \A n \in 1..N : w[n] = Applied(w[n - 1], ops[n])
          /\ Result(start, ops) = Flushed(w[N])
    BY <2>1, ResultSteps
  <2> QED
    BY <2>2 DEF start
<1>3. PICK s \in [0..N -> SUBSET FieldValues] :
        /\ s[0] = held /\ \A n \in 1..N : s[n] = AfterOp(s[n - 1], ops[n])
        /\ Sequential(ops) = s[N]
  <2>1. held \in SUBSET FieldValues
    BY DEF NameSets
  <2> QED
    BY <2>1, SequentialSteps
<1> DEFINE Repeated(n) == \E i \in 1..n : Repeats(ops[i])
           OK(n) == /\ w[n].loaded = held /\ ~w[n].again /\ InEffect(w[n]) = s[n]
                    /\ Breaking(w[n]) <=> Repeated(n)
                    /\ \A i \in (n + 1)..N : Untouched(w[n], ops[i].name)
           G == {n \in 0..N : OK(n)}
<1>4. 0 \in G
  <2>1. /\ w[0].loaded = held /\ w[0].table = held /\ w[0].new = {} /\ w[0].gone = {}
        /\ w[0].failed = FALSE /\ w[0].dead = {} /\ w[0].seen = {} /\ w[0].again = FALSE
    BY <1>2, LoadedIs
  <2>2. ~Repeated(0)
    OBVIOUS
  <2>3. InEffect(w[0]) = s[0] /\ (Breaking(w[0]) <=> FALSE)
    BY <1>3, <2>1 DEF InEffect, Breaking
  <2>4. \A x : Untouched(w[0], x)
    BY <2>1 DEF Untouched
  <2>5. 0 \in 0..N
    BY <1>1
  <2> HIDE DEF Repeated
  <2> QED
    BY <2>1, <2>2, <2>3, <2>4, <2>5
<1>5. ASSUME NEW n \in 1..N, n - 1 \in G
      PROVE  n \in G
  <2> DEFINE p == w[n - 1]
             name == ops[n].name
  <2>1. n - 1 \in 0..N /\ n \in 0..N /\ OK(n - 1)
    BY <1>1, <1>5
  <2>2. /\ p \in Work /\ p.loaded = held /\ ~p.again /\ InEffect(p) = s[n - 1] /\ name \in FieldValues
        /\ Breaking(p) <=> Repeated(n - 1)
    BY <1>1, <2>1
  <2>3. Untouched(p, name)
    <3>1. n \in ((n - 1) + 1)..N
      BY <1>1
    <3> QED
      BY <2>1, <3>1
  <2>4. \A i \in (n + 1)..N : Untouched(p, ops[i].name) /\ ops[i].name # name
    <3>1. \A i \in (n + 1)..N : i \in ((n - 1) + 1)..N /\ i \in 1..N /\ i # n
      BY <1>1
    <3> HIDE DEF N
    <3> QED
      BY <2>1, <3>1 DEF N
  <2>5. w[n] = Applied(p, ops[n]) /\ s[n] = AfterOp(s[n - 1], ops[n])
    BY <1>2, <1>3
  <2>6. s[n - 1] \in SUBSET FieldValues /\ ops[n] \in Operations
    BY <1>1, <2>1
  <2>7. Repeated(n) <=> Repeated(n - 1) \/ Repeats(ops[n])
    <3>1. \A i : i \in 1..n <=> i \in 1..(n - 1) \/ i = n
      BY <1>1
    <3> QED
      BY <3>1
  <2> HIDE DEF p, name, Repeated
  <2>8. /\ w[n].loaded = held /\ ~w[n].again /\ InEffect(w[n]) = s[n]
        /\ Breaking(w[n]) <=> Repeated(n)
        /\ \A x : x # name /\ Untouched(p, x) => Untouched(w[n], x)
    <3>1. CASE ops[n].verb = "add"
      <4>1. w[n] = Added(p, name)
        BY <2>5, <2>6, <3>1, AppliedIs DEF name
      <4>2. s[n] = s[n - 1] \cup {name}
        BY <2>5, <2>6, <3>1, AfterOpOK DEF name
      <4>3. Repeats(ops[n]) <=> field = "fixVersions" /\ name \in held
        BY <2>6, <3>1, RepeatsIs DEF name
      <4>4. /\ Added(p, name).loaded = held /\ Added(p, name).again = p.again
            /\ InEffect(Added(p, name)) = InEffect(p) \cup {name}
            /\ Breaking(Added(p, name)) <=> Breaking(p) \/ (field = "fixVersions" /\ name \in held)
            /\ \A x : x # name /\ Untouched(p, x) => Untouched(Added(p, name), x)
        BY <2>2, <2>3, AddedKeeps
      <4> QED
        BY <2>2, <2>7, <4>1, <4>2, <4>3, <4>4
    <3>2. CASE ops[n].verb = "remove"
      <4>1. w[n] = Deleted(p, {name})
        BY <2>5, <2>6, <3>2, AppliedIs DEF name
      <4>2. s[n] = s[n - 1] \ {name}
        BY <2>5, <2>6, <3>2, AfterOpOK DEF name
      <4>3. ~Repeats(ops[n])
        BY <2>6, <3>2, RepeatsIs
      <4>4. /\ Deleted(p, {name}).loaded = held /\ Deleted(p, {name}).again = p.again
            /\ InEffect(Deleted(p, {name})) = InEffect(p) \ {name}
            /\ Breaking(Deleted(p, {name})) <=> Breaking(p)
            /\ \A x : x # name /\ Untouched(p, x) => Untouched(Deleted(p, {name}), x)
        BY <2>2, <2>3, RemovedKeeps
      <4> QED
        BY <2>2, <2>7, <4>1, <4>2, <4>3, <4>4
    <3> QED
      BY <3>1, <3>2
  <2>9. \A i \in (n + 1)..N : Untouched(w[n], ops[i].name)
    BY <2>4, <2>8
  <2> QED
    BY <2>1, <2>8, <2>9
<1>6. N \in G
  <2> HIDE DEF G, N
  <2>1. \A n \in 0..N : n \in G
    BY <1>1, <1>4, <1>5, StepByStep
  <2> QED
    BY <1>1, <2>1
<1>7. w[N] \in Work /\ ~w[N].again /\ InEffect(w[N]) = s[N] /\ (Breaking(w[N]) <=> Repeated(N))
  BY <1>1, <1>6
<1>8. /\ Flushed(w[N]).table = InEffect(w[N]) /\ Flushed(w[N]).failed = Breaking(w[N])
      /\ Flushed(w[N]).again = w[N].again
  BY <1>7, FlushedIs
<1> QED
  BY <1>2, <1>3, <1>7, <1>8

\* A list that replaces a collection, on its own.
LEMMA ReplacementAlone ==
  ASSUME held \in NameSets, field \in FieldNames, NEW ops \in Seq(Operations),
         Len(ops) = 1, ops[1].verb = "set"
  PROVE  LET v == Result(Loaded(held), ops)
         IN  v.table = Sequential(ops) /\ ~v.again /\ (v.failed <=> Repeats(ops[1]))
<1> DEFINE op == ops[1]
           result == Result(Loaded(held), ops)
           names == Listed(op.names)
<1>1. op \in Operations /\ op.verb = "set" /\ op.names \in NameLists
  <2>1. op \in Operations
    OBVIOUS
  <2> QED
    BY <2>1, OperationIs
<1>2. field \in {"labels", "fixVersions"}
  BY <1>1 DEF Operations, Verbs, FieldNames
<1>3. result = Flushed(Refilled(Loaded(held), names))
  <2>1. PICK w \in [0..Len(ops) -> Work] :
          /\ w[0] = Loaded(held) /\ \A n \in 1..Len(ops) : w[n] = Applied(w[n - 1], ops[n])
          /\ result = Flushed(w[Len(ops)])
    <3> DEFINE start == Loaded(held)
    <3>1. start \in Work
      BY LoadedIs
    <3> HIDE DEF start
    <3>2. \E w \in [0..Len(ops) -> Work] :
            /\ w[0] = start /\ \A n \in 1..Len(ops) : w[n] = Applied(w[n - 1], ops[n])
            /\ Result(start, ops) = Flushed(w[Len(ops)])
      BY <3>1, ResultSteps
    <3> QED
      BY <3>2 DEF start
  <2>2. w[1] = Applied(Loaded(held), op) /\ result = Flushed(w[1])
    BY <2>1
  <2> QED
    BY <1>1, <2>2, AppliedIs
<1>4. Sequential(ops) = ToSet(op.names)
  <2>1. held \in SUBSET FieldValues
    BY DEF NameSets
  <2>2. PICK s \in [0..Len(ops) -> SUBSET FieldValues] :
          /\ s[0] = held /\ \A n \in 1..Len(ops) : s[n] = AfterOp(s[n - 1], ops[n])
          /\ Sequential(ops) = s[Len(ops)]
    BY <2>1, SequentialSteps
  <2>3. Sequential(ops) = AfterOp(held, op)
    BY <2>2
  <2> QED
    BY <1>1, <2>1, <2>3, AfterOpOK
<1>5. /\ names \in Seq(FieldValues) /\ ToSet(names) = ToSet(op.names)
      /\ IsInjective(names) = (field \in {"labels", "components"} \/ IsInjective(op.names))
  BY <1>1, ListedIs
<1> HIDE DEF names, op, result
<1>6. /\ result.table = ToSet(names) /\ result.again = FALSE
      /\ result.failed = ~IsInjective(names)
  <2> DEFINE flushed == Flushed(Refilled(Loaded(held), names))
  <2>1. flushed.table = ToSet(names) /\ flushed.again = FALSE /\ flushed.failed = ~IsInjective(names)
    <3>1. names \in Seq(FieldValues) /\ held \in NameSets
      BY <1>5
    <3> QED
      <4> DEFINE r == Refilled(Loaded(held), names)
      <4>1. /\ r \in Work /\ r.loaded = held /\ r.seen = {} /\ r.gone = {}
            /\ r.dead = held /\ r.again = FALSE
            /\ InEffect(r) = ToSet(names) /\ (Breaking(r) <=> ~IsInjective(names))
            /\ Flushed(r) \in Work /\ Flushed(r).again = FALSE
            /\ Flushed(r).table = ToSet(names) /\ Flushed(r).failed = ~IsInjective(names)
        BY <3>1, RefilledFromIs, Zenon
      <4> QED
        BY <4>1, Zenon
  <2> HIDE DEF flushed
  <2> QED
    BY <1>3, <2>1 DEF flushed
<1>7. Repeats(op) <=> field = "fixVersions" /\ ~IsInjective(op.names)
  BY <1>1 DEF Repeats
<1>8. ~IsInjective(names) <=> Repeats(op)
  BY <1>2, <1>5, <1>7
<1> QED
  BY <1>4, <1>5, <1>6, <1>8 DEF op, result
-----------------------------------------------------------------------------
\* Additions and removals of any names, the same ones included.
Free == IF field = "fixVersions" THEN {} ELSE held
NamedUpTo(ops, n, verb) == {ops[i].name : i \in {j \in 1..n : ops[j].verb = verb}}
AddedUpTo(ops, n) == NamedUpTo(ops, n, "add")
RemovedUpTo(ops, n) == NamedUpTo(ops, n, "remove")
BroughtUpTo(ops, n) == AddedUpTo(ops, n) \ Free
TwiceUpTo(ops, n) ==
  \E i, j \in 1..n : i # j /\ ops[i] = ops[j] /\ ops[i].verb = "add" /\ ops[i].name \notin Free

PlainOps == {ops \in Seq(Operations) : \A i \in 1..Len(ops) : ops[i].verb \in {"add", "remove"}}

LEMMA NothingNamed ==
  ASSUME NEW ops
  PROVE  /\ AddedUpTo(ops, 0) = {} /\ RemovedUpTo(ops, 0) = {} /\ BroughtUpTo(ops, 0) = {}
         /\ ~TwiceUpTo(ops, 0)
<1>1. 1..0 = {}
  OBVIOUS
<1>2. AddedUpTo(ops, 0) = {} /\ RemovedUpTo(ops, 0) = {}
  BY <1>1 DEF AddedUpTo, RemovedUpTo, NamedUpTo
<1>3. ~TwiceUpTo(ops, 0)
  BY <1>1 DEF TwiceUpTo
<1> QED
  BY <1>2, <1>3 DEF BroughtUpTo

LEMMA NamedNext ==
  ASSUME NEW ops, NEW n \in Nat \ {0}, NEW verb
  PROVE  NamedUpTo(ops, n, verb) =
           NamedUpTo(ops, n - 1, verb) \cup (IF ops[n].verb = verb THEN {ops[n].name} ELSE {})
<1>1. 1..n = (1..(n - 1)) \cup {n}
  OBVIOUS
<1>2. {j \in 1..n : ops[j].verb = verb} =
        {j \in 1..(n - 1) : ops[j].verb = verb} \cup (IF ops[n].verb = verb THEN {n} ELSE {})
  BY <1>1
<1> QED
  BY <1>2 DEF NamedUpTo

LEMMA AddNext ==
  ASSUME NEW ops \in PlainOps, NEW n \in 1..Len(ops), ops[n].verb = "add"
  PROVE  /\ AddedUpTo(ops, n) = AddedUpTo(ops, n - 1) \cup {ops[n].name}
         /\ RemovedUpTo(ops, n) = RemovedUpTo(ops, n - 1)
         /\ BroughtUpTo(ops, n) = BroughtUpTo(ops, n - 1) \cup ({ops[n].name} \ Free)
         /\ TwiceUpTo(ops, n) <=> \/ TwiceUpTo(ops, n - 1)
                                  \/ ops[n].name \in BroughtUpTo(ops, n - 1)
<1>1. n \in Nat \ {0} /\ Len(ops) \in Nat /\ \A i \in 1..n : i \in 1..Len(ops) /\ ops[i] \in Operations
  BY DEF PlainOps
<1>2. AddedUpTo(ops, n) = AddedUpTo(ops, n - 1) \cup {ops[n].name}
  <2>1. NamedUpTo(ops, n, "add") =
          NamedUpTo(ops, n - 1, "add") \cup (IF ops[n].verb = "add" THEN {ops[n].name} ELSE {})
    BY <1>1, NamedNext
  <2> QED
    BY <2>1 DEF AddedUpTo
<1>3. RemovedUpTo(ops, n) = RemovedUpTo(ops, n - 1)
  <2>1. NamedUpTo(ops, n, "remove") =
          NamedUpTo(ops, n - 1, "remove") \cup (IF ops[n].verb = "remove" THEN {ops[n].name} ELSE {})
    BY <1>1, NamedNext
  <2> QED
    BY <2>1 DEF RemovedUpTo
<1>4. BroughtUpTo(ops, n) = BroughtUpTo(ops, n - 1) \cup ({ops[n].name} \ Free)
  BY <1>2 DEF BroughtUpTo
<1>5. ASSUME NEW i \in 1..n, ops[i].verb = "add", ops[i].name = ops[n].name
      PROVE  ops[i] = ops[n]
  <2>1. ops[i] \in [verb : {"add", "remove"}, name : FieldValues]
        /\ ops[n] \in [verb : {"add", "remove"}, name : FieldValues]
    BY <1>1, <1>5 DEF Operations
  <2> QED
    BY <1>5, <2>1
<1>6. TwiceUpTo(ops, n) => TwiceUpTo(ops, n - 1) \/ ops[n].name \in BroughtUpTo(ops, n - 1)
  <2> SUFFICES ASSUME NEW i \in 1..n, NEW j \in 1..n, i # j, ops[i] = ops[j],
                      ops[i].verb = "add", ops[i].name \notin Free
               PROVE  TwiceUpTo(ops, n - 1) \/ ops[n].name \in BroughtUpTo(ops, n - 1)
    BY DEF TwiceUpTo
  <2>1. \A k \in 1..n : k # n => k \in 1..(n - 1)
    BY <1>1
  <2>2. CASE i # n /\ j # n
    <3>1. i \in 1..(n - 1) /\ j \in 1..(n - 1)
      BY <2>1, <2>2
    <3> QED
      BY <3>1 DEF TwiceUpTo
  <2>3. CASE i = n
    <3>1. j \in 1..(n - 1) /\ ops[j].verb = "add" /\ ops[j].name = ops[n].name
      BY <2>1, <2>3
    <3> QED
      BY <2>3, <3>1 DEF BroughtUpTo, AddedUpTo, NamedUpTo
  <2>4. CASE j = n
    <3>1. i \in 1..(n - 1) /\ ops[i].verb = "add" /\ ops[i].name = ops[n].name
      BY <2>1, <2>4
    <3> QED
      BY <2>4, <3>1 DEF BroughtUpTo, AddedUpTo, NamedUpTo
  <2> QED
    BY <2>2, <2>3, <2>4
<1>7. TwiceUpTo(ops, n - 1) => TwiceUpTo(ops, n)
  <2>1. \A k \in 1..(n - 1) : k \in 1..n
    BY <1>1
  <2> QED
    BY <2>1 DEF TwiceUpTo
<1>8. ASSUME ops[n].name \in BroughtUpTo(ops, n - 1)
      PROVE  TwiceUpTo(ops, n)
  <2>1. PICK i \in 1..(n - 1) : ops[i].verb = "add" /\ ops[i].name = ops[n].name
    BY <1>8 DEF BroughtUpTo, AddedUpTo, NamedUpTo
  <2>2. i \in 1..n /\ n \in 1..n /\ i # n
    BY <1>1
  <2>3. ops[i] = ops[n] /\ ops[i].name \notin Free
    BY <1>5, <1>8, <2>1, <2>2 DEF BroughtUpTo
  <2> QED
    BY <2>1, <2>2, <2>3 DEF TwiceUpTo
<1> QED
  BY <1>2, <1>3, <1>4, <1>6, <1>7, <1>8

LEMMA RemoveNext ==
  ASSUME NEW ops \in PlainOps, NEW n \in 1..Len(ops), ops[n].verb = "remove"
  PROVE  /\ AddedUpTo(ops, n) = AddedUpTo(ops, n - 1)
         /\ RemovedUpTo(ops, n) = RemovedUpTo(ops, n - 1) \cup {ops[n].name}
         /\ BroughtUpTo(ops, n) = BroughtUpTo(ops, n - 1)
         /\ TwiceUpTo(ops, n) <=> TwiceUpTo(ops, n - 1)
<1>1. n \in Nat \ {0}
  BY DEF PlainOps
<1>2. AddedUpTo(ops, n) = AddedUpTo(ops, n - 1)
  <2>1. NamedUpTo(ops, n, "add") =
          NamedUpTo(ops, n - 1, "add") \cup (IF ops[n].verb = "add" THEN {ops[n].name} ELSE {})
    BY <1>1, NamedNext
  <2> QED
    BY <2>1 DEF AddedUpTo
<1>3. RemovedUpTo(ops, n) = RemovedUpTo(ops, n - 1) \cup {ops[n].name}
  <2>1. NamedUpTo(ops, n, "remove") =
          NamedUpTo(ops, n - 1, "remove") \cup (IF ops[n].verb = "remove" THEN {ops[n].name} ELSE {})
    BY <1>1, NamedNext
  <2> QED
    BY <2>1 DEF RemovedUpTo
<1>4. \A i \in 1..n : ops[i].verb = "add" => i \in 1..(n - 1)
  <2>1. \A i \in 1..n : i # n => i \in 1..(n - 1)
    BY <1>1
  <2> QED
    BY <2>1
<1>5. \A k \in 1..(n - 1) : k \in 1..n
  BY <1>1
<1>6. TwiceUpTo(ops, n) <=> TwiceUpTo(ops, n - 1)
  <2>1. TwiceUpTo(ops, n) => TwiceUpTo(ops, n - 1)
    <3> SUFFICES ASSUME NEW i \in 1..n, NEW j \in 1..n, i # j, ops[i] = ops[j],
                        ops[i].verb = "add", ops[i].name \notin Free
                 PROVE  TwiceUpTo(ops, n - 1)
      BY DEF TwiceUpTo
    <3>1. i \in 1..(n - 1) /\ j \in 1..(n - 1)
      BY <1>4
    <3> QED
      BY <3>1 DEF TwiceUpTo
  <2>2. TwiceUpTo(ops, n - 1) => TwiceUpTo(ops, n)
    BY <1>5 DEF TwiceUpTo
  <2> QED
    BY <2>1, <2>2
<1> QED
  BY <1>2, <1>3, <1>6 DEF BroughtUpTo

\* What the property says of a whole request, said of all of its operations.
LEMMA UpToTheEnd ==
  ASSUME NEW ops \in Seq(Operations), Plain(ops)
  PROVE  /\ ops \in PlainOps
         /\ NamedBy(ops, "remove") = RemovedUpTo(ops, Len(ops))
         /\ Brought(ops) = BroughtUpTo(ops, Len(ops))
         /\ \A S : BroughtTwice(S, ops) <=>
                     \/ BroughtUpTo(ops, Len(ops)) \cap S # {}
                     \/ field # "components" /\ TwiceUpTo(ops, Len(ops))
<1>1. DOMAIN ops = 1..Len(ops)
  OBVIOUS
<1>2. ops \in PlainOps
  <2>1. \A i \in 1..Len(ops) : ops[i] \in Operations
    OBVIOUS
  <2> QED
    BY <1>1, <2>1, OperationIs DEF PlainOps, Plain
<1>3. \A verb : NamedBy(ops, verb) = NamedUpTo(ops, Len(ops), verb)
  BY <1>1 DEF NamedBy, NamedUpTo
<1>4. Brought(ops) = BroughtUpTo(ops, Len(ops))
  BY <1>3 DEF Brought, BroughtUpTo, AddedUpTo, Free
<1>5. (\E i, j \in DOMAIN ops : i # j /\ ops[i] = ops[j] /\ ops[i].verb = "add"
                               /\ ops[i].name \in Brought(ops))
      <=> TwiceUpTo(ops, Len(ops))
  <2>1. \A i \in 1..Len(ops) : ops[i].verb = "add" =>
          (ops[i].name \in Brought(ops) <=> ops[i].name \notin Free)
    BY <1>4 DEF BroughtUpTo, AddedUpTo, NamedUpTo
  <2> QED
    BY <1>1, <2>1 DEF TwiceUpTo
<1>6. ASSUME NEW S
      PROVE  BroughtTwice(S, ops) <=>
                \/ BroughtUpTo(ops, Len(ops)) \cap S # {}
                \/ field # "components" /\ TwiceUpTo(ops, Len(ops))
  BY <1>4, <1>5 DEF BroughtTwice
<1> QED
  BY <1>2, <1>3, <1>4, <1>6 DEF RemovedUpTo
-----------------------------------------------------------------------------
\* After a list: no row that was loaded is there any more, and none goes.
AfterList(w, ops, n, names) ==
  w.again \/
    /\ w.loaded = held /\ w.gone = {} /\ held \subseteq w.dead
    /\ InEffect(w) = ToSet(names) \cup BroughtUpTo(ops, n)
    /\ field = "components" => w.seen = AddedUpTo(ops, n)
    /\ Breaking(w) <=> \/ BroughtUpTo(ops, n) \cap ToSet(names) # {}
                       \/ field # "components" /\ TwiceUpTo(ops, n)
                       \/ ~IsInjective(Listed(names))

LEMMA AddAfterList ==
  ASSUME NEW names \in NameLists, NEW ops \in PlainOps, NEW n \in 1..Len(ops), NEW w \in Work,
         AfterList(w, ops, n - 1, names), ops[n].verb = "add"
  PROVE  AfterList(Added(w, ops[n].name), ops, n, names)
<1> DEFINE name == ops[n].name
           v == Added(w, name)
           ins == Inserts(w, name)
           T == ToSet(names)
           once == IsInjective(Listed(names))
<1>1. name \in FieldValues
  BY OperationIs DEF PlainOps
<1>2. /\ v \in Work /\ v.loaded = w.loaded /\ v.again = w.again
      /\ v.seen = w.seen \cup {name} \/ (v = w /\ field = "components" /\ name \in w.seen)
      /\ w.dead \subseteq v.dead /\ v.gone \subseteq w.gone
      /\ InEffect(v) = InEffect(w) \cup (IF ins THEN {name} ELSE {})
      /\ Breaking(v) <=> Breaking(w) \/ (ins /\ name \in InEffect(w))
  <2> HIDE DEF name
  <2> QED
    BY <1>1, AddedIs, ZenonT(30)
<1>3. /\ AddedUpTo(ops, n) = AddedUpTo(ops, n - 1) \cup {name}
      /\ BroughtUpTo(ops, n) = BroughtUpTo(ops, n - 1) \cup ({name} \ Free)
      /\ TwiceUpTo(ops, n) <=> TwiceUpTo(ops, n - 1) \/ name \in BroughtUpTo(ops, n - 1)
  BY AddNext
<1>4. BroughtUpTo(ops, n - 1) = AddedUpTo(ops, n - 1) \ Free
  BY DEF BroughtUpTo
<1>5. w.again \/
        /\ w.loaded = held /\ w.gone = {} /\ held \subseteq w.dead
        /\ InEffect(w) = T \cup BroughtUpTo(ops, n - 1)
        /\ field = "components" => w.seen = AddedUpTo(ops, n - 1)
        /\ Breaking(w) <=> \/ BroughtUpTo(ops, n - 1) \cap T # {}
                           \/ field # "components" /\ TwiceUpTo(ops, n - 1)
                           \/ ~once
  BY DEF AfterList
<1>6. CASE w.again
  BY <1>2, <1>6 DEF AfterList
<1>7. CASE ~w.again
  <2>1. ins <=> ~(field = "components" /\ name \in w.seen) /\ name \notin Free
    BY <1>5, <1>7 DEF Inserts, Free
  <2> HIDE DEF v, name, ins, T, once
  <2>2. v.loaded = held /\ v.gone = {} /\ held \subseteq v.dead
    BY <1>2, <1>5, <1>7
  <2>3. field = "components" => v.seen = AddedUpTo(ops, n)
    BY <1>2, <1>3, <1>5, <1>7
  <2>4. InEffect(v) = T \cup BroughtUpTo(ops, n)
    BY <1>2, <1>3, <1>4, <1>5, <1>7, <2>1
  <2>5. Breaking(v) <=> \/ BroughtUpTo(ops, n) \cap T # {}
                        \/ field # "components" /\ TwiceUpTo(ops, n)
                        \/ ~once
    <3>1. CASE ins
      BY <1>2, <1>3, <1>4, <1>5, <1>7, <2>1, <3>1
    <3>2. CASE ~ins
      BY <1>2, <1>3, <1>4, <1>5, <1>7, <2>1, <3>2
    <3> QED
      BY <3>1, <3>2
  <2> QED
    BY <2>2, <2>3, <2>4, <2>5 DEF AfterList, T, once, v, name
<1> QED
  BY <1>6, <1>7

LEMMA RemoveAfterList ==
  ASSUME NEW names \in NameLists, NEW ops \in PlainOps, NEW n \in 1..Len(ops), NEW w \in Work,
         AfterList(w, ops, n - 1, names), ops[n].verb = "remove"
  PROVE  AfterList(Deleted(w, {ops[n].name}), ops, n, names)
<1> DEFINE one == {ops[n].name}
           v == Deleted(w, one)
<1> HIDE DEF one
<1>1. /\ v.loaded = w.loaded /\ v.table = w.table /\ v.new = w.new /\ v.failed = w.failed
      /\ v.gone = w.gone \cup (one \cap w.loaded) /\ v.dead = w.dead /\ v.seen = w.seen
      /\ v.again = (w.again \/ one \cap w.dead # {})
  BY DeletedIs
<1>2. /\ AddedUpTo(ops, n) = AddedUpTo(ops, n - 1) /\ BroughtUpTo(ops, n) = BroughtUpTo(ops, n - 1)
      /\ TwiceUpTo(ops, n) <=> TwiceUpTo(ops, n - 1)
  BY RemoveNext
<1> HIDE DEF v
<1>3. CASE v.again
  BY <1>3 DEF AfterList, v, one
<1>4. CASE ~v.again
  <2>1. ~w.again /\ one \cap w.dead = {}
    BY <1>1, <1>4
  <2>2. w.loaded = held /\ w.gone = {} /\ held \subseteq w.dead
    BY <2>1 DEF AfterList
  <2>3. v.gone = {}
    BY <1>1, <2>1, <2>2
  <2>4. InEffect(v) = InEffect(w) /\ (Breaking(v) <=> Breaking(w))
    BY <1>1, <2>2, <2>3 DEF InEffect, Breaking
  <2>5. AfterList(v, ops, n, names)
    BY <1>1, <1>2, <2>1, <2>2, <2>3, <2>4 DEF AfterList
  <2> QED
    BY <2>5 DEF v, one
<1> QED
  BY <1>3, <1>4

LEMMA ReplacedIs ==
  ASSUME held \in NameSets, NEW names \in NameLists
  PROVE  LET r == ListReplaced(names)
         IN  /\ r \in Work /\ r.loaded = held /\ r.seen = {} /\ r.gone = {}
             /\ r.dead = held /\ r.again = FALSE
             /\ InEffect(r) = ToSet(names) /\ (Breaking(r) <=> ~IsInjective(Listed(names)))
<1> DEFINE list == Listed(names)
<1>1. list \in Seq(FieldValues) /\ ToSet(list) = ToSet(names)
  BY ListedIs
<1> HIDE DEF list
<1> DEFINE r == Refilled(Loaded(held), list)
<1>2. /\ r \in Work /\ r.loaded = held /\ r.seen = {} /\ r.gone = {}
      /\ r.dead = held /\ r.again = FALSE
      /\ InEffect(r) = ToSet(list) /\ (Breaking(r) <=> ~IsInjective(list))
      /\ Flushed(r) \in Work /\ Flushed(r).again = FALSE
      /\ Flushed(r).table = ToSet(list) /\ Flushed(r).failed = ~IsInjective(list)
  BY <1>1, RefilledFromIs, Zenon
<1>3. r = ListReplaced(names)
  BY DEF ListReplaced, list
<1> HIDE DEF r
<1> QED
  BY <1>1, <1>2, <1>3 DEF list

LEMMA ListThenOps ==
  ASSUME held \in NameSets, NEW names \in NameLists, NEW ops \in PlainOps
  PROVE  LET v == Result(ListReplaced(names), ops)
         IN  ~v.again =>
               /\ v.table = ToSet(names) \cup BroughtUpTo(ops, Len(ops))
               /\ v.failed <=> \/ BroughtUpTo(ops, Len(ops)) \cap ToSet(names) # {}
                               \/ field # "components" /\ TwiceUpTo(ops, Len(ops))
                               \/ ~IsInjective(Listed(names))
<1> DEFINE N == Len(ops)
           start == ListReplaced(names)
           v == Result(start, ops)
<1>1. /\ N \in Nat /\ ops \in Seq(Operations)
      /\ \A n \in 1..N : ops[n] \in Operations /\ ops[n].verb \in {"add", "remove"}
  BY DEF PlainOps
<1>2. /\ start \in Work /\ start.loaded = held /\ start.seen = {} /\ start.gone = {}
      /\ start.dead = held /\ start.again = FALSE
      /\ InEffect(start) = ToSet(names) /\ (Breaking(start) <=> ~IsInjective(Listed(names)))
  BY ReplacedIs
<1> HIDE DEF start
<1>3. PICK w \in [0..N -> Work] :
        /\ w[0] = start /\ \A n \in 1..N : w[n] = Applied(w[n - 1], ops[n])
        /\ v = Flushed(w[N])
  BY <1>1, <1>2, ResultSteps
<1> HIDE DEF v
<1> DEFINE G == {n \in 0..N : AfterList(w[n], ops, n, names)}
<1>4. 0 \in G
  <2>1. AfterList(w[0], ops, 0, names)
    BY <1>2, <1>3, NothingNamed DEF AfterList
  <2> QED
    BY <1>1, <2>1
<1>5. ASSUME NEW n \in 1..N, n - 1 \in G
      PROVE  n \in G
  <2>1. /\ n - 1 \in 0..N /\ n \in 0..N /\ w[n - 1] \in Work
        /\ AfterList(w[n - 1], ops, n - 1, names) /\ w[n] = Applied(w[n - 1], ops[n])
    BY <1>1, <1>3, <1>5
  <2>2. CASE ops[n].verb = "add"
    <3>1. w[n] = Added(w[n - 1], ops[n].name)
      BY <1>1, <2>1, <2>2, AppliedIs
    <3>2. AfterList(Added(w[n - 1], ops[n].name), ops, n, names)
      BY <2>1, <2>2, AddAfterList
    <3> QED
      BY <2>1, <3>1, <3>2
  <2>3. CASE ops[n].verb = "remove"
    <3>1. w[n] = Deleted(w[n - 1], {ops[n].name})
      BY <1>1, <2>1, <2>3, AppliedIs
    <3>2. AfterList(Deleted(w[n - 1], {ops[n].name}), ops, n, names)
      BY <2>1, <2>3, RemoveAfterList
    <3> QED
      BY <2>1, <3>1, <3>2
  <2> QED
    BY <1>1, <2>2, <2>3
<1>6. w[N] \in Work /\ AfterList(w[N], ops, N, names)
  <2> HIDE DEF G, N
  <2>1. \A n \in 0..N : n \in G
    BY <1>1, <1>4, <1>5, StepByStep
  <2> QED
    BY <1>1, <2>1 DEF G
<1>7. v.table = InEffect(w[N]) /\ v.failed = Breaking(w[N]) /\ v.again = w[N].again
  BY <1>3, <1>6, FlushedIs
<1> QED
  BY <1>6, <1>7 DEF AfterList, v, start
-----------------------------------------------------------------------------
\* Labels and components: a name of the issue is not inserted, and others are not removed.
FromLoaded(w, ops, n) ==
  /\ w.loaded = held /\ w.new \cap held = {}
  /\ InEffect(w) = (held \ RemovedUpTo(ops, n)) \cup BroughtUpTo(ops, n)
  /\ field = "components" => w.seen = AddedUpTo(ops, n)
  /\ Breaking(w) <=> field # "components" /\ TwiceUpTo(ops, n)

LEMMA AddFromLoaded ==
  ASSUME NEW ops \in PlainOps, NEW n \in 1..Len(ops), NEW w \in Work, field # "fixVersions",
         FromLoaded(w, ops, n - 1), ops[n].verb = "add"
  PROVE  FromLoaded(Added(w, ops[n].name), ops, n)
<1> DEFINE name == ops[n].name
           v == Added(w, name)
           ins == Inserts(w, name)
<1>1. name \in FieldValues
  BY OperationIs DEF PlainOps
<1>2. /\ v \in Work /\ v.loaded = w.loaded
      /\ v.seen = w.seen \cup {name} \/ (v = w /\ field = "components" /\ name \in w.seen)
      /\ v.new \subseteq w.new \cup (IF ins THEN {name} ELSE {})
      /\ InEffect(v) = InEffect(w) \cup (IF ins THEN {name} ELSE {})
      /\ Breaking(v) <=> Breaking(w) \/ (ins /\ name \in InEffect(w))
  <2> HIDE DEF name
  <2> QED
    BY <1>1, AddedIs, ZenonT(30)
<1>3. /\ AddedUpTo(ops, n) = AddedUpTo(ops, n - 1) \cup {name}
      /\ RemovedUpTo(ops, n) = RemovedUpTo(ops, n - 1)
      /\ BroughtUpTo(ops, n) = BroughtUpTo(ops, n - 1) \cup ({name} \ held)
      /\ TwiceUpTo(ops, n) <=> TwiceUpTo(ops, n - 1) \/ name \in BroughtUpTo(ops, n - 1)
  BY AddNext DEF Free
<1>4. BroughtUpTo(ops, n - 1) = AddedUpTo(ops, n - 1) \ held
  BY DEF BroughtUpTo, Free
<1>5. /\ w.loaded = held /\ w.new \cap held = {}
      /\ InEffect(w) = (held \ RemovedUpTo(ops, n - 1)) \cup BroughtUpTo(ops, n - 1)
      /\ field = "components" => w.seen = AddedUpTo(ops, n - 1)
      /\ Breaking(w) <=> field # "components" /\ TwiceUpTo(ops, n - 1)
  BY DEF FromLoaded
<1>6. ins <=> ~(field = "components" /\ name \in w.seen) /\ name \notin held
  BY <1>5 DEF Inserts
<1> HIDE DEF v, name, ins
<1>7. v.loaded = held /\ v.new \cap held = {}
  BY <1>2, <1>5, <1>6
<1>8. field = "components" => v.seen = AddedUpTo(ops, n)
  BY <1>2, <1>3, <1>5
<1>9. InEffect(v) = (held \ RemovedUpTo(ops, n)) \cup BroughtUpTo(ops, n)
  BY <1>2, <1>3, <1>4, <1>5, <1>6
<1>10. Breaking(v) <=> field # "components" /\ TwiceUpTo(ops, n)
  BY <1>2, <1>3, <1>4, <1>5, <1>6
<1> QED
  BY <1>7, <1>8, <1>9, <1>10 DEF FromLoaded, v, name

LEMMA RemoveFromLoaded ==
  ASSUME NEW ops \in PlainOps, NEW n \in 1..Len(ops), NEW w \in Work, field # "fixVersions",
         FromLoaded(w, ops, n - 1), ops[n].verb = "remove"
  PROVE  FromLoaded(Deleted(w, {ops[n].name}), ops, n)
<1> DEFINE name == ops[n].name
           one == {name}
           v == Deleted(w, one)
<1> HIDE DEF one
<1>1. /\ v.loaded = w.loaded /\ v.table = w.table /\ v.new = w.new /\ v.failed = w.failed
      /\ v.gone = w.gone \cup (one \cap w.loaded) /\ v.seen = w.seen
  BY DeletedIs
<1>2. /\ AddedUpTo(ops, n) = AddedUpTo(ops, n - 1) /\ BroughtUpTo(ops, n) = BroughtUpTo(ops, n - 1)
      /\ RemovedUpTo(ops, n) = RemovedUpTo(ops, n - 1) \cup one
      /\ TwiceUpTo(ops, n) <=> TwiceUpTo(ops, n - 1)
  BY RemoveNext DEF one
<1>3. BroughtUpTo(ops, n - 1) \cap held = {}
  BY DEF BroughtUpTo, Free
<1>4. /\ w.loaded = held /\ w.new \cap held = {}
      /\ InEffect(w) = (held \ RemovedUpTo(ops, n - 1)) \cup BroughtUpTo(ops, n - 1)
      /\ field = "components" => w.seen = AddedUpTo(ops, n - 1)
      /\ Breaking(w) <=> field # "components" /\ TwiceUpTo(ops, n - 1)
  BY DEF FromLoaded
<1> HIDE DEF v
<1>5. InEffect(v) = InEffect(w) \ (one \cap held) /\ (Breaking(v) <=> Breaking(w))
  BY <1>1, <1>4 DEF InEffect, Breaking
<1>6. InEffect(v) = (held \ RemovedUpTo(ops, n)) \cup BroughtUpTo(ops, n)
  BY <1>2, <1>3, <1>4, <1>5
<1>7. FromLoaded(v, ops, n)
  BY <1>1, <1>2, <1>4, <1>5, <1>6 DEF FromLoaded
<1> QED
  BY <1>7 DEF v, one

\* Versions: an addition of a version the issue has waits in the session, and breaks
\* the key in the flush unless the version's row goes in the same flush.
FromVersions(w, ops, n) ==
  w.again \/ w.failed \/
    /\ w.loaded = held /\ w.new \subseteq AddedUpTo(ops, n)
    /\ InEffect(w) = (held \ RemovedUpTo(ops, n)) \cup AddedUpTo(ops, n)
    /\ \A x \in held \ w.dead : x \in w.table /\ (x \in AddedUpTo(ops, n) => x \in w.new)

LEMMA AddFromVersions ==
  ASSUME NEW ops \in PlainOps, NEW n \in 1..Len(ops), NEW w \in Work, field = "fixVersions",
         FromVersions(w, ops, n - 1), ops[n].verb = "add"
  PROVE  FromVersions(Added(w, ops[n].name), ops, n)
<1> DEFINE name == ops[n].name
           v == Added(w, name)
           q == LookedUp(w)
           A == AddedUpTo(ops, n - 1)
<1>1. name \in FieldValues
  BY OperationIs DEF PlainOps
<1>2. Inserts(w, name)
  BY DEF Inserts
<1>3. /\ v.loaded = w.loaded /\ v.again = w.again
      /\ InEffect(v) = InEffect(w) \cup {name}
      /\ v.table = q.table /\ v.dead = q.dead
      /\ v.failed = (q.failed \/ name \in q.new) /\ v.new = q.new \cup {name}
  <2>1. /\ v.loaded = w.loaded /\ v.again = w.again
        /\ InEffect(v) = InEffect(w) \cup (IF Inserts(w, name) THEN {name} ELSE {})
        /\ ~(field = "components" /\ name \in w.seen) =>
             /\ v.table = LookedUp(w).table /\ v.dead = LookedUp(w).dead
             /\ v.failed = (LookedUp(w).failed \/ (Inserts(w, name) /\ name \in LookedUp(w).new))
             /\ v.new = LookedUp(w).new \cup (IF Inserts(w, name) THEN {name} ELSE {})
    <3> HIDE DEF name
    <3> QED
      BY <1>1, AddedIs, ZenonT(30)
  <2> HIDE DEF v, name
  <2> QED
    BY <1>2, <2>1
<1>4. /\ q.table = InEffect(w) /\ q.new = {} /\ q.dead = w.dead \cup w.gone /\ q.failed = Breaking(w)
  <2>1. q = Flushed(w)
    BY LookedUpIs
  <2> HIDE DEF q
  <2> QED
    BY <2>1, FlushedIs
<1>5. AddedUpTo(ops, n) = A \cup {name} /\ RemovedUpTo(ops, n) = RemovedUpTo(ops, n - 1)
  BY AddNext
<1>6. v.failed \in BOOLEAN /\ (w.failed => Breaking(w))
  BY <1>3, <1>4 DEF Breaking, Work
<1>7. w.again \/ w.failed \/
        /\ w.loaded = held /\ w.new \subseteq A
        /\ InEffect(w) = (held \ RemovedUpTo(ops, n - 1)) \cup A
        /\ \A x \in held \ w.dead : x \in w.table /\ (x \in A => x \in w.new)
  BY DEF FromVersions
<1> HIDE DEF v, q, name, A
<1>8. CASE v.again \/ v.failed
  BY <1>8 DEF FromVersions, v, name
<1>9. CASE ~v.again /\ ~v.failed
  <2>1. ~w.again /\ ~w.failed /\ ~Breaking(w)
    BY <1>3, <1>4, <1>6, <1>9
  <2>2. ASSUME NEW x \in held \ q.dead
        PROVE  x \in q.table /\ x \notin A
    <3>1. x \in w.table /\ x \notin w.gone /\ (x \in A => x \in w.new)
      BY <1>4, <1>7, <2>1
    <3>2. x \in InEffect(w)
      BY <3>1 DEF InEffect
    <3>3. x \notin w.new
      BY <2>1, <3>1 DEF Breaking
    <3> QED
      BY <1>4, <3>1, <3>2, <3>3
  <2>3. \A x \in held \ v.dead : x \in v.table /\ (x \in AddedUpTo(ops, n) => x \in v.new)
    BY <1>3, <1>5, <2>2
  <2>4. /\ v.loaded = held /\ v.new \subseteq AddedUpTo(ops, n)
        /\ InEffect(v) = (held \ RemovedUpTo(ops, n)) \cup AddedUpTo(ops, n)
    BY <1>3, <1>4, <1>5, <1>7, <2>1
  <2>5. FromVersions(v, ops, n)
    BY <2>3, <2>4 DEF FromVersions
  <2> QED
    BY <2>5 DEF v, name
<1> QED
  BY <1>8, <1>9

LEMMA RemoveFromVersions ==
  ASSUME NEW ops \in PlainOps, NEW n \in 1..Len(ops), NEW w \in Work, field = "fixVersions",
         FromVersions(w, ops, n - 1), ops[n].verb = "remove"
  PROVE  FromVersions(Deleted(w, {ops[n].name}), ops, n)
<1> DEFINE name == ops[n].name
           one == {name}
           v == Deleted(w, one)
           A == AddedUpTo(ops, n - 1)
           R == RemovedUpTo(ops, n - 1)
<1> HIDE DEF one
<1>1. /\ v.loaded = w.loaded /\ v.table = w.table /\ v.new = w.new /\ v.failed = w.failed
      /\ v.gone = w.gone \cup (one \cap w.loaded) /\ v.dead = w.dead
      /\ v.again = (w.again \/ one \cap w.dead # {})
  BY DeletedIs
<1>2. AddedUpTo(ops, n) = A /\ RemovedUpTo(ops, n) = R \cup one
  BY RemoveNext DEF one
<1>3. w.again \/ w.failed \/
        /\ w.loaded = held /\ w.new \subseteq A
        /\ InEffect(w) = (held \ R) \cup A
        /\ \A x \in held \ w.dead : x \in w.table /\ (x \in A => x \in w.new)
  BY DEF FromVersions
<1> HIDE DEF v, A, R
<1>4. CASE v.again \/ v.failed
  BY <1>4 DEF FromVersions, v, one
<1>5. CASE ~v.again /\ ~v.failed
  <2>1. /\ w.loaded = held /\ w.new \subseteq A /\ InEffect(w) = (held \ R) \cup A
        /\ \A x \in held \ w.dead : x \in w.table /\ (x \in A => x \in w.new)
        /\ one \cap w.dead = {}
    BY <1>1, <1>3, <1>5
  <2>2. InEffect(v) = (held \ (R \cup one)) \cup A
    <3>1. \A x \in one \cap held : x \in A => x \in w.new
      BY <2>1
    <3>2. InEffect(v) = (InEffect(w) \ (one \cap held)) \cup w.new
      BY <1>1, <2>1 DEF InEffect
    <3> QED
      BY <2>1, <3>1, <3>2
  <2>3. FromVersions(v, ops, n)
    BY <1>1, <1>2, <2>1, <2>2 DEF FromVersions
  <2> QED
    BY <2>3 DEF v, one
<1> QED
  BY <1>4, <1>5

LEMMA OpsOnLoaded ==
  ASSUME held \in NameSets, NEW ops \in PlainOps
  PROVE  LET v == Result(Loaded(held), ops)
             R == RemovedUpTo(ops, Len(ops))
             B == BroughtUpTo(ops, Len(ops))
         IN  ~v.again =>
               /\ ~v.failed => v.table = (held \ R) \cup B
               /\ field # "fixVersions" => (v.failed <=> field # "components" /\ TwiceUpTo(ops, Len(ops)))
<1> DEFINE N == Len(ops)
           start == Loaded(held)
           v == Result(start, ops)
<1>1. /\ N \in Nat /\ ops \in Seq(Operations)
      /\ \A n \in 1..N : ops[n] \in Operations /\ ops[n].verb \in {"add", "remove"}
  BY DEF PlainOps
<1>2. /\ start \in Work /\ start.loaded = held /\ start.table = held /\ start.new = {}
      /\ start.seen = {} /\ start.gone = {} /\ start.dead = {} /\ start.again = FALSE
      /\ InEffect(start) = held /\ ~Breaking(start)
  BY LoadedIs
<1> HIDE DEF start
<1>3. PICK w \in [0..N -> Work] :
        /\ w[0] = start /\ \A n \in 1..N : w[n] = Applied(w[n - 1], ops[n])
        /\ v = Flushed(w[N])
  BY <1>1, <1>2, ResultSteps
<1> HIDE DEF v
<1> DEFINE OK(n) == IF field = "fixVersions" THEN FromVersions(w[n], ops, n)
                    ELSE FromLoaded(w[n], ops, n)
           G == {n \in 0..N : OK(n)}
<1>4. 0 \in G
  <2>1. FromVersions(w[0], ops, 0)
    BY <1>2, <1>3, NothingNamed DEF FromVersions
  <2>2. FromLoaded(w[0], ops, 0)
    BY <1>2, <1>3, NothingNamed DEF FromLoaded
  <2> QED
    BY <1>1, <2>1, <2>2
<1>5. ASSUME NEW n \in 1..N, n - 1 \in G
      PROVE  n \in G
  <2>1. /\ n - 1 \in 0..N /\ n \in 0..N /\ w[n - 1] \in Work
        /\ OK(n - 1) /\ w[n] = Applied(w[n - 1], ops[n])
    BY <1>1, <1>3, <1>5
  <2>2. CASE ops[n].verb = "add"
    <3>1. w[n] = Added(w[n - 1], ops[n].name)
      BY <1>1, <2>1, <2>2, AppliedIs
    <3>2. OK(n)
      BY <2>1, <2>2, <3>1, AddFromLoaded, AddFromVersions
    <3> QED
      BY <2>1, <3>2
  <2>3. CASE ops[n].verb = "remove"
    <3>1. w[n] = Deleted(w[n - 1], {ops[n].name})
      BY <1>1, <2>1, <2>3, AppliedIs
    <3>2. OK(n)
      BY <2>1, <2>3, <3>1, RemoveFromLoaded, RemoveFromVersions
    <3> QED
      BY <2>1, <3>2
  <2> QED
    BY <1>1, <2>2, <2>3
<1>6. w[N] \in Work /\ OK(N)
  <2> HIDE DEF G, N
  <2>1. \A n \in 0..N : n \in G
    BY <1>1, <1>4, <1>5, StepByStep
  <2> QED
    BY <1>1, <2>1 DEF G
<1>7. v.table = InEffect(w[N]) /\ v.failed = Breaking(w[N]) /\ v.again = w[N].again
  BY <1>3, <1>6, FlushedIs
<1>8. CASE field = "fixVersions"
  <2>1. BroughtUpTo(ops, N) = AddedUpTo(ops, N)
    BY <1>8 DEF BroughtUpTo, Free
  <2>2. w[N].failed => Breaking(w[N])
    BY DEF Breaking
  <2> QED
    BY <1>6, <1>7, <1>8, <2>1, <2>2 DEF FromVersions, v, start
<1>9. CASE field # "fixVersions"
  BY <1>6, <1>7, <1>9 DEF FromLoaded, v, start
<1> QED
  BY <1>8, <1>9
-----------------------------------------------------------------------------
\* After a list of labels: of the labels the issue had, those in the list stay, and no
\* other comes back, "set" operations included.
LabelsAfterList(w, names) ==
  w.again \/
    /\ w.loaded = held /\ w.gone = {} /\ held \subseteq w.dead
    /\ ToSet(names) \subseteq InEffect(w) /\ (InEffect(w) \ ToSet(names)) \cap held = {}

LEMMA LabelsAfterOp ==
  ASSUME field = "labels", NEW names \in NameLists, NEW op \in Operations, NEW w \in Work,
         LabelsAfterList(w, names)
  PROVE  LabelsAfterList(Applied(w, op), names)
<1> DEFINE T == ToSet(names)
<1>1. w.again \/
        /\ w.loaded = held /\ w.gone = {} /\ held \subseteq w.dead
        /\ T \subseteq InEffect(w) /\ (InEffect(w) \ T) \cap held = {}
  BY DEF LabelsAfterList
<1>2. CASE op.verb = "add"
  <2> DEFINE name == op.name
             v == Added(w, name)
             ins == Inserts(w, name)
  <2>1. name \in FieldValues
    BY <1>2, OperationIs
  <2>2. v = Applied(w, op)
    BY <1>2, AppliedIs
  <2>3. /\ v.loaded = w.loaded /\ v.again = w.again
        /\ w.dead \subseteq v.dead /\ v.gone \subseteq w.gone
        /\ InEffect(v) = InEffect(w) \cup (IF ins THEN {name} ELSE {})
    <3> HIDE DEF name
    <3> QED
      BY <2>1, AddedIs, ZenonT(30)
  <2>4. ins => name \notin w.loaded
    BY DEF Inserts
  <2> HIDE DEF v, ins, name, T
  <2>5. v.again \/
          /\ v.loaded = held /\ v.gone = {} /\ held \subseteq v.dead
          /\ T \subseteq InEffect(v) /\ (InEffect(v) \ T) \cap held = {}
    BY <1>1, <2>3, <2>4
  <2> QED
    BY <2>2, <2>5 DEF LabelsAfterList, T
<1>3. CASE op.verb = "remove"
  <2> DEFINE one == {op.name}
             v == Deleted(w, one)
  <2>1. v = Applied(w, op)
    BY <1>3, AppliedIs
  <2> HIDE DEF one
  <2>2. /\ v.loaded = w.loaded /\ v.table = w.table /\ v.new = w.new
        /\ v.gone = w.gone \cup (one \cap w.loaded) /\ v.dead = w.dead
        /\ v.again = (w.again \/ one \cap w.dead # {})
    BY DeletedIs
  <2> HIDE DEF v, T
  <2>3. v.again \/ v.gone = w.gone
    BY <1>1, <2>2
  <2>4. v.again \/ InEffect(v) = InEffect(w)
    BY <2>2, <2>3 DEF InEffect
  <2>5. v.again \/
          /\ v.loaded = held /\ v.gone = {} /\ held \subseteq v.dead
          /\ T \subseteq InEffect(v) /\ (InEffect(v) \ T) \cap held = {}
    BY <1>1, <2>2, <2>3, <2>4
  <2> QED
    BY <2>1, <2>5 DEF LabelsAfterList, T
<1>4. CASE op.verb = "set"
  <2> DEFINE list == Listed(op.names)
             e == Emptied(w)
             v == Refilled(w, list)
             all == w.loaded
  <2>1. list \in Seq(FieldValues)
    BY <1>4, OperationIs, ListedIs
  <2>2. v = Applied(w, op)
    BY <1>4, AppliedIs
  <2> HIDE DEF list
  <2>3. /\ v \in Work /\ v.loaded = w.loaded /\ v.seen = w.seen /\ v.gone = {}
        /\ v.dead = w.dead \cup (w.gone \cup w.loaded)
        /\ v.again = (w.again \/ w.loaded \cap w.dead # {})
        /\ InEffect(v) = InEffect(e) \cup ToSet(list)
        /\ Breaking(v) <=> Breaking(e) \/ InEffect(e) \cap ToSet(list) # {} \/ ~IsInjective(list)
    BY <2>1, RefilledIs, Zenon
  <2> HIDE DEF v
  <2>4. CASE v.again
    BY <2>2, <2>4 DEF LabelsAfterList
  <2>5. CASE ~v.again
    <3>1. held = {} /\ w.loaded = {} /\ w.gone = {} /\ T \subseteq InEffect(w)
      BY <1>1, <2>3, <2>5
    <3>2. /\ Deleted(w, all).table = w.table /\ Deleted(w, all).new = w.new
          /\ Deleted(w, all).gone = w.gone \cup (all \cap w.loaded)
      <4> HIDE DEF all
      <4> QED
        BY DeletedIs
    <3>3. e = Deleted(w, all)
      BY DEF Emptied
    <3> HIDE DEF e
    <3>4. e.table = w.table /\ e.new = w.new /\ e.gone = {}
      <4>1. w.gone \cup (all \cap w.loaded) = {}
        BY <3>1
      <4> QED
        BY <3>2, <3>3, <4>1
    <3>5. InEffect(e) = InEffect(w)
      BY <3>1, <3>4 DEF InEffect
    <3>6. /\ v.loaded = held /\ v.gone = {} /\ held \subseteq v.dead
          /\ T \subseteq InEffect(v) /\ (InEffect(v) \ T) \cap held = {}
      BY <2>3, <3>1, <3>5
    <3> QED
      BY <2>2, <3>6 DEF LabelsAfterList
  <2> QED
    BY <2>4, <2>5
<1> QED
  BY <1>2, <1>3, <1>4, OperationIs

\* If the operations end where the request began, so did the list before them.
LEMMA LabelsEndAsTheyWere ==
  ASSUME field = "labels", held \in NameSets, NEW names \in NameLists, NEW ops \in Seq(Operations)
  PROVE  LET v == Result(ListReplaced(names), ops)
         IN  ~v.again /\ v.table = held => ToSet(names) = held
<1> DEFINE N == Len(ops)
           start == ListReplaced(names)
           v == Result(start, ops)
<1>1. N \in Nat /\ \A n \in 1..N : ops[n] \in Operations
  OBVIOUS
<1>2. /\ start \in Work /\ start.loaded = held /\ start.seen = {} /\ start.gone = {}
      /\ start.dead = held /\ start.again = FALSE
      /\ InEffect(start) = ToSet(names) /\ (Breaking(start) <=> ~IsInjective(Listed(names)))
  BY ReplacedIs
<1> HIDE DEF start
<1>3. PICK w \in [0..N -> Work] :
        /\ w[0] = start /\ \A n \in 1..N : w[n] = Applied(w[n - 1], ops[n])
        /\ v = Flushed(w[N])
  BY <1>2, ResultSteps
<1> HIDE DEF v
<1> DEFINE G == {n \in 0..N : LabelsAfterList(w[n], names)}
<1>4. 0 \in G
  <2>1. LabelsAfterList(w[0], names)
    BY <1>2, <1>3 DEF LabelsAfterList
  <2> QED
    BY <1>1, <2>1
<1>5. ASSUME NEW n \in 1..N, n - 1 \in G
      PROVE  n \in G
  <2>1. /\ n - 1 \in 0..N /\ n \in 0..N /\ w[n - 1] \in Work /\ ops[n] \in Operations
        /\ LabelsAfterList(w[n - 1], names) /\ w[n] = Applied(w[n - 1], ops[n])
    BY <1>1, <1>3, <1>5
  <2>2. LabelsAfterList(Applied(w[n - 1], ops[n]), names)
    BY <2>1, LabelsAfterOp
  <2> QED
    BY <2>1, <2>2
<1>6. w[N] \in Work /\ LabelsAfterList(w[N], names)
  <2> HIDE DEF G, N
  <2>1. \A n \in 0..N : n \in G
    BY <1>1, <1>4, <1>5, StepByStep
  <2> QED
    BY <1>1, <2>1 DEF G
<1>7. v.table = InEffect(w[N]) /\ v.again = w[N].again
  BY <1>3, <1>6, FlushedIs
<1> QED
  BY <1>6, <1>7 DEF LabelsAfterList, v, start
-----------------------------------------------------------------------------
Lists == Seq(FieldValues)
Entries == Seq(Lists \X Lists)
EntriesOK == labelHistory \in Seq(Entries)
FieldInd ==
  /\ field \in FieldNames /\ held \in NameSets
  /\ EntriesOK /\ LabelHistoryTellsTheLabels

LEMMA InOrderOK ==
  ASSUME NEW names \in NameSets
  PROVE  InOrder(names) \in Lists /\ ToSet(InOrder(names)) = names
<1>1. IsFiniteSet(names) /\ names \subseteq FieldValues
  BY DEF NameSets
<1>2. SetToSeq(names) \in Seq(names) /\ ToSet(SetToSeq(names)) = names
  BY <1>1, InOrderIs
<1>3. SetToSeq(names) \in Lists
  BY <1>1, <1>2 DEF Lists
<1> QED
  BY <1>2, <1>3 DEF InOrder

\* The entries of a request, if there are any, start from the labels before it, and the
\* last of them ends in those after it.
Tells(entries, after) ==
  /\ entries \in Entries
  /\ \A e \in ToSet(entries) : ToSet(e[1]) = held
  /\ IF entries = <<>> THEN after = held ELSE ToSet(Last(entries)[2]) = after

LEMMA OneEntryTells ==
  ASSUME NEW from \in Lists, NEW to \in Lists, ToSet(from) = held
  PROVE  Tells(Told(from, to), ToSet(to))
<1>1. CASE from = to
  <2>1. Told(from, to) = <<>>
    BY <1>1 DEF Told
  <2>2. ToSet(<<>>) = {} /\ <<>> \in Entries
    BY DEF ToSet, Entries
  <2> QED
    BY <1>1, <2>1, <2>2 DEF Tells
<1>2. CASE from # to
  <2> DEFINE entry == <<from, to>>
             entries == <<entry>>
  <2>1. Told(from, to) = entries
    BY <1>2 DEF Told
  <2>2. entry \in Lists \X Lists /\ entry[1] = from /\ entry[2] = to
    OBVIOUS
  <2> HIDE DEF entry
  <2>3. entries \in Entries /\ entries # <<>> /\ Last(entries) = entry
    BY <2>2 DEF Entries, Last
  <2>4. ToSet(entries) = {entry}
    BY DEF ToSet
  <2> HIDE DEF entries
  <2> QED
    BY <2>1, <2>2, <2>3, <2>4 DEF Tells
<1> QED
  BY <1>1, <1>2

\* Both forms of a request.
LEMMA TwoEntriesTell ==
  ASSUME NEW from \in Lists, NEW sent \in Lists, NEW found \in Lists, ToSet(from) = held,
         from = found => ToSet(sent) = ToSet(found)
  PROVE  Tells(Told(from, sent) \o Told(from, found), ToSet(found))
<1> DEFINE one == Told(from, sent)
           two == Told(from, found)
<1>1. Tells(one, ToSet(sent)) /\ Tells(two, ToSet(found))
  BY OneEntryTells
<1>2. one \in Entries /\ two \in Entries
  BY <1>1 DEF Tells
<1>3. CASE from = found
  <2>1. two = <<>>
    BY <1>3 DEF Told
  <2> HIDE DEF one, two
  <2>2. one \o two = one
    BY <1>2, <2>1 DEF Entries
  <2> QED
    BY <1>1, <1>3, <2>2 DEF one, two
<1>4. CASE from # found
  <2>1. two # <<>>
    BY <1>4 DEF Told
  <2> HIDE DEF one, two
  <2> DEFINE both == one \o two
             m == Len(one)
             n == Len(two)
  <2>2. /\ both \in Entries /\ m \in Nat /\ n \in Nat \ {0} /\ Len(both) = m + n
        /\ DOMAIN both = 1..(m + n) /\ DOMAIN one = 1..m /\ DOMAIN two = 1..n
        /\ \A k \in 1..(m + n) : both[k] = IF k <= m THEN one[k] ELSE two[k - m]
    BY <1>2, <2>1 DEF Entries
  <2> HIDE DEF both, m, n
  <2>3. both # <<>>
    BY <2>2
  <2>4. both[m + n] = two[n]
    <3>1. m + n \in 1..(m + n) /\ ~(m + n <= m) /\ (m + n) - m = n
      BY <2>2
    <3> QED
      BY <2>2, <3>1
  <2>5. Last(both) = Last(two)
    BY <2>2, <2>4 DEF Last, n
  <2>6. \A e \in ToSet(both) : e \in ToSet(one) \cup ToSet(two)
    <3> TAKE e \in ToSet(both)
    <3>1. PICK k \in 1..(m + n) : both[k] = e
      BY <2>2 DEF ToSet
    <3>2. CASE k <= m
      <4>1. k \in 1..m /\ e = one[k]
        BY <2>2, <3>1, <3>2
      <4> QED
        BY <2>2, <4>1 DEF ToSet
    <3>3. CASE ~(k <= m)
      <4>1. k - m \in 1..n /\ e = two[k - m]
        BY <2>2, <3>1, <3>3
      <4> QED
        BY <2>2, <4>1 DEF ToSet
    <3> QED
      BY <3>2, <3>3
  <2>7. Tells(both, ToSet(found))
    BY <1>1, <2>1, <2>2, <2>3, <2>5, <2>6 DEF Tells
  <2> QED
    BY <2>7 DEF both, one, two
<1> QED
  BY <1>3, <1>4

LEMMA FinishInd ==
  ASSUME FieldInd, NEW w \in Work, NEW entries, Finish(w, entries),
         field = "labels" /\ ~w.again => Tells(entries, w.table)
  PROVE  FieldInd'
<1>1. CASE w.failed
  <2>1. UNCHANGED <<field, held, labelHistory, base>>
    BY <1>1 DEF Finish
  <2> QED
    BY <2>1 DEF FieldInd, EntriesOK, LabelHistoryTellsTheLabels
<1>2. CASE ~w.failed /\ (field # "labels" \/ entries = <<>>)
  <2>1. held' = w.table /\ labelHistory' = labelHistory /\ UNCHANGED <<field, base>>
    BY <1>2 DEF Finish
  <2>2. held' \in NameSets /\ (field = "labels" => held' = held)
    BY <1>2, <2>1 DEF Finish, Tells, Work
  <2> QED
    BY <1>2, <2>1, <2>2 DEF FieldInd, EntriesOK, LabelHistoryTellsTheLabels
<1>3. CASE ~w.failed /\ field = "labels" /\ entries # <<>>
  <2> DEFINE n == Len(labelHistory)
  <2>1. held' = w.table /\ labelHistory' = Append(labelHistory, entries) /\ UNCHANGED <<field, base>>
    BY <1>3 DEF Finish
  <2>2. /\ entries \in Entries /\ ToSet(Last(entries)[2]) = w.table
        /\ \A e \in ToSet(entries) : ToSet(e[1]) = held
    BY <1>3 DEF Finish, Tells
  <2> HIDE DEF Entries
  <2>3. /\ n \in Nat /\ DOMAIN labelHistory = 1..n
        /\ labelHistory' \in Seq(Entries)
        /\ DOMAIN labelHistory' = 1..(n + 1) /\ Len(labelHistory') = n + 1
        /\ labelHistory'[n + 1] = entries
        /\ \A k \in 1..n : labelHistory'[k] = labelHistory[k]
    BY <2>1, <2>2 DEF FieldInd, EntriesOK
  <2> HIDE DEF n
  <2> DEFINE Before(k) == IF k = 0 THEN base ELSE ToSet(Last(labelHistory[k])[2])
             AtEnd(k) == IF k = 0 THEN base' ELSE ToSet(Last(labelHistory'[k])[2])
  <2>4. /\ \A k \in 1..n : \A e \in ToSet(labelHistory[k]) : ToSet(e[1]) = Before(k - 1)
        /\ held = Before(n)
    BY <1>3, <2>3 DEF FieldInd, LabelHistoryTellsTheLabels, n
  <2>5. \A k \in 0..n : AtEnd(k) = Before(k)
    <3>1. \A k \in 0..n : k # 0 => k \in 1..n
      BY <2>3
    <3> QED
      BY <2>1, <2>3, <3>1
  <2>6. AtEnd(n + 1) = w.table
    BY <2>2, <2>3
  <2>7. ASSUME NEW k \in 1..(n + 1), NEW e \in ToSet(labelHistory'[k])
        PROVE  ToSet(e[1]) = AtEnd(k - 1)
    <3>1. k - 1 \in 0..n
      BY <2>3
    <3> HIDE DEF AtEnd, Before
    <3>2. CASE k = n + 1
      <4>1. k - 1 = n
        BY <2>3, <3>2
      <4> QED
        BY <2>2, <2>3, <2>4, <2>5, <3>1, <3>2, <4>1
    <3>3. CASE k # n + 1
      <4>1. k \in 1..n
        BY <2>3, <3>3
      <4>2. e \in ToSet(labelHistory[k])
        BY <2>3, <4>1
      <4> QED
        BY <2>4, <2>5, <3>1, <4>1, <4>2
    <3> QED
      BY <3>2, <3>3
  <2>8. LabelHistoryTellsTheLabels'
    BY <2>1, <2>3, <2>6, <2>7 DEF LabelHistoryTellsTheLabels
  <2>9. held' \in NameSets
    BY <2>1 DEF Work
  <2> QED
    BY <2>1, <2>3, <2>8, <2>9 DEF FieldInd, EntriesOK
<1> QED
  BY <1>1, <1>2, <1>3

\* Values that are set without an entry are where the history begins again.
LEMMA SetSilentlyInd ==
  ASSUME FieldInd, NEW w \in Work, SetSilently(w)
  PROVE  FieldInd'
<1>1. CASE w.failed
  BY <1>1 DEF SetSilently, FieldInd, EntriesOK, LabelHistoryTellsTheLabels
<1>2. CASE ~w.failed
  <2>1. held' = w.table /\ base' = w.table /\ labelHistory' = <<>> /\ field' = field
    BY <1>2 DEF SetSilently
  <2>2. held' \in NameSets
    BY <2>1 DEF Work
  <2>3. EntriesOK'
    BY <2>1 DEF EntriesOK
  <2>4. LabelHistoryTellsTheLabels'
    BY <2>1 DEF LabelHistoryTellsTheLabels
  <2> QED
    BY <2>1, <2>2, <2>3, <2>4 DEF FieldInd
<1> QED
  BY <1>1, <1>2

\* The list a request sends is told with the names it has.
Sent(names) == IF IsInjective(names) THEN InOrder(ToSet(names)) ELSE names

LEMMA SentIs ==
  ASSUME NEW names \in NameLists
  PROVE  /\ Sent(names) \in Lists /\ ToSet(Sent(names)) = ToSet(names)
         /\ ToldAsSent(names) = Told(InOrder(held), Sent(names))
<1>1. names \in Lists /\ ToSet(names) \in NameSets
  BY ListsOK DEF Lists
<1>2. InOrder(ToSet(names)) \in Lists /\ ToSet(InOrder(ToSet(names))) = ToSet(names)
  BY <1>1, InOrderOK
<1> QED
  BY <1>1, <1>2 DEF Sent, ToldAsSent

LEMMA ReplaceListInd ==
  ASSUME FieldInd, NEW names \in NameLists, ReplaceList(names)
  PROVE  FieldInd'
<1> DEFINE r == ListReplaced(names)
           w == Flushed(r)
           from == InOrder(held)
           to == Sent(names)
<1>1. r \in Work /\ InEffect(r) = ToSet(names)
  BY ReplacedIs DEF FieldInd
<1>2. Finish(w, ToldAsSent(names))
  BY DEF ReplaceList
<1> HIDE DEF r
<1>3. w \in Work /\ w.table = ToSet(names)
  BY <1>1, FlushedIs
<1>4. from \in Lists /\ ToSet(from) = held
  BY InOrderOK DEF FieldInd
<1>5. to \in Lists /\ ToSet(to) = ToSet(names) /\ ToldAsSent(names) = Told(from, to)
  BY SentIs
<1> HIDE DEF w, from, to
<1>6. Tells(Told(from, to), ToSet(to))
  BY <1>4, <1>5, OneEntryTells
<1> QED
  BY <1>2, <1>3, <1>5, <1>6, FinishInd

LEMMA ResultOK ==
  ASSUME NEW start \in Work, NEW ops \in Seq(Operations)
  PROVE  Result(start, ops) \in Work
<1>1. PICK u \in [0..Len(ops) -> Work] : Result(start, ops) = Flushed(u[Len(ops)])
  BY ResultSteps
<1>2. u[Len(ops)] \in Work
  OBVIOUS
<1> QED
  BY <1>1, <1>2, FlushedIs

LEMMA UpdateOpsInd ==
  ASSUME FieldInd, NEW ops \in Seq(Operations), UpdateOps(ops)
  PROVE  FieldInd'
<1> DEFINE start == Loaded(held)
           w == Result(start, ops)
           from == InOrder(held)
           to == InOrder(w.table)
<1>1. start \in Work
  BY LoadedIs DEF FieldInd
<1>2. Finish(w, Told(from, to))
  BY DEF UpdateOps, ToldAsFound
<1> HIDE DEF start
<1>3. w \in Work
  BY <1>1, ResultOK
<1>4. w.table \in NameSets
  BY <1>3 DEF Work
<1>5. from \in Lists /\ ToSet(from) = held
  BY InOrderOK DEF FieldInd
<1>6. to \in Lists /\ ToSet(to) = w.table
  BY <1>4, InOrderOK
<1> HIDE DEF w, from, to
<1>7. Tells(Told(from, to), ToSet(to))
  BY <1>5, <1>6, OneEntryTells
<1> QED
  BY <1>2, <1>3, <1>6, <1>7, FinishInd

LEMMA ReplaceAndUpdateInd ==
  ASSUME FieldInd, NEW names \in NameLists, NEW ops \in Seq(Operations),
         ReplaceAndUpdate(names, ops)
  PROVE  FieldInd'
<1> DEFINE start == ListReplaced(names)
           w == Result(start, ops)
           from == InOrder(held)
           sent == Sent(names)
           found == InOrder(w.table)
           entries == Told(from, sent) \o Told(from, found)
<1>1. start \in Work
  BY ReplacedIs DEF FieldInd
<1>2. sent \in Lists /\ ToSet(sent) = ToSet(names) /\ ToldAsSent(names) = Told(from, sent)
  BY SentIs
<1>3. Finish(w, entries)
  BY <1>2 DEF ReplaceAndUpdate, ToldAsFound
<1>4. field = "labels" /\ ~w.again /\ w.table = held => ToSet(names) = held
  BY LabelsEndAsTheyWere DEF FieldInd
<1> HIDE DEF start
<1>5. w \in Work
  BY <1>1, ResultOK
<1>6. w.table \in NameSets
  BY <1>5 DEF Work
<1>7. from \in Lists /\ ToSet(from) = held
  BY InOrderOK DEF FieldInd
<1>8. found \in Lists /\ ToSet(found) = w.table
  BY <1>6, InOrderOK
<1> HIDE DEF w, from, sent, found
<1>9. field = "labels" /\ ~w.again => Tells(entries, w.table)
  <2> SUFFICES ASSUME field = "labels", ~w.again PROVE Tells(entries, w.table)
    OBVIOUS
  <2>1. from = found => ToSet(sent) = ToSet(found)
    BY <1>2, <1>4, <1>7, <1>8
  <2> QED
    BY <1>2, <1>7, <1>8, <2>1, TwoEntriesTell
<1> HIDE DEF entries
<1> QED
  BY <1>3, <1>5, <1>9, FinishInd

LEMMA OperationsOK ==
  ASSUME NEW ops \in OpLists
  PROVE  ops \in Seq(Operations)
<1>1. PICK m \in 0..MaxListed : ops \in [1..m -> Operations]
  BY DEF OpLists, SeqOf
<1> QED
  BY <1>1, FieldUpdatesAssumption

LEMMA FieldStep == FieldInd /\ [FieldNext]_fieldVars => FieldInd'
<1> SUFFICES ASSUME FieldInd, [FieldNext]_fieldVars
             PROVE  FieldInd'
  OBVIOUS
<1>1. CASE UNCHANGED fieldVars
  BY <1>1 DEF fieldVars, FieldInd, EntriesOK, LabelHistoryTellsTheLabels
<1>2. ASSUME NEW old \in NameSets, NEW list \in Seq(FieldValues),
             SetSilently(Flushed(Refilled(Loaded(old), list)))
      PROVE  FieldInd'
  <2> DEFINE r == Refilled(Loaded(old), list)
  <2>1. /\ r \in Work /\ r.loaded = old /\ r.seen = {} /\ r.gone = {}
        /\ r.dead = old /\ r.again = FALSE
        /\ InEffect(r) = ToSet(list) /\ (Breaking(r) <=> ~IsInjective(list))
        /\ Flushed(r) \in Work /\ Flushed(r).again = FALSE
        /\ Flushed(r).table = ToSet(list) /\ Flushed(r).failed = ~IsInjective(list)
    BY RefilledFromIs, Zenon
  <2> HIDE DEF r
  <2> QED
    BY <1>2, <2>1, SetSilentlyInd DEF r
<1>3. ASSUME NEW names \in NameLists, CreateWith(names)
      PROVE  FieldInd'
  <2>1. Listed(names) \in Seq(FieldValues) /\ {} \in NameSets
    BY ListedIs, NameSetsOK
  <2> QED
    BY <1>2, <1>3, <2>1 DEF CreateWith
<1>4. ASSUME NEW names \in NameLists, ImportList(names)
      PROVE  FieldInd'
  <2> DEFINE list == IF field = "components" THEN Listed(names) ELSE names
  <2>1. list \in Seq(FieldValues)
    BY ListedIs, ListsOK
  <2>2. SetSilently(Flushed(Refilled(Loaded(held), list)))
    BY <1>4 DEF ImportList
  <2> HIDE DEF list
  <2> QED
    BY <1>2, <2>1, <2>2 DEF FieldInd
<1>5. ASSUME NEW ops \in OpLists, UpdateOps(ops)
      PROVE  FieldInd'
  BY <1>5, OperationsOK, UpdateOpsInd
<1>6. ASSUME NEW ops \in OpLists, NEW names \in NameLists, ReplaceAndUpdate(names, ops)
      PROVE  FieldInd'
  BY <1>6, OperationsOK, ReplaceAndUpdateInd
<1> QED
  BY <1>1, <1>3, <1>4, <1>5, <1>6, ReplaceListInd DEF FieldNext

\* Operations on different names, or one list.
LEMMA OpsDo ==
  ASSUME FieldInd
  PROVE  OpsApplyInOrder
<1> SUFFICES ASSUME NEW ops \in OpLists, OnDistinctNames(ops)
             PROVE  LET v == Result(Loaded(held), ops)
                    IN  /\ ~v.again /\ (v.failed <=> \E i \in DOMAIN ops : Repeats(ops[i]))
                        /\ v.table = Sequential(ops)
  BY DEF OpsApplyInOrder
<1> DEFINE N == Len(ops)
           v == Result(Loaded(held), ops)
<1>1. ops \in Seq(Operations)
  BY OperationsOK
<1>2. N \in Nat /\ DOMAIN ops = 1..N /\ \A i \in 1..N : ops[i] \in Operations
  BY <1>1
<1>3. CASE N = 1 /\ ops[1].verb = "set"
  <2>1. v.table = Sequential(ops) /\ ~v.again /\ (v.failed <=> Repeats(ops[1]))
    BY <1>1, <1>3, ReplacementAlone DEF FieldInd
  <2>2. \A i : i \in 1..N <=> i = 1
    BY <1>3
  <2> QED
    BY <1>2, <2>1, <2>2
<1>4. CASE ~(N = 1 /\ ops[1].verb = "set")
  <2>1. \A i \in 1..N : ops[i].verb \in {"add", "remove"}
    <3> TAKE i \in 1..N
    <3>1. ops[i].verb # "set"
      <4>1. CASE N > 1
        BY <1>2, <4>1 DEF OnDistinctNames
      <4>2. CASE ~(N > 1)
        <5>1. N = 1 /\ i = 1
          BY <1>2, <4>2
        <5> QED
          BY <1>4, <5>1
      <4> QED
        BY <4>1, <4>2
    <3> QED
      BY <1>2, <3>1, OperationIs
  <2>2. ASSUME NEW i \in 1..N, NEW j \in 1..N, i # j
        PROVE  ops[i].name # ops[j].name
    <3>1. N > 1
      BY <1>2, <2>2
    <3> QED
      BY <1>2, <2>2, <3>1 DEF OnDistinctNames
  <2>3. v.table = Sequential(ops) /\ ~v.again /\ (v.failed <=> \E i \in 1..N : Repeats(ops[i]))
    BY <1>1, <2>1, <2>2, DistinctNames DEF FieldInd
  <2> QED
    BY <1>2, <2>3
<1> QED
  BY <1>3, <1>4

\* Operations on the same names, and operations after a list.
LEMMA LoadedRowsDo ==
  ASSUME FieldInd
  PROVE  LoadedRowsDecide
<1> SUFFICES ASSUME NEW ops \in OpLists, Plain(ops)
             PROVE  /\ LET w == Result(Loaded(held), ops)
                       IN  ~w.again =>
                             /\ ~w.failed => w.table = (held \ NamedBy(ops, "remove")) \cup Brought(ops)
                             /\ field # "fixVersions" => (w.failed <=> BroughtTwice({}, ops))
                    /\ \A names \in NameLists :
                         LET w == Result(ListReplaced(names), ops)
                         IN  ~w.again =>
                               /\ ~w.failed => w.table = ToSet(names) \cup Brought(ops)
                               /\ w.failed <=> \/ BroughtTwice(ToSet(names), ops)
                                              \/ ~IsInjective(Listed(names))
  BY DEF LoadedRowsDecide
<1> DEFINE N == Len(ops)
<1>1. held \in NameSets /\ ops \in Seq(Operations)
  BY OperationsOK DEF FieldInd
<1>2. /\ ops \in PlainOps
      /\ NamedBy(ops, "remove") = RemovedUpTo(ops, N) /\ Brought(ops) = BroughtUpTo(ops, N)
      /\ \A S : BroughtTwice(S, ops) <=>
                  BroughtUpTo(ops, N) \cap S # {} \/ (field # "components" /\ TwiceUpTo(ops, N))
  BY <1>1, UpToTheEnd
<1>3. LET v == Result(Loaded(held), ops)
      IN  ~v.again =>
            /\ ~v.failed => v.table = (held \ RemovedUpTo(ops, N)) \cup BroughtUpTo(ops, N)
            /\ field # "fixVersions" => (v.failed <=> field # "components" /\ TwiceUpTo(ops, N))
  BY <1>1, <1>2, OpsOnLoaded
<1>4. BroughtTwice({}, ops) <=> field # "components" /\ TwiceUpTo(ops, N)
  BY <1>2
<1>5. ASSUME NEW names \in NameLists
      PROVE  LET v == Result(ListReplaced(names), ops)
             IN  ~v.again =>
                   /\ v.table = ToSet(names) \cup BroughtUpTo(ops, N)
                   /\ v.failed <=> \/ BroughtUpTo(ops, N) \cap ToSet(names) # {}
                                   \/ field # "components" /\ TwiceUpTo(ops, N)
                                   \/ ~IsInjective(Listed(names))
  BY <1>1, <1>2, ListThenOps
<1> HIDE DEF N
<1> QED
  BY <1>2, <1>3, <1>4, <1>5

\* A request of any length does what its operations do one after the other when they
\* name different things, and otherwise what the loaded rows make of them; and the
\* history of the labels tells the requests from first to last.
THEOREM UpdatesAreDoneAndTold == FieldSpec => []UpdatesDoAndTell
<1>1. FieldInit => FieldInd
  BY NameSetsOK DEF FieldInit, FieldInd, EntriesOK, LabelHistoryTellsTheLabels
<1>2. FieldInd => UpdatesDoAndTell
  BY OpsDo, LoadedRowsDo DEF FieldInd, UpdatesDoAndTell
<1> QED
  BY <1>1, <1>2, FieldStep, PTL DEF FieldSpec
-----------------------------------------------------------------------------
(* A custom field whose type changes.                                      *)

Shapes == CustomValues \cup {NoValue}

\* What the columns can hold, and under which types.
CellsOK ==
  /\ mapped \in {"no", "string", "number", "json"}
  /\ ftype \in FieldTypes \cup {"none"}
  /\ cell \in [string : Shapes, number : Shapes, json : Shapes]
  /\ written.value \in Shapes
  /\ cell.string.kind \in {"text", "numeral", "null"}
  /\ cell.number.kind \in {"num", "null"}
  /\ mapped = "no" => cell.json.kind \in {"list", "null"}
  /\ ftype = "none" => cell = NoCell /\ written.value = NoValue

\* Whatever a column holds is of the last write.
ColumnsAreNew ==
  /\ cell.string = NoValue \/ cell.string.at = written.value.at
  /\ cell.number = NoValue \/ cell.number.at = written.value.at
  /\ cell.json = NoValue \/ cell.json.at = written.value.at

\* The last value, if it fits the type it was written under, lies where a field
\* of that type is read.
ValueIsThere ==
  (/\ Fits(written.value, written.type)
   /\ (written.how = "name" => written.type \in KindFits[mapped]))
  => /\ written.type = "number" => cell.number # NoValue
     /\ written.type = "string" => cell.string # NoValue
     /\ written.type \in {"select", "multiselect"} => cell.json # NoValue \/ cell.string # NoValue

CustomInd == CellsOK /\ ColumnsAreNew /\ ValueIsThere
-----------------------------------------------------------------------------
\* What a value is: a kind and the time it was written.
LEMMA ShapesAre ==
  /\ NoValue \in Shapes /\ NoValue.kind = "null" /\ NoValue.at = 0
  /\ \A v \in CustomValues : /\ v \in Shapes /\ v # NoValue /\ v.kind \in CustomKinds
                             /\ v.kind # "null" /\ v.at \in WriteTimes
  /\ \A v \in Shapes : v.kind = "null" => v = NoValue
  /\ \A v \in Shapes : v # NoValue => v \in CustomValues
  /\ \A v, w \in Shapes : v.kind = w.kind /\ v.at = w.at => v = w
<1>1. NoValue \in Shapes /\ NoValue.kind = "null" /\ NoValue.at = 0
  BY DEF NoValue, Shapes
<1>2. \A v \in CustomValues : v.kind \in CustomKinds /\ v.at \in WriteTimes /\ v = [kind |-> v.kind, at |-> v.at]
  BY DEF CustomValues
<1>3. \A v \in CustomValues : v.kind # "null" /\ v # NoValue /\ v \in Shapes
  BY <1>1, <1>2 DEF CustomKinds, Shapes
<1>4. \A v \in Shapes : v = [kind |-> v.kind, at |-> v.at]
  BY <1>2 DEF Shapes, NoValue
<1>5. \A v, w \in Shapes : v.kind = w.kind /\ v.at = w.at => v = w
  <2> TAKE v, w \in Shapes
  <2> HAVE v.kind = w.kind /\ v.at = w.at
  <2> QED
    BY <1>4
<1>6. \A v \in Shapes : (v.kind = "null" => v = NoValue) /\ (v # NoValue => v \in CustomValues)
  BY <1>3 DEF Shapes
<1> QED
  BY <1>1, <1>2, <1>3, <1>5, <1>6

\* A value of another kind.
LEMMA Rekinded ==
  ASSUME NEW v \in CustomValues, NEW k \in CustomKinds
  PROVE  /\ [v EXCEPT !.kind = k] \in CustomValues
         /\ [v EXCEPT !.kind = k].kind = k /\ [v EXCEPT !.kind = k].at = v.at
         /\ v.kind = k => [v EXCEPT !.kind = k] = v
<1>1. v.kind \in CustomKinds /\ v.at \in WriteTimes /\ v = [kind |-> v.kind, at |-> v.at]
  BY DEF CustomValues
<1>2. [v EXCEPT !.kind = k] = [kind |-> k, at |-> v.at]
  BY <1>1
<1> QED
  BY <1>1, <1>2 DEF CustomValues

LEMMA StringsAre ==
  ASSUME NEW v \in Shapes
  PROVE  /\ AsString(v) \in Shapes /\ AsString(v).kind \in {"text", "numeral", "null"}
         /\ v = NoValue => AsString(v) = NoValue
         /\ v # NoValue => AsString(v) # NoValue /\ AsString(v).at = v.at
         /\ v.kind \in {"text", "numeral", "null"} => AsString(v) = v
<1>1. CASE v = NoValue
  <2>1. AsString(v) = NoValue
    BY <1>1 DEF AsString, NoValue
  <2> QED
    BY <1>1, <2>1, ShapesAre
<1>2. CASE v \in CustomValues
  <2>1. v.kind \in CustomKinds /\ v.kind # "null" /\ v # NoValue
    BY <1>2, ShapesAre
  <2>2. CASE v.kind \in {"num", "numeral"}
    <3>1. AsString(v) = [v EXCEPT !.kind = "numeral"]
      BY <2>2 DEF AsString
    <3>2. "numeral" \in CustomKinds
      BY DEF CustomKinds
    <3>3. /\ AsString(v) \in CustomValues /\ AsString(v).kind = "numeral" /\ AsString(v).at = v.at
          /\ v.kind = "numeral" => AsString(v) = v
      BY <1>2, <3>1, <3>2, Rekinded
    <3> QED
      BY <2>1, <2>2, <3>3, ShapesAre
  <2>3. CASE v.kind \notin {"num", "numeral"}
    <3>1. AsString(v) = [v EXCEPT !.kind = "text"]
      BY <2>1, <2>3 DEF AsString
    <3>2. "text" \in CustomKinds
      BY DEF CustomKinds
    <3>3. /\ AsString(v) \in CustomValues /\ AsString(v).kind = "text" /\ AsString(v).at = v.at
          /\ v.kind = "text" => AsString(v) = v
      BY <1>2, <3>1, <3>2, Rekinded
    <3> QED
      BY <2>1, <2>3, <3>3, ShapesAre
  <2> QED
    BY <2>2, <2>3
<1> QED
  BY <1>1, <1>2 DEF Shapes

\* Of the three columns at most one is written, with the value.
LEMMA StoredIs ==
  ASSUME NEW v \in Shapes, NEW type \in FieldTypes, NEW old
  PROVE  LET c == StoredIn(old, type, v) IN
         /\ c \in [string : Shapes, number : Shapes, json : Shapes]
         /\ c.string.kind \in {"text", "numeral", "null"} /\ c.number.kind \in {"num", "null"}
         /\ c.json.kind \in {"list", "null"}
         /\ c.string = NoValue \/ c.string.at = v.at
         /\ c.number = NoValue \/ c.number.at = v.at
         /\ c.json = NoValue \/ c.json.at = v.at
         /\ Fits(v, type) => /\ type = "number" => c.number # NoValue
                             /\ type = "string" => c.string # NoValue
                             /\ type \in {"select", "multiselect"} => c.json # NoValue \/ c.string # NoValue
<1> DEFINE c == StoredIn(old, type, v)
<1>1. CASE type = "number" /\ IsFloat(v)
  <2> DEFINE n == [v EXCEPT !.kind = "num"]
  <2>1. v \in CustomValues
    BY <1>1 DEF Shapes, IsFloat, NoValue
  <2>2. "num" \in CustomKinds
    BY DEF CustomKinds
  <2>3. n \in CustomValues /\ n.kind = "num" /\ n.at = v.at
    BY <2>1, <2>2, Rekinded
  <2>4. c = [NoCell EXCEPT !.number = n]
    BY <1>1 DEF StoredIn, StoredOver
  <2> HIDE DEF n
  <2>5. c = [string |-> NoValue, number |-> n, json |-> NoValue]
    BY <2>4 DEF NoCell
  <2>6. c.string = NoValue /\ c.number = n /\ c.json = NoValue
    BY <2>5
  <2>7. c \in [string : Shapes, number : Shapes, json : Shapes]
    BY <2>3, <2>5, ShapesAre
  <2> QED
    BY <1>1, <2>3, <2>6, <2>7, ShapesAre
<1>2. CASE type \in {"select", "multiselect"} /\ v.kind = "list"
  <2>1. c = [NoCell EXCEPT !.json = v]
    BY <1>2 DEF StoredIn, StoredOver
  <2>2. c = [string |-> NoValue, number |-> NoValue, json |-> v]
    BY <2>1 DEF NoCell
  <2>3. c.string = NoValue /\ c.number = NoValue /\ c.json = v
    BY <2>2
  <2>4. c \in [string : Shapes, number : Shapes, json : Shapes]
    BY <2>2, ShapesAre
  <2> QED
    BY <1>2, <2>3, <2>4, ShapesAre DEF Fits
<1>3. CASE ~(type = "number" /\ IsFloat(v)) /\ ~(type \in {"select", "multiselect"} /\ v.kind = "list")
  <2>1. c = [NoCell EXCEPT !.string = AsString(v)]
    BY <1>3 DEF StoredIn, StoredOver
  <2>2. c = [string |-> AsString(v), number |-> NoValue, json |-> NoValue]
    BY <2>1 DEF NoCell
  <2>3. c.string = AsString(v) /\ c.number = NoValue /\ c.json = NoValue
    BY <2>2
  <2>4. c \in [string : Shapes, number : Shapes, json : Shapes]
    BY <2>2, ShapesAre, StringsAre
  <2>5. Fits(v, type) => type # "number" /\ v # NoValue
    BY <1>3 DEF Fits
  <2> QED
    BY <2>3, <2>4, <2>5, ShapesAre, StringsAre
<1> QED
  BY <1>1, <1>2, <1>3

LEMMA TypeAfterIs ==
  ASSUME NEW v, ftype \in FieldTypes \cup {"none"}
  PROVE  TypeAfter(v) \in FieldTypes /\ (ftype # "none" => TypeAfter(v) = ftype)
  BY DEF TypeAfter, Inferred, FieldTypes
-----------------------------------------------------------------------------
\* A value that is written as its field's type has it.
LEMMA StoredInd ==
  ASSUME CustomInd, NEW v \in Shapes, NEW old,
         ftype' \in FieldTypes, cell' = StoredIn(old, ftype', v), mapped' = mapped,
         written'.value = v, written'.type = ftype'
  PROVE  CustomInd'
<1>1. CellsOK'
  BY StoredIs DEF CustomInd, CellsOK, FieldTypes
<1>2. ColumnsAreNew'
  BY StoredIs DEF ColumnsAreNew
<1>3. Fits(v, ftype') => /\ ftype' = "number" => cell'.number # NoValue
                         /\ ftype' = "string" => cell'.string # NoValue
                         /\ ftype' \in {"select", "multiselect"} => cell'.json # NoValue \/ cell'.string # NoValue
  BY StoredIs
<1>4. ValueIsThere'
  BY <1>3 DEF ValueIsThere
<1> QED
  BY <1>1, <1>2, <1>4 DEF CustomInd

\* The row is dropped.
LEMMA ClearedInd ==
  ASSUME CustomInd, cell' = NoCell, ftype' = ftype, mapped' = mapped, written'.value = NoValue
  PROVE  CustomInd'
<1>1. /\ NoCell \in [string : Shapes, number : Shapes, json : Shapes]
      /\ NoCell.string = NoValue /\ NoCell.number = NoValue /\ NoCell.json = NoValue
  BY ShapesAre DEF NoCell
<1>2. CellsOK'
  BY <1>1, ShapesAre DEF CustomInd, CellsOK
<1>3. ColumnsAreNew'
  BY <1>1 DEF ColumnsAreNew
<1>4. ValueIsThere'
  BY DEF ValueIsThere, Fits
<1> QED
  BY <1>2, <1>3, <1>4 DEF CustomInd

LEMMA ImportByIdInd ==
  ASSUME CustomInd, NEW v \in Shapes, ImportById(v)
  PROVE  CustomInd'
<1>1. mapped' = mapped /\ written'.type = ftype'
  BY DEF ImportById
<1>2. CASE mapped # "no" \/ v = NoValue
  <2>1. cell' = NoCell /\ ftype' = ftype /\ written'.value = NoValue
    BY <1>2 DEF ImportById
  <2> QED
    BY <1>1, <2>1, ClearedInd
<1>3. CASE mapped = "no" /\ v # NoValue
  <2>1. ftype' = TypeAfter(v) /\ cell' = StoredIn(NoCell, ftype', v) /\ written'.value = v
    BY <1>3 DEF ImportById
  <2>2. ftype' \in FieldTypes
    BY <2>1, TypeAfterIs DEF CustomInd, CellsOK
  <2> QED
    BY <1>1, <2>1, <2>2, StoredInd
<1> QED
  BY <1>2, <1>3

LEMMA ImportByNameInd ==
  ASSUME CustomInd, NEW v \in Shapes, ImportByName(v)
  PROVE  CustomInd'
<1>1. /\ mapped # "no" /\ v \in CustomValues /\ mapped' = mapped
      /\ written'.value = v /\ written'.how = "name" /\ written'.type = ftype'
  BY ShapesAre DEF ImportByName
<1>2. mapped \in {"string", "number", "json"} /\ ftype' \in FieldTypes
  <2>1. mapped \in {"string", "number", "json"}
    BY <1>1 DEF CustomInd, CellsOK
  <2>2. MappedTypes[mapped] \in FieldTypes
    BY <2>1 DEF MappedTypes, FieldTypes
  <2> QED
    BY <2>1, <2>2 DEF ImportByName, CustomInd, CellsOK
<1>3. CASE mapped = "number" /\ IsFloat(v)
  <2> DEFINE n == [v EXCEPT !.kind = "num"]
  <2>1. "num" \in CustomKinds
    BY DEF CustomKinds
  <2>2. n \in CustomValues /\ n.kind = "num" /\ n.at = v.at
    BY <1>1, <2>1, Rekinded
  <2>3. cell' = [NoCell EXCEPT !.number = n]
    BY <1>3 DEF ImportByName
  <2> HIDE DEF n
  <2>4. cell' = [string |-> NoValue, number |-> n, json |-> NoValue]
    BY <2>3 DEF NoCell
  <2>5. cell'.string = NoValue /\ cell'.number = n /\ cell'.json = NoValue
        /\ cell' \in [string : Shapes, number : Shapes, json : Shapes]
    BY <2>2, <2>4, ShapesAre
  <2>6. CellsOK'
    BY <1>1, <1>2, <2>2, <2>5, ShapesAre DEF CellsOK, FieldTypes
  <2>7. ColumnsAreNew'
    BY <1>1, <2>2, <2>5 DEF ColumnsAreNew
  <2>8. ValueIsThere'
    BY <1>1, <1>3, <2>2, <2>5, ShapesAre DEF ValueIsThere, KindFits
  <2> QED
    BY <2>6, <2>7, <2>8 DEF CustomInd
<1>4. CASE mapped = "json"
  <2>1. cell' = [NoCell EXCEPT !.json = v]
    BY <1>4 DEF ImportByName
  <2>2. cell' = [string |-> NoValue, number |-> NoValue, json |-> v]
    BY <2>1 DEF NoCell
  <2>3. cell'.string = NoValue /\ cell'.number = NoValue /\ cell'.json = v
        /\ cell' \in [string : Shapes, number : Shapes, json : Shapes]
    BY <2>2, ShapesAre
  <2>4. CellsOK'
    BY <1>1, <1>2, <2>3, ShapesAre DEF CellsOK, FieldTypes
  <2>5. ColumnsAreNew'
    BY <1>1, <2>3 DEF ColumnsAreNew
  <2>6. ValueIsThere'
    BY <1>1, <1>4, <2>3, ShapesAre DEF ValueIsThere, KindFits
  <2> QED
    BY <2>4, <2>5, <2>6 DEF CustomInd
<1>5. CASE ~(mapped = "number" /\ IsFloat(v)) /\ mapped # "json"
  <2>1. cell' = [NoCell EXCEPT !.string = AsString(v)]
    BY <1>5 DEF ImportByName
  <2>2. cell' = [string |-> AsString(v), number |-> NoValue, json |-> NoValue]
    BY <2>1 DEF NoCell
  <2>3. cell'.string = AsString(v) /\ cell'.number = NoValue /\ cell'.json = NoValue
        /\ cell' \in [string : Shapes, number : Shapes, json : Shapes]
    BY <2>2, ShapesAre, StringsAre
  <2>4. CellsOK'
    BY <1>1, <1>2, <2>3, ShapesAre, StringsAre DEF CellsOK, FieldTypes
  <2>5. ColumnsAreNew'
    BY <1>1, <2>3, ShapesAre, StringsAre DEF ColumnsAreNew
  <2>6. ASSUME Fits(v, ftype'), ftype' \in KindFits[mapped] PROVE ftype' # "number"
    BY <1>2, <1>5, <2>6 DEF Fits, KindFits, FieldTypes
  <2>7. ValueIsThere'
    BY <1>1, <2>3, <2>6, ShapesAre, StringsAre DEF ValueIsThere
  <2> QED
    BY <2>4, <2>5, <2>7 DEF CustomInd
<1> QED
  BY <1>3, <1>4, <1>5

\* The type changes, and the value stays where it is.
LEMMA RetypeInd ==
  ASSUME CustomInd, NEW type \in FieldTypes, Retype(type)
  PROVE  CustomInd'
  BY DEF Retype, CustomInd, CellsOK, ColumnsAreNew, ValueIsThere, FieldTypes

LEMMA ReadingIs ==
  ASSUME CellsOK
  PROVE  /\ Reading \in Shapes
         /\ Reading \in {cell.string, cell.number, cell.json}
  BY DEF CellsOK, Reading

\* A listed type is read as it was.
LEMMA ListedIsRead == \A type \in FieldTypes : ReadAs(ListedAs(type)) = type
  BY DEF FieldTypes, ListedAs, ReadAs

LEMMA CustomStep == CustomInd /\ [CustomNext]_customVars => CustomInd'
<1> SUFFICES ASSUME CustomInd, [CustomNext]_customVars PROVE CustomInd'
  OBVIOUS
<1>1. CASE UNCHANGED customVars
  BY <1>1 DEF customVars, CustomInd, CellsOK, ColumnsAreNew, ValueIsThere
<1>2. ASSUME NEW v \in Shapes, WriteField(v) PROVE CustomInd'
  <2>1. /\ ftype' = TypeAfter(v) /\ cell' = StoredIn(cell, ftype', v) /\ mapped' = mapped
        /\ written'.value = v /\ written'.type = ftype'
    BY <1>2 DEF WriteField
  <2>2. ftype' \in FieldTypes
    BY <2>1, TypeAfterIs DEF CustomInd, CellsOK
  <2> QED
    BY <2>1, <2>2, StoredInd
<1>3. CASE Reimport
  BY <1>3, ReadingIs, ImportByIdInd DEF Reimport, CustomInd
<1>4. CASE Relist
  <2>1. ftype \in FieldTypes /\ ftype' = ftype /\ UNCHANGED <<mapped, cell, written>>
    BY <1>4, ListedIsRead DEF Relist, CustomInd, CellsOK
  <2> QED
    BY <2>1, RetypeInd DEF Retype
<1> QED
  BY <1>1, <1>2, <1>3, <1>4, ImportByIdInd, ImportByNameInd, RetypeInd DEF CustomNext, Shapes

\* What is exported comes back under the same type.
LEMMA ReimportShows ==
  ASSUME CustomInd, Reimport, mapped = "no"
  PROVE  Reading' = Reading
<1> DEFINE v == Reading
<1>1. v \in Shapes
  BY ReadingIs DEF CustomInd
<1>2. CASE v = NoValue
  <2>1. cell' = NoCell
    BY <1>2 DEF Reimport, ImportById
  <2>2. cell'.string = NoValue /\ cell'.number = NoValue /\ cell'.json = NoValue
    BY <2>1 DEF NoCell
  <2> QED
    BY <1>2, <2>2 DEF Reading
<1>3. CASE v # NoValue
  <2>1. ftype \in FieldTypes
    BY <1>3 DEF CustomInd, CellsOK, Reading, NoCell
  <2>2. ftype' = ftype /\ cell' = StoredIn(NoCell, ftype, v)
    <3>1. ftype' = TypeAfter(Reading) /\ cell' = StoredIn(NoCell, ftype', Reading)
      BY <1>3 DEF Reimport, ImportById
    <3> QED
      BY <2>1, <3>1 DEF TypeAfter, FieldTypes
  <2>3. CASE ftype = "number"
    <3>1. v = cell.number /\ v.kind = "num" /\ v \in CustomValues /\ "num" \in CustomKinds
      BY <1>1, <1>3, <2>3, ShapesAre DEF Reading, CustomInd, CellsOK, CustomKinds
    <3> HIDE DEF v
    <3>2. IsFloat(v) /\ [v EXCEPT !.kind = "num"] = v
      BY <3>1, Rekinded DEF IsFloat
    <3>3. cell' = [NoCell EXCEPT !.number = v]
      BY <2>2, <2>3, <3>2 DEF StoredIn, StoredOver
    <3>4. cell'.number = v
      BY <3>3 DEF NoCell
    <3>5. Reading' = cell'.number
      BY <2>2, <2>3 DEF Reading
    <3> QED
      BY <3>4, <3>5 DEF v
  <2>4. CASE ftype \in {"select", "multiselect"} /\ cell.json # NoValue
    <3>1. v = cell.json /\ v.kind = "list"
      BY <1>1, <1>3, <2>4, ShapesAre DEF Reading, CustomInd, CellsOK
    <3> HIDE DEF v
    <3>2. cell' = [NoCell EXCEPT !.json = v]
      BY <2>2, <2>4, <3>1 DEF StoredIn, StoredOver
    <3>3. cell'.json = v
      BY <3>2 DEF NoCell
    <3>4. Reading' = cell'.json
      BY <1>3, <2>2, <2>4, <3>3 DEF Reading
    <3> QED
      BY <3>3, <3>4 DEF v
  <2>5. CASE ftype = "string" \/ (ftype \in {"select", "multiselect"} /\ cell.json = NoValue)
    <3>1. v = cell.string /\ v.kind \in {"text", "numeral"}
      BY <1>1, <1>3, <2>5, ShapesAre DEF Reading, CustomInd, CellsOK
    <3> HIDE DEF v
    <3>2. cell' = [NoCell EXCEPT !.string = AsString(v)]
      BY <2>2, <2>5, <3>1 DEF StoredIn, StoredOver
    <3>3. AsString(v) = v
      BY <1>1, <3>1, StringsAre
    <3>4. cell' = [string |-> v, number |-> NoValue, json |-> NoValue]
      BY <3>2, <3>3 DEF NoCell
    <3>5. cell'.string = v /\ cell'.json = NoValue
      BY <3>4
    <3>6. Reading' = cell'.string
      BY <2>2, <2>5, <3>5 DEF Reading
    <3> QED
      BY <3>5, <3>6 DEF v
  <2> QED
    BY <2>1, <2>3, <2>4, <2>5 DEF FieldTypes
<1> QED
  BY <1>2, <1>3

\* Whatever happens to its type, a custom field shows the last value or
\* nothing, and the last one under the type it was written with; an export
\* carries what it shows.
THEOREM ValuesStayReadable == CustomSpec => ValuesOutliveTypes
<1>1. CustomInit => CustomInd
  <2> SUFFICES ASSUME CustomInit PROVE CustomInd
    OBVIOUS
  <2>1. /\ NoCell \in [string : Shapes, number : Shapes, json : Shapes]
        /\ NoCell.string = NoValue /\ NoCell.number = NoValue /\ NoCell.json = NoValue
    BY ShapesAre DEF NoCell
  <2> QED
    BY <2>1, ShapesAre DEF CustomInit, CustomInd, CellsOK, ColumnsAreNew, ValueIsThere, Fits
<1>2. CustomInd => NeverAnOldValue
  BY ReadingIs DEF CustomInd, ColumnsAreNew, NeverAnOldValue
<1>3. CustomInd => ReadsBack
  <2> SUFFICES ASSUME CustomInd, Fits(written.value, written.type), ftype = written.type,
                      written.how = "name" => written.type \in KindFits[mapped]
               PROVE  Reading # NoValue /\ Reading.at = written.value.at
    BY DEF ReadsBack
  <2>1. ftype \in FieldTypes
    BY DEF CustomInd, CellsOK, Fits
  <2>2. Reading # NoValue
    BY <2>1 DEF CustomInd, ValueIsThere, Reading, FieldTypes
  <2> QED
    BY <1>2, <2>2 DEF NeverAnOldValue
<1>4. ASSUME CustomInd, [CustomNext]_customVars
      PROVE  [ /\ Relist => Reading' = Reading
               /\ Reimport /\ mapped = "no" => Reading' = Reading ]_customVars
  <2>1. ASSUME Relist PROVE Reading' = Reading
    BY <1>4, <2>1, ListedIsRead DEF Relist, CustomInd, CellsOK, Reading
  <2> QED
    BY <1>4, <2>1, ReimportShows
<1> QED
  BY <1>1, <1>2, <1>3, <1>4, CustomStep, PTL DEF CustomSpec, ValuesOutliveTypes, ExportsAndReturns
-----------------------------------------------------------------------------
(* One import of a batch of issues.                                        *)

\* The issues that have had their turn.
Done == 1..next - 1

BatchTypeOK ==
  /\ batch \in Seq(Items) /\ next \in 0..Len(batch) + 1
  /\ usable \in BOOLEAN /\ keptProject \in BOOLEAN /\ workProject \in BOOLEAN /\ created \in BOOLEAN

\* What the parent of an issue is, of the rows that have had their turn: the one
\* of the last row that names one.
NamesLast(k, n) ==
  /\ n \in Done /\ batch[n].key = k /\ batch[n].parent # NoParent
  /\ \A m \in Done : m > n /\ batch[m].key = k => batch[m].parent = NoParent

ParentsAreLast ==
  /\ \A k \in DOMAIN parents : \E n \in Done : NamesLast(k, n) /\ parents[k] = batch[n].parent
  /\ \A n \in Done : batch[n].parent # NoParent => batch[n].key \in DOMAIN parents

\* Of an import whose session is usable: no row is lost or loses its parent
\* before the second pass, each issue of the batch has a row or an error, and
\* the project is named when it is new.
SessionOK ==
  /\ DOMAIN kept \subseteq DOMAIN work
  /\ \A k \in DOMAIN work : work[k] = IF k \in DOMAIN kept THEN kept[k] ELSE NoParent
  /\ \A n \in Done : batch[n].key \in DOMAIN work \cup errors
  /\ keptProject => workProject
  /\ created <=> workProject /\ ~keptProject
  /\ errors = {} => ParentsAreLast

ImportInd == BatchTypeOK /\ (next > 0 /\ usable => SessionOK)
-----------------------------------------------------------------------------
LEMMA BeginInd ==
  ASSUME ImportInd, NEW items \in BoundedSeq(Items, MaxItems), BeginImport(items)
  PROVE  ImportInd'
<1>1. items \in Seq(Items)
  <2>1. PICK n \in 0..MaxItems : items \in [1..n -> Items]
    BY DEF BoundedSeq, SeqOf
  <2> QED
    BY <2>1, BatchAssumption
<1>2. /\ batch' = items /\ next' = 1 /\ work' = kept /\ kept' = kept /\ errors' = {} /\ parents' = NoIssues
      /\ workProject' = keptProject /\ keptProject' = keptProject /\ created' = FALSE /\ usable' = TRUE
  BY DEF BeginImport
<1>3. BatchTypeOK'
  <2>1. Len(items) \in Nat
    BY <1>1
  <2> QED
    <3>1. next' \in 0..Len(batch') + 1
      BY <1>2, <2>1
    <3>2. keptProject \in BOOLEAN
      BY DEF ImportInd, BatchTypeOK
    <3> QED
      BY <1>1, <1>2, <3>1, <3>2, Zenon DEF BatchTypeOK
<1>4. Done' = {} /\ DOMAIN parents' = {}
  BY <1>2 DEF Done, NoIssues
<1>5. SessionOK'
  BY <1>2, <1>4 DEF SessionOK, ParentsAreLast, ImportInd, BatchTypeOK
<1> QED
  BY <1>3, <1>5 DEF ImportInd

\* The next issue names the parent of its own row and of no other.
LEMMA ParentsStayLast ==
  ASSUME ImportInd, next \in 1..Len(batch), ParentsAreLast, batch' = batch, next' = next + 1,
         parents' = IF Item.parent # NoParent THEN Put(parents, Item.key, Item.parent) ELSE parents
  PROVE  ParentsAreLast'
<1>1. /\ Done' = Done \cup {next} /\ next \notin Done /\ Done \subseteq Nat /\ next \in Nat
      /\ \A m \in Done : m < next
  BY DEF Done, ImportInd, BatchTypeOK
<1>2. CASE Item.parent = NoParent
  <2>1. parents' = parents
    BY <1>2
  <2>2. \A k, n : NamesLast(k, n) => NamesLast(k, n)'
    BY <1>1, <1>2 DEF NamesLast, Item
  <2> QED
    BY <1>1, <1>2, <2>1, <2>2 DEF ParentsAreLast, Item
<1>3. CASE Item.parent # NoParent
  <2>1. /\ DOMAIN parents' = DOMAIN parents \cup {Item.key}
        /\ parents'[Item.key] = Item.parent
        /\ \A k \in DOMAIN parents : k # Item.key => parents'[k] = parents[k]
    <3>1. parents' = Put(parents, Item.key, Item.parent)
      BY <1>3
    <3> QED
      BY <3>1 DEF Put
  <2>2. \A k, n : k = Item.key /\ n = next => NamesLast(k, n)'
    <3>1. /\ next \in Done' /\ \A m \in Done' : ~(m > next)
          /\ Item.key = batch'[next].key /\ batch'[next].parent # NoParent
      BY <1>1, <1>3 DEF Item
    <3> QED
      BY <3>1 DEF NamesLast
  <2>3. \A k, n : k # Item.key /\ NamesLast(k, n) => NamesLast(k, n)'
    BY <1>1 DEF NamesLast, Item
  <2>4. ASSUME NEW k \in DOMAIN parents'
        PROVE  \E n \in Done' : NamesLast(k, n)' /\ parents'[k] = batch'[n].parent
    <3>1. CASE k = Item.key
      <4>1. next \in Done' /\ Item = batch'[next] /\ Item.parent = batch'[next].parent
        BY <1>1 DEF Item
      <4> QED
        BY <2>1, <2>2, <3>1, <4>1
    <3>2. CASE k # Item.key
      BY <1>1, <2>1, <2>3, <3>2 DEF ParentsAreLast
    <3> QED
      BY <3>1, <3>2
  <2>5. ASSUME NEW n \in Done', batch'[n].parent # NoParent PROVE batch'[n].key \in DOMAIN parents'
    BY <1>1, <2>1, <2>5 DEF ParentsAreLast, Item
  <2> QED
    BY <2>4, <2>5 DEF ParentsAreLast
<1> QED
  BY <1>2, <1>3

LEMMA ImportIssueInd ==
  ASSUME ImportInd, ImportIssue
  PROVE  ImportInd'
<1>1. /\ next \in 1..Len(batch) /\ next' = next + 1 /\ batch' = batch
      /\ kept' = kept /\ keptProject' = keptProject
      /\ errors' = IF Fails THEN errors \cup {Item.key} ELSE errors
      /\ parents' = IF ~Fails /\ Item.parent # NoParent THEN Put(parents, Item.key, Item.parent) ELSE parents
      /\ created' = (created \/ (ReachesProject /\ ~workProject))
  BY DEF ImportIssue
<1>2. Done' = Done \cup {next}
  BY <1>1 DEF Done, ImportInd, BatchTypeOK
<1>3. CASE usable /\ Item.trouble = "constraint" /\ AfterConstraint
  <2>1. usable' = FALSE /\ workProject' = keptProject
    BY <1>3 DEF AfterConstraint
  <2>2. BatchTypeOK'
    <3>1. /\ next' \in 0..Len(batch') + 1 /\ created' \in BOOLEAN
      BY <1>1 DEF ImportInd, BatchTypeOK
    <3> QED
      BY <1>1, <2>1, <3>1 DEF ImportInd, BatchTypeOK
  <2> QED
    BY <2>1, <2>2 DEF ImportInd
<1>4. CASE ~usable /\ UNCHANGED <<work, workProject, usable>>
  <2>1. BatchTypeOK'
    BY <1>1, <1>4 DEF ImportInd, BatchTypeOK
  <2> QED
    BY <1>4, <2>1 DEF ImportInd
<1>5. CASE /\ usable /\ Item.trouble # "constraint"
           /\ workProject' = (workProject \/ ReachesProject)
           /\ work' = IF Item.trouble \in {"none", "halfway"} THEN WithRow ELSE work
           /\ UNCHANGED usable
  <2>1. BatchTypeOK'
    BY <1>1, <1>5 DEF ImportInd, BatchTypeOK
  <2>2. SessionOK
    BY <1>1, <1>5 DEF ImportInd, BatchTypeOK
  <2>3. Fails <=> Item.trouble # "none"
    BY <1>5 DEF Fails
  <2>4. /\ DOMAIN work \subseteq DOMAIN work'
        /\ ~Fails => Item.key \in DOMAIN work'
        /\ \A k \in DOMAIN work' : work'[k] = IF k \in DOMAIN kept THEN kept[k] ELSE NoParent
    <3>1. CASE work' = work /\ Item.trouble # "none"
      BY <3>1, <2>2, <2>3 DEF SessionOK
    <3>2. CASE work' = WithRow
      <4>1. CASE Item.key \in DOMAIN work
        BY <2>2, <3>2, <4>1 DEF SessionOK, WithRow
      <4>2. CASE Item.key \notin DOMAIN work
        <5>1. work' = Put(work, Item.key, NoParent)
          BY <3>2, <4>2 DEF WithRow
        <5>2. /\ DOMAIN work' = DOMAIN work \cup {Item.key} /\ work'[Item.key] = NoParent
              /\ \A k \in DOMAIN work : k # Item.key => work'[k] = work[k]
          BY <5>1 DEF Put
        <5> QED
          BY <2>2, <4>2, <5>2 DEF SessionOK
      <4> QED
        BY <4>1, <4>2
    <3> QED
      BY <1>5, <3>1, <3>2
  <2>5. \A n \in Done' : batch'[n].key \in DOMAIN work' \cup errors'
    BY <1>1, <1>2, <2>2, <2>4 DEF SessionOK, Item
  <2>6. (keptProject' => workProject') /\ (created' <=> workProject' /\ ~keptProject')
    BY <1>1, <1>5, <2>2 DEF SessionOK, ReachesProject
  <2>7. errors' = {} => ParentsAreLast'
    BY <1>1, <2>2, ParentsStayLast DEF SessionOK
  <2>8. SessionOK'
    BY <1>1, <2>2, <2>4, <2>5, <2>6, <2>7 DEF SessionOK
  <2> QED
    BY <2>1, <2>8 DEF ImportInd
<1> QED
  BY <1>3, <1>4, <1>5 DEF ImportIssue

LEMMA ImportStep == ImportInd /\ [ImportNext]_importVars => ImportInd'
<1> SUFFICES ASSUME ImportInd, [ImportNext]_importVars PROVE ImportInd'
  OBVIOUS
<1>1. CASE UNCHANGED importVars
  BY <1>1 DEF importVars, ImportInd, BatchTypeOK, SessionOK, ParentsAreLast, NamesLast, Done
<1>2. CASE FinishImport
  <2>1. batch' = <<>> /\ next' = 0 /\ usable' = TRUE /\ workProject' = keptProject' /\ created' = created
        /\ keptProject' \in {keptProject, workProject}
    BY <1>2 DEF FinishImport
  <2> QED
    BY <2>1 DEF ImportInd, BatchTypeOK
<1> QED
  BY <1>1, <1>2, BeginInd, ImportIssueInd DEF ImportNext

\* An import that answers with a result has finished every issue.
LEMMA FinishedIs ==
  ASSUME ImportInd, FinishImport, answer' = "result"
  PROVE  /\ usable /\ SessionOK /\ Done = 1..Len(batch) /\ batch \in Seq(Items)
         /\ kept' = Resolved /\ keptProject' = workProject /\ created' = created /\ errors' = errors
<1>1. usable
  BY DEF FinishImport
<1>2. next = Len(batch) + 1
  BY DEF FinishImport, ImportInd, BatchTypeOK
<1> QED
  BY <1>1, <1>2 DEF FinishImport, ImportInd, BatchTypeOK, Done

LEMMA NothingIsLost ==
  ASSUME ImportInd, FinishImport, answer' = "result"
  PROVE  /\ \A n \in 1..Len(batch) : batch[n].key \in DOMAIN kept' \cup errors'
         /\ created' = (keptProject' /\ ~keptProject)
<1>1. DOMAIN kept' = DOMAIN work
  BY FinishedIs DEF Resolved
<1> QED
  BY <1>1, FinishedIs DEF SessionOK, ImportInd, BatchTypeOK

LEMMA ParentsAreSet ==
  ASSUME ImportInd, FinishImport, answer' = "result", errors' = {}, NEW k \in DOMAIN kept'
  PROVE  LET Naming == {n \in 1..Len(batch) : batch[n].key = k /\ batch[n].parent # NoParent}
             LastNamed == batch[Max(Naming)].parent
         IN kept'[k] = IF Naming # {} /\ LastNamed \in DOMAIN kept' THEN LastNamed
                       ELSE IF k \in DOMAIN kept THEN kept[k] ELSE NoParent
<1> DEFINE Naming == {n \in 1..Len(batch) : batch[n].key = k /\ batch[n].parent # NoParent}
<1>1. /\ ParentsAreLast /\ Done = 1..Len(batch) /\ kept' = Resolved /\ DOMAIN kept' = DOMAIN work
      /\ \A j \in DOMAIN work : work[j] = IF j \in DOMAIN kept THEN kept[j] ELSE NoParent
      /\ Len(batch) \in Nat
  BY FinishedIs DEF SessionOK, Resolved
<1>2. kept'[k] = IF k \in DOMAIN parents /\ parents[k] \in DOMAIN work THEN parents[k] ELSE work[k]
  BY <1>1 DEF Resolved
<1>3. CASE k \in DOMAIN parents
  <2>1. PICK n \in Done : NamesLast(k, n) /\ parents[k] = batch[n].parent
    BY <1>1, <1>3 DEF ParentsAreLast
  <2>2. /\ n \in Naming /\ Naming \subseteq Nat
        /\ \A m \in Naming : n >= m
    BY <1>1, <2>1 DEF NamesLast
  <2>3. Max(Naming) = n
    <3> HIDE DEF Naming
    <3>1. /\ Max(Naming) \in Naming
          /\ \A m \in Naming : Max(Naming) >= m
      BY <2>2 DEF Max
    <3> QED
      <4>1. Max(Naming) \in Nat /\ n \in Nat /\ Max(Naming) >= n /\ n >= Max(Naming)
        BY <2>2, <3>1
      <4> QED
        BY <4>1
  <2> QED
    BY <1>1, <1>2, <1>3, <2>1, <2>2, <2>3
<1>4. CASE k \notin DOMAIN parents
  <2>1. Naming = {}
    BY <1>1, <1>4 DEF ParentsAreLast
  <2> QED
    BY <1>1, <1>2, <1>4, <2>1
<1> QED
  BY <1>3, <1>4

\* An import that answers with a result has kept or reported every issue, of any
\* batch, and one without errors has given each the last parent it names.
THEOREM ImportLosesNothing == ImportSpec => ImportAccountsForAll
<1>1. ImportInit => ImportInd
  <2> SUFFICES ASSUME ImportInit PROVE ImportInd
    OBVIOUS
  <2>1. /\ <<>> \in Seq(Items) /\ Len(<<>>) = 0
    OBVIOUS
  <2> QED
    <3>1. next \in 0..Len(batch) + 1 /\ ~(next > 0)
      BY <2>1 DEF ImportInit
    <3> QED
      BY <2>1, <3>1, Zenon DEF ImportInit, ImportInd, BatchTypeOK
<1>2. ImportInd /\ [ImportNext]_importVars =>
        [ FinishImport /\ answer' = "result"
          => /\ \A n \in 1..Len(batch) : batch[n].key \in DOMAIN kept' \cup errors'
             /\ created' = (keptProject' /\ ~keptProject) ]_importVars
  BY NothingIsLost
<1>3. ImportInd /\ [ImportNext]_importVars =>
        [ FinishImport /\ answer' = "result" /\ errors' = {}
          => LET Naming(k) == {n \in 1..Len(batch) : batch[n].key = k /\ batch[n].parent # NoParent}
                 LastNamed(k) == batch[Max(Naming(k))].parent
                 Before(k) == IF k \in DOMAIN kept THEN kept[k] ELSE NoParent
             IN \A k \in DOMAIN kept' :
                  kept'[k] = IF Naming(k) # {} /\ LastNamed(k) \in DOMAIN kept' THEN LastNamed(k)
                             ELSE Before(k) ]_importVars
  BY ParentsAreSet
<1> QED
  BY <1>1, <1>2, <1>3, ImportStep, PTL
  DEF ImportSpec, ImportAccountsForAll, KeptOrReported, ParentsFoundInAnyOrder
-----------------------------------------------------------------------------
(* Links that an import makes of what the issues showed.                   *)

Showings == [type : LinkTypes, under : {"inwardIssue", "outwardIssue"}, other : LinkedIssues]

LinkTypeOK ==
  /\ present \subseteq LinkedIssues /\ links \in [LinkRows -> Nat]
  /\ DOMAIN exported \subseteq LinkedIssues
  /\ \A i \in DOMAIN exported : exported[i] \subseteq Showings

\* During an import every issue of the file exists, and the links that have had
\* their turn are there, if both of their issues are.
MadeOrDeferred ==
  /\ deferred \subseteq InFile
  /\ deferred # {} =>
       /\ DOMAIN exported \subseteq present
       /\ \A e \in InFile : e \notin deferred /\ e[2].other \in present => links[Row(e[1], e[2])] > 0

LinkInd == LinkTypeOK /\ OneRowPerLink /\ MadeOrDeferred
-----------------------------------------------------------------------------
LEMMA InFileIs ==
  ASSUME LinkTypeOK
  PROVE  /\ \A e \in InFile : /\ e[1] \in DOMAIN exported /\ e[2] \in exported[e[1]]
                              /\ e = <<e[1], e[2]>> /\ e[1] \in LinkedIssues /\ e[2] \in Showings
         /\ \A i \in DOMAIN exported : \A s \in exported[i] : <<i, s>> \in InFile
<1>1. \A e \in InFile : \E i \in DOMAIN exported : \E s \in exported[i] : e = <<i, s>>
  BY DEF InFile
<1>2. \A i \in DOMAIN exported : \A s \in exported[i] : <<i, s>> \in InFile
  BY DEF InFile
<1> QED
  BY <1>1, <1>2 DEF LinkTypeOK

\* The row of what an issue shows: it is shown when the row is there.
LEMMA RowIs ==
  ASSUME NEW i \in LinkedIssues, NEW s \in Showings
  PROVE  /\ Row(i, s) \in LinkRows
         /\ {Row(i, s).inward, Row(i, s).outward} = {i, s.other}
         /\ \/ i = Row(i, s).outward
               /\ s = [type |-> Row(i, s).type, under |-> "inwardIssue", other |-> Row(i, s).inward]
            \/ i = Row(i, s).inward
               /\ s = [type |-> Row(i, s).type, under |-> "outwardIssue", other |-> Row(i, s).outward]
<1>1. /\ s.type \in LinkTypes /\ s.under \in {"inwardIssue", "outwardIssue"} /\ s.other \in LinkedIssues
      /\ s = [type |-> s.type, under |-> s.under, other |-> s.other]
  BY DEF Showings
<1>2. CASE s.under = "inwardIssue"
  <2> DEFINE r == [type |-> s.type, inward |-> s.other, outward |-> i]
  <2>1. Row(i, s) = r
    BY <1>2 DEF Row
  <2>2. r.type = s.type /\ r.inward = s.other /\ r.outward = i /\ r \in LinkRows
    BY <1>1 DEF LinkRows
  <2> HIDE DEF r
  <2>3. s = [type |-> r.type, under |-> "inwardIssue", other |-> r.inward]
    BY <1>1, <1>2, <2>2
  <2> QED
    BY <2>1, <2>2, <2>3
<1>3. CASE s.under = "outwardIssue"
  <2> DEFINE r == [type |-> s.type, inward |-> i, outward |-> s.other]
  <2>1. Row(i, s) = r
    BY <1>3 DEF Row
  <2>2. r.type = s.type /\ r.inward = i /\ r.outward = s.other /\ r \in LinkRows
    BY <1>1 DEF LinkRows
  <2> HIDE DEF r
  <2>3. s = [type |-> r.type, under |-> "outwardIssue", other |-> r.outward]
    BY <1>1, <1>3, <2>2
  <2> QED
    BY <2>1, <2>2, <2>3
<1> QED
  BY <1>1, <1>2, <1>3

LEMMA ShownWhenThere ==
  ASSUME NEW i \in LinkedIssues, NEW s \in Showings, links[Row(i, s)] > 0
  PROVE  s \in Shown(i)
<1> DEFINE r == Row(i, s)
<1>1. r \in LinkSet(links)
  BY RowIs DEF LinkSet
<1>2. \/ r.outward = i /\ s = [type |-> r.type, under |-> "inwardIssue", other |-> r.inward]
      \/ r.inward = i /\ s = [type |-> r.type, under |-> "outwardIssue", other |-> r.outward]
  BY RowIs
<1> HIDE DEF r
<1> QED
  BY <1>1, <1>2 DEF Shown

LEMMA ShownAre == LinkTypeOK => \A i \in LinkedIssues : Shown(i) \subseteq Showings
<1> SUFFICES ASSUME LinkTypeOK, NEW i \in LinkedIssues, NEW s \in Shown(i) PROVE s \in Showings
  OBVIOUS
<1>1. PICK l \in LinkRows : \/ s = [type |-> l.type, under |-> "inwardIssue", other |-> l.inward]
                            \/ s = [type |-> l.type, under |-> "outwardIssue", other |-> l.outward]
  BY DEF Shown, LinkSet
<1>2. l.type \in LinkTypes /\ l.inward \in LinkedIssues /\ l.outward \in LinkedIssues
  BY DEF LinkRows
<1> QED
  BY <1>1, <1>2 DEF Showings

\* A row that is added once, between issues that exist.
LEMMA JoinedIs ==
  ASSUME LinkTypeOK, OneRowPerLink, NEW l \in LinkRows, {l.inward, l.outward} \subseteq present
  PROVE  /\ Joined(links, l) \in [LinkRows -> Nat] /\ Joined(links, l)[l] > 0
         /\ \A k \in LinkRows : /\ k # l => Joined(links, l)[k] = links[k]
                                /\ Joined(links, l)[k] >= links[k]
                                /\ Joined(links, l)[k] <= 1
                                /\ Joined(links, l)[k] > 0 => {k.inward, k.outward} \subseteq present
<1>1. links \in [LinkRows -> Nat] /\ links[l] \in Nat /\ links[l] <= 1
  BY DEF LinkTypeOK, OneRowPerLink
<1>2. \A k \in LinkRows : links[k] \in Nat /\ links[k] <= 1 /\ (links[k] > 0 => {k.inward, k.outward} \subseteq present)
  BY DEF LinkTypeOK, OneRowPerLink
<1>3. CASE links[l] > 0
  BY <1>1, <1>2, <1>3 DEF Joined
<1>4. CASE ~(links[l] > 0)
  <2>1. links[l] = 0
    BY <1>1, <1>4
  <2>2. Joined(links, l) = [links EXCEPT ![l] = 1]
    BY <1>4, <2>1 DEF Joined
  <2>3. /\ Joined(links, l) \in [LinkRows -> Nat] /\ Joined(links, l)[l] = 1
        /\ \A k \in LinkRows : k # l => Joined(links, l)[k] = links[k]
    BY <1>1, <2>2
  <2>4. ASSUME NEW k \in LinkRows
        PROVE  /\ Joined(links, l)[k] >= links[k] /\ Joined(links, l)[k] <= 1
               /\ Joined(links, l)[k] > 0 => {k.inward, k.outward} \subseteq present
    <3>1. CASE k = l
      BY <2>1, <2>3, <3>1
    <3>2. CASE k # l
      BY <1>2, <2>3, <3>2
    <3> QED
      BY <3>1, <3>2
  <2> QED
    BY <2>3, <2>4
<1> QED
  BY <1>3, <1>4
-----------------------------------------------------------------------------
LEMMA CreateLinkInd ==
  ASSUME LinkInd, NEW l \in LinkRows, CreateLink(l)
  PROVE  LinkInd'
<1>1. /\ deferred = {} /\ {l.inward, l.outward} \subseteq present /\ links' = Joined(links, l)
      /\ UNCHANGED <<present, exported, deferred>>
  BY DEF CreateLink
<1>2. LinkTypeOK' /\ OneRowPerLink'
  BY <1>1, JoinedIs DEF LinkInd, LinkTypeOK, OneRowPerLink
<1> QED
  BY <1>1, <1>2 DEF LinkInd, MadeOrDeferred

LEMMA DeleteLinkInd ==
  ASSUME LinkInd, NEW l \in LinkRows, DeleteLink(l)
  PROVE  LinkInd'
<1>1. /\ deferred = {} /\ links[l] > 0 /\ links' = [links EXCEPT ![l] = @ - 1]
      /\ UNCHANGED <<present, exported, deferred>>
  BY DEF DeleteLink
<1>2. /\ links \in [LinkRows -> Nat] /\ links[l] \in Nat /\ links[l] - 1 \in Nat
      /\ \A k \in LinkRows : links[k] \in Nat
  BY <1>1 DEF LinkInd, LinkTypeOK
<1>3. links' \in [LinkRows -> Nat]
  BY <1>1, <1>2
<1>4. \A k \in LinkRows : links'[k] \in Nat /\ links'[k] <= links[k]
  BY <1>1, <1>2
<1>5. LinkTypeOK' /\ OneRowPerLink'
  BY <1>1, <1>2, <1>3, <1>4 DEF LinkInd, LinkTypeOK, OneRowPerLink
<1> QED
  BY <1>1, <1>5 DEF LinkInd, MadeOrDeferred

LEMMA DeleteLinkedIssueInd ==
  ASSUME LinkInd, NEW i \in present, DeleteLinkedIssue(i)
  PROVE  LinkInd'
<1>1. /\ deferred = {} /\ present' = present \ {i}
      /\ links' = [l \in LinkRows |-> IF i \in {l.inward, l.outward} THEN 0 ELSE links[l]]
      /\ UNCHANGED <<exported, deferred>>
  BY DEF DeleteLinkedIssue
<1>2. links' \in [LinkRows -> Nat]
  BY <1>1 DEF LinkInd, LinkTypeOK
<1>3. LinkTypeOK' /\ OneRowPerLink'
  BY <1>1, <1>2 DEF LinkInd, LinkTypeOK, OneRowPerLink
<1> QED
  BY <1>1, <1>3 DEF LinkInd, MadeOrDeferred

LEMMA ExportLinksInd ==
  ASSUME LinkInd, NEW S \in SUBSET present, ExportLinks(S)
  PROVE  LinkInd'
<1>1. /\ deferred = {} /\ exported' = [i \in S |-> Shown(i)]
      /\ UNCHANGED <<present, links, deferred>>
  BY DEF ExportLinks
<1>2. LinkTypeOK'
  BY <1>1, ShownAre DEF LinkInd, LinkTypeOK
<1> QED
  BY <1>1, <1>2 DEF LinkInd, OneRowPerLink, MadeOrDeferred

LEMMA ImportFileInd ==
  ASSUME LinkInd, ImportFile
  PROVE  LinkInd'
<1>1. /\ present' = present \cup DOMAIN exported /\ deferred' = InFile
      /\ UNCHANGED <<links, exported>>
  BY DEF ImportFile
<1>2. InFile' = InFile
  BY <1>1 DEF InFile
<1>3. LinkTypeOK' /\ OneRowPerLink'
  BY <1>1 DEF LinkInd, LinkTypeOK, OneRowPerLink
<1> QED
  BY <1>1, <1>2, <1>3 DEF LinkInd, MadeOrDeferred

\* What one step of an import does: the link is there if its issues are, and
\* every other link is as it was.
LEMMA ImportLinkIs ==
  ASSUME LinkInd, NEW e \in deferred, ImportLink(e[1], e[2])
  PROVE  /\ LinkTypeOK' /\ OneRowPerLink'
         /\ e[1] \in DOMAIN exported /\ e[2] \in exported[e[1]] /\ deferred' = deferred \ {e}
         /\ UNCHANGED <<present, exported>>
         /\ e[2].other \in present => links'[Row(e[1], e[2])] > 0
         /\ \A k \in LinkRows : links'[k] >= links[k] /\ (k # Row(e[1], e[2]) => links'[k] = links[k])
<1> DEFINE l == Row(e[1], e[2])
<1>1. /\ e \in InFile /\ e[1] \in DOMAIN exported /\ e[2] \in exported[e[1]] /\ e = <<e[1], e[2]>>
      /\ e[1] \in LinkedIssues /\ e[2] \in Showings /\ e[1] \in present
  BY InFileIs DEF LinkInd, MadeOrDeferred
<1>2. /\ links' = IF e[2].other \in present THEN Joined(links, l) ELSE links
      /\ deferred' = deferred \ {e} /\ UNCHANGED <<present, exported>>
  BY <1>1 DEF ImportLink
<1>3. l \in LinkRows /\ {l.inward, l.outward} = {e[1], e[2].other}
  BY <1>1, RowIs
<1> HIDE DEF l
<1>4. CASE e[2].other \in present
  <2>1. {l.inward, l.outward} \subseteq present /\ links' = Joined(links, l)
    BY <1>1, <1>2, <1>3, <1>4
  <2>2. LinkTypeOK' /\ OneRowPerLink'
    BY <1>2, <1>3, <2>1, JoinedIs DEF LinkInd, LinkTypeOK, OneRowPerLink
  <2>3. /\ links'[l] > 0
        /\ \A k \in LinkRows : links'[k] >= links[k] /\ (k # l => links'[k] = links[k])
    BY <1>3, <2>1, JoinedIs DEF LinkInd
  <2> QED
    BY <1>1, <1>2, <2>2, <2>3 DEF l
<1>5. CASE e[2].other \notin present
  <2>1. links' = links
    BY <1>2, <1>5
  <2>2. \A k \in LinkRows : links[k] >= links[k]
    BY DEF LinkInd, LinkTypeOK
  <2> QED
    BY <1>1, <1>2, <1>5, <2>1, <2>2 DEF LinkInd, LinkTypeOK, OneRowPerLink
<1> QED
  BY <1>4, <1>5

\* The links that have had their turn, one more among them.
LEMMA ImportLinkMade ==
  ASSUME LinkInd, NEW e \in deferred, ImportLink(e[1], e[2])
  PROVE  /\ MadeOrDeferred' /\ DOMAIN exported \subseteq present
         /\ \A d \in InFile : d \notin deferred' /\ d[2].other \in present => links'[Row(d[1], d[2])] > 0
<1>1. /\ LinkTypeOK /\ deferred \subseteq InFile /\ DOMAIN exported \subseteq present
      /\ \A d \in InFile : d \notin deferred /\ d[2].other \in present => links[Row(d[1], d[2])] > 0
  BY DEF LinkInd, MadeOrDeferred
<1>2. /\ deferred' = deferred \ {e} /\ UNCHANGED <<present, exported>>
      /\ e[2].other \in present => links'[Row(e[1], e[2])] > 0
      /\ \A k \in LinkRows : links'[k] >= links[k]
      /\ links \in [LinkRows -> Nat] /\ links' \in [LinkRows -> Nat]
  BY ImportLinkIs DEF LinkInd, LinkTypeOK
<1>3. ASSUME NEW d \in InFile, d \notin deferred', d[2].other \in present
      PROVE  links'[Row(d[1], d[2])] > 0
  <2>1. CASE d = e
    BY <1>2, <1>3, <2>1
  <2>2. CASE d # e
    <3>1. links[Row(d[1], d[2])] > 0
      BY <1>1, <1>2, <1>3, <2>2
    <3>2. Row(d[1], d[2]) \in LinkRows
      BY <1>1, InFileIs, RowIs
    <3>3. /\ links'[Row(d[1], d[2])] >= links[Row(d[1], d[2])]
          /\ links[Row(d[1], d[2])] \in Nat /\ links'[Row(d[1], d[2])] \in Nat
      BY <1>2, <3>2
    <3> QED
      BY <3>1, <3>3
  <2> QED
    BY <2>1, <2>2
<1>4. InFile' = InFile
  BY <1>2 DEF InFile
<1>5. MadeOrDeferred'
  BY <1>1, <1>2, <1>3, <1>4 DEF MadeOrDeferred, Row
<1> QED
  BY <1>1, <1>3, <1>5

LEMMA LinkStep == LinkInd /\ [LinkNext]_linkVars => LinkInd'
<1> SUFFICES ASSUME LinkInd, [LinkNext]_linkVars PROVE LinkInd'
  OBVIOUS
<1>1. CASE UNCHANGED linkVars
  BY <1>1 DEF linkVars, LinkInd, LinkTypeOK, OneRowPerLink, MadeOrDeferred, InFile, Row
<1>2. ASSUME NEW e \in deferred, ImportLink(e[1], e[2]) PROVE LinkInd'
  BY <1>2, ImportLinkIs, ImportLinkMade DEF LinkInd
<1> QED
  BY <1>1, <1>2, CreateLinkInd, DeleteLinkInd, DeleteLinkedIssueInd, ExportLinksInd, ImportFileInd
  DEF LinkNext

\* What an import makes of the links that the issues of its file showed.
LinksBack ==
  deferred # {} =>
    /\ deferred' = {} => \A i \in DOMAIN exported : \A s \in exported[i] :
                           s.other \in present' => s \in Shown(i)'
    /\ LinkSet(links) \subseteq LinkSet(links')
    /\ \A l \in LinkSet(links') \ LinkSet(links) :
         \E i \in DOMAIN exported : \E s \in exported[i] :
           \/ i = l.outward /\ s = [type |-> l.type, under |-> "inwardIssue", other |-> l.inward]
           \/ i = l.inward /\ s = [type |-> l.type, under |-> "outwardIssue", other |-> l.outward]

MadeAreShown ==
  \A i \in LinkedIssues : \A s \in Showings : links[Row(i, s)] > 0 => s \in Shown(i)

LEMMA ShownInTheEnd == MadeAreShown
  BY ShownWhenThere DEF MadeAreShown

LEMMA ImportLinkBrings ==
  ASSUME LinkInd, NEW e \in deferred, ImportLink(e[1], e[2])
  PROVE  LinksBack
<1>1. /\ LinkTypeOK' /\ e[1] \in DOMAIN exported /\ e[2] \in exported[e[1]]
      /\ UNCHANGED <<present, exported>>
      /\ \A k \in LinkRows : links'[k] >= links[k] /\ (k # Row(e[1], e[2]) => links'[k] = links[k])
      /\ \A k \in LinkRows : links[k] \in Nat /\ links'[k] \in Nat
  BY ImportLinkIs DEF LinkInd, LinkTypeOK
<1>2. e[1] \in LinkedIssues /\ e[2] \in Showings
  BY <1>1 DEF LinkInd, LinkTypeOK
<1>3. LinkSet(links) \subseteq LinkSet(links')
  BY <1>1 DEF LinkSet
<1>4. ASSUME NEW l \in LinkSet(links') \ LinkSet(links)
      PROVE  \/ e[1] = l.outward /\ e[2] = [type |-> l.type, under |-> "inwardIssue", other |-> l.inward]
             \/ e[1] = l.inward /\ e[2] = [type |-> l.type, under |-> "outwardIssue", other |-> l.outward]
  <2>1. l = Row(e[1], e[2])
    BY <1>1 DEF LinkSet
  <2> QED
    BY <1>2, <2>1, RowIs
<1>5. ASSUME deferred' = {}, NEW i \in DOMAIN exported, NEW s \in exported[i], s.other \in present'
      PROVE  s \in Shown(i)'
  <2>1. <<i, s>> \in InFile /\ i \in LinkedIssues /\ s \in Showings
    BY InFileIs DEF LinkInd, LinkTypeOK
  <2>2. links'[Row(i, s)] > 0
    <3>1. \A d \in InFile : d \notin deferred' /\ d[2].other \in present => links'[Row(d[1], d[2])] > 0
      BY ImportLinkMade
    <3>2. <<i, s>>[1] = i /\ <<i, s>>[2] = s
      OBVIOUS
    <3> QED
      BY <1>1, <1>5, <2>1, <3>1, <3>2
  <2>3. MadeAreShown'
    BY ShownInTheEnd, PTL
  <2> QED
    BY <2>1, <2>2, <2>3 DEF MadeAreShown, Row
<1> QED
  BY <1>1, <1>3, <1>4, <1>5 DEF LinksBack

\* However often files are imported, a link has one row between two issues that
\* exist, and no import loses or turns round a link.
THEOREM LinksComeBack == LinkSpec => LinksSurviveImports
<1>1. LinkInit => LinkInd
  <2> SUFFICES ASSUME LinkInit PROVE LinkInd
    OBVIOUS
  <2>1. /\ present = LinkedIssues /\ links = [l \in LinkRows |-> 0] /\ deferred = {}
        /\ DOMAIN exported = {}
    BY DEF LinkInit
  <2> QED
    BY <2>1 DEF LinkInd, LinkTypeOK, OneRowPerLink, MadeOrDeferred
<1>2. LinkInd => OneRowPerLink
  BY DEF LinkInd
<1>3. LinkInd /\ [LinkNext]_linkVars => [LinksBack]_linkVars
  <2> SUFFICES ASSUME LinkInd, LinkNext, deferred # {} PROVE LinksBack
    BY DEF LinksBack
  <2>1. PICK e \in deferred : ImportLink(e[1], e[2])
    BY DEF LinkNext, CreateLink, DeleteLink, DeleteLinkedIssue, ExportLinks, ImportFile
  <2> QED
    BY <2>1, ImportLinkBrings
<1> QED
  BY <1>1, <1>2, <1>3, LinkStep, PTL DEF LinkSpec, LinksSurviveImports, ImportBringsLinksBack, LinksBack
-----------------------------------------------------------------------------
(* A configuration that is imported, once and twice.                       *)

\* The statuses are as the file has them, the workflow is the file's, and the
\* project has what the file gives it.
AsImported(c) ==
  /\ \A s \in DOMAIN c.statuses : s \in DOMAIN statuses /\ statuses[s] = c.statuses[s]
  /\ transitions = Rebuilt(c)
  /\ c.project => offered # 0
  /\ c.project /\ ~Breaks(c) => follows = "imported"

ConfigInd ==
  /\ statuses = [s \in DOMAIN statuses |-> statuses[s]]
  /\ previous # NoConfig => previous \in Configs /\ AsImported(previous)

LEMMA ImportConfigInd ==
  ASSUME ConfigInd, NEW c \in Configs, ImportConfig(c)
  PROVE  ConfigInd'
<1>1. /\ statuses' = StatusesAfter(c) /\ transitions' = Rebuilt(c) /\ offered' = Offered(c)
      /\ follows' = IF c.project /\ ~Breaks(c) THEN "imported" ELSE follows
      /\ previous' = c
  BY DEF ImportConfig
<1>2. /\ DOMAIN statuses' = DOMAIN statuses \cup DOMAIN c.statuses
      /\ \A s \in DOMAIN c.statuses : statuses'[s] = c.statuses[s]
      /\ statuses' = [s \in DOMAIN statuses' |-> statuses'[s]]
  BY <1>1 DEF StatusesAfter
<1>3. c.project => offered' # 0
  BY <1>1 DEF Offered
<1>4. AsImported(c)'
  BY <1>1, <1>2, <1>3 DEF AsImported, Rebuilt, Breaks
<1> QED
  BY <1>1, <1>2, <1>4 DEF ConfigInd, AsImported

LEMMA ConfigStep == ConfigInd /\ [ConfigNext]_configVars => ConfigInd'
<1> SUFFICES ASSUME ConfigInd, [ConfigNext]_configVars PROVE ConfigInd'
  OBVIOUS
<1>1. CASE UNCHANGED configVars
  BY <1>1 DEF configVars, ConfigInd, AsImported
<1>2. ASSUME NEW s, NEW category, ImportStatus(s, category) PROVE ConfigInd'
  <2>1. /\ statuses' = [t \in DOMAIN statuses \cup {s} |-> IF t = s THEN category ELSE statuses[t]]
        /\ previous' = NoConfig
    BY <1>2 DEF ImportStatus
  <2>2. statuses' = [t \in DOMAIN statuses' |-> statuses'[t]]
    BY <2>1
  <2> QED
    BY <2>1, <2>2 DEF ConfigInd
<1> QED
  BY <1>1, <1>2, ImportConfigInd DEF ConfigNext

\* Every place of a workflow has an entry, because no place has two.
LEMMA PlacesAreTaken ==
  ASSUME NEW c \in Configs
  PROVE  LET N == Len(c.entries)
             o == Ordered(c)
         IN  /\ N \in Nat /\ DOMAIN c.entries = 1..N /\ DOMAIN o = 1..N
             /\ \A n \in 1..N : \E e \in ToSet(c.entries) :
                  e = (CHOOSE x \in ToSet(c.entries) : x.place = n) /\ o[n] = e.status
<1> DEFINE o == c.entries
           N == Len(o)
<1>1. PICK m \in 0..MaxStatuses :
        o \in [1..m -> [status : StatusNames \cup {NoStatus}, place : 1..m]]
  BY DEF Configs, Orders
<1>2. m \in Nat /\ N = m /\ DOMAIN o = 1..m
  BY <1>1, ConfigAssumption
<1> DEFINE p == [n \in 1..m |-> o[n].place]
<1>3. IsInjective(p)
  BY <1>2 DEF Configs
<1>4. p \in Injection(1..m, 1..m)
  BY <1>1, <1>3 DEF Injection
<1>5. IsFiniteSet(1..m) /\ Cardinality(1..m) = Cardinality(1..m)
  BY <1>2, FS_Interval
<1> HIDE DEF p
<1>6. p \in Surjection(1..m, 1..m)
  BY <1>4, <1>5, FS_Injection
<1>7. ASSUME NEW n \in 1..m
      PROVE  \E x \in ToSet(o) : x.place = n
  <2>1. PICK k \in 1..m : p[k] = n
    BY <1>6 DEF Surjection
  <2>2. o[k] \in ToSet(o) /\ o[k].place = n
    BY <1>2, <2>1 DEF ToSet, p
  <2> QED
    BY <2>2
<1>8. ASSUME NEW n \in 1..m
      PROVE  \E e \in ToSet(o) : e = (CHOOSE x \in ToSet(o) : x.place = n) /\ Ordered(c)[n] = e.status
  <2> DEFINE e == CHOOSE x \in ToSet(o) : x.place = n
  <2>1. e \in ToSet(o)
    BY <1>7
  <2>2. Ordered(c)[n] = e.status
    BY <1>2 DEF Ordered
  <2> QED
    BY <2>1, <2>2
<1>9. DOMAIN Ordered(c) = 1..m
  BY <1>2 DEF Ordered
<1> QED
  BY <1>2, <1>8, <1>9

\* The transitions of a workflow of known statuses.
LEMMA RebuiltIs ==
  ASSUME NEW c \in Configs, \A e \in ToSet(c.entries) : Known(c, e.status)
  PROVE  LET N == Len(c.entries)
             o == Ordered(c)
         IN  /\ N \in Nat /\ \A n \in 1..N : o[n] \in StatusNames
             /\ N = 0 => DOMAIN Rebuilt(c) = {}
             /\ \A n \in 2..N : <<o[n - 1], o[n]>> \in DOMAIN Rebuilt(c)
             /\ N > 0 /\ c.statuses[o[N]] = "done" => <<Anywhere, o[N]>> \in DOMAIN Rebuilt(c)
             /\ \A step \in DOMAIN Rebuilt(c) :
                  Rebuilt(c)[step] <= Cardinality({n \in 2..N : step = <<o[n - 1], o[n]>>})
                                      + (IF step = <<Anywhere, o[N]>> THEN 1 ELSE 0)
<1> DEFINE N == Len(c.entries)
           o == Ordered(c)
           Pair(n) == <<o[n - 1], o[n]>>
           Places(step) == {n \in 2..N : step = Pair(n)}
           closing == <<Anywhere, o[N]>>
<1>1. N \in Nat /\ DOMAIN c.entries = 1..N /\ DOMAIN o = 1..N
  BY PlacesAreTaken
<1>2. \A n \in 1..N : \E e \in ToSet(c.entries) : o[n] = e.status
  BY PlacesAreTaken
<1>3. \A n \in 1..N : Known(c, o[n])
  BY <1>2
<1>4. \A n \in 1..N : o[n] \in StatusNames /\ o[n] # NoStatus
  <2>1. DOMAIN c.statuses \subseteq StatusNames
    BY DEF Configs
  <2> QED
    BY <1>3, <2>1, ConfigAssumption DEF Known
<1>5. ~Breaks(c) /\ Reached(c) = N
  BY <1>1, <1>4 DEF Breaks, Reached
<1> DEFINE steps == {n \in 2..Reached(c) : Known(c, o[n - 1]) /\ Known(c, o[n])}
<1>6. steps = 2..N
  <2>1. \A n \in 2..N : n \in 1..N /\ n - 1 \in 1..N
    BY <1>1
  <2> HIDE DEF o, N
  <2> QED
    BY <1>3, <1>5, <2>1
<1>7. Chain(c) = [t \in {Pair(n) : n \in steps} |-> Cardinality({n \in steps : Pair(n) = t})]
  BY DEF Chain
<1> HIDE DEF steps
<1>8. /\ DOMAIN Chain(c) = {Pair(n) : n \in 2..N}
      /\ \A t \in DOMAIN Chain(c) : Chain(c)[t] = Cardinality(Places(t))
  <2>1. Chain(c) = [t \in {Pair(n) : n \in 2..N} |-> Cardinality({n \in 2..N : Pair(n) = t})]
    BY <1>6, <1>7
  <2>2. \A t : {n \in 2..N : Pair(n) = t} = Places(t)
    OBVIOUS
  <2> HIDE DEF Pair, Places
  <2> QED
    BY <2>1, <2>2
<1>9. /\ N > 0 /\ c.statuses[o[N]] = "done" => Close(c) = [t \in {closing} |-> 1]
      /\ ~(N > 0 /\ c.statuses[o[N]] = "done") => DOMAIN Close(c) = {}
      /\ DOMAIN Close(c) \subseteq {closing} /\ \A t \in DOMAIN Close(c) : Close(c)[t] = 1
  <2>1. EmptyBag = [t \in {} |-> 1] /\ \A x : SetToBag({x}) = [t \in {x} |-> 1]
    BY DEF EmptyBag, SetToBag
  <2>2. c.entries # <<>> <=> N > 0
    BY <1>1
  <2>3. N > 0 => Known(c, o[N])
    BY <1>1, <1>3
  <2> QED
    BY <1>5, <2>1, <2>2, <2>3 DEF Close
<1>10. \A t : Cardinality(Places(t)) \in Nat
  <2> TAKE t
  <2>1. IsFiniteSet(2..N)
    BY <1>1, FS_Interval
  <2>2. IsFiniteSet(Places(t))
    BY <2>1, FS_Subset
  <2> QED
    BY <2>2, FS_CardinalityType
<1> DEFINE r == Rebuilt(c)
           A == Chain(c)
           B == Close(c)
<1>11. r = [t \in DOMAIN A \cup DOMAIN B |-> (IF t \in DOMAIN A THEN A[t] ELSE 0)
                                            + (IF t \in DOMAIN B THEN B[t] ELSE 0)]
  BY DEF Rebuilt, (+)
<1>12. \A t \in DOMAIN r : r[t] <= Cardinality(Places(t)) + (IF t = closing THEN 1 ELSE 0)
  <2> TAKE t \in DOMAIN r
  <2> DEFINE x == IF t \in DOMAIN A THEN A[t] ELSE 0
             y == IF t \in DOMAIN B THEN B[t] ELSE 0
             k == Cardinality(Places(t))
  <2>1. r[t] = x + y
    BY <1>11
  <2>2. k \in Nat /\ (x = k \/ x = 0)
    BY <1>8, <1>10
  <2>3. (y = 1 /\ t = closing) \/ y = 0
    BY <1>9
  <2> HIDE DEF r, x, y, k, closing
  <2> QED
    BY <2>1, <2>2, <2>3 DEF k
<1>13. \A n \in 2..N : Pair(n) \in DOMAIN r
  BY <1>8, <1>11
<1>14. N > 0 /\ c.statuses[o[N]] = "done" => closing \in DOMAIN r
  BY <1>9, <1>11
<1>15. N = 0 => DOMAIN r = {}
  <2>1. 2..0 = {}
    OBVIOUS
  <2> SUFFICES ASSUME N = 0 PROVE DOMAIN r = {}
    OBVIOUS
  <2>2. DOMAIN A = {}
    BY <1>8, <2>1
  <2>3. DOMAIN B = {}
    BY <1>9
  <2> QED
    BY <1>11, <2>2, <2>3
<1> QED
  BY <1>1, <1>4, <1>12, <1>13, <1>14, <1>15

\* Each status leads to the next, and so to all that come later.
LEMMA StepsLead ==
  ASSUME NEW N \in Nat, NEW o, \A n \in 1..N : o[n] \in StatusNames,
         \A n \in 2..N : <<o[n - 1], o[n]>> \in DOMAIN transitions
  PROVE  \A m \in 1..N : \A n \in m..N : Leads(o[m], o[n])
<1> TAKE m \in 1..N
<1> SUFFICES ASSUME NEW region \in SUBSET StatusNames, o[m] \in region,
                    \A step \in DOMAIN transitions : step[1] \in region => step[2] \in region
             PROVE  \A n \in m..N : o[n] \in region
  BY DEF Leads
<1> DEFINE G == {k \in 0..(N - m) : o[m + k] \in region}
<1>1. N - m \in Nat /\ m \in Nat
  OBVIOUS
<1>2. 0 \in G
  BY <1>1
<1>3. ASSUME NEW k \in 1..(N - m), k - 1 \in G
      PROVE  k \in G
  <2>1. m + k \in 2..N /\ (m + k) - 1 = m + (k - 1)
    BY <1>1
  <2>2. o[(m + k) - 1] \in region
    BY <1>3, <2>1
  <2> DEFINE step == <<o[(m + k) - 1], o[m + k]>>
  <2>3. step \in DOMAIN transitions /\ step[1] = o[(m + k) - 1] /\ step[2] = o[m + k]
    BY <2>1
  <2> HIDE DEF step
  <2>4. o[m + k] \in region
    BY <2>2, <2>3
  <2> QED
    BY <1>1, <2>4
<1> HIDE DEF G
<1>4. \A k \in 0..(N - m) : k \in G
  BY <1>1, <1>2, <1>3, StepByStep
<1> TAKE n \in m..N
<1>5. n - m \in 0..(N - m) /\ m + (n - m) = n
  BY <1>1
<1>6. n - m \in G
  BY <1>4, <1>5
<1> QED
  BY <1>5, <1>6 DEF G

LEMMA WorkflowLeads ==
  ASSUME previous \in Configs, transitions = Rebuilt(previous)
  PROVE  WorkflowLeadsToItsEnd
<1> SUFFICES ASSUME \A e \in ToSet(previous.entries) : Known(previous, e.status)
             PROVE  WorkflowLeadsToItsEnd
  BY DEF WorkflowLeadsToItsEnd
<1> DEFINE N == Len(previous.entries)
           o == Ordered(previous)
           StatusAt(n) == (CHOOSE e \in ToSet(previous.entries) : e.place = n).status
<1>1. /\ N \in Nat /\ \A n \in 1..N : o[n] \in StatusNames
      /\ \A n \in 2..N : <<o[n - 1], o[n]>> \in DOMAIN transitions
      /\ N > 0 /\ previous.statuses[o[N]] = "done" => <<Anywhere, o[N]>> \in DOMAIN transitions
      /\ \A step \in DOMAIN transitions :
           transitions[step] <= Cardinality({n \in 2..N : step = <<o[n - 1], o[n]>>})
                                + (IF step = <<Anywhere, o[N]>> THEN 1 ELSE 0)
  BY RebuiltIs
<1>2. \A n \in 1..N : o[n] = StatusAt(n)
  <2> TAKE n \in 1..N
  <2>1. \E e \in ToSet(previous.entries) :
          e = (CHOOSE x \in ToSet(previous.entries) : x.place = n) /\ o[n] = e.status
    BY PlacesAreTaken
  <2> QED
    BY <2>1
<1>3. N = 0 => DOMAIN transitions = {}
  BY RebuiltIs
<1> HIDE DEF N, o, StatusAt
<1>4. \A m \in 1..N : \A n \in m..N : Leads(StatusAt(m), StatusAt(n))
  <2>1. \A m \in 1..N : \A n \in m..N : Leads(o[m], o[n])
    BY <1>1, StepsLead
  <2>2. \A m \in 1..N : \A n \in m..N : n \in 1..N
    BY <1>1
  <2> QED
    BY <1>2, <2>1, <2>2
<1>5. N > 0 => N \in 1..N /\ o[N] = StatusAt(N)
  BY <1>1, <1>2
<1>6. ASSUME NEW step \in DOMAIN transitions
      PROVE  transitions[step] <= Cardinality({n \in 2..N : step = <<StatusAt(n - 1), StatusAt(n)>>})
                                  + (IF step = <<Anywhere, StatusAt(N)>> THEN 1 ELSE 0)
  <2>1. N > 0
    BY <1>1, <1>3
  <2>2. \A n \in 2..N : <<o[n - 1], o[n]>> = <<StatusAt(n - 1), StatusAt(n)>>
    <3>1. \A n \in 2..N : n - 1 \in 1..N /\ n \in 1..N
      BY <1>1
    <3> QED
      BY <1>2, <3>1
  <2>3. {n \in 2..N : step = <<o[n - 1], o[n]>>} = {n \in 2..N : step = <<StatusAt(n - 1), StatusAt(n)>>}
    BY <2>2
  <2> QED
    BY <1>1, <1>5, <2>1, <2>3
<1>7. N > 0 /\ previous.statuses[StatusAt(N)] = "done" => <<Anywhere, StatusAt(N)>> \in DOMAIN transitions
  BY <1>1, <1>5
<1> QED
  BY <1>4, <1>6, <1>7 DEF WorkflowLeadsToItsEnd, N, StatusAt

\* The second import of a file changes nothing, whatever the file is and whatever
\* was there before the first.
THEOREM SecondImportChangesNothing == ConfigSpec => ImportIsIdempotent
<1>1. ConfigInit => ConfigInd
  BY DEF ConfigInit, ConfigInd
<1>2. ASSUME ConfigInd, [ConfigNext]_configVars, previous # NoConfig, previous' = previous
      PROVE  UNCHANGED <<statuses, transitions, offered, follows>>
  <2>1. CASE UNCHANGED configVars
    BY <2>1 DEF configVars
  <2>2. ASSUME NEW c \in Configs, ImportConfig(c)
        PROVE  UNCHANGED <<statuses, transitions, offered, follows>>
    <3>1. /\ c = previous /\ AsImported(c) /\ statuses' = StatusesAfter(c)
          /\ transitions' = Rebuilt(c) /\ offered' = Offered(c)
          /\ follows' = IF c.project /\ ~Breaks(c) THEN "imported" ELSE follows
      BY <1>2, <2>2 DEF ImportConfig, ConfigInd
    <3>2. StatusesAfter(c) = [s \in DOMAIN statuses |-> statuses[s]]
      BY <3>1 DEF StatusesAfter, AsImported
    <3>3. statuses' = statuses
      BY <1>2, <3>1, <3>2 DEF ConfigInd
    <3>4. transitions' = transitions /\ offered' = offered /\ follows' = follows
      BY <3>1 DEF AsImported, Offered
    <3> QED
      BY <3>3, <3>4
  <2> QED
    BY <1>2, <2>1, <2>2 DEF ConfigNext, ImportStatus
<1>3. ConfigInd /\ [ConfigNext]_configVars =>
        [previous # NoConfig /\ previous' = previous
         => UNCHANGED <<statuses, transitions, offered, follows>>]_configVars
  BY <1>2
<1> QED
  BY <1>1, <1>3, ConfigStep, PTL DEF ConfigSpec, ImportIsIdempotent

\* After an import the workflow leads through its statuses to the end and holds no
\* row that is not in the file, for workflows of any length, and a second import
\* finds all as the file has it.
THEOREM ImportsSettle == ConfigSpec => ImportSettles
<1>1. ConfigInit => ConfigInd
  BY DEF ConfigInit, ConfigInd
<1>2. ConfigInd => WorkflowLeadsToItsEnd
  <2>1. CASE previous = NoConfig
    BY <2>1 DEF WorkflowLeadsToItsEnd
  <2>2. CASE previous # NoConfig
    BY <2>2, WorkflowLeads DEF ConfigInd, AsImported
  <2> QED
    BY <2>1, <2>2
<1> QED
  BY <1>1, <1>2, ConfigStep, SecondImportChangesNothing, PTL DEF ConfigSpec, ImportSettles
=============================================================================
