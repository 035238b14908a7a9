------------------------- MODULE WebhookOutboxProofs -------------------------
(***************************************************************************)
(* Proofs about WebhookOutbox, for any registrations, changes, limits and  *)
(* numbers of crashes and restores: what the worker holds in memory is     *)
(* what the database says, only committed changes are posted, an           *)
(* acknowledged row is not posted again but for a crash or a restore, and  *)
(* every step is one EventDelivery allows.                                 *)
(*                                                                         *)
(* The properties speak of the table as it is; a restore brings back an    *)
(* old one.  So what an invariant says of the table (TableOK, Interrupted) *)
(* is said of the snapshot's table as well.                                *)
(***************************************************************************)
EXTENDS WebhookOutbox, FiniteSetTheorems, SequenceTheorems, TLAPS

States == {"none", "pending", "delivering", "delivered", "failed"}

\* A table w with the due rows q, as it is now or in a snapshot.
TableOK(w, q) ==
  /\ w \in [Rows -> [state : States, attempts : Nat]]
  /\ q \in Seq(Rows) /\ IsInjective(q)
  /\ \A i \in DOMAIN q : w[q[i]].state = "pending"
  /\ \A r \in Rows :
       /\ w[r].state # "none" => fate[r[1]] = "committed"
       /\ w[r].state = "delivered" => acks[r] > 0
       /\ w[r].attempts <= MaxAttempts + crashes
       /\ w[r].state = "pending" => w[r].attempts < MaxAttempts + crashes

\* Rows that a crash left in "delivering": one attempt more is allowed for it.
Interrupted(w) ==
  \A r \in Rows : w[r].state = "delivering" => w[r].attempts < MaxAttempts + crashes

Typed ==
  /\ hooks \in SUBSET Hooks
  /\ fate \in [Mutations -> {"new", "open", "committed", "rejected"}]
  /\ holder \in {"nobody", "request", "recovered", "worker"}
  /\ reply \in {"none", "ok", "retry", "permanent"}
  /\ posts \in [Rows -> Nat] /\ acks \in [Rows -> Nat]
  /\ crashes \in 0..MaxCrashes /\ wipes \in 0..MaxWipes

SnapOK ==
  /\ Cardinality(snap) <= 1
  /\ \A s \in snap : TableOK(s.row, s.dueQ) /\ Interrupted(s.row) /\ s.hooks \in SUBSET Hooks

TxnOK ==
  /\ txn \in Seq(Rows) /\ IsInjective(txn)
  /\ \A i \in DOMAIN txn : fate[txn[i][1]] = "open"

BatchOK ==
  /\ batch \in Seq(Rows) /\ IsInjective(batch)
  /\ holder = "worker" => Delivering = ToSet(batch)
  /\ holder # "worker" => batch = <<>> /\ Interrupted(row)
  /\ holder = "recovered" => Delivering = {}
  /\ reply # "none" => batch # <<>>
  /\ reply = "ok" => acks[Head(batch)] > 0

\* The row that was acknowledged in this cycle, recorded or not.
Acknowledged(r) ==
  row[r].state = "delivered" \/ (reply = "ok" /\ r = Head(batch))

HistoryOK ==
  \A r \in Rows :
    /\ posts[r] > 0 => fate[r[1]] = "committed"
    /\ acks[r] <= crashes + wipes + (IF Acknowledged(r) THEN 1 ELSE 0)

IndInv ==
  /\ Typed /\ TableOK(row, dueQ) /\ SnapOK /\ TxnOK /\ BatchOK /\ HistoryOK
-----------------------------------------------------------------------------
(* Sequences.                                                              *)

\* Two sequences without repetition and without a common element, one after the
\* other.
LEMMA ConcatOK ==
  ASSUME NEW S, NEW p \in Seq(S), NEW q \in Seq(S), IsInjective(p), IsInjective(q),
         \A i \in DOMAIN p, j \in DOMAIN q : p[i] # q[j]
  PROVE  /\ p \o q \in Seq(S) /\ IsInjective(p \o q)
         /\ \A k \in DOMAIN (p \o q) :
              \/ \E i \in DOMAIN p : (p \o q)[k] = p[i]
              \/ \E j \in DOMAIN q : (p \o q)[k] = q[j]
<1>. DEFINE c == p \o q
<1>1. /\ c \in Seq(S) /\ Len(c) = Len(p) + Len(q) /\ Len(p) \in Nat /\ Len(q) \in Nat
      /\ DOMAIN c = 1..Len(p) + Len(q) /\ DOMAIN p = 1..Len(p) /\ DOMAIN q = 1..Len(q)
  BY ConcatProperties, LenProperties
<1>2. \A k \in DOMAIN c : c[k] = IF k <= Len(p) THEN p[k] ELSE q[k - Len(p)]
  BY <1>1, ConcatProperties
<1>3. ASSUME NEW k \in DOMAIN c
      PROVE  \/ k \in DOMAIN p /\ c[k] = p[k]
             \/ k - Len(p) \in DOMAIN q /\ c[k] = q[k - Len(p)] /\ ~(k <= Len(p))
  BY <1>1, <1>2
<1>4. IsInjective(c)
  <2>. SUFFICES ASSUME NEW k \in DOMAIN c, NEW l \in DOMAIN c, c[k] = c[l] PROVE k = l
    BY DEF IsInjective
  <2>. HIDE DEF c
  <2>. QED
    BY <1>1, <1>3 DEF IsInjective
<1>. QED
  BY <1>1, <1>3, <1>4

\* A finite set, in any order.
LEMMA SetToSeqsOK ==
  ASSUME NEW S, IsFiniteSet(S), NEW s \in SetToSeqs(S)
  PROVE  s \in Seq(S) /\ IsInjective(s) /\ \A i \in DOMAIN s : s[i] \in S
<1>1. Cardinality(S) \in Nat
  BY FS_CardinalityType
<1>. QED
  BY <1>1 DEF SetToSeqs, IsInjective

\* The first n elements of a sequence without repetition, and the others.
LEMMA SplitOK ==
  ASSUME NEW S, NEW q \in Seq(S), IsInjective(q), NEW n \in 0..Len(q)
  PROVE  LET front == SubSeq(q, 1, n)
             rest  == SubSeq(q, n + 1, Len(q))
         IN  /\ front \in Seq(S) /\ IsInjective(front)
             /\ rest \in Seq(S) /\ IsInjective(rest)
             /\ \A i \in DOMAIN front : i \in DOMAIN q /\ front[i] = q[i]
             /\ \A j \in DOMAIN rest : j + n \in DOMAIN q /\ rest[j] = q[j + n]
             /\ \A i \in DOMAIN front, j \in DOMAIN rest : front[i] # rest[j]
<1>. DEFINE front == SubSeq(q, 1, n)
            rest == SubSeq(q, n + 1, Len(q))
<1>1. Len(q) \in Nat /\ DOMAIN q = 1..Len(q) /\ n \in Nat /\ n <= Len(q)
  BY LenProperties
<1>2. /\ front \in Seq(S) /\ DOMAIN front = 1..n
      /\ \A i \in 1..n : front[i] = q[i]
  BY <1>1, SubSeqProperties
<1>3. /\ rest \in Seq(S) /\ DOMAIN rest = 1..Len(q) - n
      /\ \A j \in 1..Len(q) - n : rest[j] = q[j + n]
  BY <1>1, SubSeqProperties
<1>. HIDE DEF front, rest
<1>4. \A i \in DOMAIN front : i \in DOMAIN q /\ front[i] = q[i]
  BY <1>1, <1>2
<1>5. \A j \in DOMAIN rest : j + n \in DOMAIN q /\ rest[j] = q[j + n]
  BY <1>1, <1>3
<1>6. IsInjective(front)
  BY <1>4 DEF IsInjective
<1>7. IsInjective(rest)
  BY <1>1, <1>3, <1>5 DEF IsInjective
<1>8. \A i \in DOMAIN front, j \in DOMAIN rest : front[i] # rest[j]
  BY <1>1, <1>2, <1>3, <1>4, <1>5 DEF IsInjective
<1>. QED
  BY <1>2, <1>3, <1>4, <1>5, <1>6, <1>7, <1>8 DEF front, rest

\* The head of a sequence without repetition is not in its tail.
LEMMA TailOK ==
  ASSUME NEW S, NEW q \in Seq(S), IsInjective(q), q # <<>>
  PROVE  /\ Tail(q) \in Seq(S) /\ IsInjective(Tail(q)) /\ Head(q) \in S
         /\ ToSet(Tail(q)) = ToSet(q) \ {Head(q)}
<1>1. Len(q) \in Nat \ {0} /\ DOMAIN q = 1..Len(q) /\ Head(q) = q[1]
  BY LenProperties, EmptySeq
<1>2. /\ Tail(q) \in Seq(S) /\ DOMAIN Tail(q) = 1..Len(q) - 1
      /\ \A i \in 1..Len(q) - 1 : Tail(q)[i] = q[i + 1]
  BY <1>1, HeadTailProperties, LenProperties
<1>3. IsInjective(Tail(q))
  BY <1>1, <1>2 DEF IsInjective
<1>4. \A i \in DOMAIN q : i # 1 => i - 1 \in DOMAIN Tail(q) /\ Tail(q)[i - 1] = q[i]
  BY <1>1, <1>2
<1>5. \A i \in DOMAIN Tail(q) : i + 1 \in DOMAIN q /\ Tail(q)[i] = q[i + 1] /\ q[i + 1] # q[1]
  BY <1>1, <1>2 DEF IsInjective
<1>6. \A x : x \in ToSet(Tail(q)) <=> x \in ToSet(q) /\ x # q[1]
  BY <1>1, <1>4, <1>5 DEF ToSet
<1>. QED
  BY <1>1, <1>2, <1>3, <1>6, ElementOfSeq

LEMMA RowsFinite == IsFiniteSet(Rows) /\ IsFiniteSet(Groups)
<1>1. IsFiniteSet(Groups)
  <2>1. [h \in Hooks |-> Group[h]] \in Surjection(Hooks, Groups)
    BY DEF Surjection, Groups
  <2>. QED
    BY <2>1, OutboxAssumption, FS_Surjection
<1>. QED
  BY <1>1, OutboxAssumption, FS_Product DEF Rows
-----------------------------------------------------------------------------
(* What keeps the parts of IndInv.                                         *)

\* Nothing that was committed, acknowledged or crashed is undone.
Onward ==
  /\ \A m \in Mutations : fate[m] = "committed" => fate'[m] = "committed"
  /\ \A r \in Rows : acks'[r] \in Nat /\ acks'[r] >= acks[r]
  /\ crashes' \in Nat /\ crashes' >= crashes

LEMMA ConstantsOK ==
  /\ MaxAttempts \in Nat \ {0} /\ MaxCrashes \in Nat /\ MaxWipes \in Nat /\ Limit \in Nat \ {0}
  /\ \A r \in Rows : r[1] \in Mutations /\ r[2] \in Groups /\ r = <<r[1], r[2]>>
  BY OutboxAssumption DEF Rows

\* A table that does not change stays well formed.
LEMMA TableKept ==
  ASSUME NEW w, NEW q, Typed, Onward, TableOK(w, q)
  PROVE  TableOK(w, q)'
<1>1. \A r \in Rows : w[r].attempts \in Nat /\ acks[r] \in Nat
  BY DEF TableOK, Typed
<1>. QED
  BY <1>1, ConstantsOK DEF Typed, Onward, TableOK

LEMMA InterruptedKept ==
  ASSUME NEW w, NEW q, Typed, Onward, TableOK(w, q), Interrupted(w)
  PROVE  Interrupted(w)'
<1>1. \A r \in Rows : w[r].attempts \in Nat
  BY DEF TableOK
<1>. QED
  BY <1>1, ConstantsOK DEF Typed, Onward, Interrupted

LEMMA SnapKept ==
  ASSUME Typed, Onward, SnapOK, UNCHANGED snap
  PROVE  SnapOK'
<1>. SUFFICES ASSUME NEW s \in snap
              PROVE  TableOK(s.row, s.dueQ)' /\ Interrupted(s.row)' /\ s.hooks \in SUBSET Hooks
  BY DEF SnapOK
<1>. QED
  BY TableKept, InterruptedKept DEF SnapOK

LEMMA CurrentKept ==
  ASSUME Typed, Onward, TableOK(row, dueQ), UNCHANGED outboxVars
  PROVE  /\ TableOK(row, dueQ)'
         /\ Interrupted(row) => Interrupted(row)'
<1>1. \A r \in Rows : row[r].attempts \in Nat /\ acks[r] \in Nat
  BY DEF TableOK, Typed
<1>. QED
  BY <1>1, ConstantsOK DEF Typed, Onward, TableOK, Interrupted, outboxVars
-----------------------------------------------------------------------------
(* Each action preserves IndInv.                                           *)

LEMMA InitOK == Init => IndInv
<1>. SUFFICES ASSUME Init PROVE IndInv
  OBVIOUS
<1>1. Typed
  BY ConstantsOK DEF Init, Typed
<1>2. TableOK(row, dueQ) /\ Interrupted(row)
  BY ConstantsOK DEF Init, TableOK, Interrupted, Absent, States, IsInjective
<1>3. SnapOK /\ TxnOK
  BY FS_EmptySet DEF Init, SnapOK, TxnOK, IsInjective
<1>4. BatchOK
  BY <1>2 DEF Init, BatchOK, IsInjective
<1>5. HistoryOK
  BY DEF Init, HistoryOK, Acknowledged, Absent
<1>. QED
  BY <1>1, <1>2, <1>3, <1>4, <1>5 DEF IndInv

\* Steps that change neither table nor snapshot nor what the worker holds.
LEMMA RequestStepOK ==
  ASSUME IndInv, UNCHANGED <<outboxVars, workerVars, historyVars, snap>>,
         hooks' \in SUBSET Hooks,
         fate' \in [Mutations -> {"new", "open", "committed", "rejected"}],
         \A m \in Mutations : fate[m] = "committed" => fate'[m] = "committed",
         \/ holder \in {"nobody", "request"} /\ holder' \in {"nobody", "request"}
         \/ UNCHANGED holder,
         TxnOK'
  PROVE  IndInv'
<1>1. Onward
  BY DEF IndInv, Typed, Onward, historyVars
<1>2. Typed'
  BY DEF IndInv, Typed, workerVars, historyVars
<1>3. TableOK(row, dueQ)' /\ (Interrupted(row) => Interrupted(row)')
  BY <1>1, CurrentKept DEF IndInv
<1>4. SnapOK'
  BY <1>1, SnapKept DEF IndInv
<1>5. BatchOK'
  BY <1>3 DEF IndInv, BatchOK, Delivering, outboxVars, workerVars, historyVars
<1>6. HistoryOK'
  BY ConstantsOK DEF IndInv, HistoryOK, Acknowledged, outboxVars, workerVars, historyVars
<1>. QED
  BY <1>2, <1>3, <1>4, <1>5, <1>6 DEF IndInv

LEMMA BeginOK ==
  ASSUME IndInv, BeginRequest PROVE IndInv'
<1>1. TxnOK'
  BY DEF IndInv, TxnOK, BeginRequest
<1>. QED
  BY <1>1, RequestStepOK DEF BeginRequest, IndInv, Typed

LEMMA EnqueueOK ==
  ASSUME IndInv, NEW m \in Mutations, Enqueue(m) PROVE IndInv'
<1>. DEFINE added == {<<m, Group[h]>> : h \in Matching(m)}
<1>1. added \in SUBSET Rows /\ \A r \in added : r[1] = m
  BY DEF IndInv, Typed, Matching, Rows, Groups
<1>2. IsFiniteSet(added)
  BY <1>1, RowsFinite, FS_Subset
<1>3. PICK s \in SetToSeqs(added) : txn' = txn \o s
  BY DEF Enqueue
<1>. HIDE DEF added
<1>4. s \in Seq(added) /\ IsInjective(s) /\ \A i \in DOMAIN s : s[i] \in added
  BY <1>2, <1>3, SetToSeqsOK
<1>5. s \in Seq(Rows)
  BY <1>1, <1>4, SeqMonotonic
<1>6. fate[m] = "new" /\ fate' = [fate EXCEPT ![m] = "open"]
  BY DEF Enqueue
<1>7. \A i \in DOMAIN txn, j \in DOMAIN s : txn[i] # s[j]
  BY <1>1, <1>4, <1>6 DEF IndInv, TxnOK
<1>8. /\ txn' \in Seq(Rows) /\ IsInjective(txn')
      /\ \A k \in DOMAIN txn' : \/ \E i \in DOMAIN txn : txn'[k] = txn[i]
                                \/ \E j \in DOMAIN s : txn'[k] = s[j]
  BY <1>3, <1>4, <1>5, <1>7, ConcatOK DEF IndInv, TxnOK
<1>9. \A k \in DOMAIN txn' : fate'[txn'[k][1]] = "open"
  <2>. TAKE k \in DOMAIN txn'
  <2>1. ASSUME NEW i \in DOMAIN txn, txn'[k] = txn[i] PROVE fate'[txn'[k][1]] = "open"
    <3>1. txn[i] \in Rows
      BY ElementOfSeq, LenProperties DEF IndInv, TxnOK
    <3>. QED
      BY <2>1, <3>1, <1>6, ConstantsOK DEF IndInv, TxnOK, Typed
  <2>2. ASSUME NEW j \in DOMAIN s, txn'[k] = s[j] PROVE fate'[txn'[k][1]] = "open"
    BY <2>2, <1>1, <1>4, <1>6 DEF IndInv, Typed
  <2>. QED
    BY <2>1, <2>2, <1>8
<1>. QED
  BY <1>6, <1>8, <1>9, RequestStepOK DEF Enqueue, IndInv, Typed, TxnOK

LEMMA AbandonOK ==
  ASSUME IndInv, holder = "request", NEW rejected \in SUBSET {m \in Mutations : fate[m] = "new"},
         Abandon(rejected), UNCHANGED <<outboxVars, workerVars, historyVars, hooks, snap>>
  PROVE  IndInv'
<1>1. TxnOK'
  BY DEF Abandon, TxnOK, IsInjective
<1>. QED
  BY <1>1, RequestStepOK DEF Abandon, IndInv, Typed

LEMMA RegistrationOK ==
  ASSUME IndInv, NEW h \in Hooks, Register(h) \/ Unregister(h) \/ Expire(h)
  PROVE  IndInv'
<1>1. TxnOK'
  BY DEF IndInv, TxnOK, Register, Unregister, Expire
<1>. QED
  BY <1>1, RequestStepOK DEF Register, Unregister, Expire, IndInv, Typed

LEMMA CommitOK ==
  ASSUME IndInv, CommitRequest PROVE IndInv'
<1>1. Onward
  BY DEF CommitRequest, IndInv, Typed, Onward, historyVars
<1>2. Typed'
  BY DEF CommitRequest, IndInv, Typed, workerVars, historyVars
<1>3. \A r \in ToSet(txn) : r \in Rows /\ fate[r[1]] = "open" /\ fate'[r[1]] = "committed"
  <2>. SUFFICES ASSUME NEW i \in DOMAIN txn
                PROVE  txn[i] \in Rows /\ fate[txn[i][1]] = "open" /\ fate'[txn[i][1]] = "committed"
    BY DEF ToSet
  <2>1. txn[i] \in Rows
    BY ElementOfSeq, LenProperties DEF IndInv, TxnOK
  <2>. QED
    BY <2>1, ConstantsOK DEF IndInv, TxnOK, CommitRequest
<1>4. \A r \in Rows : row'[r] = IF r \in ToSet(txn) THEN [state |-> "pending", attempts |-> 0]
                                ELSE row[r]
  BY DEF CommitRequest
<1>5. \A i \in DOMAIN dueQ : dueQ[i] \in Rows /\ fate[dueQ[i][1]] = "committed"
  <2>. TAKE i \in DOMAIN dueQ
  <2>1. dueQ[i] \in Rows
    BY ElementOfSeq, LenProperties DEF IndInv, TableOK
  <2>. QED
    BY <2>1 DEF IndInv, TableOK
<1>6. /\ dueQ' \in Seq(Rows) /\ IsInjective(dueQ')
      /\ \A k \in DOMAIN dueQ' : \/ \E i \in DOMAIN dueQ : dueQ'[k] = dueQ[i]
                                 \/ \E j \in DOMAIN txn : dueQ'[k] = txn[j]
  <2>1. \A i \in DOMAIN dueQ, j \in DOMAIN txn : dueQ[i] # txn[j]
    BY <1>5 DEF IndInv, TxnOK
  <2>2. dueQ \in Seq(Rows) /\ IsInjective(dueQ) /\ txn \in Seq(Rows) /\ IsInjective(txn)
    BY DEF IndInv, TableOK, TxnOK
  <2>3. dueQ' = dueQ \o txn
    BY DEF CommitRequest
  <2>. QED
    BY <2>1, <2>2, <2>3, ConcatOK
<1>7. \A k \in DOMAIN dueQ' : row'[dueQ'[k]].state = "pending"
  <2>. TAKE k \in DOMAIN dueQ'
  <2>1. ASSUME NEW i \in DOMAIN dueQ, dueQ'[k] = dueQ[i] PROVE row'[dueQ'[k]].state = "pending"
    BY <2>1, <1>4, <1>5 DEF IndInv, TableOK
  <2>2. ASSUME NEW j \in DOMAIN txn, dueQ'[k] = txn[j] PROVE row'[dueQ'[k]].state = "pending"
    BY <2>2, <1>3, <1>4 DEF ToSet
  <2>. QED
    BY <2>1, <2>2, <1>6
<1>8. /\ row' \in [Rows -> [state : States, attempts : Nat]]
      /\ \A r \in Rows : row'[r].state = "delivering" => row'[r] = row[r]
  <2>. row' = [r \in Rows |-> IF r \in ToSet(txn) THEN [state |-> "pending", attempts |-> 0] ELSE row[r]]
    BY DEF CommitRequest
  <2>. QED
    BY DEF IndInv, TableOK, States
<1>9. TableOK(row, dueQ)'
  <2>. SUFFICES ASSUME NEW r \in Rows
                PROVE  /\ row'[r].state # "none" => fate'[r[1]] = "committed"
                       /\ row'[r].state = "delivered" => acks'[r] > 0
                       /\ row'[r].attempts <= MaxAttempts + crashes'
                       /\ row'[r].state = "pending" => row'[r].attempts < MaxAttempts + crashes'
    BY <1>6, <1>7, <1>8 DEF TableOK
  <2>1. CASE r \in ToSet(txn)
    <3>1. row'[r].state = "pending" /\ row'[r].attempts = 0
      BY <2>1, <1>4
    <3>2. crashes' \in Nat /\ 0 < MaxAttempts + crashes'
      BY <1>1, ConstantsOK DEF Onward
    <3>. QED
      BY <2>1, <3>1, <3>2, <1>3, ConstantsOK
  <2>2. CASE r \notin ToSet(txn)
    BY <2>2, <1>1, <1>4, ConstantsOK DEF IndInv, TableOK, Onward, CommitRequest, historyVars
  <2>. QED
    BY <2>1, <2>2
<1>10. SnapOK'
  BY <1>1, SnapKept DEF IndInv, CommitRequest
<1>11. TxnOK'
  BY DEF CommitRequest, TxnOK, IsInjective
<1>12. BatchOK'
  BY <1>8 DEF CommitRequest, IndInv, BatchOK, Interrupted, workerVars, historyVars
<1>13. HistoryOK'
  <2>. SUFFICES ASSUME NEW r \in Rows
                PROVE  /\ posts[r] > 0 => fate'[r[1]] = "committed"
                       /\ acks[r] <= crashes + wipes + (IF Acknowledged(r)' THEN 1 ELSE 0)
    BY DEF HistoryOK, CommitRequest, historyVars
  <2>1. posts[r] > 0 => fate'[r[1]] = "committed"
    BY <1>1, ConstantsOK DEF IndInv, HistoryOK, Onward
  <2>2. Acknowledged(r) => Acknowledged(r)'
    <3>1. r \in ToSet(txn) => row[r].state # "delivered"
      BY <1>3 DEF IndInv, TableOK
    <3>. QED
      BY <3>1, <1>4 DEF Acknowledged, CommitRequest, workerVars
  <2>. QED
    BY <2>1, <2>2 DEF IndInv, HistoryOK, Typed
<1>. QED
  BY <1>2, <1>9, <1>10, <1>11, <1>12, <1>13 DEF IndInv

LEMMA TakeSnapshotOK ==
  ASSUME IndInv, TakeSnapshot PROVE IndInv'
<1>1. Onward
  BY DEF TakeSnapshot, IndInv, Typed, Onward, historyVars
<1>2. TableOK(row, dueQ)' /\ Interrupted(row)'
  BY <1>1, CurrentKept DEF IndInv, BatchOK, TakeSnapshot
<1>3. SnapOK'
  <2>1. Cardinality(snap') <= 1
    <3>1. snap' = {[row |-> row, dueQ |-> dueQ, hooks |-> hooks]}
      BY DEF TakeSnapshot
    <3>2. Cardinality({[row |-> row, dueQ |-> dueQ, hooks |-> hooks]}) = 1
      BY FS_Singleton, Zenon
    <3>. QED
      BY <3>1, <3>2
  <2>2. ASSUME NEW s \in snap'
        PROVE  TableOK(s.row, s.dueQ)' /\ Interrupted(s.row)' /\ s.hooks \in SUBSET Hooks
    <3>1. s.row = row /\ s.dueQ = dueQ /\ s.hooks = hooks /\ UNCHANGED <<row, dueQ, fate, acks, crashes>>
      BY DEF TakeSnapshot, outboxVars, historyVars
    <3>. QED
      BY <3>1, <1>2 DEF IndInv, Typed, TableOK, Interrupted
  <2>. QED
    BY <2>1, <2>2 DEF SnapOK
<1>4. Typed' /\ TxnOK' /\ BatchOK' /\ HistoryOK'
  BY DEF TakeSnapshot, IndInv, Typed, TxnOK, BatchOK, Interrupted, Delivering, HistoryOK,
     Acknowledged, outboxVars, workerVars, historyVars
<1>. QED
  BY <1>2, <1>3, <1>4 DEF IndInv

\* A restore and a reset: another table, one wipe more.
LEMMA WipeOK ==
  ASSUME IndInv, holder = "nobody", wipes < MaxWipes, wipes' = wipes + 1,
         TableOK(row, dueQ)', Interrupted(row)', hooks' \in SUBSET Hooks,
         UNCHANGED <<workerVars, fate, holder, txn, snap, posts, acks, crashes>>
  PROVE  IndInv'
<1>1. Onward
  BY DEF IndInv, Typed, Onward
<1>2. Typed'
  BY ConstantsOK DEF IndInv, Typed, workerVars
<1>3. SnapOK'
  BY <1>1, SnapKept DEF IndInv
<1>4. TxnOK' /\ BatchOK'
  BY DEF IndInv, TxnOK, BatchOK, workerVars
<1>5. HistoryOK'
  BY <1>2 DEF IndInv, HistoryOK, Typed
<1>. QED
  BY <1>2, <1>3, <1>4, <1>5 DEF IndInv

LEMMA RestoreOK ==
  ASSUME IndInv, RestoreSnapshot PROVE IndInv'
<1>1. PICK s \in snap : BackTo(s)
  BY DEF RestoreSnapshot
<1>2. TableOK(s.row, s.dueQ) /\ Interrupted(s.row) /\ s.hooks \in SUBSET Hooks
  BY DEF IndInv, SnapOK
<1>3. TableOK(row, dueQ)' /\ Interrupted(row)' /\ hooks' \in SUBSET Hooks
  BY <1>1, <1>2 DEF BackTo, TableOK, Interrupted, RestoreSnapshot
<1>. QED
  BY <1>3, WipeOK DEF RestoreSnapshot

LEMMA ResetOK ==
  ASSUME IndInv, Reset PROVE IndInv'
<1>1. TableOK(row, dueQ)' /\ Interrupted(row)'
  BY ConstantsOK DEF Reset, IndInv, Typed, TableOK, Interrupted, Absent, States, IsInjective
<1>. QED
  BY <1>1, WipeOK DEF Reset

LEMMA DeliveringOK == IndInv => Delivering \in SUBSET Rows /\ IsFiniteSet(Delivering)
<1>1. Delivering \in SUBSET Rows
  BY DEF Delivering
<1>. QED
  BY <1>1, RowsFinite, FS_Subset

LEMMA RecoverOK ==
  ASSUME IndInv, WorkerRecover PROVE IndInv'
<1>1. Onward /\ Typed'
  BY DEF WorkerRecover, IndInv, Typed, Onward, workerVars, historyVars
<1>2. PICK stale \in SetToSeqs(Delivering) : dueQ' = dueQ \o stale
  BY DEF WorkerRecover
<1>3. /\ stale \in Seq(Delivering) /\ IsInjective(stale)
      /\ \A i \in DOMAIN stale : stale[i] \in Delivering
  BY <1>2, DeliveringOK, SetToSeqsOK
<1>4. stale \in Seq(Rows)
  BY <1>3, DeliveringOK, SeqMonotonic
<1>5. \A i \in DOMAIN dueQ : dueQ[i] \in Rows /\ row[dueQ[i]].state = "pending"
  BY ElementOfSeq, LenProperties DEF IndInv, TableOK
<1>6. /\ dueQ' \in Seq(Rows) /\ IsInjective(dueQ')
      /\ \A k \in DOMAIN dueQ' : \/ \E i \in DOMAIN dueQ : dueQ'[k] = dueQ[i]
                                 \/ \E j \in DOMAIN stale : dueQ'[k] = stale[j]
  <2>1. \A i \in DOMAIN dueQ, j \in DOMAIN stale : dueQ[i] # stale[j]
    BY <1>3, <1>5 DEF Delivering
  <2>2. dueQ \in Seq(Rows) /\ IsInjective(dueQ)
    BY DEF IndInv, TableOK
  <2>. QED
    BY <1>2, <1>3, <1>4, <2>1, <2>2, ConcatOK
<1>7. /\ \A r \in Delivering : row'[r].state = "pending" /\ row'[r].attempts = row[r].attempts
      /\ \A r \in Rows \ Delivering : row'[r] = row[r]
      /\ row' \in [Rows -> [state : States, attempts : Nat]]
  <2>1. row' = [r \in Rows |-> IF r \in Delivering THEN [row[r] EXCEPT !.state = "pending"] ELSE row[r]]
    BY DEF WorkerRecover
  <2>2. row \in [Rows -> [state : States, attempts : Nat]]
    BY DEF IndInv, TableOK
  <2>. QED
    BY <2>1, <2>2, DeliveringOK DEF States, IndInv
<1>8. \A r \in Rows : row'[r].state # "delivering"
  BY <1>7 DEF Delivering
<1>9. \A k \in DOMAIN dueQ' : row'[dueQ'[k]].state = "pending"
  <2>. TAKE k \in DOMAIN dueQ'
  <2>1. ASSUME NEW i \in DOMAIN dueQ, dueQ'[k] = dueQ[i] PROVE row'[dueQ'[k]].state = "pending"
    BY <2>1, <1>5, <1>7
  <2>2. ASSUME NEW j \in DOMAIN stale, dueQ'[k] = stale[j] PROVE row'[dueQ'[k]].state = "pending"
    BY <2>2, <1>3, <1>7
  <2>. QED
    BY <2>1, <2>2, <1>6
<1>10. TableOK(row, dueQ)'
  <2>. SUFFICES ASSUME NEW r \in Rows
                PROVE  /\ row'[r].state # "none" => fate'[r[1]] = "committed"
                       /\ row'[r].state = "delivered" => acks'[r] > 0
                       /\ row'[r].attempts <= MaxAttempts + crashes'
                       /\ row'[r].state = "pending" => row'[r].attempts < MaxAttempts + crashes'
    BY <1>6, <1>7, <1>9 DEF TableOK
  <2>1. UNCHANGED <<fate, acks, crashes>>
    BY DEF WorkerRecover, historyVars
  <2>2. CASE r \in Delivering
    BY <2>1, <2>2, <1>7 DEF WorkerRecover, IndInv, TableOK, BatchOK, Interrupted, Delivering
  <2>3. CASE r \notin Delivering
    BY <2>1, <2>3, <1>7 DEF IndInv, TableOK
  <2>. QED
    BY <2>2, <2>3
<1>11. SnapOK' /\ TxnOK'
  BY <1>1, SnapKept DEF IndInv, WorkerRecover, TxnOK
<1>12. BatchOK'
  BY <1>8 DEF WorkerRecover, IndInv, BatchOK, Interrupted, Delivering, IsInjective, workerVars, historyVars
<1>13. HistoryOK'
  BY <1>7 DEF WorkerRecover, IndInv, HistoryOK, Acknowledged, Delivering, workerVars, historyVars
<1>. QED
  BY <1>1, <1>10, <1>11, <1>12, <1>13 DEF IndInv

LEMMA ClaimOK ==
  ASSUME IndInv, WorkerClaim PROVE IndInv'
<1>. DEFINE n == IF Len(dueQ) < Limit THEN Len(dueQ) ELSE Limit
            claimed == SubSeq(dueQ, 1, n)
            rest == SubSeq(dueQ, n + 1, Len(dueQ))
<1>1. Onward /\ Typed'
  BY DEF WorkerClaim, IndInv, Typed, Onward, historyVars
<1>2. dueQ \in Seq(Rows) /\ IsInjective(dueQ) /\ n \in 0..Len(dueQ)
  BY ConstantsOK, LenProperties DEF IndInv, TableOK
<1>3. /\ batch' = claimed /\ dueQ' = rest
      /\ row' = [r \in Rows |-> IF r \in ToSet(claimed)
                   THEN [state |-> "delivering", attempts |-> row[r].attempts + 1] ELSE row[r]]
  BY DEF WorkerClaim
<1>. HIDE DEF n
<1>4. /\ claimed \in Seq(Rows) /\ IsInjective(claimed)
      /\ rest \in Seq(Rows) /\ IsInjective(rest)
      /\ \A i \in DOMAIN claimed : i \in DOMAIN dueQ /\ claimed[i] = dueQ[i]
      /\ \A j \in DOMAIN rest : j + n \in DOMAIN dueQ /\ rest[j] = dueQ[j + n]
      /\ \A i \in DOMAIN claimed, j \in DOMAIN rest : claimed[i] # rest[j]
  BY <1>2, SplitOK
<1>. HIDE DEF claimed, rest
<1>5. \A i \in DOMAIN dueQ : dueQ[i] \in Rows /\ row[dueQ[i]].state = "pending"
  BY <1>2, ElementOfSeq, LenProperties DEF IndInv, TableOK
<1>6. \A r \in ToSet(claimed) : r \in Rows /\ row[r].state = "pending"
  BY <1>4, <1>5 DEF ToSet
<1>7. row \in [Rows -> [state : States, attempts : Nat]]
  BY DEF IndInv, TableOK
<1>8. /\ row' \in [Rows -> [state : States, attempts : Nat]]
      /\ \A r \in ToSet(claimed) : row'[r].state = "delivering" /\ row'[r].attempts = row[r].attempts + 1
      /\ \A r \in Rows \ ToSet(claimed) : row'[r] = row[r]
  BY <1>3, <1>6, <1>7 DEF States
<1>9. \A j \in DOMAIN rest : row'[rest[j]].state = "pending"
  <2>. TAKE j \in DOMAIN rest
  <2>1. rest[j] \in Rows \ ToSet(claimed) /\ row[rest[j]].state = "pending"
    BY <1>4, <1>5 DEF ToSet
  <2>. QED
    BY <2>1, <1>8
<1>10. TableOK(row, dueQ)'
  <2>. SUFFICES ASSUME NEW r \in Rows
                PROVE  /\ row'[r].state # "none" => fate'[r[1]] = "committed"
                       /\ row'[r].state = "delivered" => acks'[r] > 0
                       /\ row'[r].attempts <= MaxAttempts + crashes'
                       /\ row'[r].state = "pending" => row'[r].attempts < MaxAttempts + crashes'
    BY <1>3, <1>4, <1>8, <1>9 DEF TableOK
  <2>1. UNCHANGED <<fate, acks, crashes>> /\ crashes \in Nat /\ row[r].attempts \in Nat
    BY <1>7 DEF WorkerClaim, historyVars, IndInv, Typed
  <2>2. CASE r \in ToSet(claimed)
    BY <2>1, <2>2, <1>6, <1>8, ConstantsOK DEF IndInv, TableOK
  <2>3. CASE r \notin ToSet(claimed)
    BY <2>1, <2>3, <1>8 DEF IndInv, TableOK
  <2>. QED
    BY <2>2, <2>3
<1>11. SnapOK' /\ TxnOK'
  BY <1>1, SnapKept DEF IndInv, WorkerClaim, TxnOK
<1>12. BatchOK'
  <2>1. Delivering = {} /\ batch = <<>> /\ reply' = "none" /\ holder' = "worker"
    BY DEF WorkerClaim, IndInv, BatchOK
  <2>2. Delivering' = ToSet(claimed)
    BY <2>1, <1>6, <1>8 DEF Delivering
  <2>. QED
    BY <2>1, <2>2, <1>3, <1>4 DEF BatchOK
<1>13. HistoryOK'
  BY <1>6, <1>8 DEF WorkerClaim, IndInv, BatchOK, HistoryOK, Acknowledged, historyVars
<1>. QED
  BY <1>1, <1>10, <1>11, <1>12, <1>13 DEF IndInv

\* While the worker delivers, the first row of its batch is in the table.
LEMMA HeadOK ==
  ASSUME IndInv, holder = "worker", batch # <<>>
  PROVE  /\ Head(batch) \in Rows /\ row[Head(batch)].state = "delivering"
         /\ fate[Head(batch)[1]] = "committed"
<1>1. batch \in Seq(Rows) /\ Head(batch) \in Rows
  BY HeadTailProperties DEF IndInv, BatchOK
<1>2. Head(batch) \in ToSet(batch)
  BY <1>1, EmptySeq, LenProperties DEF ToSet
<1>. QED
  BY <1>1, <1>2 DEF IndInv, BatchOK, Delivering, TableOK

LEMMA PostOK ==
  ASSUME IndInv, WorkerPost PROVE IndInv'
<1>. DEFINE r == Head(batch)
<1>1. r \in Rows /\ row[r].state = "delivering" /\ fate[r[1]] = "committed"
  BY HeadOK DEF WorkerPost
<1>2. /\ \A s \in Rows : s # r => posts'[s] = posts[s] /\ acks'[s] = acks[s]
      /\ acks'[r] = IF reply' = "ok" THEN acks[r] + 1 ELSE acks[r]
      /\ posts' \in [Rows -> Nat] /\ acks' \in [Rows -> Nat]
  BY <1>1 DEF WorkerPost, IndInv, Typed
<1>3. reply = "none" /\ reply' \in {"ok", "retry", "permanent"} /\ batch # <<>>
  BY DEF WorkerPost
<1>. HIDE DEF r
<1>4. Onward
  BY <1>1, <1>2 DEF WorkerPost, IndInv, Typed, Onward
<1>5. Typed'
  BY <1>2, <1>3 DEF WorkerPost, IndInv, Typed
<1>6. TableOK(row, dueQ)'
  BY <1>4, CurrentKept DEF IndInv, WorkerPost
<1>7. SnapOK' /\ TxnOK'
  BY <1>4, SnapKept DEF IndInv, WorkerPost, TxnOK
<1>8. BatchOK'
  BY <1>1, <1>2, <1>3 DEF WorkerPost, IndInv, Typed, BatchOK, Delivering, outboxVars, r
<1>9. HistoryOK'
  <2>. SUFFICES ASSUME NEW s \in Rows
                PROVE  /\ posts'[s] > 0 => fate[s[1]] = "committed"
                       /\ acks'[s] <= crashes + wipes + (IF Acknowledged(s)' THEN 1 ELSE 0)
    BY DEF HistoryOK, WorkerPost
  <2>1. /\ posts[s] > 0 => fate[s[1]] = "committed"
        /\ acks[s] <= crashes + wipes + (IF row[s].state = "delivered" THEN 1 ELSE 0)
    BY <1>3 DEF IndInv, HistoryOK, Acknowledged
  <2>2. Acknowledged(s)' <=> row[s].state = "delivered" \/ (reply' = "ok" /\ s = r)
    BY DEF Acknowledged, WorkerPost, outboxVars, r
  <2>3. acks[s] \in Nat /\ crashes \in Nat /\ wipes \in Nat
    BY DEF IndInv, Typed
  <2>4. CASE s = r
    BY <2>1, <2>2, <2>3, <2>4, <1>1, <1>2
  <2>5. CASE s # r
    BY <2>1, <2>2, <2>3, <2>5, <1>2
  <2>. QED
    BY <2>4, <2>5
<1>. QED
  BY <1>5, <1>6, <1>7, <1>8, <1>9 DEF IndInv

LEMMA RecordOK ==
  ASSUME IndInv, WorkerRecord PROVE IndInv'
<1>. DEFINE r == Head(batch)
<1>1. r \in Rows /\ row[r].state = "delivering" /\ fate[r[1]] = "committed"
  BY HeadOK DEF WorkerRecord
<1>2. /\ holder = "worker" /\ batch # <<>> /\ reply \in {"ok", "retry", "permanent"}
      /\ batch' = Tail(batch) /\ reply' = "none"
  BY DEF WorkerRecord, IndInv, Typed
<1>3. row' = [row EXCEPT ![r].state = Outcome(r, reply)]
  BY <1>1 DEF WorkerRecord, Absent
<1>4. /\ Tail(batch) \in Seq(Rows) /\ IsInjective(Tail(batch))
      /\ ToSet(Tail(batch)) = ToSet(batch) \ {r}
  BY <1>2, TailOK DEF IndInv, BatchOK
<1>5. reply = "ok" => acks[r] > 0
  BY DEF IndInv, BatchOK
<1>. HIDE DEF r
<1>6. /\ Outcome(r, reply) \in {"pending", "delivered", "failed"}
      /\ Outcome(r, reply) = "delivered" <=> reply = "ok"
      /\ Outcome(r, reply) = "pending" => ~(row[r].attempts >= MaxAttempts)
  BY <1>2 DEF Outcome
<1>7. /\ row' \in [Rows -> [state : States, attempts : Nat]]
      /\ row'[r].state = Outcome(r, reply) /\ row'[r].attempts = row[r].attempts
      /\ \A s \in Rows : s # r => row'[s] = row[s]
  BY <1>1, <1>3, <1>6 DEF IndInv, TableOK, States
<1>8. Onward /\ Typed'
  BY <1>2 DEF WorkerRecord, IndInv, Typed, Onward, historyVars
<1>9. TableOK(row, dueQ)'
  <2>1. \A i \in DOMAIN dueQ : dueQ[i] \in Rows /\ row[dueQ[i]].state = "pending"
    BY ElementOfSeq, LenProperties DEF IndInv, TableOK
  <2>2. \A i \in DOMAIN dueQ' : row'[dueQ'[i]].state = "pending"
    BY <2>1, <1>1, <1>7 DEF WorkerRecord
  <2>3. ASSUME NEW s \in Rows
        PROVE  /\ row'[s].state # "none" => fate'[s[1]] = "committed"
               /\ row'[s].state = "delivered" => acks'[s] > 0
               /\ row'[s].attempts <= MaxAttempts + crashes'
               /\ row'[s].state = "pending" => row'[s].attempts < MaxAttempts + crashes'
    <3>1. UNCHANGED <<fate, acks, crashes>> /\ crashes \in Nat /\ row[s].attempts \in Nat
      BY DEF WorkerRecord, historyVars, IndInv, Typed, TableOK
    <3>2. CASE s = r
      BY <3>1, <3>2, <1>1, <1>5, <1>6, <1>7, ConstantsOK DEF IndInv, TableOK
    <3>3. CASE s # r
      BY <3>1, <3>3, <1>7 DEF IndInv, TableOK
    <3>. QED
      BY <3>2, <3>3
  <2>. QED
    BY <2>2, <2>3, <1>7 DEF WorkerRecord, IndInv, TableOK
<1>10. SnapOK' /\ TxnOK'
  BY <1>8, SnapKept DEF IndInv, WorkerRecord, TxnOK
<1>11. BatchOK'
  <2>1. Delivering' = Delivering \ {r}
    BY <1>6, <1>7 DEF Delivering
  <2>. QED
    BY <2>1, <1>2, <1>4 DEF WorkerRecord, IndInv, BatchOK
<1>12. HistoryOK'
  <2>1. \A s \in Rows : Acknowledged(s) => Acknowledged(s)'
    BY <1>1, <1>2, <1>6, <1>7 DEF Acknowledged, r
  <2>2. UNCHANGED <<posts, acks, crashes, wipes, fate>>
    BY DEF WorkerRecord, historyVars
  <2>. QED
    BY <2>1, <2>2 DEF IndInv, HistoryOK, Typed
<1>. QED
  BY <1>8, <1>9, <1>10, <1>11, <1>12 DEF IndInv

LEMMA SleepOK ==
  ASSUME IndInv, WorkerSleep PROVE IndInv'
<1>1. Onward /\ Typed'
  BY DEF WorkerSleep, IndInv, Typed, Onward, workerVars, historyVars
<1>2. TableOK(row, dueQ)'
  BY <1>1, CurrentKept DEF IndInv, WorkerSleep
<1>3. SnapOK' /\ TxnOK'
  BY <1>1, SnapKept DEF IndInv, WorkerSleep, TxnOK
<1>4. Delivering = {}
  BY DEF WorkerSleep, IndInv, BatchOK, ToSet
<1>5. BatchOK' /\ HistoryOK'
  BY <1>4 DEF WorkerSleep, IndInv, BatchOK, Interrupted, Delivering, HistoryOK, Acknowledged,
     outboxVars, workerVars, historyVars
<1>. QED
  BY <1>1, <1>2, <1>3, <1>5 DEF IndInv

LEMMA BecomeDueOK ==
  ASSUME IndInv, NEW r \in Rows, BecomeDue(r) PROVE IndInv'
<1>1. Onward /\ Typed'
  BY DEF BecomeDue, IndInv, Typed, Onward, workerVars, historyVars
<1>2. /\ dueQ \in Seq(Rows) /\ IsInjective(dueQ)
      /\ dueQ' = Append(dueQ, r) /\ row[r].state = "pending" /\ UNCHANGED row
      /\ \A i \in DOMAIN dueQ : dueQ[i] # r
  BY DEF BecomeDue, IndInv, TableOK, ToSet
<1>3. /\ dueQ' \in Seq(Rows) /\ Len(dueQ) \in Nat
      /\ DOMAIN dueQ = 1..Len(dueQ) /\ DOMAIN dueQ' = 1..Len(dueQ) + 1
      /\ \A i \in 1..Len(dueQ) : dueQ'[i] = dueQ[i]
      /\ dueQ'[Len(dueQ) + 1] = r
  BY <1>2, AppendProperties, LenProperties
<1>4. IsInjective(dueQ') /\ \A i \in DOMAIN dueQ' : row'[dueQ'[i]].state = "pending"
  BY <1>2, <1>3 DEF IsInjective, IndInv, TableOK
<1>5. TableOK(row, dueQ)'
  BY <1>3, <1>4 DEF BecomeDue, IndInv, TableOK, historyVars
<1>6. SnapOK' /\ TxnOK'
  BY <1>1, SnapKept DEF IndInv, BecomeDue, TxnOK
<1>7. BatchOK' /\ HistoryOK'
  BY DEF BecomeDue, IndInv, BatchOK, Interrupted, Delivering, HistoryOK, Acknowledged,
     workerVars, historyVars
<1>. QED
  BY <1>1, <1>5, <1>6, <1>7 DEF IndInv

LEMMA CrashOK ==
  ASSUME IndInv, Crash PROVE IndInv'
<1>1. Onward /\ Typed'
  BY ConstantsOK DEF Crash, Abandon, IndInv, Typed, Onward
<1>2. TableOK(row, dueQ)'
  BY <1>1, CurrentKept DEF IndInv, Crash
<1>3. SnapOK'
  BY <1>1, SnapKept DEF IndInv, Crash
<1>4. TxnOK'
  BY DEF Crash, Abandon, TxnOK, IsInjective
<1>5. Interrupted(row)'
  <2>1. \A r \in Rows : row[r].attempts \in Nat /\ row[r].attempts <= MaxAttempts + crashes
    BY DEF IndInv, TableOK
  <2>2. UNCHANGED row /\ crashes' = crashes + 1 /\ crashes \in Nat
    BY DEF Crash, outboxVars, IndInv, Typed
  <2>. QED
    BY <2>1, <2>2, ConstantsOK DEF Interrupted
<1>6. BatchOK'
  BY <1>5 DEF Crash, Abandon, BatchOK, IsInjective
<1>7. HistoryOK'
  <2>. SUFFICES ASSUME NEW r \in Rows
                PROVE  /\ posts'[r] > 0 => fate'[r[1]] = "committed"
                       /\ acks'[r] <= crashes' + wipes' + (IF Acknowledged(r)' THEN 1 ELSE 0)
    BY DEF HistoryOK
  <2>1. UNCHANGED <<row, posts, acks, wipes>> /\ crashes' = crashes + 1 /\ reply' = "none"
    BY DEF Crash, outboxVars
  <2>2. posts'[r] > 0 => fate'[r[1]] = "committed"
    BY <2>1, <1>1, ConstantsOK DEF IndInv, HistoryOK, Onward
  <2>3. Acknowledged(r)' <=> row[r].state = "delivered"
    BY <2>1 DEF Acknowledged
  <2>4. acks[r] \in Nat /\ crashes \in Nat /\ wipes \in Nat
    BY DEF IndInv, Typed
  <2>5. acks[r] <= crashes + wipes + (IF Acknowledged(r) THEN 1 ELSE 0)
    BY DEF IndInv, HistoryOK
  <2>6. CASE row[r].state = "delivered"
    BY <2>1, <2>2, <2>3, <2>4, <2>5, <2>6
  <2>7. CASE row[r].state # "delivered"
    BY <2>1, <2>2, <2>3, <2>4, <2>5, <2>7
  <2>. QED
    BY <2>6, <2>7
<1>. QED
  BY <1>1, <1>2, <1>3, <1>4, <1>6, <1>7 DEF IndInv

LEMMA NextOK ==
  ASSUME IndInv, [Next]_vars PROVE IndInv'
<1>1. CASE UNCHANGED vars
  <2>1. /\ Typed' /\ TxnOK'
        /\ UNCHANGED <<outboxVars, workerVars, historyVars, snap, holder, fate, hooks>>
    BY <1>1 DEF IndInv, Typed, TxnOK, vars, outboxVars, workerVars, historyVars
  <2>. QED
    BY <2>1, RequestStepOK DEF IndInv, Typed
<1>2. CASE RollbackRequest
  BY <1>2, AbandonOK DEF RollbackRequest
<1>3. ASSUME NEW m \in Mutations, EnqueueRaises(m) PROVE IndInv'
  BY <1>3, AbandonOK DEF EnqueueRaises
<1>4. CASE Worker
  BY <1>4, RecoverOK, ClaimOK, PostOK, RecordOK, SleepOK DEF Worker
<1>. QED
  BY <1>1, <1>2, <1>3, <1>4, BeginOK, CommitOK, EnqueueOK, RegistrationOK, TakeSnapshotOK,
     RestoreOK, ResetOK, BecomeDueOK, CrashOK DEF Next

\* IndInv holds in every reachable state.
LEMMA Inductive == Spec => []IndInv
  BY InitOK, NextOK, PTL DEF Spec
-----------------------------------------------------------------------------
(* The theorems.                                                           *)

\* Every variable has its type; no row is ever attempted more often than the
\* limit and the crashes allow.
THEOREM TypeCorrect == Spec => []TypeOK
<1>1. IndInv => TypeOK
  <2>. SUFFICES ASSUME IndInv PROVE TypeOK
    OBVIOUS
  <2>1. ASSUME NEW r \in Rows PROVE row[r].attempts \in 0..MaxAttempts + MaxCrashes
    BY ConstantsOK DEF IndInv, TableOK, Typed
  <2>2. row \in [Rows -> [state : States, attempts : 0..MaxAttempts + MaxCrashes]]
    BY <2>1 DEF IndInv, TableOK
  <2>. QED
    BY <2>2 DEF IndInv, Typed, TableOK, SnapOK, TxnOK, BatchOK, TypeOK, States
<1>. QED
  BY <1>1, Inductive, PTL

\* The rows the worker read before its posts are still the rows in "delivering"
\* when it records the outcomes (app.py:115-138).
THEOREM BatchIsCurrent == Spec => []BatchIsWhatIsDelivering
<1>1. IndInv => BatchIsWhatIsDelivering
  BY DEF IndInv, BatchOK, BatchIsWhatIsDelivering
<1>. QED
  BY <1>1, Inductive, PTL

\* No event leaves the process for a change that was rolled back or may yet be.
THEOREM PostsAreOfCommittedChanges == Spec => []OnlyCommittedChangesArePosted
<1>1. IndInv => OnlyCommittedChangesArePosted
  BY DEF IndInv, HistoryOK, OnlyCommittedChangesArePosted
<1>. QED
  BY <1>1, Inductive, PTL

\* Only a crash, a reset or a restore lets a receiver see a row again that it
\* has accepted, and each of them once.
THEOREM AcknowledgedOnceEach == Spec => []AcknowledgedOnce
<1>1. IndInv => AcknowledgedOnce
  BY DEF IndInv, HistoryOK, Typed, AcknowledgedOnce
<1>. QED
  BY <1>1, Inductive, PTL
-----------------------------------------------------------------------------
(* What the steps that write the table do to a row, and the refinement.    *)

LEMMA CommitMoves ==
  ASSUME IndInv, CommitRequest
  PROVE  \A r \in Rows : IF r \in ToSet(txn)
           THEN row[r].state = "none" /\ row'[r].state = "pending" /\ row'[r].attempts = 0
           ELSE row'[r] = row[r]
<1>1. ASSUME NEW r \in Rows, r \in ToSet(txn) PROVE row[r].state = "none"
  BY <1>1 DEF ToSet, IndInv, TxnOK, TableOK
<1>. QED
  BY <1>1 DEF CommitRequest

LEMMA RecoverMoves ==
  ASSUME IndInv, WorkerRecover
  PROVE  \A r \in Rows : IF row[r].state = "delivering"
           THEN row'[r].state = "pending" /\ row'[r].attempts = row[r].attempts
           ELSE row'[r] = row[r]
<1>1. row \in [Rows -> [state : States, attempts : Nat]]
  BY DEF IndInv, TableOK
<1>. QED
  BY <1>1 DEF WorkerRecover, Delivering

LEMMA ClaimMoves ==
  ASSUME IndInv, WorkerClaim
  PROVE  \A r \in Rows : \/ row'[r] = row[r]
                         \/ /\ row[r].state = "pending" /\ row'[r].state = "delivering"
                            /\ row'[r].attempts = row[r].attempts + 1
<1>. DEFINE n == IF Len(dueQ) < Limit THEN Len(dueQ) ELSE Limit
            claimed == SubSeq(dueQ, 1, n)
<1>1. dueQ \in Seq(Rows) /\ IsInjective(dueQ) /\ n \in 0..Len(dueQ)
  BY ConstantsOK, LenProperties DEF IndInv, TableOK
<1>2. row' = [r \in Rows |-> IF r \in ToSet(claimed)
                THEN [state |-> "delivering", attempts |-> row[r].attempts + 1] ELSE row[r]]
  BY DEF WorkerClaim
<1>. HIDE DEF n
<1>3. \A i \in DOMAIN claimed : i \in DOMAIN dueQ /\ claimed[i] = dueQ[i]
  BY <1>1, SplitOK
<1>. HIDE DEF claimed
<1>4. \A r \in ToSet(claimed) : row[r].state = "pending"
  BY <1>3 DEF ToSet, IndInv, TableOK
<1>. QED
  BY <1>2, <1>4

LEMMA RecordMoves ==
  ASSUME IndInv, WorkerRecord
  PROVE  LET r == Head(batch) IN
         /\ r \in Rows /\ row[r].state = "delivering"
         /\ row'[r].state \in {"pending", "failed", "delivered"}
         /\ row'[r].state = "delivered" => acks[r] > 0
         /\ row'[r].attempts = row[r].attempts
         /\ row'[r].state = "pending" => ~(row[r].attempts >= MaxAttempts)
         /\ \A s \in Rows : s # r => row'[s] = row[s]
<1>. DEFINE r == Head(batch)
<1>1. r \in Rows /\ row[r].state = "delivering"
  BY HeadOK DEF WorkerRecord
<1>2. row' = [row EXCEPT ![r].state = Outcome(r, reply)]
  BY <1>1 DEF WorkerRecord, Absent
<1>3. reply = "ok" => acks[r] > 0
  BY DEF IndInv, BatchOK
<1>. HIDE DEF r
<1>4. /\ Outcome(r, reply) \in {"pending", "delivered", "failed"}
      /\ Outcome(r, reply) = "delivered" => reply = "ok"
      /\ Outcome(r, reply) = "pending" => ~(row[r].attempts >= MaxAttempts)
  BY DEF Outcome
<1>5. row \in [Rows -> [state : States, attempts : Nat]]
  BY DEF IndInv, TableOK
<1>. QED
  BY <1>1, <1>2, <1>3, <1>4, <1>5 DEF r

\* A row that is delivered or failed stays so, whatever the worker, the requests
\* and crashes do; only a reset or a restore changes it.
THEOREM SettledStays == Spec => SettledForGood
<1>1. ASSUME IndInv, [Next]_vars, NEW r \in Rows, Settled(r), wipes' = wipes
      PROVE  row'[r] = row[r]
  <2>1. ~RestoreSnapshot /\ ~Reset
    BY <1>1 DEF RestoreSnapshot, Reset, IndInv, Typed
  <2>2. CASE CommitRequest
    BY <1>1, <2>2, CommitMoves DEF Settled
  <2>3. CASE WorkerRecover
    BY <1>1, <2>3, RecoverMoves DEF Settled
  <2>4. CASE WorkerClaim
    BY <1>1, <2>4, ClaimMoves DEF Settled
  <2>5. CASE WorkerRecord
    BY <1>1, <2>5, RecordMoves DEF Settled
  <2>6. CASE WorkerPost \/ WorkerSleep \/ BeginRequest \/ RollbackRequest \/ TakeSnapshot \/ Crash
             \/ UNCHANGED vars
    BY <2>6 DEF WorkerPost, WorkerSleep, BeginRequest, RollbackRequest, TakeSnapshot, Crash,
       vars, outboxVars
  <2>7. ASSUME NEW m \in Mutations, Enqueue(m) \/ EnqueueRaises(m) PROVE row'[r] = row[r]
    BY <2>7 DEF Enqueue, EnqueueRaises, outboxVars
  <2>8. ASSUME NEW h \in Hooks, Register(h) \/ Unregister(h) \/ Expire(h) PROVE row'[r] = row[r]
    BY <2>8 DEF Register, Unregister, Expire, outboxVars
  <2>9. ASSUME NEW s \in Rows, BecomeDue(s) PROVE row'[r] = row[r]
    BY <2>9 DEF BecomeDue
  <2>. QED
    BY <1>1, <2>1, <2>2, <2>3, <2>4, <2>5, <2>6, <2>7, <2>8, <2>9 DEF Next, Worker
<1>2. IndInv /\ [Next]_vars =>
        [\A r \in Rows : Settled(r) /\ wipes' = wipes => row'[r] = row[r]]_vars
  BY <1>1
<1>. QED
  BY <1>2, Inductive, PTL DEF Spec, SettledForGood
-----------------------------------------------------------------------------
(* The bound on posts.  It is inductive once the posts a row may still have *)
(* are counted with those it had: a claim turns a post to come into a claim *)
(* for one, and a crash gives back at most the one that was under way.      *)

AtLeast(least, n) == IF n < least THEN least ELSE n

\* The posts row r may still have if nothing crashes and nobody wipes.
Left(r) ==
  LET more == MaxAttempts - row[r].attempts IN
  CASE row[r].state = "none" -> MaxAttempts
    [] row[r].state \in {"delivered", "failed"} -> 0
    [] row[r].state = "delivering" /\ holder = "worker" ->
         IF reply # "none" /\ r = Head(batch) THEN AtLeast(0, more) ELSE 1 + AtLeast(0, more)
    [] OTHER -> AtLeast(1, more)

Allowed == MaxAttempts * (1 + wipes)

PostsInd == \A r \in Rows : posts[r] + Left(r) <= Allowed + crashes

\* Left, by the row's state.
LeftByState ==
  \A r \in Rows :
    LET more == MaxAttempts - row[r].attempts IN
    /\ row[r].attempts \in Nat /\ row[r].state \in States
    /\ row[r].state = "none" => Left(r) = MaxAttempts
    /\ row[r].state \in {"delivered", "failed"} => Left(r) = 0
    /\ row[r].state = "pending" => Left(r) = AtLeast(1, more)
    /\ row[r].state = "delivering" =>
         Left(r) = IF holder # "worker" THEN AtLeast(1, more)
                   ELSE IF reply # "none" /\ r = Head(batch) THEN AtLeast(0, more)
                   ELSE 1 + AtLeast(0, more)

\* Left is never negative, and within the limit unless the worker holds the row.
Counts ==
  /\ crashes \in Nat /\ wipes \in Nat /\ Allowed \in Nat
  /\ \A r \in Rows : posts[r] \in Nat /\ Left(r) \in Nat
  /\ holder # "worker" => \A r \in Rows : Left(r) <= MaxAttempts

LEMMA LeftIs == IndInv => LeftByState /\ Counts
<1>1. IndInv => LeftByState
  <2>. SUFFICES ASSUME IndInv PROVE LeftByState
    OBVIOUS
  <2>1. \A r \in Rows : row[r].attempts \in Nat /\ row[r].state \in States
    BY DEF IndInv, TableOK
  <2>. QED
    BY <2>1 DEF LeftByState, Left, States
<1>2. IndInv /\ LeftByState => Counts
  <2>1. LeftByState => \A r \in Rows : Left(r) \in Nat /\ (holder # "worker" => Left(r) <= MaxAttempts)
    BY ConstantsOK DEF LeftByState, AtLeast, States
  <2>2. IndInv => /\ crashes \in Nat /\ wipes \in Nat /\ Allowed \in Nat
                  /\ \A r \in Rows : posts[r] \in Nat
    BY ConstantsOK DEF IndInv, Typed, Allowed
  <2>. QED
    BY <2>1, <2>2 DEF Counts
<1>. QED
  BY <1>1, <1>2

LEMMA LeftIsNext == IndInv' => LeftByState' /\ Counts'
  BY LeftIs, PTL

\* A step that posts nothing and raises what is left by no more than the crashes.
LEMMA PostsKept ==
  ASSUME IndInv, PostsInd, UNCHANGED <<posts, wipes>>,
         \A r \in Rows : Left(r)' <= Left(r) + (crashes' - crashes),
         IndInv'
  PROVE  PostsInd'
<1>. SUFFICES ASSUME NEW r \in Rows PROVE posts'[r] + Left(r)' <= Allowed' + crashes'
  BY DEF PostsInd
<1>1. Left(r) \in Nat /\ Left(r)' \in Nat /\ crashes \in Nat /\ crashes' \in Nat
      /\ Allowed \in Nat /\ posts[r] \in Nat
  BY LeftIs, LeftIsNext DEF Counts
<1>2. Allowed' = Allowed /\ posts'[r] = posts[r]
  BY DEF Allowed
<1>. QED
  BY <1>1, <1>2 DEF PostsInd

\* A restore and a reset: as many posts more as a row can be given.
LEMMA WipeAllows ==
  ASSUME IndInv, IndInv', PostsInd, wipes' = wipes + 1, UNCHANGED <<posts, crashes, holder>>,
         holder = "nobody"
  PROVE  PostsInd'
<1>. SUFFICES ASSUME NEW r \in Rows PROVE posts'[r] + Left(r)' <= Allowed' + crashes'
  BY DEF PostsInd
<1>1. /\ Left(r) \in Nat /\ Left(r)' \in Nat /\ Left(r)' <= MaxAttempts
      /\ crashes \in Nat /\ wipes \in Nat /\ Allowed \in Nat /\ posts[r] \in Nat
  BY LeftIs, LeftIsNext DEF Counts
<1>2. Allowed' = Allowed + MaxAttempts
  <2>1. \A m, w \in Nat : m * (1 + (w + 1)) = m * (1 + w) + m
    OBVIOUS
  <2>. QED
    BY <2>1, <1>1, ConstantsOK DEF Allowed
<1>. QED
  BY <1>1, <1>2, ConstantsOK DEF PostsInd

LEMMA PostPosts ==
  ASSUME IndInv, IndInv', PostsInd, WorkerPost
  PROVE  PostsInd'
<1>. DEFINE h == Head(batch)
<1>. SUFFICES ASSUME NEW r \in Rows PROVE posts'[r] + Left(r)' <= Allowed' + crashes'
  BY DEF PostsInd
<1>1. h \in Rows /\ row[h].state = "delivering"
  BY HeadOK DEF WorkerPost
<1>2. /\ UNCHANGED <<row, batch, holder, crashes, wipes>>
      /\ holder = "worker" /\ reply = "none" /\ reply' # "none"
      /\ posts' = [posts EXCEPT ![h] = posts[h] + 1]
  BY DEF WorkerPost, outboxVars
<1>3. posts \in [Rows -> Nat]
  BY DEF IndInv, Typed
<1>4. posts'[r] = IF r = h THEN posts[r] + 1 ELSE posts[r]
  BY <1>1, <1>2, <1>3
<1>5. Left(r)' = IF r = h THEN Left(r) - 1 ELSE Left(r)
  BY <1>1, <1>2, LeftIs, LeftIsNext, ConstantsOK DEF LeftByState, AtLeast, States
<1>6. Left(r) \in Nat /\ crashes \in Nat /\ Allowed \in Nat /\ posts[r] \in Nat
  BY LeftIs DEF Counts
<1>7. Allowed' = Allowed
  BY <1>2 DEF Allowed
<1>. HIDE DEF h
<1>. QED
  BY <1>2, <1>4, <1>5, <1>6, <1>7 DEF PostsInd

\* Every other step leaves what is left, or less of it; a crash may give one back.
LEMMA LeftKept ==
  ASSUME IndInv, IndInv', [Next]_vars, ~WorkerPost, UNCHANGED wipes
  PROVE  UNCHANGED posts /\ \A r \in Rows : Left(r)' <= Left(r) + (crashes' - crashes)
<1>. SUFFICES ASSUME NEW r \in Rows
              PROVE  UNCHANGED posts /\ Left(r)' <= Left(r) + (crashes' - crashes)
  <2>. SUFFICES ASSUME Rows = {} PROVE UNCHANGED posts
    OBVIOUS
  <2>1. posts \in [Rows -> Nat] /\ posts' \in [Rows -> Nat]
    BY DEF IndInv, Typed
  <2>. QED
    BY <2>1
<1>1. ~RestoreSnapshot /\ ~Reset
  BY DEF RestoreSnapshot, Reset, IndInv, Typed
<1>2. /\ Left(r) \in Nat /\ Left(r)' \in Nat /\ crashes \in Nat
      /\ row[r].attempts \in Nat /\ row[r].state \in States
      /\ row'[r].attempts \in Nat /\ row'[r].state \in States
  BY LeftIs, LeftIsNext DEF Counts, LeftByState
<1>3. CASE CommitRequest
  <2>1. UNCHANGED <<reply, batch, posts, crashes>> /\ holder # "worker" /\ holder' # "worker"
    BY <1>3 DEF CommitRequest, workerVars, historyVars
  <2>. QED
    BY <1>2, <1>3, <2>1, CommitMoves, LeftIs, LeftIsNext, ConstantsOK DEF LeftByState, AtLeast, States
<1>4. CASE WorkerRecover
  <2>1. UNCHANGED <<reply, batch, posts, crashes>> /\ holder # "worker" /\ holder' # "worker"
    BY <1>4 DEF WorkerRecover, workerVars, historyVars
  <2>. QED
    BY <1>2, <1>4, <2>1, RecoverMoves, LeftIs, LeftIsNext, ConstantsOK DEF LeftByState, AtLeast, States
<1>5. CASE WorkerClaim
  <2>1. UNCHANGED <<posts, crashes>> /\ holder = "recovered" /\ holder' = "worker"
        /\ reply' = "none" /\ row[r].state # "delivering"
    BY <1>5 DEF WorkerClaim, historyVars, IndInv, BatchOK, Delivering
  <2>2. CASE row'[r] = row[r]
    BY <1>2, <2>1, <2>2, LeftIs, LeftIsNext, ConstantsOK DEF LeftByState, AtLeast, States
  <2>3. CASE row'[r] # row[r]
    BY <1>2, <1>5, <2>1, <2>3, ClaimMoves, LeftIs, LeftIsNext, ConstantsOK DEF LeftByState, AtLeast
  <2>. QED
    BY <2>2, <2>3
<1>6. CASE WorkerRecord
  <2>. DEFINE h == Head(batch)
  <2>1. UNCHANGED <<posts, crashes>> /\ holder = "worker" /\ holder' = "worker"
        /\ reply # "none" /\ reply' = "none"
    BY <1>6 DEF WorkerRecord, historyVars
  <2>2. /\ h \in Rows /\ row[h].state = "delivering"
        /\ row'[h].state \in {"pending", "failed", "delivered"}
        /\ row'[h].attempts = row[h].attempts
        /\ row'[h].state = "pending" => ~(row[h].attempts >= MaxAttempts)
        /\ \A s \in Rows : s # h => row'[s] = row[s]
    BY <1>6, RecordMoves
  <2>3. CASE r = h
    BY <1>2, <2>1, <2>2, <2>3, LeftIs, LeftIsNext, ConstantsOK DEF LeftByState, AtLeast
  <2>4. CASE r # h
    BY <1>2, <2>1, <2>2, <2>4, LeftIs, LeftIsNext, ConstantsOK DEF LeftByState, AtLeast, States
  <2>. QED
    BY <2>3, <2>4
<1>7. CASE Crash
  <2>1. UNCHANGED <<row, posts>> /\ holder' # "worker" /\ crashes' = crashes + 1
    BY <1>7 DEF Crash, Abandon, outboxVars
  <2>. QED
    BY <1>2, <2>1, LeftIs, LeftIsNext, ConstantsOK DEF LeftByState, AtLeast, States
<1>8. CASE WorkerSleep
  <2>1. UNCHANGED <<row, posts, crashes>> /\ row[r].state # "delivering"
    BY <1>8 DEF WorkerSleep, outboxVars, historyVars, IndInv, BatchOK, Delivering, ToSet
  <2>. QED
    BY <1>2, <2>1, LeftIs, LeftIsNext DEF LeftByState, AtLeast, States
<1>9. CASE /\ UNCHANGED <<row, batch, reply, posts, crashes>>
           /\ holder' = holder \/ "worker" \notin {holder, holder'}
  BY <1>2, <1>9, LeftIs, LeftIsNext DEF LeftByState, AtLeast, States
<1>10. CASE BeginRequest \/ RollbackRequest \/ TakeSnapshot \/ UNCHANGED vars
  <2>1. /\ UNCHANGED <<row, batch, reply, posts, crashes>>
        /\ holder' = holder \/ "worker" \notin {holder, holder'}
    BY <1>10 DEF BeginRequest, RollbackRequest, Abandon, TakeSnapshot, vars, outboxVars,
       historyVars, workerVars
  <2>. QED
    BY <1>9, <2>1
<1>11. ASSUME NEW m \in Mutations, Enqueue(m) \/ EnqueueRaises(m)
       PROVE  UNCHANGED posts /\ Left(r)' <= Left(r) + (crashes' - crashes)
  <2>1. /\ UNCHANGED <<row, batch, reply, posts, crashes>>
        /\ holder' = holder \/ "worker" \notin {holder, holder'}
    BY <1>11 DEF Enqueue, EnqueueRaises, Abandon, outboxVars, historyVars, workerVars
  <2>. QED
    BY <1>9, <2>1
<1>12. ASSUME NEW h \in Hooks, Register(h) \/ Unregister(h) \/ Expire(h)
       PROVE  UNCHANGED posts /\ Left(r)' <= Left(r) + (crashes' - crashes)
  <2>1. UNCHANGED <<row, batch, reply, posts, crashes, holder>>
    BY <1>12 DEF Register, Unregister, Expire, outboxVars, historyVars, workerVars
  <2>. QED
    BY <1>9, <2>1
<1>13. ASSUME NEW s \in Rows, BecomeDue(s)
       PROVE  UNCHANGED posts /\ Left(r)' <= Left(r) + (crashes' - crashes)
  <2>1. UNCHANGED <<row, batch, reply, posts, crashes, holder>>
    BY <1>13 DEF BecomeDue, historyVars, workerVars
  <2>. QED
    BY <1>9, <2>1
<1>. QED
  BY <1>1, <1>3, <1>4, <1>5, <1>6, <1>7, <1>8, <1>10, <1>11, <1>12, <1>13 DEF Next, Worker

\* The receiver of a row is posted it no more often than the limit allows, once
\* more for each crash, and as often again for each reset or restore.
THEOREM PostsAreBounded == Spec => []PostsBounded
<1>1. ASSUME Init PROVE PostsInd
  <2>1. IndInv
    BY <1>1, InitOK
  <2>2. \A r \in Rows : posts[r] = 0 /\ row[r].state = "none" /\ wipes = 0 /\ crashes = 0
    BY <1>1 DEF Init, Absent
  <2>. QED
    BY <2>1, <2>2, LeftIs, ConstantsOK DEF LeftByState, PostsInd, Allowed
<1>2. ASSUME IndInv, IndInv', PostsInd, [Next]_vars PROVE PostsInd'
  <2>1. CASE WorkerPost
    BY <1>2, <2>1, PostPosts
  <2>2. CASE RestoreSnapshot \/ Reset
    BY <1>2, <2>2, WipeAllows DEF RestoreSnapshot, Reset
  <2>3. CASE UNCHANGED wipes /\ ~WorkerPost
    BY <1>2, <2>3, LeftKept, PostsKept
  <2>4. ~RestoreSnapshot /\ ~Reset => UNCHANGED wipes
    BY <1>2 DEF Next, vars, Worker, WorkerRecover, WorkerClaim, WorkerPost, WorkerRecord,
       WorkerSleep, BeginRequest, RollbackRequest, CommitRequest, TakeSnapshot, Crash, Enqueue,
       EnqueueRaises, Register, Unregister, Expire, BecomeDue, historyVars
  <2>. QED
    BY <2>1, <2>2, <2>3, <2>4
<1>3. ASSUME IndInv, PostsInd PROVE PostsBounded
  <2>. SUFFICES ASSUME NEW r \in Rows PROVE posts[r] <= MaxAttempts * (1 + wipes) + crashes
    BY DEF PostsBounded
  <2>1. Left(r) \in Nat /\ Allowed \in Nat /\ crashes \in Nat /\ posts[r] \in Nat
    BY <1>3, LeftIs DEF Counts
  <2>2. posts[r] + Left(r) <= Allowed + crashes
    BY <1>3 DEF PostsInd
  <2>3. posts[r] <= Allowed + crashes
    BY <2>1, <2>2
  <2>. QED
    BY <2>3 DEF Allowed
<1>. QED
  BY <1>1, <1>2, <1>3, Inductive, PTL DEF Spec
-----------------------------------------------------------------------------
\* EventDelivery's view of row r and of the table.
View(r) == IF row[r].state \in {"pending", "delivering"} THEN "owed" ELSE row[r].state
Status == [r \in Rows |-> View(r)]
Accepted == {r \in Rows : acks[r] > 0}

\* No view of a row changes: EventDelivery stutters.
LEMMA StutterView ==
  ASSUME \A r \in Rows : View(r)' = View(r), UNCHANGED acks
  PROVE  UNCHANGED Delivery!vars
<1>1. Status' = Status /\ Accepted' = Accepted
  BY DEF Status, Accepted
<1>. QED
  BY <1>1 DEF Delivery!vars, Status, Accepted, View

\* A committed request publishes the events it added.
LEMMA CommitPublishes ==
  ASSUME IndInv, CommitRequest
  PROVE  Delivery!Publish
<1>1. Accepted' = Accepted
  BY DEF CommitRequest, historyVars, Accepted
<1>2. \A r \in Rows : /\ View(r)' = IF r \in ToSet(txn) THEN "owed" ELSE View(r)
                      /\ r \in ToSet(txn) => View(r) = "none"
  BY CommitMoves DEF View
<1>3. ToSet(txn) \in SUBSET Rows
  BY ElementOfSeq, LenProperties DEF IndInv, TxnOK, ToSet
<1>4. /\ ToSet(txn) \in SUBSET {d \in Rows : Status[d] = "none"}
      /\ Status' = [d \in Rows |-> IF d \in ToSet(txn) THEN "owed" ELSE Status[d]]
  BY <1>2, <1>3 DEF Status
<1>. QED
  BY <1>1, <1>4 DEF Delivery!Publish, Status, Accepted, View

\* A restore and a reset rewind.
LEMMA WipeRewinds ==
  ASSUME IndInv', UNCHANGED acks
  PROVE  Delivery!Rewind
<1>1. Status' \in [Rows -> {"none", "owed", "delivered", "failed"}]
  <2>. SUFFICES ASSUME NEW r \in Rows PROVE View(r)' \in {"none", "owed", "delivered", "failed"}
    BY DEF Status
  <2>1. row'[r].state \in States
    BY DEF IndInv, TableOK
  <2>. QED
    BY <2>1 DEF View, States
<1>2. \A r \in Rows : Status'[r] = "delivered" => r \in Accepted
  BY DEF IndInv, TableOK, Status, View, Accepted
<1>3. Accepted' = Accepted
  BY DEF Accepted
<1>. QED
  BY <1>1, <1>2, <1>3 DEF Delivery!Rewind, Status, Accepted, View

\* A post is an acceptance when the receiver says so.
LEMMA PostAccepts ==
  ASSUME IndInv, WorkerPost
  PROVE  UNCHANGED Delivery!vars \/ \E d \in Rows : Delivery!Accept(d)
<1>. DEFINE r == Head(batch)
<1>1. r \in Rows /\ View(r) = "owed" /\ Status' = Status
  BY HeadOK DEF WorkerPost, View, Status, outboxVars
<1>2. acks' = [acks EXCEPT ![r] = IF reply' = "ok" THEN acks[r] + 1 ELSE acks[r]]
  BY DEF WorkerPost
<1>3. acks \in [Rows -> Nat]
  BY DEF IndInv, Typed
<1>. HIDE DEF r
<1>4. CASE reply' = "ok"
  <2>1. Accepted' = Accepted \cup {r} /\ Status[r] = "owed"
    BY <1>1, <1>2, <1>3, <1>4 DEF Accepted, Status
  <2>. QED
    BY <1>1, <2>1 DEF Delivery!Accept, Status, Accepted, View, r
<1>5. CASE reply' # "ok"
  <2>1. acks' = acks
    BY <1>1, <1>2, <1>3, <1>5
  <2>. QED
    BY <1>1, <2>1 DEF Delivery!vars, Status, View
<1>. QED
  BY <1>4, <1>5

\* A recorded outcome delivers the event, gives it up, or changes nothing.
LEMMA RecordDelivers ==
  ASSUME IndInv, WorkerRecord
  PROVE  \/ UNCHANGED Delivery!vars
         \/ \E d \in Rows : Delivery!Deliver(d) \/ Delivery!GiveUp(d)
<1>. DEFINE r == Head(batch)
<1>1. /\ r \in Rows /\ row[r].state = "delivering"
      /\ row'[r].state \in {"pending", "failed", "delivered"}
      /\ row'[r].state = "delivered" => acks[r] > 0
      /\ \A s \in Rows : s # r => row'[s] = row[s]
  BY RecordMoves
<1>2. UNCHANGED acks /\ Accepted' = Accepted
  BY DEF WorkerRecord, historyVars, Accepted
<1>. HIDE DEF r
<1>3. CASE row'[r].state = "pending"
  BY <1>1, <1>2, <1>3, StutterView DEF View
<1>4. CASE row'[r].state # "pending"
  <2>1. /\ Status' = [Status EXCEPT ![r] = row'[r].state] /\ Status[r] = "owed"
        /\ row'[r].state = "delivered" => r \in Accepted
    BY <1>1, <1>4 DEF Status, View, Accepted
  <2>2. CASE row'[r].state = "delivered"
    BY <1>1, <1>2, <2>1, <2>2 DEF Delivery!Deliver, Status, Accepted, View
  <2>3. CASE row'[r].state = "failed"
    BY <1>1, <1>2, <2>1, <2>3 DEF Delivery!GiveUp, Status, Accepted, View
  <2>. QED
    BY <1>1, <1>4, <2>2, <2>3
<1>. QED
  BY <1>3, <1>4

\* Every step of the outbox is a step of EventDelivery or none.  (Its fairness,
\* "what is owed does not stay owed", is model-checked.)
THEOREM OutboxImplementsDelivery == Spec => StepsImplement
<1>1. Init => Delivery!Init
  BY DEF Init, Delivery!Init, Absent
<1>2. ASSUME IndInv, IndInv', [Next]_vars PROVE [Delivery!Next]_(Delivery!vars)
  <2>1. CASE CommitRequest
    BY <1>2, <2>1, CommitPublishes DEF Delivery!Next
  <2>2. CASE RestoreSnapshot \/ Reset
    BY <1>2, <2>2, WipeRewinds DEF RestoreSnapshot, Reset, Delivery!Next
  <2>3. CASE WorkerPost
    BY <1>2, <2>3, PostAccepts DEF Delivery!Next
  <2>4. CASE WorkerRecord
    BY <1>2, <2>4, RecordDelivers DEF Delivery!Next
  <2>5. CASE WorkerRecover
    BY <1>2, <2>5, RecoverMoves, StutterView DEF View, WorkerRecover, historyVars
  <2>6. CASE WorkerClaim
    BY <1>2, <2>6, ClaimMoves, StutterView DEF View, WorkerClaim, historyVars
  <2>7. CASE UNCHANGED row /\ UNCHANGED acks
    BY <2>7, StutterView DEF View
  <2>8. CASE WorkerSleep \/ BeginRequest \/ RollbackRequest \/ TakeSnapshot \/ Crash \/ UNCHANGED vars
    BY <2>7, <2>8 DEF WorkerSleep, BeginRequest, RollbackRequest, TakeSnapshot, Crash,
       vars, outboxVars, historyVars
  <2>9. ASSUME NEW m \in Mutations, Enqueue(m) \/ EnqueueRaises(m)
        PROVE  UNCHANGED row /\ UNCHANGED acks
    BY <2>9 DEF Enqueue, EnqueueRaises, outboxVars, historyVars
  <2>10. ASSUME NEW h \in Hooks, Register(h) \/ Unregister(h) \/ Expire(h)
         PROVE  UNCHANGED row /\ UNCHANGED acks
    BY <2>10 DEF Register, Unregister, Expire, outboxVars, historyVars
  <2>11. ASSUME NEW s \in Rows, BecomeDue(s) PROVE UNCHANGED row /\ UNCHANGED acks
    BY <2>11 DEF BecomeDue, historyVars
  <2>. QED
    BY <1>2, <2>1, <2>2, <2>3, <2>4, <2>5, <2>6, <2>7, <2>8, <2>9, <2>10, <2>11 DEF Next, Worker
<1>. QED
  BY <1>1, <1>2, Inductive, PTL DEF Spec, StepsImplement
=============================================================================
