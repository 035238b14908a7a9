---------------------------- MODULE ReaderProofs ----------------------------
(***************************************************************************)
(* What those who read are told, for any number of requests and issues.    *)
(* The reader of the request audit is told of every request once, for any  *)
(* size of the ring and any limits of a poll.  A search that is read page  *)
(* by page leaves out and repeats an issue only as far as others have gone *)
(* and come.  The clauses of a query agree about every issue.              *)
(***************************************************************************)
EXTENDS RequestAudit, SearchPages, JqlClauses, FiniteSetTheorems, TLAPS
-----------------------------------------------------------------------------
(* The request audit.                                                      *)

Ended == (1..begun) \ inFlight

\* What the ring holds: finitely many requests that have ended, each under
\* one number, and no number that has not been given.
RingOK ==
  /\ IsFiniteSet(entries)
  /\ \A e \in entries : e.seq <= seq /\ e.request \in Ended
  /\ \A e, f \in entries : e.request = f.request => e = f

\* The reader and the record of losses know of requests that have ended only.
HistoryOK == seen \subseteq Ended /\ lost \subseteq Ended

AuditInd == AuditTypeOK /\ RingOK /\ HistoryOK /\ EachRequestOnce

\* Nothing has begun.
LEMMA AuditInitInd == AuditInit => AuditInd
  BY FS_EmptySet DEF AuditInit, AuditInd, AuditTypeOK, RingOK, HistoryOK, EachRequestOnce,
     NothingIsSkipped, NothingIsRepeated, Requested, Since, Ended

\* A request that begins is not among those that have ended.
LEMMA BeginInd ==
  ASSUME AuditInd, BeginRequest
  PROVE  AuditInd'
<1> USE DEF AuditInd, AuditTypeOK
<1>1. Ended' = Ended
  BY DEF BeginRequest, Ended
<1>2. AuditTypeOK'
  BY DEF BeginRequest
<1>3. RingOK' /\ HistoryOK'
  BY <1>1 DEF BeginRequest, RingOK, HistoryOK
<1>4. NothingIsSkipped' /\ NothingIsRepeated'
  <2>1. Requested(Since(cursor))' = Requested(Since(cursor))
    BY DEF BeginRequest, Requested, Since
  <2> QED
    BY <1>1, <2>1 DEF BeginRequest, EachRequestOnce, NothingIsSkipped, NothingIsRepeated, Ended
<1> QED
  BY <1>2, <1>3, <1>4 DEF EachRequestOnce

\* The request that ends has a number ahead of every cursor; the entry that
\* makes room for it is lost or was seen.
LEMMA EndInd ==
  ASSUME AuditInd, NEW r \in inFlight, EndRequest(r)
  PROVE  AuditInd'
<1> USE DEF AuditInd, AuditTypeOK
<1> DEFINE new == [seq |-> seq + 1, request |-> r]
<1>1. /\ entries' = (entries \ Dropped) \cup {new}
      /\ seq' = seq + 1
      /\ lost' = lost \cup (Requested(Dropped) \ seen)
      /\ seen' = seen /\ cursor' = cursor
      /\ Dropped \subseteq entries
  BY DEF EndRequest, Numbered, Dropped
<1>2. Ended' = Ended \cup {r} /\ r \notin Ended
  BY DEF EndRequest, Ended
<1>3. r \in Nat \ {0} /\ new \in Entry
  BY DEF Entry
<1>4. Requested(Dropped) \subseteq Ended
  BY <1>1 DEF Requested, RingOK
<1>5. AuditTypeOK'
  <2>1. entries' \subseteq Entry
    BY <1>1, <1>3
  <2>2. lost' \subseteq Nat
    <3>1. Ended \subseteq Nat
      BY DEF Ended
    <3> QED
      BY <1>1, <1>4, <3>1, Zenon
  <2> QED
    BY <1>1, <2>1, <2>2 DEF EndRequest
<1>6. RingOK'
  <2>1. IsFiniteSet(entries')
    BY <1>1, FS_Difference, FS_AddElement DEF RingOK
  <2>2. \A e \in entries' : e.seq <= seq' /\ e.request \in Ended'
    <3> SUFFICES ASSUME NEW e \in entries'
                 PROVE  e.seq <= seq' /\ e.request \in Ended'
      OBVIOUS
    <3>1. CASE e \in entries
      BY <1>1, <1>2, <3>1 DEF RingOK, Entry
    <3>2. CASE e = new
      BY <1>1, <1>2, <3>2
    <3> QED
      BY <1>1, <3>1, <3>2
  <2>3. \A e, f \in entries' : e.request = f.request => e = f
    BY <1>1, <1>2 DEF RingOK
  <2> QED
    BY <2>1, <2>2, <2>3 DEF RingOK
<1>7. HistoryOK'
  BY <1>1, <1>2, <1>4 DEF HistoryOK
<1>8. NothingIsSkipped'
  <2> SUFFICES ASSUME NEW q \in Ended'
               PROVE  q \in seen' \cup lost' \cup Requested(Since(cursor))'
    BY DEF NothingIsSkipped, Ended
  <2>1. CASE q = r
    <3>1. new \in entries' /\ new.seq > cursor' /\ new.request = r
      BY <1>1
    <3> QED
      BY <2>1, <3>1 DEF Requested, Since
  <2>2. CASE q \in Ended
    <3>1. CASE q \in seen \cup lost
      BY <1>1, <3>1
    <3>2. CASE q \in Requested(Since(cursor))
      <4>1. PICK e \in entries : e.seq > cursor /\ e.request = q
        BY <3>2 DEF Requested, Since
      <4>2. CASE e \in Dropped
        BY <1>1, <4>1, <4>2 DEF Requested
      <4>3. CASE e \notin Dropped
        BY <1>1, <4>1, <4>3 DEF Requested, Since
      <4> QED
        BY <4>2, <4>3
    <3> QED
      BY <2>2, <3>1, <3>2 DEF EachRequestOnce, NothingIsSkipped, Ended
  <2> QED
    BY <1>2, <2>1, <2>2
<1>9. NothingIsRepeated'
  <2> SUFFICES ASSUME NEW e \in entries', e.seq > cursor', e.request \in seen'
               PROVE  FALSE
    BY DEF NothingIsRepeated, Requested, Since
  <2>1. CASE e \in entries
    BY <1>1, <2>1 DEF EachRequestOnce, NothingIsRepeated, Requested, Since
  <2>2. CASE e = new
    BY <1>1, <1>2, <2>2 DEF HistoryOK
  <2> QED
    BY <1>1, <2>1, <2>2
<1> QED
  BY <1>5, <1>6, <1>7, <1>8, <1>9 DEF EachRequestOnce

\* A poll without a limit leaves nothing ahead of the cursor.
LEMMA PollInd ==
  ASSUME AuditInd, Poll
  PROVE  AuditInd'
<1> USE DEF AuditInd, AuditTypeOK
<1>1. /\ seen' = seen \cup Requested(Since(cursor)) /\ cursor' = seq
      /\ UNCHANGED <<begun, inFlight, entries, seq, lost>>
  BY DEF Poll
<1>2. Requested(Since(cursor)) \subseteq Ended
  BY DEF Requested, Since, RingOK
<1>3. Ended' = Ended /\ Ended \subseteq Nat
  BY <1>1 DEF Ended
<1>4. Requested(Since(cursor))' = {}
  BY <1>1 DEF Requested, Since, RingOK, Entry
<1>5. AuditTypeOK'
  <2>1. seen' \subseteq Nat
    BY <1>1, <1>2, <1>3, Zenon
  <2> QED
    BY <1>1, <2>1
<1>6. RingOK' /\ HistoryOK'
  BY <1>1, <1>2, <1>3 DEF RingOK, HistoryOK
<1>7. NothingIsSkipped' /\ NothingIsRepeated'
  BY <1>1, <1>4 DEF EachRequestOnce, NothingIsSkipped, NothingIsRepeated
<1> QED
  BY <1>5, <1>6, <1>7 DEF EachRequestOnce

\* What lies before the last entry of a limited poll is in the poll as well.
LEMMA FirstAreAllBefore ==
  ASSUME AuditInd, NEW limit \in Nat, NEW last \in FirstOf(Since(cursor), limit),
         NEW e \in Since(cursor), e.seq <= last.seq
  PROVE  e \in FirstOf(Since(cursor), limit)
<1> DEFINE before(x) == {f \in Since(cursor) : f.seq < x.seq}
<1>1. Since(cursor) \subseteq entries /\ IsFiniteSet(Since(cursor))
  BY FS_Subset DEF Since, AuditInd, RingOK
<1>2. before(e) \subseteq before(last)
  BY <1>1 DEF AuditInd, AuditTypeOK, Entry, FirstOf
<1>3. IsFiniteSet(before(last))
  BY <1>1, FS_Subset
<1>4. Cardinality(before(e)) <= Cardinality(before(last))
      /\ Cardinality(before(e)) \in Nat /\ Cardinality(before(last)) \in Nat
  BY <1>2, <1>3, FS_Subset, FS_CardinalityType
<1>5. Cardinality(before(last)) < limit
  BY DEF FirstOf
<1> HIDE DEF before
<1>6. Cardinality(before(e)) < limit
  BY <1>4, <1>5
<1> QED
  BY <1>6 DEF before, FirstOf

\* A limited poll moves the cursor over what it returned and nothing else.
LEMMA PollSomeInd ==
  ASSUME AuditInd, NEW limit \in Limits, PollSome(limit)
  PROVE  AuditInd'
<1> USE DEF AuditInd, AuditTypeOK
<1> DEFINE page == FirstOf(Since(cursor), limit)
<1>0. limit \in Nat
  BY AuditAssumption
<1>1. PICK last \in page :
        (\A e \in page : e.seq <= last.seq) /\ cursor' = last.seq
  BY DEF PollSome
<1>2. seen' = seen \cup Requested(page) /\ UNCHANGED <<begun, inFlight, entries, seq, lost>>
  BY DEF PollSome
<1>3. page \subseteq Since(cursor) /\ Since(cursor) \subseteq entries
  BY DEF FirstOf, Since
<1>4. last.seq \in Nat /\ last.seq <= seq /\ last.seq > cursor
  BY <1>3 DEF Entry, RingOK, Since
<1>5. Requested(page) \subseteq Ended
  BY <1>3 DEF Requested, RingOK
<1>6. Ended' = Ended /\ Ended \subseteq Nat
  BY <1>2 DEF Ended
<1>7. \A e \in Since(cursor) : e.seq <= last.seq => e \in page
  BY <1>0, <1>1, FirstAreAllBefore
<1> HIDE DEF page
<1>8. AuditTypeOK'
  <2>1. seen' \subseteq Nat
    BY <1>2, <1>5, <1>6, Zenon
  <2>2. cursor' \in 0..seq'
    BY <1>1, <1>2, <1>4
  <2> QED
    BY <1>2, <2>1, <2>2
<1>9. RingOK' /\ HistoryOK'
  BY <1>2, <1>5, <1>6 DEF RingOK, HistoryOK
<1>10. NothingIsSkipped'
  <2> SUFFICES ASSUME NEW q \in Ended
               PROVE  q \in seen' \cup lost' \cup Requested(Since(cursor))'
    BY <1>6 DEF NothingIsSkipped, Ended
  <2>1. CASE q \in seen \cup lost
    BY <1>2, <2>1
  <2>2. CASE q \in Requested(Since(cursor))
    <3>1. PICK e \in Since(cursor) : e.request = q
      BY <2>2 DEF Requested
    <3>2. CASE e.seq <= last.seq
      BY <1>2, <1>7, <3>1, <3>2 DEF Requested
    <3>3. CASE ~(e.seq <= last.seq)
      <4>1. e \in entries' /\ e.seq > cursor'
        BY <1>1, <1>2, <1>3, <1>4, <3>3 DEF Entry
      <4> QED
        BY <3>1, <4>1 DEF Requested, Since
    <3> QED
      BY <3>2, <3>3
  <2> QED
    BY <2>1, <2>2 DEF EachRequestOnce, NothingIsSkipped, Ended
<1>11. NothingIsRepeated'
  <2> SUFFICES ASSUME NEW e \in entries, e.seq > last.seq,
                      e.request \in seen \cup Requested(page)
               PROVE  FALSE
    BY <1>1, <1>2 DEF NothingIsRepeated, Requested, Since
  <2>1. CASE e.request \in seen
    <3>1. e \in Since(cursor)
      BY <1>4 DEF Since, Entry
    <3> QED
      BY <2>1, <3>1 DEF EachRequestOnce, NothingIsRepeated, Requested
  <2>2. CASE e.request \in Requested(page)
    <3>1. PICK f \in page : f.request = e.request
      BY <2>2 DEF Requested
    <3>2. f = e
      BY <1>3, <3>1 DEF RingOK
    <3> QED
      BY <1>1, <1>4, <3>1, <3>2 DEF Entry
  <2> QED
    BY <2>1, <2>2
<1> QED
  BY <1>8, <1>9, <1>10, <1>11 DEF EachRequestOnce

\* What is cleared unread is lost, and the numbers go on.
LEMMA ClearInd ==
  ASSUME AuditInd, ClearAudit
  PROVE  AuditInd'
<1> USE DEF AuditInd, AuditTypeOK
<1>1. /\ entries' = {} /\ seq' = seq /\ lost' = lost \cup (Requested(entries) \ seen)
      /\ UNCHANGED <<begun, inFlight, cursor, seen>>
  BY DEF ClearAudit, SeqAfterClear
<1>2. Requested(entries) \subseteq Ended
  BY DEF Requested, RingOK
<1>3. Ended' = Ended /\ Ended \subseteq Nat
  BY <1>1 DEF Ended
<1>4. Requested(Since(cursor)) \subseteq Requested(entries)
  BY DEF Requested, Since
<1>5. AuditTypeOK'
  <2>1. lost' \subseteq Nat
    BY <1>1, <1>2, <1>3, Zenon
  <2> QED
    BY <1>1, <2>1
<1>6. RingOK' /\ HistoryOK'
  <2>1. RingOK'
    BY <1>1, FS_EmptySet DEF RingOK
  <2>2. lost' \subseteq Ended' /\ seen' \subseteq Ended'
    BY <1>1, <1>2, <1>3, Zenon DEF HistoryOK
  <2> QED
    BY <2>1, <2>2 DEF HistoryOK
<1>7. NothingIsSkipped' /\ NothingIsRepeated'
  BY <1>1, <1>4 DEF EachRequestOnce, NothingIsSkipped, NothingIsRepeated, Requested, Since
<1> QED
  BY <1>5, <1>6, <1>7 DEF EachRequestOnce

\* One lemma for each operation.
LEMMA AuditStep == AuditInd /\ [AuditNext]_auditVars => AuditInd'
<1> SUFFICES ASSUME AuditInd, [AuditNext]_auditVars
             PROVE  AuditInd'
  OBVIOUS
<1>1. CASE BeginRequest
  BY <1>1, BeginInd
<1>2. CASE \E r \in inFlight : EndRequest(r)
  BY <1>2, EndInd
<1>3. CASE Poll
  BY <1>3, PollInd
<1>4. CASE \E limit \in Limits : PollSome(limit)
  BY <1>4, PollSomeInd
<1>5. CASE ClearAudit
  BY <1>5, ClearInd
<1>6. CASE UNCHANGED auditVars
  BY <1>6 DEF auditVars, AuditInd, AuditTypeOK, RingOK, HistoryOK, EachRequestOnce, Ended,
     NothingIsSkipped, NothingIsRepeated, Requested, Since
<1> QED
  BY <1>1, <1>2, <1>3, <1>4, <1>5, <1>6 DEF AuditNext

LEMMA AuditInvariant == AuditSpec => []AuditInd
  BY AuditInitInd, AuditStep, PTL DEF AuditSpec

\* The audit's state is of its types, and every number in the ring was given.
THEOREM AuditTypeCorrect == AuditSpec => []AuditTypeOK
<1>1. AuditInd => AuditTypeOK
  BY DEF AuditInd
<1> QED
  BY <1>1, AuditInvariant, PTL

\* A reader that polls from the last number it was given, with or without a
\* limit, is told of every request that has ended exactly once, whatever order
\* requests end in and whoever clears the record, or it was lost unread.
THEOREM ReaderToldOnce == AuditSpec => []EachRequestOnce
<1>1. AuditInd => EachRequestOnce
  BY DEF AuditInd
<1> QED
  BY <1>1, AuditInvariant, PTL
-----------------------------------------------------------------------------
(* A search that is read page by page.                                     *)

\* How many issues the search finds before issue i.
Place(i) == Cardinality(Ahead(found, i))

PagesTypeOK ==
  /\ found \subseteq FoundIssues /\ stayed \subseteq found
  /\ came \subseteq FoundIssues /\ went \subseteq FoundIssues
  /\ offset \in Nat /\ read \in [FoundIssues -> Nat] /\ walking \in BOOLEAN

\* While nothing before it has gone, what the offset has passed was read.
PassedIsRead == \A i \in stayed : Ahead(went, i) = {} /\ Place(i) < offset => read[i] >= 1

\* What was read is passed: the offset counts its readings and, besides, the
\* issues before it that have been there all along.  So it is read again only
\* when others have come between them and it.
ReadIsPassed ==
  \A i \in stayed :
    /\ read[i] >= 1 => read[i] + Cardinality(Ahead(found, i) \ came) <= offset
    /\ read[i] <= 1 + Cardinality(Ahead(came, i))

\* The last page ends at the last issue.
AllPassed == ~walking => offset >= Cardinality(found)

PagesInd == PagesTypeOK /\ PassedIsRead /\ ReadIsPassed /\ AllPassed
-----------------------------------------------------------------------------
(* Places in a finite set of numbers.                                      *)

LEMMA AheadFinite ==
  ASSUME NEW S \in SUBSET FoundIssues
  PROVE  /\ S \subseteq Nat /\ IsFiniteSet(S) /\ Cardinality(S) \in Nat
         /\ \A i, T : /\ IsFiniteSet(Ahead(S, i)) /\ Cardinality(Ahead(S, i)) \in Nat
                      /\ IsFiniteSet(Ahead(S, i) \ T) /\ Cardinality(Ahead(S, i) \ T) \in Nat
                      /\ Cardinality(Ahead(S, i) \ T) <= Cardinality(Ahead(S, i))
                      /\ Cardinality(Ahead(S, i)) <= Cardinality(S)
<1>1. S \subseteq Nat /\ IsFiniteSet(S)
  BY PagesAssumption, FS_Subset
<1>2. \A i, T : Ahead(S, i) \in SUBSET S /\ (Ahead(S, i) \ T) \in SUBSET Ahead(S, i)
  BY DEF Ahead
<1> QED
  BY <1>1, <1>2, FS_Subset, FS_CardinalityType

\* Adding issues adds places.
LEMMA AheadMonotone ==
  ASSUME NEW S \in SUBSET FoundIssues, NEW T \in SUBSET S, NEW i
  PROVE  Cardinality(Ahead(T, i)) <= Cardinality(Ahead(S, i))
<1>1. Ahead(T, i) \in SUBSET Ahead(S, i) /\ IsFiniteSet(Ahead(S, i))
  BY AheadFinite DEF Ahead
<1> QED
  BY <1>1, FS_Subset

\* Later issues have greater places, and smaller ones than the number of issues.
LEMMA PlacesGrow ==
  ASSUME PagesTypeOK
  PROVE  /\ \A i, j \in found : i < j => Place(i) < Place(j)
         /\ \A i \in found : Place(i) \in Nat /\ Place(i) < Cardinality(found)
<1>1. /\ found \subseteq Nat /\ IsFiniteSet(found) /\ Cardinality(found) \in Nat
      /\ \A i : IsFiniteSet(Ahead(found, i)) /\ Place(i) \in Nat
  BY AheadFinite DEF PagesTypeOK, Place
<1>2. ASSUME NEW S, IsFiniteSet(S), NEW T \in SUBSET S, NEW x \in S, x \notin T
      PROVE  Cardinality(T) < Cardinality(S)
  <2>1. /\ Cardinality(T) <= Cardinality(S)
        /\ Cardinality(S) = Cardinality(T) => S = T
        /\ IsFiniteSet(T)
    BY <1>2, FS_Subset
  <2>2. Cardinality(T) \in Nat /\ Cardinality(S) \in Nat
    BY <1>2, <2>1, FS_CardinalityType
  <2> QED
    BY <1>2, <2>1, <2>2
<1>3. ASSUME NEW i \in found, NEW j \in found, i < j PROVE Place(i) < Place(j)
  <2>1. i \in Nat /\ j \in Nat /\ \A k \in found : k \in Nat
    BY <1>1
  <2>2. /\ \A k \in found : k < i => k < j
        /\ ~(i < i)
    BY <2>1, <1>3
  <2>3. Ahead(found, i) \in SUBSET Ahead(found, j) /\ i \in Ahead(found, j) /\ i \notin Ahead(found, i)
    BY <2>2, <1>3, Zenon DEF Ahead
  <2> QED
    BY <1>1, <1>2, <2>3 DEF Place
<1>4. ASSUME NEW i \in found PROVE Place(i) < Cardinality(found)
  <2>1. Ahead(found, i) \in SUBSET found /\ i \notin Ahead(found, i)
    BY <1>1 DEF Ahead
  <2> QED
    BY <1>1, <1>2, <2>1 DEF Place
<1> QED
  BY <1>1, <1>3, <1>4

\* Between two places there are no more issues than numbers.
LEMMA PlacedWithin ==
  ASSUME PagesTypeOK, NEW low \in Nat, NEW n \in Nat
  PROVE  LET T == {i \in found : low <= Place(i) /\ Place(i) < low + n} IN
         IsFiniteSet(T) /\ Cardinality(T) \in Nat /\ Cardinality(T) <= n
<1> DEFINE T == {i \in found : low <= Place(i) /\ Place(i) < low + n}
           f == [i \in T |-> Place(i)]
<1>1. found \subseteq Nat
  BY AheadFinite DEF PagesTypeOK
<1>2. \A i \in T : Place(i) \in low..low + n - 1
  BY PlacesGrow
<1>3. \A i, j \in T : Place(i) = Place(j) => i = j
  <2> TAKE i, j \in T
  <2>1. i \in found /\ j \in found /\ i \in Nat /\ j \in Nat
    BY <1>1
  <2>2. i < j \/ j < i \/ i = j
    BY <2>1
  <2> QED
    BY <2>1, <2>2, PlacesGrow
<1>4. f \in Injection(T, low..low + n - 1)
  BY <1>2, <1>3 DEF Injection, IsInjective
<1>5. /\ IsFiniteSet(low..low + n - 1)
      /\ Cardinality(low..low + n - 1) = n
  <2>1. low \in Int /\ low + n - 1 \in Int
    OBVIOUS
  <2> QED
    BY <2>1, FS_Interval
<1> HIDE DEF T, f
<1>6. IsFiniteSet(T) /\ Cardinality(T) <= n
  BY <1>4, <1>5, FS_Injection
<1> QED
  BY <1>6, FS_CardinalityType DEF T

\* A page holds no more than its size, and the next one begins after each issue
\* of it.
LEMMA PageIs ==
  ASSUME PagesTypeOK, NEW size \in Nat
  PROVE  /\ Page(size) \subseteq found /\ Cardinality(Page(size)) \in 0..size
         /\ \A i \in found : i \in Page(size) <=> offset <= Place(i) /\ Place(i) < offset + size
         /\ \A i \in Page(size) : Place(i) < NextOffset(size) /\ offset < NextOffset(size)
<1>1. Page(size) = {i \in found : offset <= Place(i) /\ Place(i) < offset + size}
  BY DEF Page, Place, Ahead
<1>2. offset \in Nat
  BY DEF PagesTypeOK
<1>3. /\ IsFiniteSet(Page(size)) /\ Cardinality(Page(size)) \in Nat
      /\ Cardinality(Page(size)) <= size
  BY <1>1, <1>2, PlacedWithin
<1>4. ASSUME NEW i \in Page(size)
      PROVE  Place(i) < offset + Cardinality(Page(size)) /\ 0 < Cardinality(Page(size))
  <2> DEFINE low == {j \in found : 0 <= Place(j) /\ Place(j) < 0 + offset}
             page == Page(size) \ {i}
  <2>1. IsFiniteSet(low) /\ Cardinality(low) \in Nat /\ Cardinality(low) <= offset
    BY <1>2, PlacedWithin
  <2>2. IsFiniteSet(page) /\ Cardinality(page) = Cardinality(Page(size)) - 1
    BY <1>3, <1>4, FS_RemoveElement
  <2>3. Ahead(found, i) \in SUBSET (low \cup page)
    <3> SUFFICES ASSUME NEW j \in found, j < i PROVE j \in low \/ j \in page
      BY DEF Ahead
    <3>1. /\ i \in found /\ Place(j) < Place(i) /\ Place(j) \in Nat /\ Place(i) \in Nat
          /\ Place(i) < offset + size /\ i \in Nat /\ j \in Nat
      BY <1>1, PlacesGrow, AheadFinite DEF PagesTypeOK
    <3> QED
      BY <1>1, <1>2, <3>1
  <2> HIDE DEF low, page
  <2>4. /\ IsFiniteSet(low \cup page)
        /\ Cardinality(low \cup page) = Cardinality(low) + Cardinality(page) - Cardinality(low \cap page)
        /\ Cardinality(low \cap page) \in Nat
    <3>1. IsFiniteSet(low \cap page)
      BY <2>1, FS_Subset
    <3> QED
      BY <2>1, <2>2, <3>1, FS_Union, FS_CardinalityType
  <2>5. Place(i) <= Cardinality(low \cup page) /\ Place(i) \in Nat
    BY <2>3, <2>4, FS_Subset, PlacesGrow, <1>1 DEF Place
  <2>6. Cardinality(page) \in Nat
    BY <2>2, FS_CardinalityType
  <2> QED
    BY <1>2, <1>3, <2>1, <2>2, <2>4, <2>5, <2>6
<1> QED
  BY <1>1, <1>2, <1>3, <1>4 DEF NextOffset
-----------------------------------------------------------------------------
\* The first page of a search: nothing has been read, come or gone.
LEMMA FreshInd ==
  ASSUME found' \subseteq FoundIssues, stayed' = found', came' = {}, went' = {}, offset' = 0,
         read' = [i \in FoundIssues |-> 0], walking' = TRUE
  PROVE  PagesInd'
<1>1. PagesTypeOK'
  BY DEF PagesTypeOK
<1>2. \A i : /\ Cardinality(Ahead(found', i)) \in Nat
             /\ Cardinality(Ahead(came', i)) \in Nat
  BY AheadFinite
<1>3. \A i \in stayed' : read'[i] = 0
  BY <1>1 DEF PagesTypeOK
<1> QED
  BY <1>1, <1>2, <1>3 DEF PagesInd, PassedIsRead, ReadIsPassed, AllPassed, Place

LEMMA IssueComesInd ==
  ASSUME PagesInd, NEW j \in FoundIssues, IssueComes(j)
  PROVE  PagesInd'
<1>1. /\ found' = found \cup {j} /\ came' = came \cup {j} /\ j \notin found
      /\ UNCHANGED <<stayed, went, offset, read, walking>> /\ walking
  BY DEF IssueComes
<1>2. PagesTypeOK'
  BY <1>1 DEF PagesInd, PagesTypeOK
<1>3. ASSUME NEW i \in stayed
      PROVE  /\ Cardinality(Ahead(found, i)) <= Cardinality(Ahead(found', i))
             /\ Cardinality(Ahead(came, i)) <= Cardinality(Ahead(came', i))
             /\ Ahead(found', i) \ came' = (Ahead(found, i) \ came) \ {j}
             /\ Cardinality(Ahead(found', i) \ came') <= Cardinality(Ahead(found, i) \ came)
  <2>1. found \in SUBSET found' /\ came \in SUBSET came'
        /\ found' \in SUBSET FoundIssues /\ came' \in SUBSET FoundIssues
    BY <1>1, <1>2 DEF PagesTypeOK
  <2>2. Ahead(found', i) \ came' = (Ahead(found, i) \ came) \ {j}
    BY <1>1 DEF Ahead
  <2>3. IsFiniteSet(Ahead(found, i) \ came)
    BY AheadFinite DEF PagesInd, PagesTypeOK
  <2>4. Cardinality((Ahead(found, i) \ came) \ {j}) <= Cardinality(Ahead(found, i) \ came)
    BY <2>3, FS_Subset
  <2> QED
    BY <2>1, <2>2, <2>4, AheadMonotone
<1>4. ASSUME NEW i \in stayed
      PROVE  /\ Cardinality(Ahead(found, i)) \in Nat /\ Cardinality(Ahead(found', i)) \in Nat
             /\ Cardinality(Ahead(came, i)) \in Nat /\ Cardinality(Ahead(came', i)) \in Nat
             /\ Cardinality(Ahead(found, i) \ came) \in Nat
             /\ Cardinality(Ahead(found', i) \ came') \in Nat
             /\ read[i] \in Nat /\ offset \in Nat
  BY <1>2, AheadFinite DEF PagesInd, PagesTypeOK
<1>5. PassedIsRead'
  <2> SUFFICES ASSUME NEW i \in stayed, Ahead(went, i) = {}, Cardinality(Ahead(found', i)) < offset
               PROVE  read[i] >= 1
    BY <1>1 DEF PassedIsRead, Place
  <2>1. Cardinality(Ahead(found, i)) <= Cardinality(Ahead(found', i))
    BY <1>3, Zenon
  <2>2. /\ Cardinality(Ahead(found, i)) \in Nat /\ Cardinality(Ahead(found', i)) \in Nat
        /\ offset \in Nat
    BY <1>4, Zenon
  <2>3. Cardinality(Ahead(found, i)) < offset
    BY <2>1, <2>2
  <2> QED
    BY <2>3 DEF PagesInd, PassedIsRead, Place
<1>6. ReadIsPassed'
  <2> SUFFICES ASSUME NEW i \in stayed
               PROVE  /\ read[i] >= 1 => read[i] + Cardinality(Ahead(found', i) \ came') <= offset
                      /\ read[i] <= 1 + Cardinality(Ahead(came', i))
    BY <1>1 DEF ReadIsPassed
  <2>1. /\ read[i] >= 1 => read[i] + Cardinality(Ahead(found, i) \ came) <= offset
        /\ read[i] <= 1 + Cardinality(Ahead(came, i))
    BY DEF PagesInd, ReadIsPassed
  <2> QED
    BY <2>1, <1>3, <1>4
<1> QED
  BY <1>1, <1>2, <1>5, <1>6 DEF PagesInd, AllPassed

LEMMA IssueGoesInd ==
  ASSUME PagesInd, NEW j \in FoundIssues, IssueGoes(j)
  PROVE  PagesInd'
<1>1. /\ found' = found \ {j} /\ stayed' = stayed \ {j} /\ went' = went \cup {j}
      /\ UNCHANGED <<came, offset, read, walking>> /\ walking
  BY DEF IssueGoes
<1>2. PagesTypeOK'
  BY <1>1 DEF PagesInd, PagesTypeOK
<1>3. ASSUME NEW i \in stayed
      PROVE  /\ Cardinality(Ahead(found, i) \ came) \in Nat
             /\ Cardinality(Ahead(found', i) \ came) \in Nat
             /\ Cardinality(Ahead(found', i) \ came) <= Cardinality(Ahead(found, i) \ came)
             /\ read[i] \in Nat /\ offset \in Nat
  <2>1. Ahead(found', i) \ came \in SUBSET (Ahead(found, i) \ came)
    BY <1>1 DEF Ahead
  <2>2. IsFiniteSet(Ahead(found, i) \ came)
    BY AheadFinite DEF PagesInd, PagesTypeOK
  <2> QED
    BY <2>1, <2>2, FS_Subset, FS_CardinalityType DEF PagesInd, PagesTypeOK
<1>4. PassedIsRead'
  <2> SUFFICES ASSUME NEW i \in stayed', Ahead(went', i) = {}, Place(i)' < offset
               PROVE  read[i] >= 1
    BY <1>1 DEF PassedIsRead
  <2>1. i \in stayed /\ i # j /\ ~(j < i)
    BY <1>1 DEF Ahead
  <2>2. Ahead(found', i) = Ahead(found, i) /\ Ahead(went, i) = {}
    BY <1>1, <2>1 DEF Ahead
  <2> QED
    BY <2>1, <2>2 DEF PagesInd, PassedIsRead, Place
<1>5. ReadIsPassed'
  <2> SUFFICES ASSUME NEW i \in stayed
               PROVE  /\ read[i] >= 1 => read[i] + Cardinality(Ahead(found', i) \ came) <= offset
                      /\ read[i] <= 1 + Cardinality(Ahead(came, i))
    BY <1>1 DEF ReadIsPassed
  <2>1. /\ read[i] >= 1 => read[i] + Cardinality(Ahead(found, i) \ came) <= offset
        /\ read[i] <= 1 + Cardinality(Ahead(came, i))
    BY DEF PagesInd, ReadIsPassed
  <2> QED
    BY <2>1, <1>3
<1> QED
  BY <1>1, <1>2, <1>4, <1>5 DEF PagesInd, AllPassed

LEMMA ReadPageInd ==
  ASSUME PagesInd, NEW size \in PageSizes, ReadPage(size)
  PROVE  PagesInd'
<1>1. /\ read' = [i \in FoundIssues |-> read[i] + IF i \in Page(size) THEN 1 ELSE 0]
      /\ offset' = NextOffset(size)
      /\ walking' = ~(NextOffset(size) >= Cardinality(found))
      /\ UNCHANGED <<found, stayed, came, went>>
  BY DEF ReadPage, IsLast
<1>2. size \in Nat /\ PagesTypeOK
  BY PagesAssumption DEF PagesInd
<1>3. /\ Cardinality(Page(size)) \in Nat /\ Cardinality(Page(size)) <= size
      /\ \A i \in found : i \in Page(size) <=> offset <= Place(i) /\ Place(i) < offset + size
      /\ \A i \in Page(size) : Place(i) < offset' /\ offset < offset'
      /\ offset \in Nat /\ offset' = offset + Cardinality(Page(size))
  BY <1>1, <1>2, PageIs DEF NextOffset, PagesTypeOK
<1>4. \A i \in FoundIssues : read[i] \in Nat /\ read'[i] = IF i \in Page(size) THEN read[i] + 1 ELSE read[i]
  BY <1>1, <1>2 DEF PagesTypeOK
<1>5. PagesTypeOK'
  <2>1. offset' \in Nat /\ walking' \in BOOLEAN
    BY <1>1, <1>3
  <2>2. read' \in [FoundIssues -> Nat]
    BY <1>1, <1>2 DEF PagesTypeOK
  <2> QED
    BY <1>1, <1>2, <2>1, <2>2 DEF PagesTypeOK
<1>6. ASSUME NEW i \in stayed
      PROVE  /\ i \in found /\ i \in FoundIssues /\ Place(i) \in Nat /\ Place(i)' = Place(i)
             /\ Cardinality(Ahead(found, i) \ came) \in Nat
             /\ Cardinality(Ahead(found, i) \ came) <= Place(i)
             /\ Cardinality(Ahead(came, i)) \in Nat
             /\ Place(i) <= Cardinality(Ahead(found, i) \ came) + Cardinality(Ahead(came, i))
  <2>1. i \in found /\ i \in FoundIssues /\ Place(i)' = Place(i)
    BY <1>1, <1>2 DEF PagesTypeOK, Place
  <2>2. /\ found \in SUBSET FoundIssues /\ came \in SUBSET FoundIssues
    BY <1>2 DEF PagesTypeOK
  <2>3. /\ IsFiniteSet(Ahead(found, i)) /\ IsFiniteSet(Ahead(found, i) \ came)
        /\ IsFiniteSet(Ahead(came, i)) /\ Place(i) \in Nat
        /\ Cardinality(Ahead(found, i) \ came) \in Nat
        /\ Cardinality(Ahead(found, i) \ came) <= Place(i)
        /\ Cardinality(Ahead(came, i)) \in Nat
    BY <2>2, AheadFinite DEF Place
  <2>4. Place(i) <= Cardinality(Ahead(found, i) \ came) + Cardinality(Ahead(came, i))
    <3> DEFINE all == (Ahead(found, i) \ came) \cup Ahead(came, i)
               both == (Ahead(found, i) \ came) \cap Ahead(came, i)
    <3>1. Ahead(found, i) \in SUBSET all
      BY DEF Ahead
    <3>2. /\ IsFiniteSet(all)
          /\ Cardinality(all) = Cardinality(Ahead(found, i) \ came) + Cardinality(Ahead(came, i))
                                - Cardinality(both)
      BY <2>3, FS_Union
    <3>3. Cardinality(both) \in Nat
      BY <2>3, FS_Subset, FS_CardinalityType
    <3> HIDE DEF all, both
    <3>4. Place(i) <= Cardinality(all)
      BY <3>1, <3>2, FS_Subset DEF Place
    <3> QED
      BY <2>3, <3>2, <3>3, <3>4
  <2> QED
    BY <2>1, <2>3, <2>4
<1>7. PassedIsRead'
  <2> SUFFICES ASSUME NEW i \in stayed, Ahead(went, i) = {}, Place(i)' < offset'
               PROVE  read'[i] >= 1
    BY <1>1 DEF PassedIsRead
  <2>1. Place(i) < offset' /\ Place(i) \in Nat /\ i \in found
    BY <1>6
  <2>2. read[i] \in Nat /\ read'[i] = IF i \in Page(size) THEN read[i] + 1 ELSE read[i]
    BY <1>4, <1>6
  <2>3. CASE Place(i) < offset
    <3>1. read[i] >= 1
      BY <2>3 DEF PagesInd, PassedIsRead
    <3> QED
      BY <2>2, <3>1
  <2>4. CASE ~(Place(i) < offset)
    <3>1. offset <= Place(i) /\ Place(i) < offset + size
      BY <2>1, <2>4, <1>2, <1>3
    <3>2. i \in Page(size)
      BY <1>3, <2>1, <3>1, Zenon
    <3> QED
      BY <2>2, <3>2
  <2> QED
    BY <2>3, <2>4
<1>8. ReadIsPassed'
  <2> SUFFICES ASSUME NEW i \in stayed
               PROVE  /\ read'[i] >= 1 => read'[i] + Cardinality(Ahead(found, i) \ came) <= offset'
                      /\ read'[i] <= 1 + Cardinality(Ahead(came, i))
    BY <1>1 DEF ReadIsPassed
  <2>1. /\ read[i] >= 1 => read[i] + Cardinality(Ahead(found, i) \ came) <= offset
        /\ read[i] <= 1 + Cardinality(Ahead(came, i))
    BY DEF PagesInd, ReadIsPassed
  <2>2. read[i] \in Nat /\ read'[i] = IF i \in Page(size) THEN read[i] + 1 ELSE read[i]
    BY <1>4, <1>6
  <2> DEFINE old == Cardinality(Ahead(found, i) \ came)
             new == Cardinality(Ahead(came, i))
  <2>3. /\ i \in found /\ Place(i) \in Nat /\ old \in Nat /\ new \in Nat
        /\ old <= Place(i) /\ Place(i) <= old + new
    BY <1>6
  <2>4. offset \in Nat /\ offset' \in Nat /\ offset <= offset'
    BY <1>3
  <2>5. i \in Page(size) => offset <= Place(i) /\ Place(i) < offset' /\ offset < offset'
    BY <1>3, <2>3, Zenon
  <2> HIDE DEF old, new
  <2>6. /\ read[i] >= 1 => read[i] + old <= offset
        /\ read[i] <= 1 + new
    BY <2>1 DEF old, new
  <2>7. CASE i \notin Page(size)
    <3>1. read'[i] = read[i]
      BY <2>2, <2>7
    <3>2. /\ read[i] >= 1 => read[i] + old <= offset'
      BY <2>2, <2>3, <2>4, <2>6
    <3> QED
      BY <3>1, <3>2, <2>6 DEF old, new
  <2>8. CASE i \in Page(size)
    <3>1. read'[i] = read[i] + 1
      BY <2>2, <2>8
    <3>2. CASE read[i] = 0
      <4>1. 1 + old <= offset' /\ 1 <= 1 + new
        BY <2>3, <2>4, <2>5, <2>8
      <4> QED
        BY <3>1, <3>2, <4>1 DEF old, new
    <3>3. CASE read[i] >= 1
      <4>1. read[i] + 1 + old <= offset' /\ read[i] <= new
        BY <2>2, <2>3, <2>4, <2>5, <2>6, <2>8, <3>3
      <4>2. read[i] + 1 <= 1 + new
        BY <4>1, <2>2, <2>3
      <4> QED
        BY <3>1, <4>1, <4>2 DEF old, new
    <3> QED
      BY <3>2, <3>3, <2>2
  <2> QED
    BY <2>7, <2>8
<1>9. AllPassed'
  BY <1>1 DEF AllPassed
<1> QED
  BY <1>5, <1>7, <1>8, <1>9 DEF PagesInd

LEMMA PagesStep == PagesInd /\ [PageNext]_pageVars => PagesInd'
<1> SUFFICES ASSUME PagesInd, [PageNext]_pageVars PROVE PagesInd'
  OBVIOUS
<1>1. CASE UNCHANGED pageVars
  BY <1>1 DEF pageVars, PagesInd, PagesTypeOK, PassedIsRead, ReadIsPassed, AllPassed, Place
<1>2. CASE FirstPage
  BY <1>2, FreshInd DEF FirstPage, PagesInd, PagesTypeOK
<1> QED
  BY <1>1, <1>2, IssueComesInd, IssueGoesInd, ReadPageInd DEF PageNext

\* A search that is read to its last page leaves out an issue only if others
\* before it have gone, and repeats it only as often as others have come.
THEOREM PagesMissOnlyWhatMoved == PageSpec => []PagesMissOnlyAfterChanges
<1>1. ASSUME PageInit PROVE PagesInd
  <2>1. /\ found \subseteq FoundIssues /\ stayed = found /\ came = {} /\ went = {} /\ offset = 0
        /\ read = [i \in FoundIssues |-> 0] /\ walking = TRUE
    BY <1>1 DEF PageInit
  <2>2. \A i : Cardinality(Ahead(found, i)) \in Nat /\ Cardinality(Ahead(came, i)) \in Nat
    BY <2>1, AheadFinite
  <2>3. PagesTypeOK
    BY <2>1 DEF PagesTypeOK
  <2> QED
    BY <2>1, <2>2, <2>3 DEF PagesInd, PassedIsRead, ReadIsPassed, AllPassed, Place, PagesTypeOK
<1>2. ASSUME PagesInd PROVE PagesMissOnlyAfterChanges
  <2> SUFFICES ASSUME ~walking, NEW i \in stayed
               PROVE  /\ read[i] = 0 => Ahead(went, i) # {}
                      /\ read[i] > 1 => Ahead(came, i) # {}
                      /\ read[i] <= 1 + Cardinality(Ahead(came, i))
    BY DEF PagesMissOnlyAfterChanges
  <2>1. i \in found /\ read[i] \in Nat /\ offset \in Nat /\ Cardinality(found) \in Nat
    BY <1>2, AheadFinite DEF PagesInd, PagesTypeOK
  <2>2. Place(i) < offset
    BY <1>2, <2>1, PlacesGrow DEF PagesInd, AllPassed
  <2>3. read[i] <= 1 + Cardinality(Ahead(came, i))
    BY <1>2 DEF PagesInd, ReadIsPassed
  <2>4. read[i] = 0 => Ahead(went, i) # {}
    BY <1>2, <2>2 DEF PagesInd, PassedIsRead
  <2>5. read[i] > 1 => Ahead(came, i) # {}
    BY <2>1, <2>3, FS_EmptySet
  <2> QED
    BY <2>3, <2>4, <2>5
<1> QED
  BY <1>1, <1>2, PagesStep, PTL DEF PageSpec
-----------------------------------------------------------------------------
(* What the clauses of a JQL query find.                                   *)

Texts == {{}} \cup {{text} : text \in SUBSET Words}

Times == {{}} \cup {{m} : m \in Moments}

\* The inductive invariant: what the columns of an issue hold.
IssueTypeOK ==
  issue \in [assignee : Values \cup {Nothing}, labels : SUBSET Values,
             field : Values \cup {Number, Nothing}, summary : SUBSET Words,
             description : Texts, resolved : Times]

\* What the clauses depend on.
IssueOK ==
  /\ issue.assignee \in Values \cup {Nothing} /\ issue.labels \subseteq Values
  /\ issue.description = {} \/ \E text : issue.description = {text}
  /\ issue.resolved = {} \/ \E m \in Nat : issue.resolved = {m} /\ m \in Moments

Conditions == {"true", "false", Nothing}

\* When SQL's conditions hold, and when they are false.
LEMMA SqlNotHolds ==
  ASSUME NEW c \in Conditions
  PROVE  /\ SqlNot(c) \in Conditions
         /\ Found(SqlNot(c)) <=> c = "false"
         /\ SqlNot(c) = "false" <=> Found(c)
  BY DEF Found, SqlNot, Conditions, Nothing

LEMMA SqlOrHolds ==
  ASSUME NEW C
  PROVE  /\ SqlOr(C) \in Conditions
         /\ Found(SqlOr(C)) <=> "true" \in C
         /\ SqlOr(C) = "false" <=> "true" \notin C /\ Nothing \notin C
  BY DEF Found, SqlOr, Conditions, Nothing

LEMMA SqlAndHolds ==
  ASSUME NEW C
  PROVE  /\ SqlAnd(C) \in Conditions
         /\ Found(SqlAnd(C)) <=> "false" \notin C /\ Nothing \notin C
         /\ SqlAnd(C) = "false" <=> "false" \in C
  BY DEF Found, SqlAnd, Conditions, Nothing

LEMMA SqlInHolds ==
  ASSUME NEW v, NEW S
  PROVE  /\ SqlIn(v, S) \in Conditions
         /\ Found(SqlIn(v, S)) <=> v # Nothing /\ v \in S
         /\ SqlIn(v, S) = "false" <=> v \notin S /\ (v # Nothing \/ S = {})
  BY DEF Found, SqlIn, Sql, Conditions, Nothing

\* When "=" with a value holds, and when it is false, in the words of the issue.
IsHolds(f, v) ==
  CASE f = "assignee" -> IF v = Nothing THEN issue.assignee = Nothing
                         ELSE issue.assignee = v /\ v \in Values
    [] f = "labels" -> v \in issue.labels
    [] f = "field" -> issue.field = v /\ v \in Values

IsFalse(f, v) ==
  CASE f = "assignee" -> IF v = Nothing THEN issue.assignee # Nothing
                         ELSE v \notin Values \/ (issue.assignee # Nothing /\ issue.assignee # v)
    [] f = "labels" -> v \notin issue.labels
    [] f = "field" -> ~(issue.field = v /\ v \in Values)

LEMMA ComparisonHolds ==
  ASSUME IssueOK, NEW f \in Fields, NEW v
  PROVE  /\ Found(Is(f, v)) <=> IsHolds(f, v)
         /\ Found(IsNot(f, v)) <=> IsFalse(f, v)
<1>1. CASE f = "assignee"
  <2>1. Is(f, v) = ColumnIs(v)
    BY <1>1 DEF Is
  <2>2. CASE v = Nothing
    <3>1. Is(f, v) = Sql(issue.assignee = Nothing)
      BY <2>1, <2>2 DEF ColumnIs
    <3> QED
      BY <1>1, <2>2, <3>1 DEF IsHolds, IsFalse, IsNot, Found, Sql, SqlNot, Nothing
  <2>3. CASE v # Nothing
    <3>1. Is(f, v) = SqlIn(issue.assignee, {v} \cap Values)
      BY <2>1, <2>3 DEF ColumnIs, Named
    <3>2. Found(Is(f, v)) <=> issue.assignee = v /\ v \in Values
      BY <2>3, <3>1, SqlInHolds
    <3>3. Is(f, v) = "false" <=> v \notin Values \/ (issue.assignee # Nothing /\ issue.assignee # v)
      <4>1. {v} \cap Values = {} <=> v \notin Values
        OBVIOUS
      <4>2. Is(f, v) = "false" <=> /\ issue.assignee \notin {v} \cap Values
                                   /\ issue.assignee # Nothing \/ {v} \cap Values = {}
        BY <3>1, SqlInHolds
      <4> QED
        BY <4>1, <4>2
    <3>4. Found(IsNot(f, v)) <=> Is(f, v) = "false"
      BY <3>1, SqlInHolds, SqlNotHolds DEF IsNot
    <3> QED
      BY <1>1, <2>3, <3>2, <3>3, <3>4 DEF IsHolds, IsFalse
  <2> QED
    BY <2>2, <2>3
<1>2. CASE f = "labels"
  <2>1. Is(f, v) = Sql(v \in issue.labels)
    BY <1>2 DEF Is, RowIs
  <2> QED
    BY <1>2, <2>1 DEF IsHolds, IsFalse, IsNot, Found, Sql, SqlNot
<1>3. CASE f = "field"
  <2>1. Is(f, v) = Sql(issue.field = v /\ v \in Values)
    BY <1>3 DEF Is, FieldIs
  <2> QED
    BY <1>3, <2>1 DEF IsHolds, IsFalse, IsNot, Found, Sql, SqlNot
<1> QED
  BY <1>1, <1>2, <1>3 DEF Fields

\* The names of a list together hold when one of them does, and are false when
\* all of them are.
LEMMA NamesHold ==
  ASSUME IssueOK, NEW f \in Fields, NEW V, V # {}, Nothing \notin V
  PROVE  /\ InNames(f, V) \in Conditions
         /\ Found(InNames(f, V)) <=> \E v \in V : IsHolds(f, v)
         /\ InNames(f, V) = "false" <=> \A v \in V : IsFalse(f, v)
<1>1. CASE f = "assignee"
  <2>1. InNames(f, V) = SqlIn(issue.assignee, V \cap Values)
    BY <1>1 DEF InNames, Named
  <2>2. /\ Found(InNames(f, V)) <=> issue.assignee # Nothing /\ issue.assignee \in V \cap Values
        /\ InNames(f, V) = "false" <=> /\ issue.assignee \notin V \cap Values
                                       /\ issue.assignee # Nothing \/ V \cap Values = {}
        /\ InNames(f, V) \in Conditions
    BY <2>1, SqlInHolds
  <2>3. \A v \in V : /\ IsHolds(f, v) <=> issue.assignee = v /\ v \in Values
                     /\ IsFalse(f, v) <=> v \notin Values \/ (issue.assignee # Nothing /\ issue.assignee # v)
    BY <1>1 DEF IsHolds, IsFalse
  <2>4. (\E v \in V : IsHolds(f, v)) <=> issue.assignee # Nothing /\ issue.assignee \in V \cap Values
    BY <2>3
  <2>5. (\A v \in V : IsFalse(f, v)) <=> /\ issue.assignee \notin V \cap Values
                                         /\ issue.assignee # Nothing \/ V \cap Values = {}
    BY <2>3
  <2> QED
    BY <2>2, <2>4, <2>5
<1>2. CASE f = "labels"
  <2> DEFINE C == {Sql(v \in issue.labels) : v \in V}
  <2>1. InNames(f, V) = SqlOr(C)
    BY <1>2 DEF InNames, RowInNames
  <2>2. \A v \in V : /\ Sql(v \in issue.labels) = "true" <=> v \in issue.labels
                     /\ Sql(v \in issue.labels) # Nothing
    BY DEF Sql, Nothing
  <2>3. /\ "true" \in C <=> \E v \in V : v \in issue.labels
        /\ Nothing \notin C
    BY <2>2
  <2> HIDE DEF C
  <2>4. /\ Found(SqlOr(C)) <=> "true" \in C
        /\ SqlOr(C) = "false" <=> "true" \notin C /\ Nothing \notin C
        /\ SqlOr(C) \in Conditions
    BY SqlOrHolds
  <2>5. \A v : (IsHolds(f, v) <=> v \in issue.labels) /\ (IsFalse(f, v) <=> v \notin issue.labels)
    BY <1>2 DEF IsHolds, IsFalse
  <2> QED
    BY <2>1, <2>3, <2>4, <2>5
<1>3. CASE f = "field"
  <2>1. InNames(f, V) = Sql(issue.field \in V \cap Values)
    BY <1>3 DEF InNames, FieldInNames
  <2>2. /\ Found(InNames(f, V)) <=> issue.field \in V \cap Values
        /\ InNames(f, V) = "false" <=> issue.field \notin V \cap Values
        /\ InNames(f, V) \in Conditions
    BY <2>1 DEF Found, Sql, Conditions
  <2>3. \A v \in V : /\ IsHolds(f, v) <=> issue.field = v /\ v \in Values
                     /\ IsFalse(f, v) <=> ~(issue.field = v /\ v \in Values)
    BY <1>3 DEF IsHolds, IsFalse
  <2> QED
    BY <2>2, <2>3
<1> QED
  BY <1>1, <1>2, <1>3 DEF Fields

\* The whole of a list: EMPTY is compared apart from the names.
LEMMA ListHolds ==
  ASSUME IssueOK, NEW f \in Fields, NEW V \in ValueLists(f)
  PROVE  /\ Found(InList(f, V)) <=> \E v \in V : IsHolds(f, v)
         /\ Found(NotInList(f, V)) <=> \A v \in V : IsFalse(f, v)
<1>1. V # {} /\ (Nothing \in V => f = "assignee")
  BY JqlAssumption DEF ValueLists, Fields
<1>2. CASE Nothing \notin V
  <2>1. InList(f, V) = InNames(f, V) /\ NotInList(f, V) = SqlNot(InNames(f, V))
    BY <1>2 DEF InList, NotInList
  <2> QED
    BY <1>1, <1>2, <2>1, NamesHold, SqlNotHolds
<1>3. CASE Nothing \in V /\ V = {Nothing}
  <2>1. InList(f, V) = SqlOr({Sql(issue.assignee = Nothing)})
    BY <1>3 DEF InList
  <2>2. NotInList(f, V) = SqlAnd({Sql(issue.assignee # Nothing)})
    BY <1>3 DEF NotInList
  <2>3. /\ IsHolds(f, Nothing) <=> issue.assignee = Nothing
        /\ IsFalse(f, Nothing) <=> issue.assignee # Nothing
    BY <1>1, <1>3 DEF IsHolds, IsFalse
  <2>4. /\ Found(InList(f, V)) <=> issue.assignee = Nothing
        /\ Found(NotInList(f, V)) <=> issue.assignee # Nothing
    BY <2>1, <2>2 DEF SqlOr, SqlAnd, Sql, Found, Nothing
  <2> QED
    BY <1>3, <2>3, <2>4
<1>4. CASE Nothing \in V /\ V # {Nothing}
  <2> DEFINE W == V \ {Nothing}
  <2>1. W # {} /\ Nothing \notin W /\ V = W \cup {Nothing}
    BY <1>1, <1>4
  <2> HIDE DEF W
  <2>2. /\ InNames(f, W) \in Conditions
        /\ Found(InNames(f, W)) <=> \E v \in W : IsHolds(f, v)
        /\ InNames(f, W) = "false" <=> \A v \in W : IsFalse(f, v)
    BY <2>1, NamesHold
  <2>3. InList(f, V) = SqlOr({Sql(issue.assignee = Nothing), InNames(f, W)})
    <3>1. InList(f, V) = SqlOr({Sql(issue.assignee = Nothing)} \cup {InNames(f, W)})
      BY <1>4 DEF InList, W
    <3> QED
      BY <3>1
  <2>4. NotInList(f, V) = SqlAnd({Sql(issue.assignee # Nothing), SqlNot(InNames(f, W))})
    <3>1. NotInList(f, V) = SqlAnd({Sql(issue.assignee # Nothing)} \cup {SqlNot(InNames(f, W))})
      BY <1>4 DEF NotInList, W
    <3> QED
      BY <3>1
  <2>5. /\ IsHolds(f, Nothing) <=> issue.assignee = Nothing
        /\ IsFalse(f, Nothing) <=> issue.assignee # Nothing
    BY <1>1, <1>4 DEF IsHolds, IsFalse
  <2>6. Found(InList(f, V)) <=> issue.assignee = Nothing \/ Found(InNames(f, W))
    <3>1. /\ Found(InList(f, V)) <=> "true" \in {Sql(issue.assignee = Nothing), InNames(f, W)}
      BY <2>3, SqlOrHolds
    <3> QED
      BY <3>1 DEF Sql, Found
  <2>7. Found(NotInList(f, V)) <=> issue.assignee # Nothing /\ InNames(f, W) = "false"
    <3>1. Found(NotInList(f, V)) <=> /\ "false" \notin {Sql(issue.assignee # Nothing), SqlNot(InNames(f, W))}
                                     /\ Nothing \notin {Sql(issue.assignee # Nothing), SqlNot(InNames(f, W))}
      BY <2>4, SqlAndHolds
    <3>2. SqlNot(InNames(f, W)) \notin {"false", Nothing} <=> InNames(f, W) = "false"
      BY <2>2 DEF SqlNot, Conditions, Nothing
    <3>3. Sql(issue.assignee # Nothing) \notin {"false", Nothing} <=> issue.assignee # Nothing
      BY DEF Sql, Nothing
    <3> QED
      BY <3>1, <3>2, <3>3
  <2>8. (\E v \in V : IsHolds(f, v)) <=> IsHolds(f, Nothing) \/ \E v \in W : IsHolds(f, v)
    BY <2>1
  <2>9. (\A v \in V : IsFalse(f, v)) <=> IsFalse(f, Nothing) /\ \A v \in W : IsFalse(f, v)
    BY <2>1
  <2> QED
    BY <2>2, <2>5, <2>6, <2>7, <2>8, <2>9
<1> QED
  BY <1>2, <1>3, <1>4

LEMMA ListsAgree == IssueOK => ListsAgreeWithComparisons
  BY ListHolds, ComparisonHolds DEF ListsAgreeWithComparisons

LEMMA EmptyAgrees == IssueOK => EmptyAgreesWithComparisons
<1> SUFFICES ASSUME IssueOK, NEW f \in Fields
             PROVE  Found(IsEmpty(f)) <=> ~\E v \in Values : Found(Is(f, v))
  BY DEF EmptyAgreesWithComparisons
<1>1. \A v \in Values : Found(Is(f, v)) <=> IsHolds(f, v)
  BY ComparisonHolds
<1>2. CASE f = "assignee"
  <2>1. Found(IsEmpty(f)) <=> issue.assignee = Nothing
    BY <1>2 DEF IsEmpty, Found, Sql
  <2>2. \A v \in Values : IsHolds(f, v) <=> issue.assignee = v
    BY <1>2, JqlAssumption DEF IsHolds
  <2> QED
    BY <1>1, <2>1, <2>2, JqlAssumption DEF IssueOK
<1>3. CASE f = "labels"
  <2>1. Found(IsEmpty(f)) <=> issue.labels = {}
    BY <1>3 DEF IsEmpty, Found, Sql
  <2>2. \A v \in Values : IsHolds(f, v) <=> v \in issue.labels
    BY <1>3 DEF IsHolds
  <2> QED
    BY <1>1, <2>1, <2>2 DEF IssueOK
<1>4. CASE f = "field"
  <2>1. Found(IsEmpty(f)) <=> issue.field \notin Values
    BY <1>4 DEF IsEmpty, FieldIsEmpty, Found, Sql
  <2>2. \A v \in Values : IsHolds(f, v) <=> issue.field = v
    BY <1>4 DEF IsHolds
  <2> QED
    BY <1>1, <2>1, <2>2
<1> QED
  BY <1>2, <1>3, <1>4 DEF Fields

LEMMA TextAgrees == IssueOK => TextIsFoundOrNot
<1> SUFFICES ASSUME IssueOK, NEW w \in Words
             PROVE  Found(TextContains(w)) # Found(TextContainsNot(w))
  BY DEF TextIsFoundOrNot
<1>1. Like({issue.summary}, w) = Sql(w \in issue.summary)
  BY DEF Like, Sql
<1>2. CASE issue.description = {}
  <2>1. Like(issue.description, w) = Nothing
    BY <1>2 DEF Like
  <2>2. Found(TextContains(w)) <=> w \in issue.summary
    BY <1>1, <2>1 DEF TextContains, SqlOr, Found, Sql, Nothing
  <2>3. SqlOr({Sql(issue.description = {}), SqlNot(Like(issue.description, w))}) = "true"
    BY <1>2 DEF SqlOr, Sql
  <2>4. Found(TextContainsNot(w)) <=> w \notin issue.summary
    BY <1>1, <2>3 DEF TextContainsNot, SqlAnd, SqlNot, Found, Sql, Nothing
  <2> QED
    BY <2>2, <2>4
<1>3. ASSUME NEW text, issue.description = {text}
      PROVE  Found(TextContains(w)) # Found(TextContainsNot(w))
  <2>1. Like(issue.description, w) = Sql(w \in text)
    BY <1>3 DEF Like, Sql
  <2>2. Found(TextContains(w)) <=> w \in issue.summary \/ w \in text
    BY <1>1, <2>1 DEF TextContains, SqlOr, Found, Sql, Nothing
  <2>3. SqlOr({Sql(issue.description = {}), SqlNot(Like(issue.description, w))}) = Sql(w \notin text)
    BY <1>3, <2>1 DEF SqlOr, Sql, SqlNot, Nothing
  <2>4. Found(TextContainsNot(w)) <=> w \notin issue.summary /\ w \notin text
    BY <1>1, <2>3 DEF TextContainsNot, SqlAnd, SqlNot, Found, Sql, Nothing
  <2> QED
    BY <2>2, <2>4
<1> QED
  BY <1>2, <1>3 DEF IssueOK

LEMMA DaysAgree == IssueOK => DaysPartitionTime
<1> SUFFICES ASSUME IssueOK, NEW d \in Days
             PROVE  IF issue.resolved = {} THEN ~Found(OnDay(d)) /\ ~Found(NotOnDay(d))
                    ELSE /\ Found(OnDay(d)) # Found(NotOnDay(d))
                         /\ Found(NotOnDay(d)) <=> \/ Found(Before(2 * d))
                                                   \/ Found(After(2 * d)) /\ Found(From(2 * (d + 1)))
  BY DEF DaysPartitionTime
<1>1. d \in Nat
  BY JqlAssumption
<1>2. CASE issue.resolved = {}
  <2>1. \A x : Before(x) = Nothing /\ From(x) = Nothing
    BY <1>2 DEF Before, From, Compared
  <2>2. OnDay(d) = Nothing
    BY <2>1 DEF OnDay, SqlAnd, Nothing
  <2> QED
    BY <1>2, <2>2 DEF NotOnDay, SqlNot, Found, Nothing
<1>3. ASSUME NEW m \in Nat, m \in Moments, issue.resolved = {m}
      PROVE  /\ issue.resolved # {}
             /\ Found(OnDay(d)) # Found(NotOnDay(d))
             /\ Found(NotOnDay(d)) <=> \/ Found(Before(2 * d))
                                       \/ Found(After(2 * d)) /\ Found(From(2 * (d + 1)))
  <2>1. \A M : Compared(M) = Sql(m \in M)
    BY <1>3 DEF Compared, Sql
  <2>2. \A x : /\ Before(x) = Sql(m < x)
               /\ After(x) = Sql(m > x)
               /\ From(x) = Sql(m >= x)
    <3> TAKE x
    <3>1. /\ m \in {t \in Moments : t < x} <=> m < x
          /\ m \in {t \in Moments : t > x} <=> m > x
          /\ m \in {t \in Moments : t >= x} <=> m >= x
      BY <1>3
    <3> QED
      BY <2>1, <3>1 DEF Before, After, From, Sql
  <2>3. OnDay(d) = Sql(2 * d <= m /\ m < 2 * (d + 1))
    BY <1>1, <1>3, <2>2 DEF OnDay, SqlAnd, Sql, Nothing
  <2>4. /\ Found(OnDay(d)) <=> 2 * d <= m /\ m < 2 * (d + 1)
        /\ Found(NotOnDay(d)) <=> ~(2 * d <= m /\ m < 2 * (d + 1))
    BY <2>3 DEF NotOnDay, SqlNot, Found, Sql
  <2>5. /\ Found(Before(2 * d)) <=> m < 2 * d
        /\ Found(After(2 * d)) <=> m > 2 * d
        /\ Found(From(2 * (d + 1))) <=> m >= 2 * (d + 1)
    BY <2>2 DEF Found, Sql
  <2> QED
    BY <1>1, <1>3, <2>4, <2>5
<1> QED
  BY <1>2, <1>3 DEF IssueOK

LEMMA ColumnsAreRead == IssueTypeOK => IssueOK
<1> SUFFICES ASSUME IssueTypeOK PROVE IssueOK
  OBVIOUS
<1>1. /\ issue.assignee \in Values \cup {Nothing} /\ issue.labels \subseteq Values
      /\ issue.description \in Texts /\ issue.resolved \in Times
  BY DEF IssueTypeOK
<1>2. Moments \subseteq Nat
  BY JqlAssumption DEF Moments
<1> QED
  BY <1>1, <1>2 DEF IssueOK, Texts, Times

\* Whatever a request writes, a search and its negation agree on the issue.
THEOREM ClausesAlwaysAgree == JqlSpec => []ClausesAgree
<1>1. JqlInit => IssueTypeOK
  BY DEF JqlInit, IssueTypeOK, Texts, Times
<1>2. IssueTypeOK /\ [JqlNext]_jqlVars => IssueTypeOK'
  <2> SUFFICES ASSUME IssueTypeOK, [JqlNext]_jqlVars PROVE IssueTypeOK'
    OBVIOUS
  <2>1. CASE UNCHANGED jqlVars
    BY <2>1 DEF jqlVars, IssueTypeOK
  <2>2. ASSUME NEW v \in Values \cup {Nothing}, issue' = [issue EXCEPT !.assignee = v] PROVE IssueTypeOK'
    BY <2>2 DEF IssueTypeOK
  <2>3. ASSUME NEW L \in SUBSET Values, issue' = [issue EXCEPT !.labels = L] PROVE IssueTypeOK'
    BY <2>3 DEF IssueTypeOK
  <2>4. ASSUME NEW v \in Values \cup {Number, Nothing}, issue' = [issue EXCEPT !.field = v] PROVE IssueTypeOK'
    BY <2>4 DEF IssueTypeOK
  <2>5. ASSUME NEW w \in SUBSET Words, issue' = [issue EXCEPT !.summary = w] PROVE IssueTypeOK'
    BY <2>5 DEF IssueTypeOK
  <2>6. ASSUME NEW w \in Texts, issue' = [issue EXCEPT !.description = w] PROVE IssueTypeOK'
    BY <2>6 DEF IssueTypeOK
  <2>7. ASSUME NEW t \in Times, issue' = [issue EXCEPT !.resolved = t] PROVE IssueTypeOK'
    BY <2>7 DEF IssueTypeOK
  <2> QED
    BY <2>1, <2>2, <2>3, <2>4, <2>5, <2>6, <2>7, Zenon DEF JqlNext, EditIssue, Texts, Times
<1>3. IssueTypeOK => ClausesAgree
  BY ColumnsAreRead, ListsAgree, EmptyAgrees, TextAgrees, DaysAgree DEF ClausesAgree
<1> QED
  BY <1>1, <1>2, <1>3, PTL DEF JqlSpec
=============================================================================
