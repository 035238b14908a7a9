---------------------------- MODULE RequestAudit ----------------------------
(***************************************************************************)
(* The record of write requests: a ring in memory that the middleware adds *)
(* a request to when it ends, and that a harness polls by sequence number. *)
(* Requests overlap and any client may empty the ring between two polls.   *)
(***************************************************************************)
EXTENDS Integers, FiniteSets, FiniteSetsExt

CONSTANTS
  MaxEntries,    \* REQUEST_AUDIT_MAX_ENTRIES, not 0: the record is enabled
  MaxRequests,   \* bound: write requests
  Limits         \* numbers a poll is limited to

ASSUME AuditAssumption ==
  /\ MaxEntries \in Nat \ {0} /\ MaxRequests \in Nat
  /\ Limits \subseteq Nat \ {0}

VARIABLES
  begun,      \* requests that have begun, numbered in that order
  inFlight,   \* those not ended
  entries,    \* the ring: sequence number and request
  seq,        \* the last number given
  cursor,     \* the reader: since= of its next poll
  seen,       \* requests the reader was told of
  lost        \* history: requests that were dropped or cleared unread

auditVars == <<begun, inFlight, entries, seq, cursor, seen, lost>>

AuditInit ==
  /\ begun = 0 /\ inFlight = {} /\ entries = {} /\ seq = 0
  /\ cursor = 0 /\ seen = {} /\ lost = {}

Requested(set) == {e.request : e \in set}

BeginRequest ==
  /\ begun < MaxRequests
  /\ begun' = begun + 1
  /\ inFlight' = inFlight \cup {begun'}
  /\ UNCHANGED <<entries, seq, cursor, seen, lost>>

\* Fault for Numbered: a request has the number it began with.
NumberedAtBegin(r) == [seq |-> r, request |-> r]

\* A request takes its number when it ends.
Numbered(r) == [seq |-> seq + 1, request |-> r]

\* The oldest entry of a full ring.
Dropped ==
  IF Cardinality(entries) < MaxEntries THEN {}
  ELSE {e \in entries : \A f \in entries : e.seq <= f.seq}

\* Whatever becomes of the request, an exception included.
EndRequest(r) ==
  /\ inFlight' = inFlight \ {r}
  /\ seq' = seq + 1
  /\ entries' = (entries \ Dropped) \cup {Numbered(r)}
  /\ lost' = lost \cup (Requested(Dropped) \ seen)
  /\ UNCHANGED <<begun, cursor, seen>>

\* Fault for Since: the entry of the cursor again.
SinceOrAt(n) == {e \in entries : e.seq >= n}

Since(n) == {e \in entries : e.seq > n}

\* The first entries, as many as the limit says.
FirstOf(set, limit) ==
  {e \in set : Cardinality({f \in set : f.seq < e.seq}) < limit}

\* Everything since the cursor; the next poll starts after last_seq.
Poll ==
  /\ seen' = seen \cup Requested(Since(cursor))
  /\ cursor' = seq
  /\ UNCHANGED <<begun, inFlight, entries, seq, lost>>

\* At most so many; the next poll starts after the last of them.
PollSome(limit) ==
  /\ Since(cursor) # {}
  /\ \E last \in FirstOf(Since(cursor), limit) :
       /\ \A e \in FirstOf(Since(cursor), limit) : e.seq <= last.seq
       /\ cursor' = last.seq
  /\ seen' = seen \cup Requested(FirstOf(Since(cursor), limit))
  /\ UNCHANGED <<begun, inFlight, entries, seq, lost>>

\* Fault for SeqAfterClear: the numbers start again.
SeqFromZero == 0

SeqAfterClear == seq

ClearAudit ==
  /\ entries' = {}
  /\ seq' = SeqAfterClear
  /\ lost' = lost \cup (Requested(entries) \ seen)
  /\ UNCHANGED <<begun, inFlight, cursor, seen>>

AuditNext ==
  \/ BeginRequest
  \/ \E r \in inFlight : EndRequest(r)
  \/ Poll
  \/ \E limit \in Limits : PollSome(limit)
  \/ ClearAudit

AuditSpec == AuditInit /\ [][AuditNext]_auditVars
-----------------------------------------------------------------------------
Entry == [seq : Nat \ {0}, request : Nat \ {0}]

\* The state is of its types; numbers in the ring have been given.
AuditTypeOK ==
  /\ begun \in Nat /\ inFlight \subseteq 1..begun /\ entries \subseteq Entry
  /\ seq \in Nat /\ cursor \in 0..seq
  /\ seen \subseteq Nat /\ lost \subseteq Nat

\* A reader that polls is told of every request that has ended, in spite of
\* requests that end in another order than they began and of others that
\* empty the record: a request it has not seen is still ahead of its cursor,
\* or the record lost it before it was read (request_audit.py:42-60).
NothingIsSkipped ==
  \A r \in (1..begun) \ inFlight : r \in seen \cup lost \cup Requested(Since(cursor))

\* No request is told of twice: what a poll returns was not seen before, nor
\* was any request of a later number (request_audit.py:47-50).
NothingIsRepeated == Requested(Since(cursor)) \cap seen = {}

\* Both: a reader is told of every request once, or can tell that it was lost
\* (request_audit.py:42-60).
EachRequestOnce == NothingIsSkipped /\ NothingIsRepeated
=============================================================================
