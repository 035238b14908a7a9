---------------------------- MODULE EventDelivery ----------------------------
(***************************************************************************)
(* What the webhook outbox promises, without saying how: an event that     *)
(* was published is owed to its receiver until a receiver accepted it or   *)
(* the emulator gave it up, and it does not stay owed for ever.  An        *)
(* administrator may rewind everything to an earlier time.                 *)
(***************************************************************************)
CONSTANT Deliveries  \* one event for one receiver

VARIABLES
  status,   \* status[d] in {"none", "owed", "delivered", "failed"}
  accepted  \* deliveries some receiver ever accepted

vars == <<status, accepted>>

Init ==
  /\ status = [d \in Deliveries |-> "none"]
  /\ accepted = {}

\* A committed change publishes its events together.
Publish ==
  /\ \E D \in SUBSET {d \in Deliveries : status[d] = "none"} :
       status' = [d \in Deliveries |-> IF d \in D THEN "owed" ELSE status[d]]
  /\ UNCHANGED accepted

\* A receiver may accept only what it is owed, and may accept it again.
Accept(d) ==
  /\ status[d] = "owed"
  /\ accepted' = accepted \cup {d}
  /\ UNCHANGED status

Deliver(d) ==
  /\ status[d] = "owed" /\ d \in accepted
  /\ status' = [status EXCEPT ![d] = "delivered"]
  /\ UNCHANGED accepted

GiveUp(d) ==
  /\ status[d] = "owed"
  /\ status' = [status EXCEPT ![d] = "failed"]
  /\ UNCHANGED accepted

\* Reset, or restoring a snapshot: nothing is delivered that never was.
Rewind ==
  /\ status' \in [Deliveries -> {"none", "owed", "delivered", "failed"}]
  /\ \A d \in Deliveries : status'[d] = "delivered" => d \in accepted
  /\ UNCHANGED accepted

Next ==
  \/ Publish \/ Rewind
  \/ \E d \in Deliveries : Accept(d) \/ Deliver(d) \/ GiveUp(d)

Spec ==
  /\ Init /\ [][Next]_vars
  /\ \A d \in Deliveries : WF_vars(Deliver(d) \/ GiveUp(d))
=============================================================================
