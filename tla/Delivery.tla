------------------------------ MODULE Delivery ------------------------------
(***************************************************************************)
(* What the relay engine promises, message by message.                     *)
(*                                                                         *)
(*   unseen     the relayer has not processed the block of its event       *)
(*   held       in memory only, or still to be read again                  *)
(*   stored     in the message store                                       *)
(*   delivered  the destination contract has received it                   *)
(*   forgotten  neither received nor anywhere the relayer will look        *)
(*                                                                         *)
(* A message is delivered only after it was seen, a stored message leaves   *)
(* the store only once it is delivered, and the only step that forgets a    *)
(* message is a restart, which forgets only what was not stored.  A message *)
(* to a destination nobody configured is forgotten.                         *)
(***************************************************************************)
CONSTANTS Msgs, Routable

VARIABLE status

Status == {"unseen", "held", "stored", "delivered", "forgotten"}
Are(s) == {m \in Msgs : status[m] \in s}

Init == status = [m \in Msgs |-> "unseen"]

(* The events of a block arrive together.                                  *)
See(M) ==
  /\ M \subseteq Are({"unseen"})
  /\ status' = [m \in Msgs |-> IF m \in M THEN "held" ELSE status[m]]

Store(m) ==
  /\ status[m] = "held"
  /\ status' = [status EXCEPT ![m] = "stored"]

(* A transaction sent before a restart may still deliver what the restart   *)
(* forgot.                                                                  *)
Deliver(m) ==
  /\ status[m] \in {"held", "stored", "forgotten"}
  /\ status' = [status EXCEPT ![m] = "delivered"]

Reject(m) ==
  /\ m \notin Routable /\ status[m] = "held"
  /\ status' = [status EXCEPT ![m] = "forgotten"]

(* A restart reads some blocks again: what they hold is held again.         *)
Restart(again) ==
  /\ again \subseteq Are({"held", "forgotten"})
  /\ status' = [m \in Msgs |->
       IF m \in again THEN "held"
       ELSE IF status[m] = "held" THEN "forgotten" ELSE status[m]]

Next ==
  \/ \E M \in SUBSET Msgs : See(M) \/ Restart(M)
  \/ \E m \in Msgs : Store(m) \/ Deliver(m) \/ Reject(m)

Spec == Init /\ [][Next]_status
=============================================================================
