------------------------------ MODULE Provider ------------------------------
(***************************************************************************)
(* What the relay engine may expect of Route (provider/provider.go): every  *)
(* call of it ends in one answer, an error it returns or a call of the      *)
(* callback; a success is reported only of a message its destination has    *)
(* received; a failure says nothing, the message may still be received.     *)
(* Routing.tla implements it.                                               *)
(***************************************************************************)
EXTENDS Naturals

CONSTANT Msgs

VARIABLES
  dest,       \* the kind of destination: an ICON provider can answer twice
  open,       \* per message, the calls of Route that have no answer yet
  owed,       \* per message, the calls that answer a second time
  asked,      \* messages that were routed
  received,   \* messages the destination has received
  told        \* messages a success was reported of

vars == <<dest, open, owed, asked, received, told>>

Init ==
  /\ dest \in {"evm", "icon"}
  /\ open = [m \in Msgs |-> 0] /\ owed = open
  /\ asked = {} /\ received = {} /\ told = {}

Less(f, m) == f[m] > 0 /\ f' = [f EXCEPT ![m] = @ - 1]

(* The engine may call again before the first call has ended: it marks the   *)
(* message when the call begins, on the copy of it that the call is for.    *)
Ask(m) ==
  /\ open' = [open EXCEPT ![m] = @ + 1]
  /\ asked' = asked \cup {m}
  /\ UNCHANGED <<dest, owed, received, told>>

Receive(m) ==
  /\ m \in asked
  /\ received' = received \cup {m}
  /\ UNCHANGED <<dest, open, owed, asked, told>>

Success(m) == m \in received /\ told' = told \cup {m}
Failure    == UNCHANGED told

Answer(m) ==
  /\ Less(open, m)
  /\ Success(m) \/ Failure
  /\ UNCHANGED <<dest, owed, asked, received>>

(* An ICON provider that cannot read the height of a result reports a        *)
(* failure and goes on to report the result.                                *)
AnswerFirst(m) ==
  /\ dest = "icon"
  /\ Less(open, m) /\ Failure
  /\ owed' = [owed EXCEPT ![m] = @ + 1]
  /\ UNCHANGED <<dest, asked, received>>

AnswerAgain(m) ==
  /\ Less(owed, m)
  /\ Success(m) \/ Failure
  /\ UNCHANGED <<dest, open, asked, received>>

Next == \E m \in Msgs : \/ Ask(m) \/ Receive(m) \/ Answer(m)
                        \/ AnswerFirst(m) \/ AnswerAgain(m)

Spec == Init /\ [][Next]_vars
=============================================================================
