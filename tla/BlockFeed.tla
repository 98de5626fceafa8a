----------------------------- MODULE BlockFeed -----------------------------
(***************************************************************************)
(* What a chain's listener promises the relay engine: consecutive blocks,  *)
(* and after a restart no block above First that was never handed over is  *)
(* passed by.  Relayer's Emit and Crash take a listener to be this.        *)
(***************************************************************************)
EXTENDS Naturals

CONSTANTS
  First,       \* the first block anybody is interested in
  Down         \* no listener is running

VARIABLES
  upcoming,    \* the block handed over next, or Down
  handed       \* the blocks handed over, in this life or an earlier one

Init == upcoming = Down /\ handed = {}

Start ==
  /\ upcoming = Down
  /\ upcoming' \in Nat
  /\ First .. upcoming' - 1 \subseteq handed
  /\ UNCHANGED handed

HandOver ==
  /\ upcoming # Down
  /\ handed' = handed \cup {upcoming}
  /\ upcoming' = upcoming + 1

Stop ==
  /\ upcoming' = Down
  /\ UNCHANGED handed

Next == Start \/ HandOver \/ Stop

Spec == Init /\ [][Next]_<<upcoming, handed>>
=============================================================================
