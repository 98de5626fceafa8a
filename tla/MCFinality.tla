----------------------------- MODULE MCFinality -----------------------------
(* Small instances of Finality. *)
EXTENDS Finality

MCSrcOf == [m \in Msgs |-> IF m = 1 THEN "icon" ELSE "evm"]
(* The messages have different numbers, or all the same.                    *)
MCKeyFunctions == {[m \in Msgs |-> m], [m \in Msgs |-> 1]}
MCBlockOf == [m \in Msgs |-> m]
=============================================================================
