--------------------------- MODULE MCCommandLine ---------------------------
(***************************************************************************)
(* Two processes; NIDs "1" and "13", of which one extends the other; two    *)
(* messages from "1" and one from "13"; two chains of one name, two of one  *)
(* NID, one named like the NID of another, one with an unreadable key       *)
(* store.  One record is flushed at a time (maxFlushMessage = 0).           *)
(***************************************************************************)
EXTENDS CommandLine

MCChain == {[name |-> "a", nid |-> "1"], [name |-> "b", nid |-> "13"],
            [name |-> "1", nid |-> "13"], [name |-> "a", nid |-> "13"]}
MCBad   == {[name |-> "a", nid |-> "13"]}
MCMsgs  == 1 .. 3
MCSrcOf == [m \in MCMsgs |-> IF m = 3 THEN "13" ELSE "1"]
MCDstOf == [m \in MCMsgs |-> IF m = 3 THEN "1" ELSE "13"]
MCLonger == {<<"1", "13">>}
=============================================================================
