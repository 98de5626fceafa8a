----------------------------- MODULE MCRelayer -----------------------------
(* Small instances of Relayer: one source, one destination. *)
EXTENDS RelayerLive, TLC

src == "src"
dst == "dst"
MCChains == {src, dst}
MCSrcOf == [m \in Msgs |-> src]
MCDstOf == [m \in Msgs |-> dst]
MCHeightOf == [m \in Msgs |-> m]
OneBlock == [c \in Chains |-> IF c = src THEN 1 ELSE 0]
MCObjs == 1 .. 4
MCFinal == {dst}
SomeUnknown == [m \in Msgs |-> IF m = 2 THEN "elsewhere" ELSE dst]
ThreeBlocks == [c \in Chains |-> IF c = src THEN 3 ELSE 0]
RoutesAlike == Permutations(Routes)
=============================================================================
