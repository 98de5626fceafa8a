\* Commands of two processes on one home directory, and the relayer's store.
CONSTANTS
  Proc = {p1, p2}
  Absent = Absent
  NoRec = NoRec
  Chain <- MCChain
  Bad <- MCBad
  Msgs <- MCMsgs
  SrcOf <- MCSrcOf
  DstOf <- MCDstOf
  Longer <- MCLonger
  FlushRounds = 2
  MaxFlush = 0
SPECIFICATION CommandLineSpec
INVARIANT TypeOK
PROPERTIES ImplementsRegistry BadChainFreezes DropsOnlyUnconfigured
PROPERTY EventuallySettled
