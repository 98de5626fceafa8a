SPECIFICATION FairSpec
CONSTANTS
  Msgs = {1}
  Attempts = {1}
  KeyFunctions <- MCKeyFunctions
  SrcOf <- MCSrcOf
  BlockOf <- MCBlockOf
  Icon = {"icon"}
  Configured = {"icon", "evm"}
  FinalityBlock = 1
  NoObj = NoObj
  MaxTxs = 2
  MaxHead = 4
  MaxReorg = 1
  MaxReorgs = 1
  MaxRestarts = 0
\* The bounds let the system stop.
CHECK_DEADLOCK FALSE
PROPERTIES Regenerated
