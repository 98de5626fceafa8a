SPECIFICATION Spec
CONSTANTS
  Chains <- MCChains
  Msgs = {1, 2}
  SrcOf <- MCSrcOf
  DstOf <- SomeUnknown
  HeightOf <- MCHeightOf
  Final = {}
  Routes = {g1}
  Objs <- MCObjs
  Nil = Nil
  NoRec = NoRec
  DefaultTxRetry = 2
  FlushRounds = 2
  SaveHeightMaxAfter = 0
  MaxFlush = 1
  ChanCap = 1
  MaxHeight <- ThreeBlocks
  MaxRetry = 3
  MaxCrashes = 2
  MaxDbErrors = 0
INVARIANTS TypeOK NoLoss SavedHeightProcessed
PROPERTIES ImplementsDelivery
