SPECIFICATION Spec
CONSTANTS
  Chains <- MCChains
  Msgs = {1}
  SrcOf <- MCSrcOf
  DstOf <- MCDstOf
  HeightOf <- MCHeightOf
  Final = {}
  Routes = {g1, g2}
  Objs <- MCObjs
  Nil = Nil
  NoRec = NoRec
  DefaultTxRetry = 1
  FlushRounds = 2
  SaveHeightMaxAfter = 1
  MaxFlush = 1
  ChanCap = 1
  MaxHeight <- OneBlock
  MaxRetry = 2
  MaxCrashes = 0
  MaxDbErrors = 0
SYMMETRY RoutesAlike
INVARIANTS StoredIsRoutable
