\* Two messages to one chain, EVM or ICON, and a new copy of one in the cache.
CONSTANTS
  Msgs = {m1, m2}
  Routes = {1, 2}
  Prices = {1, 2}
  PollLimit = 1
  MaxFaults = 1
  Copied = {m1}
  MaxCopies = 1
  Nil = Nil
SPECIFICATION Spec
INVARIANTS TypeOK NoGap
PROPERTIES ImplementsProvider EventuallyReceived
CHECK_DEADLOCK FALSE
