\* Two processes on one store; timeouts, crashes, an outage, a cold restore.
SPECIFICATION Spec
CONSTANTS
  alias = alias  batch1 = batch1  p1 = p1  p2 = p2  x1 = x1  x2 = x2
  Store = {alias}
  Proc = {p1, p2}
  StoreOf <- ProcsOfOne
  Contract = {x1, x2}
  HomeOf <- ContractsOfOne
  NoContract = NoContract
  Baseline = 1
  IncrementMayVanish = FALSE
  HotBackup = FALSE
  MaxCalls = 6
  MaxCrashes = 2
  MaxRestores = 1
  MaxOutages = 1
INVARIANT ExecutedOnce
PROPERTY ImplementsAnchor
SYMMETRY Interchangeable
CHECK_DEADLOCK FALSE
