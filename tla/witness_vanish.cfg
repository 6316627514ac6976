\* Increments that may have had no effect, and a backup at any time.
SPECIFICATION Spec
CONSTANTS
  alias = alias  batch1 = batch1  p1 = p1  p2 = p2  x1 = x1  x2 = x2
  Store = {alias}
  Proc = {p1, p2}
  StoreOf <- ProcsOfOne
  Contract = {x1, x2}
  HomeOf <- ContractsOfOne
  NoContract = NoContract
  Baseline = 1
  IncrementMayVanish = TRUE
  HotBackup = TRUE
  MaxCalls = 6
  MaxCrashes = 1
  MaxRestores = 1
  MaxOutages = 2
INVARIANTS MarkNotAhead RefusalHasCause
SYMMETRY Interchangeable
CHECK_DEADLOCK FALSE
