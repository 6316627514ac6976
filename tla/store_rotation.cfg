\* Two processes and a reader on one contract, with key rotation.
CONSTANTS
  c1 = c1  c2 = c2  k1 = k1  k2 = k2  t1 = t1  t2 = t2  p1 = p1  p2 = p2  r1 = r1
  NoContract = NoContract
  NoProc = NoProc
  ContractId = {c1}
  IdemKey = {k1}
  Target = {t1}
  TargetOf <- OneTarget
  HighAssurance = {k1}
  Proc = {p1, p2}
  Reader = {r1}
  RateEnabled = FALSE
  AnchorEnabled = FALSE
  RotationEnabled = TRUE
  MaxPrepared = 1
  MaxInFlight = 1
  CooldownTicks = 0
  LockoutThreshold = 1
  MaxLifetime = 1
  MaxTime = 1
  MaxVersion = 7
  MaxAnchor = 2
SPECIFICATION Spec
SYMMETRY ProcSymmetry
CHECK_DEADLOCK FALSE
INVARIANT ResolutionFitsOrigin
PROPERTIES NoLostUpdate LoadReturnsCurrentRow
