\* Two processes, two contracts, two keys of one target, one of them high
\* assurance; an anchor and a rate policy with cooldown and lockout.
CONSTANTS
  c1 = c1  c2 = c2  k1 = k1  k2 = k2  t1 = t1  t2 = t2  p1 = p1  p2 = p2  r1 = r1
  NoContract = NoContract
  NoProc = NoProc
  ContractId = {c1, c2}
  IdemKey = {k1, k2}
  Target = {t1}
  TargetOf <- OneTarget
  HighAssurance = {k1}
  Proc = {p1, p2}
  Reader = {}
  RateEnabled = TRUE
  AnchorEnabled = TRUE
  RotationEnabled = FALSE
  MaxPrepared = 1
  MaxInFlight = 1
  CooldownTicks = 1
  LockoutThreshold = 1
  MaxLifetime = 1
  MaxTime = 1
  MaxVersion = 6
  MaxAnchor = 2
SPECIFICATION Spec
SYMMETRY ProcSymmetry
CHECK_DEADLOCK FALSE
INVARIANTS TypeOK OneUnsettledWritePerTarget ReservationMatchesState
  OneBlockingContractPerKey ExecutedOnlyConfirmed ExecutionsSpendTicks
PROPERTY CreationRespectsContainment
