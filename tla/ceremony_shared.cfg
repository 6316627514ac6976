CONSTANTS
  c1 = c1
  c2 = c2
  v1 = v1
  v2 = v2
  v3 = v3
  p1 = p1
  p2 = p2
  t1 = t1
  Capability = {c1, c2}
  StandardSealed = {c2}
  Value = {v1, v2, v3}
  Posture = {p1, p2}
  UnsafePosture = {p2}
  SigningTool = {t1}
  Validity = 1
  BatchValidity = 1
  ContractValidity = 1
  MaxCalls = 3
  MaxClock = 1
  MaxCommands = 2
  MaxMishaps = 1
  MaxApprovals = 1
SPECIFICATION CeremonySpec
CHECK_DEADLOCK FALSE
SYMMETRY Interchangeable
INVARIANT ExecutedAsApproved
PROPERTY OwnerSignsWhatHeSaw
