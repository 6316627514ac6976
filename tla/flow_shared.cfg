\* Two servers, two operations through the same fixed files, stores that may fail, one crash or edit.
SPECIFICATION Spec
CONSTANTS
  s1 = s1  s2 = s2  d0 = d0  d1 = d1  d2 = d2
  Server = {s1, s2}
  Descr = {d0, d1, d2}
  Wanted = {d1}
  AuthValidity = 1
  ContractValidity = 2
  MaxClock = 1
  MaxContracts = 2
  MaxGrants = 2
  MaxMishaps = 1
  StoreMayFail = TRUE
INVARIANTS AtMostOnce HandedOffAsApproved DecidedInTime
SYMMETRY Interchangeable
CHECK_DEADLOCK FALSE
