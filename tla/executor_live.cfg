\* One contract, two servers, two crashes, under fairness.
SPECIFICATION LiveSpec
CONSTANTS
  c1 = c1  c2 = c2  s1 = s1  s2 = s2  a = a  b = b  d0 = d0  d1 = d1  d2 = d2
  Contract = {c1}
  Server = {s1, s2}
  Name = {a}
  Descr = {d0, d1, d2}
  AdminDescr = {d1}
  AliasOf <- SameAlias
  Want <- Wants
  NoContract = NoContract
  FirstTable <- OneAlias
  MaxEdits = 0
  MaxCrashes = 2
  ResetAfterSend = TRUE
  PatientOperator = FALSE
PROPERTIES InterruptedIsReconciled
CHECK_DEADLOCK FALSE
