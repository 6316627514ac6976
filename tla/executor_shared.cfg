\* Two servers, two contracts on one alias with a neighbour, a crash and an edit or reordering.
SPECIFICATION Spec
CONSTANTS
  c1 = c1  c2 = c2  s1 = s1  s2 = s2  a = a  b = b  d0 = d0  d1 = d1  d2 = d2
  Contract = {c1, c2}
  Server = {s1, s2}
  Name = {a, b}
  Descr = {d0, d1, d2}
  AdminDescr = {d1}
  AliasOf <- SameAlias
  Want <- Wants
  NoContract = NoContract
  FirstTable <- TwoAliases
  MaxEdits = 1
  MaxCrashes = 1
  ResetAfterSend = FALSE
  PatientOperator = TRUE
INVARIANTS SentOnce PendingKeepsReservation
PROPERTIES NoBlindOverwrite OutcomesAreTrue
SYMMETRY ServersAlike
CHECK_DEADLOCK FALSE
