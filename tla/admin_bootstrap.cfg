SPECIFICATION Spec
CONSTANTS
  p1 = p1
  p2 = p2
  Procs = {p1, p2}
  NoProc = NoProc
  Profiles = {"write_protected"}
  InitialAccounts <- MCAccounts
  MaxOps = 2
  MaxGenerations = 2
SYMMETRY MCSymmetry
INVARIANTS LockExcludes JournalAccounts DeletesConfirmedObject
PROPERTIES JournalHistory ForeignPrivilegesKept
CHECK_DEADLOCK FALSE
