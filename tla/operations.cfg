\* Two commands, two contracts, two processes: every program by itself.
SPECIFICATION OperationsSpec
CONSTANTS
  p1 = p1  p2 = p2
  Addresses = {"a1"}
  Names = {"n1"}
  CaFiles = {"c1"}
  Versions = {"v1"}
  SchemaFiles = {"s1"}
  Prefills <- MCPrefills
  Commands = {p1, p2}
  PlanChoices <- MCChoices
  MaxCommands = 4
  MaxFileEdits = 2
  MaxPostureEdits = 1
  MaxUnrelated = 2
  MaxCeremonies = 2
  MaxAccountEdits = 2
  Contracts = {p1, p2}
  Capabilities = {"log_display", "log_retention", "ntp_prefer"}
  MaxAdminEdits = 2
  Proc = {p1, p2}
  MaxNonceCounter = 4
  Exclusive = TRUE
  MaxCrashes = 3
  Environments <- MCEnvironments
  Limits = {0, 100, 500, 501}
  MaxRotations = 2
  Topics = {"t1"}
  Subjects = {"s1", "wide"}
  Documents = {"d1", "d2", "bad"}
  Corrupt = {"bad"}
  Holds <- MCHolds
  FieldCount <- MCFields
  MAX_CACHE_ENTRIES = 1
  DEFAULT_TTL_SECONDS = 1
  HeaderTtls = {0, 2}
  STALE_GRACE_SECONDS = 1
  CACHE_TTL_SECONDS = 1
  MaxDocTime = 3
  MaxPublications = 1
  MaxUpgrades = 1
INVARIANTS WizardFaithful TransitionSound AdaptersSound ServerSound GuidanceSound NonceUnique
PROPERTIES SetupFaithful CompletedCeremonyClean
SYMMETRY MCSymmetry
CHECK_DEADLOCK FALSE
