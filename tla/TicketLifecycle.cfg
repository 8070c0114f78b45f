\* Three scopes of up to five mutations; two holds, one approval list of two, serials up to 3.
CONSTANTS
  Actors = {"OWNER"}
  MaxCount = 4
  MaxSerial = 3
  MaxTickets = 3
  MaxHolds = 2
  MaxApprovals = 2
  MaxDependencies = 2
  HoldIds = {"h1", "ESCALATED"}
  GrantIds = {"g1", "g2"}
  Bodies = {"b"}
  Priorities = {"P1"}
  Kinds = {"FEATURE", "MANUAL"}
  Criteria = {"c"}
  Gates = {"gate"}
  Classes = {"AUTONOMOUS", "APPROVAL_REQUIRED", "MANUAL"}
  EffectSets = {"QUALIFIED", "UNKNOWN"}
  KnownGates = {"gate"}
  RemovedOps = {}
  Templates <- MCTemplates
  DependencyLists <- MCDependencyLists
  FitsFile <- MCFitsFile
  NoTicket = NoTicket
  NoGate = NoGate
  NoToken = NoToken
  Refused = Refused
  MaxMutations = 5
  MaxEntries = 2
SPECIFICATION MCSpec
INVARIANTS TicketTypeOK DependenciesResolve SerialsSound StepsStayValid HandEditIsTheVerb NextActionHelps
PROPERTIES AcceptanceIsPinned
CHECK_DEADLOCK FALSE
