\* Release control, the lock and the capacity rules, one per behaviour.
CONSTANTS
  Releases = {"r1", "r2"}
  ScopedTickets = {"t"}
  GateIds = {"g", "k"}
  AttestationIds = {"x"}
  FileCount = 2
  Texts = {1, 2}
  MaxRevision = 5
  MaxVersion = 3
  MaxCommits = 2
  CriteriaCounts = {0, 1}
  Policies <- MCPolicies
  NoRecord = NoRecord
  NoCandidate = NoCandidate
  NoPromotion = NoPromotion
  NoSession = NoSession
  MaxEdits = 2
  MaxReceipts = 9
  Procs = {"p", "q"}
  Free = Free
  MaxInode = 2
  Wait = 2
  PollEvery = 1
  MaxClock = 2
  JournalCount = 5
  JournalBytes = 8
  EvidenceBytes = 2
  IntentBytes = 4
  ScanEntries = 18
  UnpauseReceiptBytes = 2
  Blobs = {"x", "y", "z"}
  Shapes <- MCShapes
  NoBlob = NoBlob
  NoPlan = NoPlan
SPECIFICATION MCSpec
INVARIANTS PartsTypeOK PromotionChain ReleaseOrderSound ReadyIsPromotable OneHolder NeverBeyondLimits PausedCanUnpause RecoveryNeverRefused
PROPERTIES PromotedOnCurrentEvidence QuietCaptureIsClean AcquireReturns
CHECK_DEADLOCK FALSE
