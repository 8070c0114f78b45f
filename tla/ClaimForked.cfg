\* docs/SPEC.md 3.3: a read across commits reports REDO_PENDING or SNAPSHOT_MOVED.
CONSTANTS
  Tickets = {t1}
  Releases = {}
  Requests = {r0, r1, r2}
  EditBytes = {e1}
  NoFile = NoFile
  NoEntry = NoEntry
  NoReceipt = NoReceipt
  NoCommand = NoCommand
  MaxSeq = 3
  MaxEdits = 0
  MaxFaults = 0
  MaxCrashes = 0
  Retries = 1
SPECIFICATION System
SYMMETRY Symmetry
INVARIANT ForkedIsAFact
CHECK_DEADLOCK FALSE
