\* No native call fails and no holder dies; only a human edits, twice.
CONSTANTS
  Tickets = {t1}
  Releases = {}
  Requests = {r0, r1, r2}
  EditBytes = {e1}
  NoFile = NoFile
  NoEntry = NoEntry
  NoReceipt = NoReceipt
  NoCommand = NoCommand
  MaxSeq = 3
  MaxFaults = 0
  MaxEdits = 2
  MaxCrashes = 0
SPECIFICATION Spec
INVARIANT SlotsClearedOnReturn
CHECK_DEADLOCK FALSE
