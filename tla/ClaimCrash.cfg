\* One crash, nothing else goes wrong.
CONSTANTS
  Tickets = {t1}
  Releases = {}
  Requests = {r0, r1, r2}
  EditBytes = {e1}
  NoFile = NoFile
  NoEntry = NoEntry
  NoReceipt = NoReceipt
  NoCommand = NoCommand
  MaxSeq = 3
  MaxFaults = 0
  MaxEdits = 0
  MaxCrashes = 1
SPECIFICATION Spec
INVARIANT CrashIsRedoable
CHECK_DEADLOCK FALSE
