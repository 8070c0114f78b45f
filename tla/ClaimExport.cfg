\* One export beside one more commit; nothing goes wrong.
CONSTANTS
  Tickets = {t1}
  Releases = {}
  Requests = {r0, r1}
  EditBytes = {e1}
  NoFile = NoFile
  NoEntry = NoEntry
  NoReceipt = NoReceipt
  NoCommand = NoCommand
  MaxSeq = 2
  MaxEdits = 0
  MaxFaults = 0
  MaxCrashes = 0
  Retries = 0
  Attempts = 2
SPECIFICATION MCSpec
SYMMETRY Symmetry
INVARIANT MovementIsMoved
CHECK_DEADLOCK FALSE
