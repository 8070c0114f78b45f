\* One export that is tried twice, of a store with a genesis receipt, beside one more commit and one human edit.
CONSTANTS
  Tickets = {t1}
  Releases = {}
  Requests = {r0, r1}
  EditBytes = {e1}
  NoFile = NoFile
  NoEntry = NoEntry
  NoReceipt = NoReceipt
  NoCommand = NoCommand
  MaxSeq = 2
  MaxEdits = 1
  MaxFaults = 0
  MaxCrashes = 0
  Retries = 0
  Attempts = 2
SPECIFICATION MCSpec
SYMMETRY Symmetry
INVARIANTS ExportIsOneMoment CountAndStreamAreFacts
CHECK_DEADLOCK FALSE
