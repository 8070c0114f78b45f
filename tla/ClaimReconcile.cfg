\* One edit of a human, nothing else goes wrong.
CONSTANTS
  Tickets = {t1}
  Releases = {}
  Requests = {r0, r1, r2}
  EditBytes = {e1}
  NoFile = NoFile
  NoEntry = NoEntry
  NoReceipt = NoReceipt
  NoCommand = NoCommand
  MaxSeq = 3
  MaxFaults = 0
  MaxEdits = 1
  MaxCrashes = 0
SPECIFICATION ReconcilingSpec
PROPERTY DivergedReceiptSettles
CHECK_DEADLOCK FALSE
