\* A reader that retries once beside three transactions, or beside two and one human edit.
CONSTANTS
  Tickets = {t1}
  Releases = {}
  Requests = {r0, r1, r2}
  EditBytes = {e1}
  NoFile = NoFile
  NoEntry = NoEntry
  NoReceipt = NoReceipt
  NoCommand = NoCommand
  MaxSeq = 3
  MaxEdits = 1
  MaxFaults = 0
  MaxCrashes = 0
  Retries = 1
SPECIFICATION MCSystem
SYMMETRY Symmetry
INVARIANTS ReaderTypeOK ReadIsAtomic PendingIsTrue FailureIsAFact QuietReadAnswers
CHECK_DEADLOCK FALSE
