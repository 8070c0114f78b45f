\* No holder is killed: every command returns, and what it left is redone.
CONSTANTS
  Tickets = {t1}
  Releases = {}
  Requests = {r0, r1, r2}
  EditBytes = {}
  NoFile = NoFile
  NoEntry = NoEntry
  NoReceipt = NoReceipt
  NoCommand = NoCommand
  MaxSeq = 3
  MaxEdits = 1
  MaxFaults = 1
  MaxCrashes = 0
SPECIFICATION FairSpec
INVARIANT IdleIsRedoable
PROPERTIES FailedUnpauseWaits PendingRedone LockReleased
CHECK_DEADLOCK FALSE
