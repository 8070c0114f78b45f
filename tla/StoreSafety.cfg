\* One ticket, one release, an editor, one returned error and one crash over three receipts.
CONSTANTS
  Tickets = {t1}
  Releases = {l1}
  Requests = {r0, r1, r2}
  EditBytes = {e1}
  NoFile = NoFile
  NoEntry = NoEntry
  NoReceipt = NoReceipt
  NoCommand = NoCommand
  MaxSeq = 3
  MaxEdits = 1
  MaxFaults = 1
  MaxCrashes = 1
SPECIFICATION Spec
SYMMETRY Symmetry
INVARIANTS TypeOK ChainOrder RequestOnce NoPostBeforeReceipt SettledProjections EvidenceFirst NoLostUpdate AckedIsCommitted
PROPERTIES OverwritesOnlyPre ImplementsAtomicStore
CHECK_DEADLOCK FALSE
