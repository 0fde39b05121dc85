SPECIFICATION LedgerSpec
CONSTANTS
  Writers = {w1, w2}
  Accounts = {"us", "cn"}
  Batches <- MCBatches
SYMMETRY Symmetry
INVARIANTS
  LedgerTypeOK
  LockedStreamsReplay
  BooksHold
  BatchesAreStored
PROPERTIES
  PastIsFixed
