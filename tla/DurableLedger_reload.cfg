SPECIFICATION LedgerSpec
CONSTANTS
  Writers = {w1}
  Accounts = {"us", "cn"}
  Batches <- MCBatches
INVARIANTS
  StoredEventsReload
