\* One request in the store at a time, with crashes, failing calls and
\* dropped connections.
CONSTANTS
  Writer = {w1}
  Boot = boot
  MaxOps = 5
  Faults = TRUE
SPECIFICATION FairSpec
INVARIANTS AckedDurable Restartable AckedServed
PROPERTIES ImplementsDurableStore
