\* Two requests in the store at once, with everything that can go wrong.
CONSTANTS
  Writer = {w1, w2}
  Boot = boot
  MaxOps = 4
  Faults = TRUE
SPECIFICATION FairSpec
INVARIANTS FileBehindMemory
PROPERTIES LoneSaveRepairs RequestsLeave
