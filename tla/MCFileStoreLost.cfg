CONSTANTS
  Writer = {w1, w2}
  Boot = boot
  MaxOps = 4
  Faults = FALSE
SPECIFICATION Spec
INVARIANTS PersistedWhenQuiet
