SPECIFICATION Spec
CONSTANTS
  Column <- MCColumn
  Malformed <- MCMalformed
  Record <- MCRecord
  Table <- MCTable
  Ask <- MCAsk
  Char = {"a", "b", "c", "x", "@", "*"}
  Value <- MCValue
  Estimate = {0, 2, 7}
  MaxPlan = 2
  MaxRows = 2
  MaxU64 = 7
  Ceiling = 2
  Default = 2
  MaxOrder = 2
INVARIANTS OnlyListedColumns MaskedInAnswer GateIsExact BlamedForCause
