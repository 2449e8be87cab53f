CONSTANTS
  Absent = Absent
  Empty = Empty
  Blank = Blank
  Operator = {o1, o2}
  Rank <- MCRank
  File <- MCFile
  Command <- MCCommand
  Query <- MCQuery
  Edit <- MCEdit
  InitialStore <- MCInitialStore
  Covers <- MCCovers
  MaxCommands = 2
  MaxFaults = 1
  MaxEdits = 1
SPECIFICATION Spec
INVARIANTS ManagedMatchFile OthersUntouched TokensBeforeGrants DiffIsTrue CanIAgrees
PROPERTY EnablesOnlyCompiled
