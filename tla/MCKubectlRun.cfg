CONSTANTS
  MaxOutput = 2
  Buffer = 2
  PipeSize = 2
  MaxWritten = 4
SPECIFICATION FairSpec
INVARIANTS OutputIsHonest SuccessIsTimely NoOrphan KubeconfigRemoved
PROPERTIES PipesDrain AnsweredOnceAlone
