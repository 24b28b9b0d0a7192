CONSTANTS
  BufNum = 3
  MaxLen = 3
  FifoLen = 2
  Visible = {"a"}
  Races = {}
SPECIFICATION FairSpec
INVARIANTS TypeOK OneOwner TokenPerLine StoppedIsQuiet StartedReads
PROPERTIES ImplementsQueue LinesExecuted InputGoesOn StopReturns
