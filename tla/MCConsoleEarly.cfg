CONSTANTS
  BufNum = 2
  MaxLen = 3
  FifoLen = 2
  Visible = {"a"}
  Races = {"early_input"}
SPECIFICATION Spec
INVARIANTS StartedReads
