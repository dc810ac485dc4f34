\* Cycles one after the other, with failures, crashes and a user who edits meanwhile.
CONSTANTS
  MaxMemories = 2
  Answers <- SomeAnswers
  Contradictions = {FALSE, TRUE}
  MinSize = 1
  ScoringBatch = 2
  CostCap = 1
  ClassifyBatch = 1
  PruneLimit = 1
  Ceiling = 2
  DecayThreshold = 3
  Life = 2
  MaxEdits = 1
  MaxFaults = 1
SPECIFICATION Spec
INVARIANT PressuresFelt
PROPERTY PrunedInTurn
