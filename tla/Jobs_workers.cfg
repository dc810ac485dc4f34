\* Everything may fail, and cancellations land anywhere.
CONSTANTS
  Items = {1, 2}
  MaxChunks = 3
  ItemOf <- ThreeChunks
  NumSteps = 2
  Failing = {"extract", "memory", "relationship", "work", "emit", "store", "process"}
SPECIFICATION Spec
INVARIANT CancelStopsImport
INVARIANT VerdictTellsImport
INVARIANT VerdictTellsWork
PROPERTY NeverRevived
PROPERTY Settles
CHECK_DEADLOCK FALSE
