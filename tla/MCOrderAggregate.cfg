SPECIFICATION Spec
CONSTANTS
  Sessions = {p1, p2}
  MaxEvents = 9
  MaxSagas = 1
INVARIANTS IInv LegalHistory RowIsProjection CompletedWasReady
PROPERTIES HistoryIsFinal
CHECK_DEADLOCK FALSE
