SPECIFICATION Spec
CONSTANTS
  Services = 2
  Times = 2
CHECK_DEADLOCK FALSE
INVARIANTS
  TypeOK
  ReceiptsTrue
  NothingReplayed
  RoutedAsProven
  NothingSilent
  NothingLeftOver
  LimitsHold
PROPERTIES
  OthersStand
  ProgramsEnd
