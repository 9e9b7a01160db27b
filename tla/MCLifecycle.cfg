SPECIFICATION Spec
CONSTANTS
  InformersOf <- MCInformersOf
  MaxEvents = 3
CHECK_DEADLOCK FALSE
INVARIANTS
  TypeOK
  OnlyTheFirstWorks
PROPERTIES
  WorkGetsDone
  OnlyTheListerStays
