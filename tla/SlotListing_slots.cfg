SPECIFICATION Spec
CONSTANTS
  MaxIndex = 2
  UriLengths = {1, 9}
  MaxUri = 5
  MaxPayload = 11
  Overhead = 1
  MaxCommands = 2
INVARIANTS
  ListingComplete
  ErrorsAreTheLinks
  RecordIsTheCommands
PROPERTIES
  NonePrintedTwice
  CommandEnds
CHECK_DEADLOCK FALSE
