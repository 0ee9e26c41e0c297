SPECIFICATION CarefulSpec
CONSTANTS
  Channels = {1, 2}
  Urls = {file, tcp}
  Contents <- MCContents
  Echo = tcp
  Translations <- MCTranslations
  Bytes = {1}
  Positions = {0, 3}
  Page = 3
  Unknown = 5
  MaxHandles = 2
  MaxPut = 2
  file = file
  tcp = tcp
CONSTRAINT Few
INVARIANTS
  StreamsOwned
  WritesArrive
PROPERTIES
  ReadsTheStream
CHECK_DEADLOCK FALSE
