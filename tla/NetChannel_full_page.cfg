SPECIFICATION Spec
CONSTANTS
  Channels = {1}
  Urls = {tcp}
  Contents <- MCContents
  Echo = tcp
  Translations <- MCTranslations
  Bytes = {1}
  Positions = {0, 3}
  Page = 3
  Unknown = 5
  MaxHandles = 1
  MaxPut = 4
  tcp = tcp
INVARIANTS
  WritesArrive
CHECK_DEADLOCK FALSE
