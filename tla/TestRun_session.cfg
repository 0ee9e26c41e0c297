SPECIFICATION TestSpec
CONSTANTS
  Texts <- MCTexts
  Shows <- MCShows
  Clears = {"chain"}
  Replies <- MCReplies
  Question = "ask"
  Bad = "bad"
  Rows = 4
  Plans <- MCPlans
  Suites <- MCSuites
  Programs <- MCPrograms
  Environments <- MCEnvironments
  Hosts <- MCHosts
  PathNames <- MCPathNames
  Home <- MCHome
  Here <- MCHere
  FHOST = "fhost"
  FMOUNT = "fmount"
  FIN <- MCFIN
  MaxTests = 3
  MaxKills = 2
CONSTRAINT Bounded
INVARIANTS
  FirmwareGone
  EvidenceProves
PROPERTIES
  EvidenceKept
  CommandsDone
  TestsEnd
  EnvironmentUsable
CHECK_DEADLOCK FALSE
