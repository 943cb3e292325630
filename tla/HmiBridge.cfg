SPECIFICATION FairSpec
CONSTANTS
  Handlers <- MCTwoHandlers
  Register <- MCRegister
  Table <- MCTable
  Keys <- MCKeys
  Inputs = {5, 65542}
  Readings = {0, 1}
  Capacity = 2
  Threshold = 2
INVARIANTS TypeOK WritableOnly LastCommandWins
PROPERTIES PublishedConverges DeadIsPublished
