SPECIFICATION Spec
CONSTANTS
  None = None
  Player = {1, 2, 3, 4, 5, 6, 7, 8, 9}
  Position <- MCPosition
  Club <- MCClub
  Price <- MCPrice
  SquadCount <- MCSquadCount
  StartLeast <- MCStartLeast
  StartMost <- MCStartMost
  StartingSize = 5
  ClubLimit = 2
  Tolerance = 5
  Artifact <- MCArtifact
  Owned = {1, 2, 3, 4, 5, 6, 7}
  Selling <- MCSelling
  Bank = {0, 1}
  Budget = {12, 14}
  Locked <- MCLocked
  Screens <- MCScreens
  Caps <- MCCaps
INVARIANTS
  AdviceIsBest
  ReportReproducesDecision
CHECK_DEADLOCK FALSE
