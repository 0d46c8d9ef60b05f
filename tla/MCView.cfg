SPECIFICATION ViewSpec
CONSTANTS
  p1 = p1
  p2 = p2
  p3 = p3
  PlayerID = {p1, p2, p3}
  Nobody = Nobody
  MinPlayers = 2
  MaxPlayers = 3
  TotalLaps = 2
  WebClientOnly = TRUE
  MaxAway <- Away
SYMMETRY Symmetry
INVARIANT TypeOK
INVARIANT RolesFixed
INVARIANT TurnInRange
INVARIANT OneSettlement
INVARIANT ScoreBound
INVARIANT EveryoneWasImpostor
INVARIANT ScreenFollows
INVARIANT ImpostorNeverLearns
PROPERTY ImplementsMatch
