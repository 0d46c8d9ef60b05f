SPECIFICATION Spec
CONSTANTS
  p1 = p1
  p2 = p2
  p3 = p3
  PlayerID = {p1, p2, p3}
  Nobody = Nobody
  MinPlayers = 2
  MaxPlayers = 3
  TotalLaps = 2
  WebClientOnly = FALSE
SYMMETRY Symmetry
PROPERTY PointsAreFinal
