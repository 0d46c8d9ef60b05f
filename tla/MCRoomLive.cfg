SPECIFICATION FairSpec
CONSTANTS
  p1 = p1
  p2 = p2
  PlayerID = {p1, p2}
  Nobody = Nobody
  MinPlayers = 2
  MaxPlayers = 2
  TotalLaps = 1
  Commands <- LiveCommands
  WebClientOnly = TRUE
  Prompt = TRUE
  TrackWire = FALSE
  GraceCap = 2
  MaxConns = 3
  MaxRounds = 2
CHECK_DEADLOCK FALSE
PROPERTY DiscussionEnds
PROPERTY RevealEnds
PROPERTY AbsentDrawerSkipped
