SPECIFICATION Spec
CONSTANTS
  p1 = p1
  p2 = p2
  PlayerID = {p1, p2}
  Nobody = Nobody
  MinPlayers = 2
  MaxPlayers = 2
  TotalLaps = 1
  Commands <- PlayCommands
  WebClientOnly = TRUE
  Prompt = TRUE
  TrackWire = TRUE
  GraceCap = 2
  MaxConns = 3
  MaxRounds = 2
SYMMETRY Symmetry
CHECK_DEADLOCK FALSE
INVARIANT TypeOK
INVARIANT DrawerCovered
INVARIANT RevealCovered
INVARIANT OneRevisionEach
INVARIANT DeadlineStands
PROPERTY ClosesComplete
