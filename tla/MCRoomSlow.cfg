SPECIFICATION Spec
CONSTANTS
  p1 = p1
  p2 = p2
  PlayerID = {p1, p2}
  Nobody = Nobody
  MinPlayers = 2
  MaxPlayers = 2
  TotalLaps = 1
  Commands <- RematchCommands
  WebClientOnly = TRUE
  Prompt = FALSE
  TrackWire = FALSE
  GraceCap = 2
  MaxConns = 3
  MaxRounds = 3
SYMMETRY Symmetry
CHECK_DEADLOCK FALSE
INVARIANT VotingCovered
INVARIANT TimersMatchPhase
PROPERTY LeavesSettled
PROPERTY ImplementsMatch
