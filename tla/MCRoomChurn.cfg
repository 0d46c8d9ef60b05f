SPECIFICATION Spec
CONSTANTS
  p1 = p1
  p2 = p2
  p3 = p3
  PlayerID = {p1, p2, p3}
  Nobody = Nobody
  MinPlayers = 2
  MaxPlayers = 3
  TotalLaps = 1
  Commands <- ChurnCommands
  WebClientOnly = TRUE
  Prompt = TRUE
  TrackWire = FALSE
  GraceCap = 3
  MaxConns = 4
  MaxRounds = 1
SYMMETRY Symmetry
CHECK_DEADLOCK FALSE
INVARIANT PresenceConsistent
INVARIANT HostAlive
INVARIANT GraceCovered
INVARIANT LatestSocketRegistered
INVARIANT VoicePeersConnected
PROPERTY ExpiryStrandsNobody
