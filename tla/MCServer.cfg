SPECIFICATION FairSpec
CONSTANTS
  Code = {c1}
  Seat = {s1}
  Handler = {h1}
  Sweeper = {ticker, direct}
  Background = ticker
  None = None
  MaxRooms = 1
  JoinCap = 1
  LeaveCap = 2
  InboxCap = 1
  MaxCreated = 2
  MaxPosts = 1
CHECK_DEADLOCK FALSE
INVARIANT TypeOK
INVARIANT NoDeadEntry
INVARIANT ClientsWillLeave
INVARIANT CleanExit
PROPERTY NewerRoomKept
PROPERTY DesertedIsReaped
