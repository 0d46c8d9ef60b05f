----------------------------- MODULE ViewProofs -----------------------------
(***************************************************************************)
(* Theorems about what a player sees (module View), for every set of       *)
(* identities and all bounds: nobody is told a word as its impostor, and   *)
(* the screen that single messages make is the one a snapshot would give.  *)
(* A handler tells the viewer one message after another; each lemma says   *)
(* what the screen shows after the messages of one call. At the end, that  *)
(* every handler is a step of the match, as the engine's calls are.        *)
(***************************************************************************)
EXTENDS View, GameProofs

-----------------------------------------------------------------------------
(* Shapes.                                                                 *)

IsResult(r) ==
  r = [impostor |-> r.impostor, caught |-> r.caught, awaiting |-> r.awaiting,
       timedOut |-> r.timedOut, word |-> r.word, deadline |-> r.deadline]

IsScreen(u) ==
  /\ u = [phase |-> u.phase, players |-> u.players, away |-> u.away, hostId |-> u.hostId,
          round |-> u.round, totalRounds |-> u.totalRounds, word |-> u.word,
          youAreImpostor |-> u.youAreImpostor, currentPlayer |-> u.currentPlayer,
          lap |-> u.lap, strokes |-> u.strokes, hasVoted |-> u.hasVoted,
          votesCast |-> u.votesCast, votesTotal |-> u.votesTotal,
          lastResult |-> u.lastResult, finalScores |-> u.finalScores]
  /\ IsResult(u.lastResult)

IsSeat(v) ==
  /\ v = [me |-> v.me, connected |-> v.connected, away |-> v.away, strokes |-> v.strokes,
          ballot |-> v.ballot, stale |-> v.stale, ui |-> v.ui]
  /\ IsScreen(v.ui)

IsPair(x) == x = [game |-> x.game, seat |-> x.seat] /\ IsSeat(x.seat)

\* The seat but for the strokes and the screen.
SameSeat(x, y) ==
  /\ y.seat.me = x.seat.me /\ y.seat.connected = x.seat.connected /\ y.seat.away = x.seat.away
  /\ y.seat.ballot = x.seat.ballot /\ y.seat.stale = x.seat.stale

Hears(x) == x.seat.me \in x.seat.connected

-----------------------------------------------------------------------------
(* What the screen owes the match.                                         *)

Lists(u, x) ==
  u.players = x.game.players /\ u.away = x.seat.away /\ u.hostId = x.game.host

RoleShown(u, x) ==
  /\ HidesWord(x)  => u.word = FALSE /\ u.youAreImpostor = TRUE
  /\ ~HidesWord(x) => u.word = TRUE  /\ u.youAreImpostor = FALSE

Undated(r) == [r EXCEPT !.deadline = FALSE]

Plays(u, x) ==
  /\ u.phase = x.game.phase
  /\ u.strokes = x.seat.strokes
  /\ x.game.phase # "lobby" => u.round = x.game.round /\ RoleShown(u, x)
  /\ x.game.phase = "drawing" => u.currentPlayer = Drawer(x.game) /\ u.lap = x.game.lap
  /\ x.game.phase \in {"drawing", "discussion"} => u.votesTotal = 0
  /\ x.game.phase = "reveal" => Undated(u.lastResult) = Result(x)
  /\ x.game.phase = "game_over" => u.finalScores = TRUE

\* The viewer's vote: none before the vote, then what marked says.
Marks(u, x, marked) ==
  /\ x.game.phase \in {"drawing", "discussion"} => u.hasVoted = FALSE
  /\ x.game.phase = "voting" =>
       (marked => u.hasVoted = TRUE) /\ (~marked => u.hasVoted = FALSE)

Counts(u, x) ==
  x.game.phase = "voting" =>
    \/ u.votesTotal = 0
    \/ u.votesCast = VotesCast(x) /\ u.votesTotal = VotesTotal(x)

\* A vote on its way that the room will count.
Pending(x) == x.seat.ballot # Nobody /\ ~x.seat.stale
Marked(x)  == HasVoted(x.game, x.seat.me) \/ Pending(x)

\* No word for an impostor, neither this round's nor with a result.
HonestTo(u, me) ==
  /\ u.word = TRUE => u.youAreImpostor = FALSE
  /\ u.lastResult.word = TRUE => u.lastResult.impostor # me

Honest(x) == HonestTo(x.seat.ui, x.seat.me)

\* The viewer has been told all that the match owes its screen.
Follows(u, x, marked) ==
  Lists(u, x) /\ Plays(u, x) /\ Counts(u, x) /\ Marks(u, x, marked)

Shown(x) == Hears(x) => Follows(x.seat.ui, x, Marked(x))

\* The match, the seats, and a vote on its way: it will be counted, as nobody's
\* vote closes without it.
Seated(x) ==
  /\ Inv(x.game) /\ x.seat.me \in PlayerID
  /\ x.seat.connected \subseteq Roster(x.game)
  /\ x.seat.connected \cap x.seat.away = {}
  /\ Pending(x) => /\ Hears(x) /\ x.game.phase = "voting"
                   /\ ~HasVoted(x.game, x.seat.me) /\ x.seat.ballot \in Roster(x.game)

Sound(x) == IsPair(x) /\ Seated(x) /\ Honest(x)

-----------------------------------------------------------------------------
(* One message.                                                            *)

MessageType == EventType \cup {"Lobby", "Left", "Presence", "Host", "Snapshot"}

LEMMA ReduceNames ==
  ASSUME NEW u, NEW x
  PROVE  /\ Reduce(u, x, "RoundStarted") = OnRoundStarted(u, x)
         /\ Reduce(u, x, "TurnChanged")  = OnTurnChanged(u, x)
         /\ Reduce(u, x, "StrokeAdded")  = [u EXCEPT !.strokes = u.strokes + 1]
         /\ Reduce(u, x, "PhaseChanged") = OnPhaseChanged(u, x)
         /\ Reduce(u, x, "VoteRecorded") = OnVoteUpdate(u, x)
         /\ Reduce(u, x, "RoundEnded")   = OnRoundResult(u, x)
         /\ Reduce(u, x, "GameEnded")    = OnGameOver(u, x)
         /\ Reduce(u, x, "Lobby")        = OnLobbyUpdate(u, x)
         /\ Reduce(u, x, "Left")         = OnPlayerLeft(u, x)
         /\ Reduce(u, x, "Presence")     = [u EXCEPT !.away = x.seat.away]
         /\ Reduce(u, x, "Host")         = [u EXCEPT !.hostId = x.game.host]
         /\ Reduce(u, x, "Snapshot")     = Snapshot(x)
  BY DEF Reduce

\* A result tells its impostor no word.
LEMMA ResultHonest ==
  ASSUME NEW x, NEW r, r = Result(x) \/ r = RoundResultPayload(x) \/ r = NoRoundResult
  PROVE  IsResult(r) /\ (r.word = TRUE => r.impostor # x.seat.me)
<1>1. CASE r = NoRoundResult
  BY <1>1 DEF NoRoundResult, IsResult
<1>2. CASE r = Result(x)
  <2>1. IsResult(r) /\ r.impostor = ResultImpostor(x.game) /\ r.word = Redacted(x)
    BY <1>2 DEF Result, IsResult
  <2>2. CASE ResultImpostor(x.game) = x.seat.me
    <3>1. Redacted(x) = FALSE
      BY <2>2 DEF Redacted
    <3> QED
      BY <2>1, <3>1
  <2> QED
    BY <2>1, <2>2
<1>3. CASE r = RoundResultPayload(x)
  <2> DEFINE d == AwaitingGuess(x.game)
             q == Result(x)
  <2>1. r = [q EXCEPT !.deadline = d]
    BY <1>3 DEF RoundResultPayload
  <2>2. IsResult(q) /\ q.impostor = ResultImpostor(x.game) /\ q.word = Redacted(x)
    BY DEF Result, IsResult
  <2> HIDE DEF d, q
  <2>3. IsResult(r) /\ r.impostor = ResultImpostor(x.game) /\ r.word = Redacted(x)
    BY <2>1, <2>2 DEF IsResult
  <2>4. CASE ResultImpostor(x.game) = x.seat.me
    <3>1. Redacted(x) = FALSE
      BY <2>4 DEF Redacted
    <3> QED
      BY <2>3, <3>1
  <2> QED
    BY <2>3, <2>4
<1> QED
  BY <1>1, <1>2, <1>3

SameLists(u, v) == v.players = u.players /\ v.away = u.away /\ v.hostId = u.hostId

SameTurn(u, v) == v.currentPlayer = u.currentPlayer /\ v.lap = u.lap

SameRole(u, v) ==
  v.round = u.round /\ v.word = u.word /\ v.youAreImpostor = u.youAreImpostor

SameVote(u, v) ==
  v.hasVoted = u.hasVoted /\ v.votesCast = u.votesCast /\ v.votesTotal = u.votesTotal

SameEnd(u, v) == v.lastResult = u.lastResult /\ v.finalScores = u.finalScores

\* No vote of the viewer, and no count of the others'.
Unvoted(u) == u.hasVoted = FALSE /\ u.votesTotal = 0

Final(u) == u.finalScores = TRUE

\* A message about the roster.
SamePlay(u, v) ==
  /\ v.phase = u.phase /\ v.strokes = u.strokes
  /\ SameTurn(u, v) /\ SameRole(u, v) /\ SameVote(u, v) /\ SameEnd(u, v)

LEMMA RoundStartedScreen ==
  ASSUME NEW u, IsScreen(u), NEW x, NEW v, v = OnRoundStarted(u, x)
  PROVE  /\ IsScreen(v) /\ HonestTo(v, x.seat.me) /\ SameLists(u, v)
         /\ v.phase = "drawing" /\ v.round = x.game.round /\ RoleShown(v, x)
         /\ v.strokes = 0 /\ Unvoted(v)
<1> DEFINE mine  == HidesWord(x)
           other == ~HidesWord(x)
           none  == NoRoundResult
<1>1. v = [u EXCEPT !.phase = "drawing", !.round = x.game.round, !.word = other,
                    !.youAreImpostor = mine, !.strokes = 0, !.lastResult = none,
                    !.hasVoted = FALSE, !.votesCast = 0, !.votesTotal = 0]
  BY DEF OnRoundStarted
<1>2. IsResult(none) /\ none.word = FALSE
  BY DEF NoRoundResult, IsResult
<1>3. \/ mine = TRUE /\ other = FALSE /\ HidesWord(x)
      \/ mine = FALSE /\ other = TRUE /\ ~HidesWord(x)
  OBVIOUS
<1> HIDE DEF mine, other, none
<1>4. /\ IsScreen(v) /\ SameLists(u, v) /\ v.phase = "drawing" /\ v.round = x.game.round
      /\ v.strokes = 0 /\ v.hasVoted = FALSE /\ v.votesTotal = 0
      /\ v.word = other /\ v.youAreImpostor = mine /\ v.lastResult = none
  BY <1>1, <1>2, ZenonT(60) DEF IsScreen, SameLists
<1> QED
  BY <1>2, <1>3, <1>4 DEF RoleShown, HonestTo, Unvoted

LEMMA TurnChangedScreen ==
  ASSUME NEW u, IsScreen(u), NEW x, NEW v, v = OnTurnChanged(u, x)
  PROVE  /\ IsScreen(v) /\ SameLists(u, v) /\ v.phase = u.phase /\ v.strokes = u.strokes
         /\ SameRole(u, v) /\ SameVote(u, v) /\ SameEnd(u, v)
         /\ v.currentPlayer = Drawer(x.game) /\ v.lap = x.game.lap
<1> DEFINE drawer == Drawer(x.game)
<1>1. v = [u EXCEPT !.currentPlayer = drawer, !.lap = x.game.lap]
  BY DEF OnTurnChanged
<1> HIDE DEF drawer
<1>2. /\ IsScreen(v) /\ SameLists(u, v) /\ v.phase = u.phase /\ v.strokes = u.strokes
      /\ SameRole(u, v) /\ SameVote(u, v) /\ SameEnd(u, v)
      /\ v.currentPlayer = drawer /\ v.lap = x.game.lap
  BY <1>1 DEF IsScreen, SameLists, SameRole, SameVote, SameEnd
<1> QED
  BY <1>2 DEF drawer

LEMMA StrokeScreen ==
  ASSUME NEW u, IsScreen(u), NEW v, v = [u EXCEPT !.strokes = u.strokes + 1]
  PROVE  /\ IsScreen(v) /\ SameLists(u, v) /\ v.phase = u.phase /\ v.strokes = u.strokes + 1
         /\ SameTurn(u, v) /\ SameRole(u, v) /\ SameVote(u, v) /\ SameEnd(u, v)
<1> DEFINE n == u.strokes + 1
<1>1. v = [u EXCEPT !.strokes = n]
  OBVIOUS
<1> HIDE DEF n
<1>2. /\ IsScreen(v) /\ SameLists(u, v) /\ v.phase = u.phase /\ v.strokes = n
      /\ SameTurn(u, v) /\ SameRole(u, v) /\ SameVote(u, v) /\ SameEnd(u, v)
  BY <1>1 DEF IsScreen, SameLists, SameTurn, SameRole, SameVote, SameEnd
<1> QED
  BY <1>2 DEF n

LEMMA VoteScreen ==
  ASSUME NEW u, IsScreen(u), NEW x, NEW v, v = OnVoteUpdate(u, x)
  PROVE  /\ IsScreen(v) /\ SameLists(u, v) /\ v.phase = u.phase /\ v.strokes = u.strokes
         /\ SameTurn(u, v) /\ SameRole(u, v) /\ SameEnd(u, v) /\ v.hasVoted = u.hasVoted
         /\ v.votesCast = VotesCast(x) /\ v.votesTotal = VotesTotal(x)
<1> DEFINE cast  == VotesCast(x)
           total == VotesTotal(x)
<1>1. v = [u EXCEPT !.votesCast = cast, !.votesTotal = total]
  BY DEF OnVoteUpdate
<1> HIDE DEF cast, total
<1>2. /\ IsScreen(v) /\ SameLists(u, v) /\ v.phase = u.phase /\ v.strokes = u.strokes
      /\ SameTurn(u, v) /\ SameRole(u, v) /\ SameEnd(u, v) /\ v.hasVoted = u.hasVoted
      /\ v.votesCast = cast /\ v.votesTotal = total
  BY <1>1 DEF IsScreen, SameLists, SameTurn, SameRole, SameEnd
<1> QED
  BY <1>2 DEF cast, total

LEMMA ResultScreen ==
  ASSUME NEW u, IsScreen(u), NEW x, NEW v, v = OnRoundResult(u, x)
  PROVE  /\ IsScreen(v) /\ SameLists(u, v) /\ v.phase = "reveal" /\ v.strokes = u.strokes
         /\ SameTurn(u, v) /\ SameRole(u, v) /\ SameVote(u, v)
         /\ v.finalScores = u.finalScores /\ v.lastResult = RoundResultPayload(x)
         /\ Undated(v.lastResult) = Result(x)
<1> DEFINE payload == RoundResultPayload(x)
<1>1. v = [u EXCEPT !.phase = "reveal", !.lastResult = payload]
  BY DEF OnRoundResult
<1>2. IsResult(payload)
  BY ResultHonest
<1>3. Undated(payload) = Result(x)
  <2> DEFINE q == Result(x)
             d == AwaitingGuess(x.game)
  <2>1. IsResult(q) /\ q.deadline = FALSE
    BY ResultHonest DEF Result
  <2>2. payload = [q EXCEPT !.deadline = d]
    BY DEF RoundResultPayload
  <2> HIDE DEF q, d, payload
  <2>3. [payload EXCEPT !.deadline = FALSE] = q
    BY <2>1, <2>2 DEF IsResult
  <2> QED
    BY <2>3 DEF Undated, q
<1> HIDE DEF payload
<1>4. /\ IsScreen(v) /\ SameLists(u, v) /\ v.phase = "reveal" /\ v.strokes = u.strokes
      /\ SameTurn(u, v) /\ SameRole(u, v) /\ SameVote(u, v)
      /\ v.finalScores = u.finalScores /\ v.lastResult = payload
  BY <1>1, <1>2 DEF IsScreen, SameLists, SameTurn, SameRole, SameVote
<1> QED
  BY <1>3, <1>4 DEF payload

LEMMA PhaseScreen ==
  ASSUME NEW u, IsScreen(u), NEW x, NEW v, v = OnPhaseChanged(u, x)
  PROVE  /\ IsScreen(v) /\ SameLists(u, v) /\ v.phase = x.game.phase /\ v.strokes = u.strokes
         /\ SameTurn(u, v) /\ SameRole(u, v) /\ SameVote(u, v)
         /\ v.finalScores = u.finalScores
         /\ v.lastResult \in {u.lastResult, RoundResultPayload(x)}
         /\ x.game.phase = "reveal" /\ x.game.result.caught =>
              Undated(v.lastResult) = Result(x)
<1> DEFINE told == [u EXCEPT !.phase = x.game.phase]
<1>1. /\ IsScreen(told) /\ SameLists(u, told) /\ told.phase = x.game.phase
      /\ told.strokes = u.strokes /\ SameTurn(u, told) /\ SameRole(u, told)
      /\ SameVote(u, told) /\ SameEnd(u, told)
  BY DEF IsScreen, SameLists, SameTurn, SameRole, SameVote, SameEnd
<1>2. v = IF x.game.phase = "reveal" /\ x.game.result.caught THEN OnRoundResult(told, x) ELSE told
  BY DEF OnPhaseChanged
<1> HIDE DEF told
<1>3. CASE x.game.phase = "reveal" /\ x.game.result.caught
  <2>1. v = OnRoundResult(told, x)
    BY <1>2, <1>3
  <2>2. /\ IsScreen(v) /\ SameLists(told, v) /\ v.phase = "reveal" /\ v.strokes = told.strokes
        /\ SameTurn(told, v) /\ SameRole(told, v) /\ SameVote(told, v)
        /\ v.finalScores = told.finalScores /\ v.lastResult = RoundResultPayload(x)
        /\ Undated(v.lastResult) = Result(x)
    BY <1>1, <2>1, ResultScreen
  <2> QED
    BY <1>1, <1>3, <2>2 DEF SameLists, SameTurn, SameRole, SameVote, SameEnd
<1>4. CASE ~(x.game.phase = "reveal" /\ x.game.result.caught)
  BY <1>1, <1>2, <1>4 DEF SameEnd
<1> QED
  BY <1>3, <1>4

LEMMA OverScreen ==
  ASSUME NEW u, IsScreen(u), NEW x, NEW v, v = OnGameOver(u, x)
  PROVE  /\ IsScreen(v) /\ SameLists(u, v) /\ v.phase = "game_over" /\ v.strokes = u.strokes
         /\ SameTurn(u, v) /\ SameRole(u, v) /\ SameVote(u, v)
         /\ v.lastResult = u.lastResult /\ Final(v)
  BY DEF OnGameOver, IsScreen, SameLists, SameTurn, SameRole, SameVote, Final

RosterSeen(u, x, e, v) ==
  /\ e = "Lobby" => Lists(v, x)
  /\ e = "Presence" => v.players = u.players /\ v.away = x.seat.away /\ v.hostId = u.hostId
  /\ e = "Host" => v.players = u.players /\ v.away = u.away /\ v.hostId = x.game.host

LEMMA RosterScreen ==
  ASSUME NEW u, IsScreen(u), NEW x, NEW e \in {"Lobby", "Left", "Presence", "Host"},
         NEW v, v = Reduce(u, x, e)
  PROVE  IsScreen(v) /\ SamePlay(u, v) /\ RosterSeen(u, x, e, v)
<1> USE DEF RosterSeen, IsScreen, SamePlay, SameTurn, SameRole, SameVote, SameEnd
<1>1. CASE e = "Lobby"
  <2>1. v = [u EXCEPT !.players = x.game.players, !.away = x.seat.away, !.hostId = x.game.host]
    BY <1>1, ReduceNames DEF OnLobbyUpdate
  <2> QED
    BY <1>1, <2>1 DEF Lists
<1>2. CASE e = "Left"
  <2> DEFINE left == Still(u.players, Roster(x.game))
  <2>1. v = [u EXCEPT !.players = left]
    BY <1>2, ReduceNames DEF OnPlayerLeft
  <2> HIDE DEF left
  <2> QED
    BY <1>2, <2>1
<1>3. CASE e = "Presence"
  BY <1>3, ReduceNames
<1>4. CASE e = "Host"
  BY <1>4, ReduceNames
<1> QED
  BY <1>1, <1>2, <1>3, <1>4


-----------------------------------------------------------------------------
(* A snapshot.                                                             *)

\* What a snapshot shows of the vote.
SnapshotVote(u, x) ==
  /\ x.game.phase = "voting" /\ HasVoted(x.game, x.seat.me)  => u.hasVoted = TRUE
  /\ x.game.phase = "voting" /\ ~HasVoted(x.game, x.seat.me) => u.hasVoted = FALSE
  /\ x.game.phase # "voting" => u.hasVoted = FALSE

LEMMA ImpostorSeated ==
  ASSUME NEW s, Inv(s), s.phase # "lobby"
  PROVE  s.impostor \in PlayerID
<1>1. s.order[s.round] \in 1 .. Len(s.players)
  <2>1. Len(s.players) \in Nat
    BY DEF Inv, State
  <2> QED
    BY <2>1, PermsType DEF Inv, RolesAssigned
<1> QED
  BY <1>1 DEF Inv, RolesAssigned, ImpostorOf, State

LEMMA SnapshotScreen ==
  ASSUME NEW x, Seated(x), NEW v, v = Snapshot(x)
  PROVE  /\ IsScreen(v) /\ HonestTo(v, x.seat.me)
         /\ Lists(v, x) /\ Plays(v, x) /\ Counts(v, x) /\ SnapshotVote(v, x)
<1> DEFINE word   == x.game.phase # "lobby" /\ ~HidesWord(x)
           mine   == x.game.phase # "lobby" /\ HidesWord(x)
           drawer == IF x.game.phase = "drawing" THEN Drawer(x.game) ELSE Nobody
           voted  == x.game.phase = "voting" /\ HasVoted(x.game, x.seat.me)
           cast   == IF x.game.phase = "voting" THEN VotesCast(x) ELSE 0
           total  == IF x.game.phase = "voting" THEN VotesTotal(x) ELSE 0
           result == IF ResultImpostor(x.game) = Nobody THEN NoRoundResult ELSE Result(x)
           over   == x.game.phase = "game_over"
<1>1. v = [phase |-> x.game.phase, players |-> x.game.players, away |-> x.seat.away,
           hostId |-> x.game.host, round |-> x.game.round, totalRounds |-> x.game.total,
           word |-> word, youAreImpostor |-> mine, currentPlayer |-> drawer,
           lap |-> x.game.lap, strokes |-> x.seat.strokes, hasVoted |-> voted,
           votesCast |-> cast, votesTotal |-> total, lastResult |-> result,
           finalScores |-> over]
  BY DEF Snapshot
<1>2. IsResult(result) /\ (result.word = TRUE => result.impostor # x.seat.me)
  BY ResultHonest
<1>3. /\ x.game.phase = "lobby" => word = FALSE /\ mine = FALSE
      /\ x.game.phase # "lobby" /\ HidesWord(x)  => word = FALSE /\ mine = TRUE
      /\ x.game.phase # "lobby" /\ ~HidesWord(x) => word = TRUE  /\ mine = FALSE
  OBVIOUS
<1>4. /\ x.game.phase = "drawing" => drawer = Drawer(x.game)
      /\ x.game.phase = "voting" => cast = VotesCast(x) /\ total = VotesTotal(x)
      /\ x.game.phase # "voting" => total = 0
  OBVIOUS
<1>5. x.game.phase = "reveal" => Undated(result) = Result(x)
  <2> SUFFICES ASSUME x.game.phase = "reveal"
               PROVE  Undated(result) = Result(x)
    OBVIOUS
  <2>1. x.game.impostor \in PlayerID
    BY ImpostorSeated DEF Seated
  <2>2. result = Result(x)
    BY <2>1, NobodyAssumption DEF ResultImpostor
  <2> DEFINE told == Result(x)
  <2>3. IsResult(told) /\ told.deadline = FALSE
    BY ResultHonest DEF Result
  <2> HIDE DEF result, told
  <2>4. [told EXCEPT !.deadline = FALSE] = told
    BY <2>3 DEF IsResult
  <2> QED
    BY <2>2, <2>4 DEF Undated, told
<1>6. /\ x.game.phase = "voting" /\ HasVoted(x.game, x.seat.me)  => voted = TRUE
      /\ x.game.phase = "voting" /\ ~HasVoted(x.game, x.seat.me) => voted = FALSE
      /\ x.game.phase # "voting" => voted = FALSE
  OBVIOUS
<1>7. x.game.phase = "game_over" => over = TRUE
  OBVIOUS
<1> HIDE DEF word, mine, drawer, voted, cast, total, result, over
<1>8. /\ IsScreen(v) /\ v.phase = x.game.phase /\ v.strokes = x.seat.strokes
      /\ v.players = x.game.players /\ v.away = x.seat.away /\ v.hostId = x.game.host
      /\ v.round = x.game.round /\ v.word = word /\ v.youAreImpostor = mine
      /\ v.currentPlayer = drawer /\ v.lap = x.game.lap /\ v.hasVoted = voted
      /\ v.votesCast = cast /\ v.votesTotal = total /\ v.lastResult = result
      /\ v.finalScores = over
  BY <1>1, <1>2 DEF IsScreen
<1>9. HonestTo(v, x.seat.me) /\ (x.game.phase # "lobby" => RoleShown(v, x))
  BY <1>2, <1>3, <1>8 DEF HonestTo, RoleShown
<1>10. Plays(v, x)
  BY <1>4, <1>5, <1>7, <1>8, <1>9 DEF Plays
<1> QED
  BY <1>4, <1>6, <1>8, <1>9, <1>10 DEF Lists, Counts, SnapshotVote

-----------------------------------------------------------------------------
(* Telling.                                                                *)

\* No message makes a screen dishonest.
LEMMA ScreenAfter ==
  ASSUME NEW u, IsScreen(u), NEW x, NEW e \in MessageType, e = "Snapshot" => Seated(x),
         NEW v, v = Reduce(u, x, e)
  PROVE  IsScreen(v) /\ (HonestTo(u, x.seat.me) => HonestTo(v, x.seat.me))
<1>1. CASE e = "RoundStarted"
  <2>1. v = OnRoundStarted(u, x)
    BY <1>1, ReduceNames
  <2> QED
    BY <2>1, RoundStartedScreen
<1>2. CASE e = "TurnChanged"
  <2>1. v = OnTurnChanged(u, x)
    BY <1>2, ReduceNames
  <2>2. IsScreen(v) /\ SameRole(u, v) /\ SameEnd(u, v)
    BY <2>1, TurnChangedScreen
  <2> QED
    BY <2>2 DEF SameRole, SameEnd, HonestTo
<1>3. CASE e = "StrokeAdded"
  <2>1. v = [u EXCEPT !.strokes = u.strokes + 1]
    BY <1>3, ReduceNames
  <2>2. IsScreen(v) /\ SameRole(u, v) /\ SameEnd(u, v)
    BY <2>1, StrokeScreen
  <2> QED
    BY <2>2 DEF SameRole, SameEnd, HonestTo
<1>4. CASE e = "PhaseChanged"
  <2>1. v = OnPhaseChanged(u, x)
    BY <1>4, ReduceNames
  <2>2. /\ IsScreen(v) /\ SameRole(u, v)
        /\ v.lastResult \in {u.lastResult, RoundResultPayload(x)}
    BY <2>1, PhaseScreen
  <2> DEFINE payload == RoundResultPayload(x)
  <2>3. payload.word = TRUE => payload.impostor # x.seat.me
    BY ResultHonest
  <2>4. v.lastResult = u.lastResult \/ v.lastResult = payload
    BY <2>2
  <2> HIDE DEF payload
  <2> QED
    BY <2>2, <2>3, <2>4 DEF SameRole, HonestTo
<1>5. CASE e = "VoteRecorded"
  <2>1. v = OnVoteUpdate(u, x)
    BY <1>5, ReduceNames
  <2>2. IsScreen(v) /\ SameRole(u, v) /\ SameEnd(u, v)
    BY <2>1, VoteScreen
  <2> QED
    BY <2>2 DEF SameRole, SameEnd, HonestTo
<1>6. CASE e = "RoundEnded"
  <2>1. v = OnRoundResult(u, x)
    BY <1>6, ReduceNames
  <2>2. IsScreen(v) /\ SameRole(u, v) /\ v.lastResult = RoundResultPayload(x)
    BY <2>1, ResultScreen
  <2> DEFINE payload == RoundResultPayload(x)
  <2>3. payload.word = TRUE => payload.impostor # x.seat.me
    BY ResultHonest
  <2>4. v.lastResult = payload
    BY <2>2
  <2> HIDE DEF payload
  <2> QED
    BY <2>2, <2>3, <2>4 DEF SameRole, HonestTo
<1>7. CASE e = "GameEnded"
  <2>1. v = OnGameOver(u, x)
    BY <1>7, ReduceNames
  <2>2. /\ IsScreen(v) /\ SameLists(u, v) /\ v.phase = "game_over" /\ v.strokes = u.strokes
        /\ SameTurn(u, v) /\ SameRole(u, v) /\ SameVote(u, v)
        /\ v.lastResult = u.lastResult /\ Final(v)
    BY <2>1, OverScreen
  <2> QED
    BY <2>2 DEF SameRole, HonestTo
<1>8. CASE e \in {"Lobby", "Left", "Presence", "Host"}
  <2>1. IsScreen(v) /\ SamePlay(u, v)
    BY <1>8, RosterScreen
  <2> QED
    BY <2>1 DEF SamePlay, SameRole, SameEnd, HonestTo
<1>9. CASE e = "Snapshot"
  <2>1. v = Snapshot(x)
    BY <1>9, ReduceNames
  <2> QED
    BY <1>9, <2>1, SnapshotScreen
<1> QED
  BY <1>1, <1>2, <1>3, <1>4, <1>5, <1>6, <1>7, <1>8, <1>9 DEF MessageType, EventType

\* All that messages are made from.
SameFacts(x, y) == y.game = x.game /\ SameSeat(x, y) /\ y.seat.strokes = x.seat.strokes

LEMMA TellStep ==
  ASSUME NEW x, IsPair(x), NEW e \in MessageType, e = "Snapshot" => Seated(x),
         NEW y, y = Tell(x, e)
  PROVE  /\ IsPair(y) /\ SameFacts(x, y)
         /\ Hears(x)  => y.seat.ui = Reduce(x.seat.ui, x, e)
         /\ ~Hears(x) => y = x
         /\ Honest(x) => Honest(y)
<1>1. CASE Hears(x)
  <2> DEFINE u == Reduce(x.seat.ui, x, e)
  <2>1. y = [x EXCEPT !.seat = [x.seat EXCEPT !.ui = u]]
    BY <1>1 DEF Tell, Hears
  <2>2. IsScreen(u) /\ (HonestTo(x.seat.ui, x.seat.me) => HonestTo(u, x.seat.me))
    <3>1. IsScreen(x.seat.ui)
      BY DEF IsPair, IsSeat
    <3> QED
      BY <3>1, ScreenAfter
  <2> HIDE DEF u
  <2> DEFINE v == [x.seat EXCEPT !.ui = u]
  <2>3. /\ IsSeat(v) /\ v.ui = u /\ v.me = x.seat.me /\ v.connected = x.seat.connected
        /\ v.away = x.seat.away /\ v.strokes = x.seat.strokes /\ v.ballot = x.seat.ballot
        /\ v.stale = x.seat.stale
    BY <2>2 DEF IsPair, IsSeat
  <2> HIDE DEF v
  <2>4. IsPair(y) /\ y.game = x.game /\ y.seat = v
    BY <2>1, <2>3 DEF IsPair, v
  <2> QED
    BY <1>1, <2>2, <2>3, <2>4 DEF SameFacts, SameSeat, Honest, u
<1>2. CASE ~Hears(x)
  <2>1. y = x
    BY <1>2 DEF Tell, Hears
  <2> QED
    BY <1>2, <2>1 DEF SameFacts, SameSeat
<1> QED
  BY <1>1, <1>2

LEMMA SeatedSame ==
  ASSUME NEW x, NEW y, y.game = x.game, SameSeat(x, y)
  PROVE  /\ Seated(x) => Seated(y)
         /\ Hears(y) <=> Hears(x)
         /\ Pending(y) <=> Pending(x)
         /\ Marked(y) <=> Marked(x)
  BY DEF SameSeat, Seated, Hears, Pending, Marked

LEMMA ShowsSame ==
  ASSUME NEW x, NEW y, SameFacts(x, y), NEW u
  PROVE  /\ Lists(u, x) <=> Lists(u, y)
         /\ Plays(u, x) <=> Plays(u, y)
         /\ Counts(u, x) <=> Counts(u, y)
         /\ \A marked \in BOOLEAN : Marks(u, x, marked) <=> Marks(u, y, marked)
  BY DEF SameFacts, SameSeat, Lists, Plays, RoleShown, HidesWord, Counts, VotesCast,
         VotesTotal, Marks, Result, Redacted

-----------------------------------------------------------------------------
(* The events of a call.                                                   *)

LEMMA StrokesAfter ==
  ASSUME NEW n
  PROVE  /\ Strokes(n, <<"RoundStarted", "TurnChanged">>) = 0
         /\ \A a \in EventType \ {"RoundStarted", "StrokeAdded"} : Strokes(n, <<a>>) = n
         /\ \A a \in {"TurnChanged", "PhaseChanged"} : Strokes(n, <<"StrokeAdded", a>>) = n + 1
         /\ Strokes(n, <<"VoteRecorded", "PhaseChanged">>) = n
         /\ Strokes(n, <<"PhaseChanged", "RoundEnded">>) = n
         /\ Strokes(n, <<"VoteRecorded", "PhaseChanged", "RoundEnded">>) = n
<1>1. ASSUME NEW a
      PROVE  {<<a>>[i] : i \in 1 .. Len(<<a>>)} = {a}
  <2>1. Len(<<a>>) = 1 /\ 1 .. 1 = {1}
    OBVIOUS
  <2> QED
    BY <2>1
<1>2. ASSUME NEW a, NEW b
      PROVE  {<<a, b>>[i] : i \in 1 .. Len(<<a, b>>)} = {a, b}
  <2>1. Len(<<a, b>>) = 2 /\ 1 .. 2 = {1, 2}
    OBVIOUS
  <2> QED
    BY <2>1
<1>3. ASSUME NEW a, NEW b, NEW c
      PROVE  {<<a, b, c>>[i] : i \in 1 .. Len(<<a, b, c>>)} = {a, b, c}
  <2>1. Len(<<a, b, c>>) = 3 /\ 1 .. 3 = {1, 2, 3}
    OBVIOUS
  <2> QED
    BY <2>1
<1>4. Strokes(n, <<"RoundStarted", "TurnChanged">>) = 0
  BY <1>2 DEF Strokes
<1>5. ASSUME NEW a \in EventType \ {"RoundStarted", "StrokeAdded"}
      PROVE  Strokes(n, <<a>>) = n
  BY <1>1 DEF Strokes, EventType
<1>6. ASSUME NEW a \in {"TurnChanged", "PhaseChanged"}
      PROVE  Strokes(n, <<"StrokeAdded", a>>) = n + 1
  BY <1>2 DEF Strokes
<1>7. /\ Strokes(n, <<"VoteRecorded", "PhaseChanged">>) = n
      /\ Strokes(n, <<"PhaseChanged", "RoundEnded">>) = n
  BY <1>2 DEF Strokes
<1>8. Strokes(n, <<"VoteRecorded", "PhaseChanged", "RoundEnded">>) = n
  BY <1>3 DEF Strokes
<1> QED
  BY <1>4, <1>5, <1>6, <1>7, <1>8

\* Before a call's messages: its state, its strokes, and the screen as it was.
Turned(x, s, n, x0) ==
  /\ IsPair(x0) /\ x0.game = s /\ SameSeat(x, x0)
  /\ x0.seat.strokes = n /\ x0.seat.ui = x.seat.ui

LEMMA ApplyTells ==
  ASSUME NEW x, IsPair(x), NEW s, NEW events, NEW y, y = Apply(x, Out(s, events))
  PROVE  \E x0 :
           /\ Turned(x, s, Strokes(x.seat.strokes, events), x0)
           /\ Len(events) = 1 => y = Tell(x0, events[1])
           /\ Len(events) = 2 => y = Tell(Tell(x0, events[1]), events[2])
           /\ Len(events) = 3 => y = Tell(Tell(Tell(x0, events[1]), events[2]), events[3])
<1> DEFINE n  == Strokes(x.seat.strokes, events)
           x0 == [x EXCEPT !.game = s, !.seat.strokes = n]
           v  == [x.seat EXCEPT !.strokes = n]
           y1 == IF Len(events) >= 1 THEN Tell(x0, events[1]) ELSE x0
           y2 == IF Len(events) >= 2 THEN Tell(y1, events[2]) ELSE y1
<1>1. y = IF Len(events) >= 3 THEN Tell(y2, events[3]) ELSE y2
  BY DEF Apply, Out
<1>2. /\ Len(events) = 1 => y = Tell(x0, events[1])
      /\ Len(events) = 2 => y = Tell(Tell(x0, events[1]), events[2])
      /\ Len(events) = 3 => y = Tell(Tell(Tell(x0, events[1]), events[2]), events[3])
  <2> HIDE DEF x0
  <2> QED
    BY <1>1
<1>3. x0 = [x EXCEPT !.game = s, !.seat = v]
  OBVIOUS
<1> HIDE DEF n
<1>4. /\ IsSeat(v) /\ v.ui = x.seat.ui /\ v.me = x.seat.me /\ v.connected = x.seat.connected
      /\ v.away = x.seat.away /\ v.strokes = n /\ v.ballot = x.seat.ballot
      /\ v.stale = x.seat.stale
  BY DEF IsPair, IsSeat
<1> HIDE DEF v, x0
<1>5. IsPair(x0) /\ x0.game = s /\ x0.seat = v
  BY <1>3, <1>4 DEF IsPair
<1>6. Turned(x, s, n, x0)
  BY <1>4, <1>5 DEF Turned, SameSeat
<1> QED
  BY <1>2, <1>6 DEF n

\* Equal facts make equal messages.
LEMMA ReduceSame ==
  ASSUME NEW x, NEW y, SameFacts(x, y), NEW u, NEW e \in EventType
  PROVE  Reduce(u, x, e) = Reduce(u, y, e)
<1>1. /\ HidesWord(x) = HidesWord(y) /\ VotesCast(x) = VotesCast(y)
      /\ VotesTotal(x) = VotesTotal(y) /\ Result(x) = Result(y)
  BY DEF SameFacts, SameSeat, HidesWord, VotesCast, VotesTotal, Result, Redacted
<1>2. RoundResultPayload(x) = RoundResultPayload(y)
  BY <1>1 DEF SameFacts, RoundResultPayload
<1>3. \A v : OnRoundResult(v, x) = OnRoundResult(v, y)
  BY <1>2 DEF OnRoundResult
<1>4. OnRoundStarted(u, x) = OnRoundStarted(u, y)
  BY <1>1 DEF OnRoundStarted, SameFacts
<1>5. OnTurnChanged(u, x) = OnTurnChanged(u, y)
  BY DEF OnTurnChanged, SameFacts
<1>6. OnVoteUpdate(u, x) = OnVoteUpdate(u, y)
  BY <1>1 DEF OnVoteUpdate
<1>7. OnPhaseChanged(u, x) = OnPhaseChanged(u, y)
  BY <1>3 DEF OnPhaseChanged, SameFacts
<1>8. OnGameOver(u, x) = OnGameOver(u, y)
  BY DEF OnGameOver
<1> QED
  BY <1>3, <1>4, <1>5, <1>6, <1>7, <1>8, ReduceNames DEF EventType

\* What a call never changes.
Called(x, s, y) ==
  IsPair(y) /\ y.game = s /\ SameSeat(x, y) /\ (Honest(x) => Honest(y))

LEMMA ApplyOne ==
  ASSUME NEW x, IsPair(x), NEW s, NEW a \in EventType, NEW y, y = Apply(x, Out(s, <<a>>))
  PROVE  /\ Called(x, s, y) /\ y.seat.strokes = Strokes(x.seat.strokes, <<a>>)
         /\ Hears(x) => y.seat.ui = Reduce(x.seat.ui, y, a)
<1>1. Len(<<a>>) = 1 /\ <<a>>[1] = a
  OBVIOUS
<1>2. PICK x0 : Turned(x, s, Strokes(x.seat.strokes, <<a>>), x0) /\ y = Tell(x0, a)
  <2> DEFINE events == <<a>>
  <2> HIDE DEF events
  <2>1. PICK x0 : /\ Turned(x, s, Strokes(x.seat.strokes, events), x0)
                  /\ Len(events) = 1 => y = Tell(x0, events[1])
    BY ApplyTells DEF events
  <2> QED
    BY <1>1, <2>1 DEF events
<1>3. a \in MessageType /\ a # "Snapshot"
  BY DEF MessageType, EventType
<1>4. /\ IsPair(y) /\ SameFacts(x0, y) /\ (Honest(x0) => Honest(y))
      /\ Hears(x0) => y.seat.ui = Reduce(x0.seat.ui, x0, a)
  BY <1>2, <1>3, TellStep DEF Turned
<1>5. Hears(x0) => y.seat.ui = Reduce(x0.seat.ui, y, a)
  BY <1>4, ReduceSame
<1> QED
  BY <1>2, <1>4, <1>5 DEF Turned, Called, SameFacts, SameSeat, Hears, Honest

LEMMA ApplyTwo ==
  ASSUME NEW x, IsPair(x), NEW s, NEW a \in EventType, NEW b \in EventType,
         NEW y, y = Apply(x, Out(s, <<a, b>>))
  PROVE  /\ Called(x, s, y) /\ y.seat.strokes = Strokes(x.seat.strokes, <<a, b>>)
         /\ Hears(x) => y.seat.ui = Reduce(Reduce(x.seat.ui, y, a), y, b)
<1>1. Len(<<a, b>>) = 2 /\ <<a, b>>[1] = a /\ <<a, b>>[2] = b
  OBVIOUS
<1>2. PICK x0 : /\ Turned(x, s, Strokes(x.seat.strokes, <<a, b>>), x0)
                /\ y = Tell(Tell(x0, a), b)
  <2> DEFINE events == <<a, b>>
  <2> HIDE DEF events
  <2>1. PICK x0 : /\ Turned(x, s, Strokes(x.seat.strokes, events), x0)
                  /\ Len(events) = 2 => y = Tell(Tell(x0, events[1]), events[2])
    BY ApplyTells DEF events
  <2> QED
    BY <1>1, <2>1 DEF events
<1>3. PICK x1 : x1 = Tell(x0, a)
  OBVIOUS
<1>4. /\ a \in MessageType /\ a # "Snapshot" /\ b \in MessageType /\ b # "Snapshot"
      /\ y = Tell(x1, b)
  BY <1>2, <1>3 DEF MessageType, EventType
<1>5. /\ IsPair(x1) /\ SameFacts(x0, x1) /\ (Honest(x0) => Honest(x1))
      /\ Hears(x0) => x1.seat.ui = Reduce(x0.seat.ui, x0, a)
  BY <1>2, <1>3, <1>4, TellStep DEF Turned
<1>6. /\ IsPair(y) /\ SameFacts(x1, y) /\ (Honest(x1) => Honest(y))
      /\ Hears(x1) => y.seat.ui = Reduce(x1.seat.ui, x1, b)
  BY <1>4, <1>5, TellStep
<1>7. SameFacts(x0, y) /\ (Hears(x0) => Hears(x1))
  BY <1>5, <1>6 DEF SameFacts, SameSeat, Hears
<1>8. Hears(x0) => y.seat.ui = Reduce(Reduce(x0.seat.ui, y, a), y, b)
  BY <1>5, <1>6, <1>7, ReduceSame
<1> QED
  BY <1>2, <1>5, <1>6, <1>7, <1>8 DEF Turned, Called, SameFacts, SameSeat, Hears, Honest

LEMMA ApplyThree ==
  ASSUME NEW x, IsPair(x), NEW s, NEW a \in EventType, NEW b \in EventType,
         NEW c \in EventType, NEW y, y = Apply(x, Out(s, <<a, b, c>>))
  PROVE  /\ Called(x, s, y) /\ y.seat.strokes = Strokes(x.seat.strokes, <<a, b, c>>)
         /\ Hears(x) => y.seat.ui = Reduce(Reduce(Reduce(x.seat.ui, y, a), y, b), y, c)
<1>1. /\ Len(<<a, b, c>>) = 3 /\ <<a, b, c>>[1] = a /\ <<a, b, c>>[2] = b
      /\ <<a, b, c>>[3] = c
  OBVIOUS
<1>2. PICK x0 : /\ Turned(x, s, Strokes(x.seat.strokes, <<a, b, c>>), x0)
                /\ y = Tell(Tell(Tell(x0, a), b), c)
  <2> DEFINE events == <<a, b, c>>
  <2> HIDE DEF events
  <2>1. PICK x0 :
          /\ Turned(x, s, Strokes(x.seat.strokes, events), x0)
          /\ Len(events) = 3 => y = Tell(Tell(Tell(x0, events[1]), events[2]), events[3])
    BY ApplyTells DEF events
  <2> QED
    BY <1>1, <2>1 DEF events
<1>3. PICK x1 : x1 = Tell(x0, a)
  OBVIOUS
<1>4. PICK x2 : x2 = Tell(x1, b)
  OBVIOUS
<1>5. /\ a \in MessageType /\ a # "Snapshot" /\ b \in MessageType /\ b # "Snapshot"
      /\ c \in MessageType /\ c # "Snapshot" /\ y = Tell(x2, c)
  BY <1>2, <1>3, <1>4 DEF MessageType, EventType
<1>6. /\ IsPair(x1) /\ SameFacts(x0, x1) /\ (Honest(x0) => Honest(x1))
      /\ Hears(x0) => x1.seat.ui = Reduce(x0.seat.ui, x0, a)
  BY <1>2, <1>3, <1>5, TellStep DEF Turned
<1>7. /\ IsPair(x2) /\ SameFacts(x1, x2) /\ (Honest(x1) => Honest(x2))
      /\ Hears(x1) => x2.seat.ui = Reduce(x1.seat.ui, x1, b)
  BY <1>4, <1>5, <1>6, TellStep
<1>8. /\ IsPair(y) /\ SameFacts(x2, y) /\ (Honest(x2) => Honest(y))
      /\ Hears(x2) => y.seat.ui = Reduce(x2.seat.ui, x2, c)
  BY <1>5, <1>7, TellStep
<1>9. /\ SameFacts(x0, y) /\ SameFacts(x1, y)
      /\ Hears(x0) => Hears(x1) /\ Hears(x2)
  BY <1>6, <1>7, <1>8 DEF SameFacts, SameSeat, Hears
<1>10. Hears(x0) => y.seat.ui = Reduce(Reduce(Reduce(x0.seat.ui, y, a), y, b), y, c)
  BY <1>6, <1>7, <1>8, <1>9, ReduceSame
<1> QED
  BY <1>2, <1>6, <1>7, <1>8, <1>9, <1>10
     DEF Turned, Called, SameFacts, SameSeat, Hears, Honest

-----------------------------------------------------------------------------
(* What the screen shows after a call.                                     *)

RoundBegins(y) == y.game.phase = "drawing" /\ y.seat.strokes = 0

LEMMA BeginScreen ==
  ASSUME NEW u, IsScreen(u), NEW y, RoundBegins(y), Lists(u, y),
         NEW v, v = OnRoundStarted(u, y), NEW w, w = OnTurnChanged(v, y), NEW after
  PROVE  Follows(w, y, after)
<1>1. /\ IsScreen(v) /\ HonestTo(v, y.seat.me) /\ SameLists(u, v)
      /\ v.phase = "drawing" /\ v.round = y.game.round /\ RoleShown(v, y)
      /\ v.strokes = 0 /\ Unvoted(v)
  BY RoundStartedScreen
<1>2. IsScreen(v)
  BY <1>1
<1>3. /\ IsScreen(w) /\ SameLists(v, w) /\ w.phase = v.phase /\ w.strokes = v.strokes
      /\ SameRole(v, w) /\ SameVote(v, w) /\ SameEnd(v, w)
      /\ w.currentPlayer = Drawer(y.game) /\ w.lap = y.game.lap
  BY <1>2, TurnChangedScreen, ZenonT(60)
<1>4. RoleShown(w, y) /\ w.round = y.game.round /\ Unvoted(w)
  BY <1>1, <1>3 DEF RoleShown, SameRole, SameVote, Unvoted
<1>5. Lists(w, y)
  BY <1>1, <1>3 DEF Lists, SameLists
<1>6. Plays(w, y)
  BY <1>1, <1>3, <1>4 DEF Plays, Unvoted, RoundBegins
<1>7. Counts(w, y) /\ Marks(w, y, after)
  BY <1>4 DEF Counts, Marks, Unvoted, RoundBegins
<1> QED
  BY <1>5, <1>6, <1>7 DEF Follows

\* A match or a round begins.
LEMMA BeginShows ==
  ASSUME NEW x, IsPair(x), Hears(x) => Lists(x.seat.ui, x),
         NEW s, s.phase = "drawing", s.players = x.game.players, s.host = x.game.host,
         NEW y, y = Apply(x, Out(s, <<"RoundStarted", "TurnChanged">>)),
         NEW after
  PROVE  Called(x, s, y) /\ (Hears(x) => Follows(y.seat.ui, y, after))
<1>1. /\ Called(x, s, y)
      /\ y.seat.strokes = Strokes(x.seat.strokes, <<"RoundStarted", "TurnChanged">>)
      /\ Hears(x) => y.seat.ui = Reduce(Reduce(x.seat.ui, y, "RoundStarted"), y, "TurnChanged")
  BY ApplyTwo DEF EventType
<1>2. RoundBegins(y)
  BY <1>1, StrokesAfter DEF Called, RoundBegins
<1>3. ASSUME Hears(x)
      PROVE  Follows(y.seat.ui, y, after)
  <2>1. IsScreen(x.seat.ui) /\ Lists(x.seat.ui, y)
    BY <1>1, <1>3 DEF Lists, Called, SameSeat, IsPair, IsSeat
  <2>2. y.seat.ui = OnTurnChanged(OnRoundStarted(x.seat.ui, y), y)
    BY <1>1, <1>3, ReduceNames
  <2> QED
    BY <1>2, <2>1, <2>2, BeginScreen
<1> QED
  BY <1>1, <1>3

\* The turn passes to the next drawer or the drawing ends.
Passed(x, y, e) ==
  /\ Keeps(x.game, y.game) /\ SameSeat(x, y) /\ x.game.phase = "drawing"
  /\ \/ y.game.phase = "drawing" /\ e = "TurnChanged"
     \/ y.game.phase = "discussion" /\ e = "PhaseChanged"

\* What the message about it changes.
PassSeen(v, w, y) ==
  /\ SameLists(v, w) /\ w.phase = y.game.phase /\ w.strokes = v.strokes
  /\ SameRole(v, w) /\ SameVote(v, w)
  /\ y.game.phase = "drawing" => w.currentPlayer = Drawer(y.game) /\ w.lap = y.game.lap

\* A screen that has seen the stroke.
StrokeSeen(u, v, y) ==
  /\ SameLists(u, v) /\ SameRole(u, v) /\ SameVote(u, v)
  /\ v.phase = u.phase /\ v.strokes = y.seat.strokes

LEMMA PassMessage ==
  ASSUME NEW v, IsScreen(v), NEW x, NEW y, NEW e, Passed(x, y, e)
  PROVE  v.phase = "drawing" => PassSeen(v, Reduce(v, y, e), y)
<1>1. ASSUME e = "TurnChanged", v.phase = "drawing"
      PROVE  PassSeen(v, Reduce(v, y, e), y)
  <2>1. PICK w : w = OnTurnChanged(v, y)
    OBVIOUS
  <2>2. /\ IsScreen(w) /\ SameLists(v, w) /\ w.phase = v.phase /\ w.strokes = v.strokes
        /\ SameRole(v, w) /\ SameVote(v, w) /\ SameEnd(v, w)
        /\ w.currentPlayer = Drawer(y.game) /\ w.lap = y.game.lap
    BY <2>1, TurnChangedScreen, ZenonT(60)
  <2>3. y.game.phase = "drawing"
    BY <1>1 DEF Passed
  <2>4. Reduce(v, y, e) = w
    BY <1>1, <2>1, ReduceNames
  <2> QED
    BY <1>1, <2>2, <2>3, <2>4 DEF PassSeen
<1>2. ASSUME e = "PhaseChanged"
      PROVE  PassSeen(v, Reduce(v, y, e), y)
  <2>1. PICK w : w = OnPhaseChanged(v, y)
    OBVIOUS
  <2>2. /\ IsScreen(w) /\ SameLists(v, w) /\ w.phase = y.game.phase /\ w.strokes = v.strokes
        /\ SameTurn(v, w) /\ SameRole(v, w) /\ SameVote(v, w)
    BY <2>1, PhaseScreen, ZenonT(60)
  <2>3. y.game.phase # "drawing"
    BY <1>2 DEF Passed
  <2>4. Reduce(v, y, e) = w
    BY <1>2, <2>1, ReduceNames
  <2> QED
    BY <2>2, <2>3, <2>4 DEF PassSeen
<1> QED
  BY <1>1, <1>2 DEF Passed

LEMMA PassScreen ==
  ASSUME NEW x, NEW y, NEW e, Passed(x, y, e),
         NEW u, NEW marked, Follows(u, x, marked), NEW v, StrokeSeen(u, v, y),
         NEW w, v.phase = "drawing" => PassSeen(v, w, y), NEW after
  PROVE  Follows(w, y, after)
<1>1. Unvoted(u) /\ RoleShown(u, x) /\ u.round = x.game.round /\ u.phase = "drawing"
  BY DEF Follows, Plays, Marks, Unvoted, Passed
<1>2. PassSeen(v, w, y) /\ v.strokes = y.seat.strokes
  BY <1>1 DEF StrokeSeen
<1>3. SameLists(u, v) /\ SameRole(u, v) /\ SameVote(u, v)
  BY DEF StrokeSeen
<1>4. Lists(w, y)
  BY <1>2, <1>3 DEF PassSeen, Follows, Lists, SameLists, SameSeat, Keeps, Passed
<1>5. RoleShown(w, y) /\ w.round = y.game.round
  BY <1>1, <1>2, <1>3 DEF PassSeen, RoleShown, HidesWord, SameRole, SameSeat, Keeps, Passed
<1>6. Unvoted(w)
  BY <1>1, <1>2, <1>3 DEF PassSeen, SameVote, Unvoted
<1>7. y.game.phase \in {"drawing", "discussion"}
  BY DEF Passed
<1>8. Plays(w, y)
  BY <1>2, <1>5, <1>6, <1>7 DEF PassSeen, Plays, Unvoted
<1> QED
  BY <1>4, <1>6, <1>7, <1>8 DEF Follows, Counts, Marks, Unvoted

\* A stroke, or a turn skipped.
LEMMA TurnShows ==
  ASSUME NEW x, IsPair(x), x.game \in State, NEW marked,
         Hears(x) => Follows(x.seat.ui, x, marked), x.game.phase = "drawing",
         NEW s, s = AdvanceTurn(x.game).state, Keeps(x.game, s),
         NEW o, o = AddStroke(x.game) \/ o = SkipTurn(x.game),
         NEW y, y = Apply(x, o), NEW after
  PROVE  Called(x, s, y) /\ (Hears(x) => Follows(y.seat.ui, y, after))
<1>1. PICK e : /\ \/ s.phase = "drawing" /\ e = "TurnChanged"
                  \/ s.phase = "discussion" /\ e = "PhaseChanged"
               /\ o = Out(s, <<"StrokeAdded", e>>) \/ o = Out(s, <<e>>)
  BY TurnOut
<1>2. e \in {"TurnChanged", "PhaseChanged"} /\ e \in EventType /\ "StrokeAdded" \in EventType
      /\ e \in EventType \ {"RoundStarted", "StrokeAdded"}
  BY <1>1 DEF EventType
<1>3. CASE o = Out(s, <<"StrokeAdded", e>>)
  <2>1. /\ Called(x, s, y) /\ y.seat.strokes = Strokes(x.seat.strokes, <<"StrokeAdded", e>>)
        /\ Hears(x) => y.seat.ui = Reduce(Reduce(x.seat.ui, y, "StrokeAdded"), y, e)
    BY <1>2, <1>3, ApplyTwo
  <2>2. y.seat.strokes = x.seat.strokes + 1
    BY <1>2, <2>1, StrokesAfter
  <2>3. Passed(x, y, e)
    BY <1>1, <2>1 DEF Passed, Called
  <2>4. ASSUME Hears(x)
        PROVE  Follows(y.seat.ui, y, after)
    <3>1. PICK u : u = x.seat.ui
      OBVIOUS
    <3>2. IsScreen(u) /\ Follows(u, x, marked) /\ u.strokes = x.seat.strokes
      BY <2>4, <3>1 DEF IsPair, IsSeat, Follows, Plays
    <3>3. PICK v : v = [u EXCEPT !.strokes = u.strokes + 1]
      OBVIOUS
    <3>4. /\ IsScreen(v) /\ SameLists(u, v) /\ v.phase = u.phase /\ v.strokes = u.strokes + 1
          /\ SameTurn(u, v) /\ SameRole(u, v) /\ SameVote(u, v) /\ SameEnd(u, v)
      BY <3>2, <3>3, StrokeScreen
    <3>5. StrokeSeen(u, v, y)
      BY <2>2, <3>2, <3>4 DEF StrokeSeen
    <3>6. y.seat.ui = Reduce(v, y, e)
      BY <2>1, <2>4, <3>1, <3>3, ReduceNames
    <3>7. IsScreen(v) /\ Follows(u, x, marked)
      BY <3>2, <3>4
    <3>8. v.phase = "drawing" => PassSeen(v, y.seat.ui, y)
      BY <2>3, <3>6, <3>7, PassMessage
    <3> QED
      BY <2>3, <3>5, <3>7, <3>8, PassScreen
  <2> QED
    BY <2>1, <2>4
<1>4. CASE o = Out(s, <<e>>)
  <2>1. /\ Called(x, s, y) /\ y.seat.strokes = Strokes(x.seat.strokes, <<e>>)
        /\ Hears(x) => y.seat.ui = Reduce(x.seat.ui, y, e)
    BY <1>2, <1>4, ApplyOne
  <2>2. y.seat.strokes = x.seat.strokes
    BY <1>2, <2>1, StrokesAfter
  <2>3. Passed(x, y, e)
    BY <1>1, <2>1 DEF Passed, Called
  <2>4. ASSUME Hears(x)
        PROVE  Follows(y.seat.ui, y, after)
    <3>1. PICK u : u = x.seat.ui
      OBVIOUS
    <3>2. IsScreen(u) /\ Follows(u, x, marked) /\ u.strokes = x.seat.strokes
      BY <2>4, <3>1 DEF IsPair, IsSeat, Follows, Plays
    <3>3. StrokeSeen(u, u, y)
      BY <2>2, <3>2 DEF StrokeSeen, SameLists, SameRole, SameVote
    <3>4. y.seat.ui = Reduce(u, y, e)
      BY <2>1, <2>4, <3>1
    <3>5. IsScreen(u) /\ Follows(u, x, marked)
      BY <3>2
    <3>6. u.phase = "drawing" => PassSeen(u, y.seat.ui, y)
      BY <2>3, <3>4, <3>5, PassMessage
    <3> QED
      BY <2>3, <3>3, <3>5, <3>6, PassScreen
  <2> QED
    BY <2>1, <2>4
<1> QED
  BY <1>1, <1>3, <1>4


\* The parts of the screen that only a new round changes.
RoundSeen(u, y) ==
  /\ IsScreen(u) /\ Lists(u, y) /\ u.strokes = y.seat.strokes
  /\ u.round = y.game.round /\ RoleShown(u, y)

LEMMA RoundStays ==
  ASSUME NEW x, NEW y, Keeps(x.game, y.game), SameSeat(x, y), x.game.phase # "lobby",
         y.seat.strokes = x.seat.strokes, NEW u, IsScreen(u), NEW marked, Follows(u, x, marked)
  PROVE  RoundSeen(u, y)
<1>1. u.round = x.game.round /\ RoleShown(u, x) /\ u.strokes = x.seat.strokes /\ Lists(u, x)
  BY DEF Follows, Plays
<1>2. RoleShown(u, y)
  BY <1>1 DEF RoleShown, HidesWord, SameSeat, Keeps
<1>3. Lists(u, y)
  BY <1>1 DEF Lists, SameSeat, Keeps
<1> QED
  BY <1>1, <1>2, <1>3 DEF RoundSeen, Keeps

\* A message that leaves the round alone.
SameRoundSeen(u, v) ==
  IsScreen(v) /\ SameLists(u, v) /\ SameRole(u, v) /\ v.strokes = u.strokes

LEMMA SeenAfter ==
  ASSUME NEW u, NEW y, RoundSeen(u, y), NEW v, SameRoundSeen(u, v)
  PROVE  RoundSeen(v, y)
<1>1. RoleShown(v, y)
  BY DEF RoundSeen, SameRoundSeen, RoleShown, SameRole
<1>2. Lists(v, y)
  BY DEF RoundSeen, SameRoundSeen, Lists, SameLists
<1> QED
  BY <1>1, <1>2 DEF RoundSeen, SameRoundSeen, SameRole

\* The result the screen shows is the one a snapshot would tell.
ResultSeen(u, y) == u.phase = "reveal" /\ Undated(u.lastResult) = Result(y)

LEMMA RoundMessage ==
  ASSUME NEW u, NEW y, RoundSeen(u, y)
  PROVE  /\ RoundSeen(Reduce(u, y, "VoteRecorded"), y)
         /\ RoundSeen(Reduce(u, y, "PhaseChanged"), y)
         /\ RoundSeen(Reduce(u, y, "RoundEnded"), y)
         /\ RoundSeen(Reduce(u, y, "GameEnded"), y)
         /\ y.game.phase = "reveal" /\ y.game.result.caught =>
              ResultSeen(Reduce(u, y, "PhaseChanged"), y)
         /\ ResultSeen(Reduce(u, y, "RoundEnded"), y)
<1>0. IsScreen(u)
  BY DEF RoundSeen
<1>1. PICK v : v = OnVoteUpdate(u, y)
  OBVIOUS
<1>2. SameRoundSeen(u, v)
  BY <1>0, <1>1, VoteScreen DEF SameRoundSeen
<1>3. PICK w : w = OnPhaseChanged(u, y)
  OBVIOUS
<1>4. /\ IsScreen(w) /\ SameLists(u, w) /\ w.phase = y.game.phase /\ w.strokes = u.strokes
      /\ SameRole(u, w)
      /\ y.game.phase = "reveal" /\ y.game.result.caught => Undated(w.lastResult) = Result(y)
  BY <1>0, <1>3, PhaseScreen, ZenonT(60)
<1>5. SameRoundSeen(u, w) /\ (y.game.phase = "reveal" /\ y.game.result.caught => ResultSeen(w, y))
  BY <1>4 DEF SameRoundSeen, ResultSeen
<1>6. PICK r : r = OnRoundResult(u, y)
  OBVIOUS
<1>7. /\ IsScreen(r) /\ SameLists(u, r) /\ r.phase = "reveal" /\ r.strokes = u.strokes
      /\ SameRole(u, r) /\ Undated(r.lastResult) = Result(y)
  BY <1>0, <1>6, ResultScreen
<1>8. SameRoundSeen(u, r) /\ ResultSeen(r, y)
  BY <1>7 DEF SameRoundSeen, ResultSeen
<1>9. PICK o : o = OnGameOver(u, y)
  OBVIOUS
<1>10. IsScreen(o) /\ SameLists(u, o) /\ o.strokes = u.strokes /\ SameRole(u, o)
  BY <1>0, <1>9, OverScreen
<1>11. SameRoundSeen(u, o)
  BY <1>10 DEF SameRoundSeen
<1>12. RoundSeen(v, y) /\ RoundSeen(w, y) /\ RoundSeen(r, y) /\ RoundSeen(o, y)
  BY <1>2, <1>5, <1>8, <1>11, SeenAfter
<1> QED
  BY <1>1, <1>3, <1>5, <1>6, <1>8, <1>9, <1>12, ReduceNames

LEMMA RevealFollows ==
  ASSUME NEW w, NEW y, y.game.phase = "reveal", RoundSeen(w, y), ResultSeen(w, y), NEW after
  PROVE  Follows(w, y, after)
<1>1. Plays(w, y)
  BY DEF Plays, RoundSeen, ResultSeen
<1> QED
  BY <1>1 DEF Follows, Counts, Marks, RoundSeen

\* The verdict: the events of a vote that closes, however it was found complete.
LEMMA VerdictShows ==
  ASSUME NEW x, IsPair(x), NEW marked,
         x.game.phase = "voting", NEW s, Keeps(x.game, s), s.phase = "reveal",
         NEW o,
         \/ s.result.caught  /\ (\/ o = Out(s, <<"PhaseChanged">>)
                                 \/ o = Out(s, <<"VoteRecorded", "PhaseChanged">>))
         \/ ~s.result.caught /\ (\/ o = Out(s, <<"PhaseChanged", "RoundEnded">>)
                                 \/ o = Out(s, <<"VoteRecorded", "PhaseChanged", "RoundEnded">>)),
         NEW y, y = Apply(x, o), NEW after
  PROVE  /\ Called(x, s, y) /\ y.seat.strokes = x.seat.strokes
         /\ Hears(x) /\ Follows(x.seat.ui, x, marked) => Follows(y.seat.ui, y, after)
<1>0. /\ "PhaseChanged" \in EventType /\ "VoteRecorded" \in EventType
      /\ "RoundEnded" \in EventType
      /\ "PhaseChanged" \in EventType \ {"RoundStarted", "StrokeAdded"}
  BY DEF EventType
<1> DEFINE OK == /\ Called(x, s, y) /\ y.seat.strokes = x.seat.strokes
                 /\ Hears(x) /\ Follows(x.seat.ui, x, marked) =>
                      RoundSeen(y.seat.ui, y) /\ ResultSeen(y.seat.ui, y)
<1>1. ASSUME Called(x, s, y), y.seat.strokes = x.seat.strokes, Hears(x),
             Follows(x.seat.ui, x, marked)
      PROVE  RoundSeen(x.seat.ui, y)
  <2>1. /\ Keeps(x.game, y.game) /\ SameSeat(x, y) /\ x.game.phase # "lobby"
        /\ IsScreen(x.seat.ui) /\ Follows(x.seat.ui, x, marked)
    BY <1>1 DEF Called, IsPair, IsSeat
  <2> QED
    BY <1>1, <2>1, RoundStays
<1>2. SUFFICES OK
  <2>1. Called(x, s, y) => y.game.phase = "reveal"
    BY DEF Called
  <2> QED
    BY <2>1, RevealFollows
<1>3. CASE s.result.caught /\ o = Out(s, <<"PhaseChanged">>)
  <2>1. /\ Called(x, s, y) /\ y.seat.strokes = Strokes(x.seat.strokes, <<"PhaseChanged">>)
        /\ Hears(x) => y.seat.ui = Reduce(x.seat.ui, y, "PhaseChanged")
    BY <1>0, <1>3, ApplyOne
  <2>2. y.seat.strokes = x.seat.strokes
    BY <1>0, <2>1, StrokesAfter
  <2>3. y.game.phase = "reveal" /\ y.game.result.caught
    BY <1>3, <2>1 DEF Called
  <2> QED
    BY <1>1, <2>1, <2>2, <2>3, RoundMessage
<1>4. CASE s.result.caught /\ o = Out(s, <<"VoteRecorded", "PhaseChanged">>)
  <2>1. /\ Called(x, s, y)
        /\ y.seat.strokes = Strokes(x.seat.strokes, <<"VoteRecorded", "PhaseChanged">>)
        /\ Hears(x) => y.seat.ui = Reduce(Reduce(x.seat.ui, y, "VoteRecorded"), y, "PhaseChanged")
    BY <1>0, <1>4, ApplyTwo
  <2>2. y.seat.strokes = x.seat.strokes
    BY <2>1, StrokesAfter
  <2>3. y.game.phase = "reveal" /\ y.game.result.caught
    BY <1>4, <2>1 DEF Called
  <2> QED
    BY <1>1, <2>1, <2>2, <2>3, RoundMessage
<1>5. CASE ~s.result.caught /\ o = Out(s, <<"PhaseChanged", "RoundEnded">>)
  <2>1. /\ Called(x, s, y)
        /\ y.seat.strokes = Strokes(x.seat.strokes, <<"PhaseChanged", "RoundEnded">>)
        /\ Hears(x) => y.seat.ui = Reduce(Reduce(x.seat.ui, y, "PhaseChanged"), y, "RoundEnded")
    BY <1>0, <1>5, ApplyTwo
  <2>2. y.seat.strokes = x.seat.strokes
    BY <2>1, StrokesAfter
  <2> QED
    BY <1>1, <2>1, <2>2, RoundMessage
<1>6. CASE ~s.result.caught /\ o = Out(s, <<"VoteRecorded", "PhaseChanged", "RoundEnded">>)
  <2>1. /\ Called(x, s, y)
        /\ y.seat.strokes =
             Strokes(x.seat.strokes, <<"VoteRecorded", "PhaseChanged", "RoundEnded">>)
        /\ Hears(x) =>
             y.seat.ui = Reduce(Reduce(Reduce(x.seat.ui, y, "VoteRecorded"), y, "PhaseChanged"),
                                y, "RoundEnded")
    BY <1>0, <1>6, ApplyThree
  <2>2. y.seat.strokes = x.seat.strokes
    BY <2>1, StrokesAfter
  <2> QED
    BY <1>1, <2>1, <2>2, RoundMessage
<1> QED
  BY <1>3, <1>4, <1>5, <1>6


\* A guess, or the time for one run out.
LEMMA RoundEndShows ==
  ASSUME NEW x, IsPair(x), NEW marked, Hears(x) => Follows(x.seat.ui, x, marked),
         x.game.phase = "reveal", NEW s, Keeps(x.game, s), s.phase = "reveal",
         NEW y, y = Apply(x, Out(s, <<"RoundEnded">>)), NEW after
  PROVE  Called(x, s, y) /\ (Hears(x) => Follows(y.seat.ui, y, after))
<1>1. /\ "RoundEnded" \in EventType
      /\ "RoundEnded" \in EventType \ {"RoundStarted", "StrokeAdded"}
  BY DEF EventType
<1>2. /\ Called(x, s, y) /\ y.seat.strokes = Strokes(x.seat.strokes, <<"RoundEnded">>)
      /\ Hears(x) => y.seat.ui = Reduce(x.seat.ui, y, "RoundEnded")
  BY <1>1, ApplyOne
<1>3. y.seat.strokes = x.seat.strokes
  BY <1>1, <1>2, StrokesAfter
<1>4. ASSUME Hears(x)
      PROVE  Follows(y.seat.ui, y, after)
  <2>1. /\ Keeps(x.game, y.game) /\ SameSeat(x, y) /\ x.game.phase # "lobby"
        /\ IsScreen(x.seat.ui) /\ Follows(x.seat.ui, x, marked)
    BY <1>2, <1>4 DEF Called, IsPair, IsSeat
  <2>2. RoundSeen(x.seat.ui, y)
    BY <1>3, <2>1, RoundStays
  <2>3. RoundSeen(y.seat.ui, y) /\ ResultSeen(y.seat.ui, y)
    BY <1>2, <1>4, <2>2, RoundMessage
  <2>4. y.game.phase = "reveal"
    BY <1>2 DEF Called
  <2> QED
    BY <2>3, <2>4, RevealFollows
<1> QED
  BY <1>2, <1>4

\* The match is over.
LEMMA OverShows ==
  ASSUME NEW x, IsPair(x), NEW marked, Hears(x) => Follows(x.seat.ui, x, marked),
         x.game.phase = "reveal", NEW s, Keeps(x.game, s), s.phase = "game_over",
         NEW y, y = Apply(x, Out(s, <<"GameEnded">>)), NEW after
  PROVE  Called(x, s, y) /\ (Hears(x) => Follows(y.seat.ui, y, after))
<1>1. /\ "GameEnded" \in EventType
      /\ "GameEnded" \in EventType \ {"RoundStarted", "StrokeAdded"}
  BY DEF EventType
<1>2. /\ Called(x, s, y) /\ y.seat.strokes = Strokes(x.seat.strokes, <<"GameEnded">>)
      /\ Hears(x) => y.seat.ui = Reduce(x.seat.ui, y, "GameEnded")
  BY <1>1, ApplyOne
<1>3. y.seat.strokes = x.seat.strokes
  BY <1>1, <1>2, StrokesAfter
<1>4. ASSUME Hears(x)
      PROVE  Follows(y.seat.ui, y, after)
  <2>1. /\ Keeps(x.game, y.game) /\ SameSeat(x, y) /\ x.game.phase # "lobby"
        /\ IsScreen(x.seat.ui) /\ Follows(x.seat.ui, x, marked)
    BY <1>2, <1>4 DEF Called, IsPair, IsSeat
  <2>2. RoundSeen(x.seat.ui, y)
    BY <1>3, <2>1, RoundStays
  <2>3. PICK w : w = OnGameOver(x.seat.ui, y)
    OBVIOUS
  <2>4. y.seat.ui = w /\ RoundSeen(w, y)
    BY <1>2, <1>4, <2>2, <2>3, RoundMessage, ReduceNames
  <2>5. w.phase = "game_over" /\ Final(w)
    <3>1. IsScreen(x.seat.ui)
      BY <2>1
    <3> QED
      BY <2>3, <3>1, OverScreen
  <2>6. y.game.phase = "game_over"
    BY <1>2 DEF Called
  <2>7. Plays(w, y)
    BY <2>4, <2>5, <2>6 DEF Plays, RoundSeen, Final
  <2> QED
    BY <2>4, <2>6, <2>7 DEF Follows, Counts, Marks, RoundSeen
<1> QED
  BY <1>2, <1>4

MarkSeen(u, marked) ==
  (marked => u.hasVoted = TRUE) /\ (~marked => u.hasVoted = FALSE)

\* In the vote.
LEMMA VotingFollows ==
  ASSUME NEW u, NEW x, x.game.phase = "voting", NEW marked
  PROVE  /\ Follows(u, x, marked) => u.phase = "voting" /\ MarkSeen(u, marked)
         /\ RoundSeen(u, x) /\ u.phase = "voting" /\ MarkSeen(u, marked) /\ Counts(u, x)
              => Follows(u, x, marked)
<1>1. ASSUME RoundSeen(u, x), u.phase = "voting"
      PROVE  Plays(u, x) /\ Lists(u, x)
  BY <1>1 DEF Plays, RoundSeen
<1> QED
  BY <1>1 DEF Follows, Plays, Marks, MarkSeen

LEMMA PhaseKeepsVote ==
  ASSUME NEW u, IsScreen(u), NEW y
  PROVE  /\ OnPhaseChanged(u, y).phase = y.game.phase
         /\ SameVote(u, OnPhaseChanged(u, y))
<1>1. PICK v : v = OnPhaseChanged(u, y)
  OBVIOUS
<1>2. v.phase = y.game.phase /\ SameVote(u, v)
  BY <1>1, PhaseScreen, ZenonT(60)
<1> QED
  BY <1>1, <1>2

\* The discussion ends.
LEMMA VoteOpens ==
  ASSUME NEW x, IsPair(x), NEW marked, Hears(x) => Follows(x.seat.ui, x, marked),
         x.game.phase = "discussion", NEW s, Keeps(x.game, s), s.phase = "voting",
         NEW y, y = Apply(x, Out(s, <<"PhaseChanged">>))
  PROVE  Called(x, s, y) /\ (Hears(x) => Follows(y.seat.ui, y, FALSE))
<1>1. /\ "PhaseChanged" \in EventType
      /\ "PhaseChanged" \in EventType \ {"RoundStarted", "StrokeAdded"}
  BY DEF EventType
<1>2. /\ Called(x, s, y) /\ y.seat.strokes = Strokes(x.seat.strokes, <<"PhaseChanged">>)
      /\ Hears(x) => y.seat.ui = Reduce(x.seat.ui, y, "PhaseChanged")
  BY <1>1, ApplyOne
<1>3. y.seat.strokes = x.seat.strokes
  BY <1>1, <1>2, StrokesAfter
<1>4. ASSUME Hears(x)
      PROVE  Follows(y.seat.ui, y, FALSE)
  <2>1. /\ Keeps(x.game, y.game) /\ SameSeat(x, y) /\ x.game.phase # "lobby"
        /\ IsScreen(x.seat.ui) /\ Follows(x.seat.ui, x, marked)
    BY <1>2, <1>4 DEF Called, IsPair, IsSeat
  <2>2. RoundSeen(x.seat.ui, y)
    BY <1>3, <2>1, RoundStays
  <2>3. Unvoted(x.seat.ui)
    BY <2>1 DEF Follows, Plays, Marks, Unvoted
  <2>4. PICK w : w = OnPhaseChanged(x.seat.ui, y)
    OBVIOUS
  <2>5. y.seat.ui = w /\ RoundSeen(w, y)
    BY <1>2, <1>4, <2>2, <2>4, RoundMessage, ReduceNames
  <2>6. w.phase = y.game.phase /\ SameVote(x.seat.ui, w)
    <3>1. IsScreen(x.seat.ui)
      BY <2>1
    <3> QED
      BY <2>4, <3>1, PhaseKeepsVote
  <2>7. y.game.phase = "voting" /\ w.phase = "voting"
    BY <1>2, <2>6 DEF Called
  <2>8. MarkSeen(w, FALSE) /\ Counts(w, y)
    BY <2>3, <2>6 DEF MarkSeen, Counts, SameVote, Unvoted
  <2> QED
    BY <2>5, <2>7, <2>8, VotingFollows
<1> QED
  BY <1>2, <1>4

\* The counts are told again, by a vote or by a change of who is awaited.
LEMMA CountScreen ==
  ASSUME NEW u, NEW y, y.game.phase = "voting", RoundSeen(u, y), u.phase = "voting",
         NEW marked, MarkSeen(u, marked)
  PROVE  Follows(Reduce(u, y, "VoteRecorded"), y, marked)
<1>1. PICK w : w = OnVoteUpdate(u, y)
  OBVIOUS
<1>2. IsScreen(u)
  BY DEF RoundSeen
<1>3. /\ IsScreen(w) /\ SameLists(u, w) /\ w.phase = u.phase /\ w.strokes = u.strokes
      /\ SameTurn(u, w) /\ SameRole(u, w) /\ SameEnd(u, w) /\ w.hasVoted = u.hasVoted
      /\ w.votesCast = VotesCast(y) /\ w.votesTotal = VotesTotal(y)
  BY <1>1, <1>2, VoteScreen
<1>4. Counts(w, y) /\ MarkSeen(w, marked)
  BY <1>3 DEF Counts, MarkSeen
<1>5. SameRoundSeen(u, w)
  BY <1>3 DEF SameRoundSeen
<1>6. RoundSeen(w, y)
  BY <1>5, SeenAfter
<1>7. w.phase = "voting"
  BY <1>3, u.phase = "voting"
<1>8. Follows(w, y, marked)
  BY <1>4, <1>6, <1>7, VotingFollows, y.game.phase = "voting"
<1> QED
  BY <1>1, <1>8, ReduceNames

Ballot(s, voter, target) == [s EXCEPT !.votes[voter] = target]

\* A vote: counted, and the verdict if it was the last one awaited.
LEMMA CastShows ==
  ASSUME NEW x, IsPair(x), Inv(x.game), NEW voter \in PlayerID, NEW target \in PlayerID,
         MayVote(x.game, voter, target), NEW marked,
         Hears(x) => Follows(x.seat.ui, x, marked), NEW connected,
         NEW y, y = Apply(x, CastVote(x.game, voter, target, connected)),
         NEW voted, voted = Ballot(x.game, voter, target), NEW after
  PROVE  /\ Called(x, y.game, y) /\ Inv(y.game) /\ Keeps(x.game, y.game)
         /\ y.game.votes = voted.votes
         /\ \/ /\ y.game = voted /\ voted.phase = "voting"
               /\ ~VotingCanResolve(voted, connected)
               /\ Hears(x) => Follows(y.seat.ui, y, marked)
            \/ /\ VotingCanResolve(voted, connected)
               /\ Hears(x) => Follows(y.seat.ui, y, after)
<1>0. "VoteRecorded" \in EventType /\ "VoteRecorded" \in EventType \ {"RoundStarted", "StrokeAdded"}
  BY DEF EventType
<1>1. Inv(voted) /\ Keeps(x.game, voted) /\ voted.phase = "voting" /\ x.game.phase = "voting"
  BY VoteStep DEF MayVote, Ballot
<1>2. voted \in State
  BY <1>1 DEF Inv
<1>3. PICK o : o = CastVote(x.game, voter, target, connected)
  OBVIOUS
<1>4. \/ ~VotingCanResolve(voted, connected) /\ o = Out(voted, <<"VoteRecorded">>)
      \/ /\ VotingCanResolve(voted, connected) /\ o.state = FinishVoting(voted).state
         /\ o = Out(o.state, IF o.state.result.caught
                             THEN <<"VoteRecorded", "PhaseChanged">>
                             ELSE <<"VoteRecorded", "PhaseChanged", "RoundEnded">>)
  BY <1>2, <1>3, CastOut DEF Ballot
<1>5. ASSUME ~VotingCanResolve(voted, connected), o = Out(voted, <<"VoteRecorded">>)
      PROVE  Called(x, voted, y) /\ (Hears(x) => Follows(y.seat.ui, y, marked))
  <2>1. /\ Called(x, voted, y) /\ y.seat.strokes = Strokes(x.seat.strokes, <<"VoteRecorded">>)
        /\ Hears(x) => y.seat.ui = Reduce(x.seat.ui, y, "VoteRecorded")
    BY <1>0, <1>3, <1>5, ApplyOne
  <2>2. y.seat.strokes = x.seat.strokes
    BY <1>0, <2>1, StrokesAfter
  <2>3. ASSUME Hears(x)
        PROVE  Follows(y.seat.ui, y, marked)
    <3>1. /\ Keeps(x.game, y.game) /\ SameSeat(x, y) /\ x.game.phase # "lobby"
          /\ IsScreen(x.seat.ui) /\ Follows(x.seat.ui, x, marked) /\ y.game.phase = "voting"
      BY <1>1, <2>1, <2>3 DEF Called, IsPair, IsSeat
    <3>2. RoundSeen(x.seat.ui, y)
      BY <2>2, <3>1, RoundStays
    <3>3. x.seat.ui.phase = "voting" /\ MarkSeen(x.seat.ui, marked)
      BY <1>1, <3>1, VotingFollows
    <3>4. Follows(Reduce(x.seat.ui, y, "VoteRecorded"), y, marked)
      BY <3>1, <3>2, <3>3, CountScreen
    <3> QED
      BY <2>1, <2>3, <3>4
  <2> QED
    BY <2>1, <2>3
<1>6. ASSUME VotingCanResolve(voted, connected), NEW s, s = FinishVoting(voted).state,
             o = Out(s, IF s.result.caught THEN <<"VoteRecorded", "PhaseChanged">>
                                           ELSE <<"VoteRecorded", "PhaseChanged", "RoundEnded">>)
      PROVE  /\ Called(x, s, y) /\ (Hears(x) => Follows(y.seat.ui, y, after))
             /\ Inv(s) /\ Keeps(x.game, s) /\ s.votes = voted.votes
  <2>1. Inv(s) /\ Keeps(voted, s) /\ s.phase = "reveal" /\ s.votes = voted.votes
    BY <1>1, <1>6, VerdictStep
  <2>2. Keeps(x.game, s)
    BY <1>1, <2>1 DEF Keeps
  <2>3. \/ s.result.caught  /\ o = Out(s, <<"VoteRecorded", "PhaseChanged">>)
        \/ ~s.result.caught /\ o = Out(s, <<"VoteRecorded", "PhaseChanged", "RoundEnded">>)
    BY <1>6
  <2>4. y = Apply(x, o)
    BY <1>3
  <2>5. /\ Called(x, s, y)
        /\ Hears(x) /\ Follows(x.seat.ui, x, marked) => Follows(y.seat.ui, y, after)
    BY <1>1, <2>1, <2>2, <2>3, <2>4, VerdictShows
  <2> QED
    BY <2>1, <2>2, <2>5
<1>7. CASE ~VotingCanResolve(voted, connected)
  BY <1>1, <1>4, <1>5, <1>7 DEF Called
<1>8. CASE VotingCanResolve(voted, connected)
  BY <1>4, <1>6, <1>8 DEF Called
<1> QED
  BY <1>7, <1>8

-----------------------------------------------------------------------------
(* The invariant, step by step.                                            *)

Good(x) == Sound(x) /\ Shown(x)

\* A call that keeps the roster, and a vote on its way open.
LEMMA GoodCall ==
  ASSUME NEW x, Sound(x), NEW y, Called(x, y.game, y), Inv(y.game),
         Roster(y.game) = Roster(x.game),
         Pending(x) => y.game.phase = "voting" /\ ~HasVoted(y.game, y.seat.me),
         Hears(x) => Follows(y.seat.ui, y, Marked(y))
  PROVE  Good(y)
<1>1. SameSeat(x, y) /\ Honest(y) /\ IsPair(y)
  BY DEF Called, Good, Sound
<1>2. Seated(y)
  BY <1>1 DEF Seated, Good, Sound, SameSeat, Pending, Hears
<1>3. Hears(x) <=> Hears(y)
  BY <1>1 DEF SameSeat, Hears
<1> QED
  BY <1>1, <1>2, <1>3 DEF Good, Sound, Shown

LEMMA BecomesGood ==
  ASSUME NEW x, Good(x), Becomes(x)
  PROVE  Good(Now)'
<1>1. x = [game |-> x.game, seat |-> x.seat]
  BY DEF Good, Sound, IsPair
<1>2. Now' = x
  BY <1>1 DEF Now, Becomes
<1> QED
  BY <1>2 DEF Good, Sound, Shown, IsPair, IsSeat, Seated, Honest, Hears, Marked, Pending

VInv == Good(Now)

LEMMA NowIs == Now.game = game /\ Now.seat = seat
  BY DEF Now

\* A call outside the vote: no vote is on its way.
LEMMA GoodOutside ==
  ASSUME NEW x, Good(x), x.game.phase # "voting", NEW s, NEW y, Called(x, s, y), Inv(s),
         s.players = x.game.players, Hears(x) => Follows(y.seat.ui, y, Marked(y))
  PROVE  Good(y)
<1>1. ~Pending(x)
  BY DEF Good, Sound, Seated
<1>2. y.game = s /\ Roster(s) = Roster(x.game)
  BY DEF Called, Roster
<1> QED
  BY <1>1, <1>2, GoodCall DEF Good

LEMMA BeginGood ==
  ASSUME NEW x, Good(x), NEW by, NEW perm \in Perms(Len(x.game.players)), NEW y,
         \/ MayStart(x.game, by) /\ y = Apply(x, StartGame(x.game, perm))
         \/ MayRestart(x.game, by) /\ y = Apply(x, Restart(x.game, perm))
  PROVE  Good(y)
<1>1. PICK o : /\ y = Apply(x, o)
               /\ \/ MayStart(x.game, by) /\ o = StartGame(x.game, perm)
                  \/ MayRestart(x.game, by) /\ o = Restart(x.game, perm)
  OBVIOUS
<1>2. PICK s : s = o.state
  OBVIOUS
<1>3. o = Out(s, <<"RoundStarted", "TurnChanged">>)
  BY <1>1, <1>2, BeginOut
<1>4. IsPair(x) /\ Inv(x.game)
  BY DEF Good, Sound, Seated
<1>5. /\ Inv(s) /\ s.phase = "drawing" /\ s.players = x.game.players /\ s.host = x.game.host
      /\ x.game.phase # "voting"
  <2>1. CASE MayStart(x.game, by) /\ o = StartGame(x.game, perm)
    BY <1>2, <1>4, <2>1, StartStep DEF MayStart
  <2>2. CASE MayRestart(x.game, by) /\ o = Restart(x.game, perm)
    BY <1>2, <1>4, <2>2, RestartStep DEF MayRestart
  <2> QED
    BY <1>1, <2>1, <2>2
<1>6. Hears(x) => Lists(x.seat.ui, x)
  BY DEF Good, Shown, Follows
<1>7. y = Apply(x, Out(s, <<"RoundStarted", "TurnChanged">>))
  BY <1>1, <1>3
<1>8. Called(x, s, y) /\ (Hears(x) => Follows(y.seat.ui, y, Marked(y)))
  BY <1>4, <1>5, <1>6, <1>7, BeginShows
<1> QED
  BY <1>5, <1>8, GoodOutside

LEMMA TurnGood ==
  ASSUME NEW x, Good(x), x.game.phase = "drawing", NEW y,
         y = Apply(x, AddStroke(x.game)) \/ y = Apply(x, SkipTurn(x.game))
  PROVE  Good(y)
<1>1. PICK o : y = Apply(x, o) /\ (o = AddStroke(x.game) \/ o = SkipTurn(x.game))
  OBVIOUS
<1>2. PICK s : s = AdvanceTurn(x.game).state
  OBVIOUS
<1>3. IsPair(x) /\ Inv(x.game) /\ x.game \in State
  BY DEF Good, Sound, Seated, Inv
<1>4. Inv(s) /\ Keeps(x.game, s)
  BY <1>2, <1>3, TurnStep
<1>5. Hears(x) => Follows(x.seat.ui, x, Marked(x))
  BY DEF Good, Shown
<1>6. Called(x, s, y) /\ (Hears(x) => Follows(y.seat.ui, y, Marked(y)))
  BY <1>1, <1>2, <1>3, <1>4, <1>5, TurnShows
<1> QED
  BY <1>4, <1>6, GoodOutside DEF Keeps

LEMMA EndDiscussionGood ==
  ASSUME NEW x, Good(x), x.game.phase = "discussion",
         NEW y, y = Apply(x, EndDiscussion(x.game))
  PROVE  Good(y)
<1>1. PICK s : s = EndDiscussion(x.game).state
  OBVIOUS
<1>2. EndDiscussion(x.game) = Out(s, <<"PhaseChanged">>)
  BY <1>1, OutIs DEF EndDiscussion
<1>3. IsPair(x) /\ Inv(x.game) /\ ~Pending(x) /\ x.seat.me \in PlayerID
  BY DEF Good, Sound, Seated
<1>4. Inv(s) /\ Keeps(x.game, s) /\ s.phase = "voting" /\ s.votes = x.game.votes
  BY <1>1, <1>3, EndDiscussionStep
<1>5. Hears(x) => Follows(x.seat.ui, x, Marked(x))
  BY DEF Good, Shown
<1>6. Called(x, s, y) /\ (Hears(x) => Follows(y.seat.ui, y, FALSE))
  BY <1>2, <1>3, <1>4, <1>5, VoteOpens
<1>7. ~HasVoted(s, x.seat.me)
  BY <1>3, <1>4 DEF Inv, VotesValid, HasVoted, NoVotes
<1>8. ~Marked(y)
  BY <1>3, <1>6, <1>7 DEF Marked, Called, SameSeat, Pending
<1>9. Hears(x) => Follows(y.seat.ui, y, Marked(y))
  <2>1. Follows(y.seat.ui, y, FALSE) => Follows(y.seat.ui, y, Marked(y))
    BY <1>8 DEF Follows, Marks
  <2> QED
    BY <1>6, <2>1
<1> QED
  BY <1>4, <1>6, <1>9, GoodOutside DEF Keeps

\* A guess, or the time for one run out.
LEMMA RoundEndGood ==
  ASSUME NEW x, Good(x), NEW o, NEW y, y = Apply(x, o),
         \/ \E by : \E guess \in Guess :
              /\ MayGuess(x.game, by) /\ ClientSends(x.game, by, guess)
              /\ o = ImpostorGuess(x.game, guess)
         \/ MayTimeOutGuess(x.game) /\ o = ResolveImpostorTimeout(x.game)
  PROVE  Good(y)
<1>1. PICK s : s = o.state
  OBVIOUS
<1>2. IsPair(x) /\ Inv(x.game) /\ x.game \in State
  BY DEF Good, Sound, Seated, Inv
<1>3. /\ o = Out(s, <<"RoundEnded">>) /\ Inv(s) /\ Keeps(x.game, s) /\ s.phase = "reveal"
      /\ x.game.phase = "reveal"
  <2>1. ASSUME NEW by, NEW guess \in Guess, MayGuess(x.game, by), ClientSends(x.game, by, guess),
               o = ImpostorGuess(x.game, guess)
        PROVE  /\ o = Out(s, <<"RoundEnded">>) /\ Inv(s) /\ Keeps(x.game, s)
               /\ s.phase = "reveal" /\ x.game.phase = "reveal"
    <3>1. x.game.phase = "reveal"
      BY <2>1 DEF MayGuess
    <3>2. Inv(s)
      BY <1>1, <1>2, <2>1, GuessInv
    <3>3. Keeps(x.game, s) /\ s.phase = "reveal"
      BY <1>1, <1>2, <2>1, <3>1, ImpostorGuessLemma
    <3>4. o = Out(s, <<"RoundEnded">>)
      BY <1>1, <2>1, GuessOut
    <3> QED
      BY <3>1, <3>2, <3>3, <3>4
  <2>2. ASSUME MayTimeOutGuess(x.game), o = ResolveImpostorTimeout(x.game)
        PROVE  /\ o = Out(s, <<"RoundEnded">>) /\ Inv(s) /\ Keeps(x.game, s)
               /\ s.phase = "reveal" /\ x.game.phase = "reveal"
    <3>1. x.game.phase = "reveal"
      BY <2>2 DEF MayTimeOutGuess
    <3>2. Inv(s) /\ Keeps(x.game, s) /\ s.phase = "reveal"
      BY <1>1, <1>2, <2>2, TimeoutStep
    <3>3. o = Out(s, <<"RoundEnded">>)
      BY <1>1, <2>2, TimeoutOut
    <3> QED
      BY <3>1, <3>2, <3>3
  <2> QED
    BY <2>1, <2>2
<1>4. Hears(x) => Follows(x.seat.ui, x, Marked(x))
  BY DEF Good, Shown
<1>5. y = Apply(x, Out(s, <<"RoundEnded">>))
  BY <1>3
<1>6. Called(x, s, y) /\ (Hears(x) => Follows(y.seat.ui, y, Marked(y)))
  BY <1>2, <1>3, <1>4, <1>5, RoundEndShows
<1> QED
  BY <1>3, <1>6, GoodOutside DEF Keeps

LEMMA AdvanceGood ==
  ASSUME NEW x, Good(x), MayAdvance(x.game), Settled(x.game),
         NEW y, y = Apply(x, AdvanceRound(x.game))
  PROVE  Good(y)
<1>1. PICK s : s = AdvanceRound(x.game).state
  OBVIOUS
<1>2. IsPair(x) /\ Inv(x.game)
  BY DEF Good, Sound, Seated
<1>3. x.game.phase = "reveal"
  BY DEF MayAdvance
<1>4. /\ Inv(s) /\ s.players = x.game.players /\ s.host = x.game.host
      /\ s.phase = IF x.game.round >= x.game.total THEN "game_over" ELSE "drawing"
  BY <1>1, <1>2, AdvanceStep
<1>5. AdvanceRound(x.game) = Out(s, IF x.game.round >= x.game.total THEN <<"GameEnded">>
                                    ELSE <<"RoundStarted", "TurnChanged">>)
  BY <1>1, AdvanceOut
<1>6. Hears(x) => Follows(x.seat.ui, x, Marked(x))
  BY DEF Good, Shown
<1>7. ASSUME x.game.round >= x.game.total
      PROVE  Called(x, s, y) /\ (Hears(x) => Follows(y.seat.ui, y, Marked(y)))
  <2>1. s.phase = "game_over" /\ y = Apply(x, Out(s, <<"GameEnded">>))
    BY <1>4, <1>5, <1>7
  <2>2. Keeps(x.game, s)
    <3>1. \/ Keeps(x.game, s)
          \/ x.game.round + 1 \in 1 .. x.game.total
      BY <1>1, <1>2, AdvanceRoundInv
    <3>2. x.game.round \in Nat /\ x.game.total \in Nat
      BY <1>2 DEF Inv, State
    <3> QED
      BY <1>7, <3>1, <3>2
  <2> QED
    BY <1>2, <1>3, <1>6, <2>1, <2>2, OverShows
<1>8. ASSUME ~(x.game.round >= x.game.total)
      PROVE  Called(x, s, y) /\ (Hears(x) => Follows(y.seat.ui, y, Marked(y)))
  <2>1. s.phase = "drawing" /\ y = Apply(x, Out(s, <<"RoundStarted", "TurnChanged">>))
    BY <1>4, <1>5, <1>8
  <2>2. Hears(x) => Lists(x.seat.ui, x)
    BY <1>6 DEF Follows
  <2> QED
    BY <1>2, <1>4, <2>1, <2>2, BeginShows
<1>9. Called(x, s, y) /\ (Hears(x) => Follows(y.seat.ui, y, Marked(y)))
  BY <1>7, <1>8
<1> QED
  BY <1>3, <1>4, <1>9, GoodOutside

\* Somebody else votes. While the viewer's own vote is on its way the vote stays open.
LEMMA OthersVoteGood ==
  ASSUME NEW x, Good(x), NEW voter \in x.seat.connected \ {x.seat.me},
         NEW target \in Roster(x.game), MayVote(x.game, voter, target),
         NEW y, y = Apply(x, CastVote(x.game, voter, target, x.seat.connected))
  PROVE  Good(y)
<1>1. /\ IsPair(x) /\ Inv(x.game) /\ x.game \in State /\ x.seat.me \in PlayerID
      /\ x.seat.connected \subseteq Roster(x.game)
      /\ Pending(x) => Hears(x) /\ x.game.phase = "voting" /\ ~HasVoted(x.game, x.seat.me)
  BY DEF Good, Sound, Seated, Inv
<1>2. voter \in PlayerID /\ target \in PlayerID /\ voter # x.seat.me
  BY <1>1, RosterType
<1>3. PICK voted : voted = Ballot(x.game, voter, target)
  OBVIOUS
<1>4. Hears(x) => Follows(x.seat.ui, x, Marked(x))
  BY DEF Good, Shown
<1>5. /\ Called(x, y.game, y) /\ Inv(y.game) /\ Keeps(x.game, y.game)
      /\ y.game.votes = voted.votes
      /\ \/ /\ y.game = voted /\ voted.phase = "voting"
            /\ ~VotingCanResolve(voted, x.seat.connected)
            /\ Hears(x) => Follows(y.seat.ui, y, Marked(x))
         \/ /\ VotingCanResolve(voted, x.seat.connected)
            /\ Hears(x) => Follows(y.seat.ui, y, Marked(y))
  <2>1. PICK connected, marked, after :
          connected = x.seat.connected /\ marked = Marked(x) /\ after = Marked(y)
    OBVIOUS
  <2>2. /\ IsPair(x) /\ Inv(x.game) /\ voter \in PlayerID /\ target \in PlayerID
        /\ Hears(x) => Follows(x.seat.ui, x, marked)
        /\ y = Apply(x, CastVote(x.game, voter, target, connected))
    BY <1>1, <1>2, <1>4, <2>1
  <2>3. /\ Called(x, y.game, y) /\ Inv(y.game) /\ Keeps(x.game, y.game)
        /\ y.game.votes = voted.votes
        /\ \/ /\ y.game = voted /\ voted.phase = "voting"
              /\ ~VotingCanResolve(voted, connected)
              /\ Hears(x) => Follows(y.seat.ui, y, marked)
           \/ /\ VotingCanResolve(voted, connected)
              /\ Hears(x) => Follows(y.seat.ui, y, after)
    BY <1>3, <2>2, CastShows
  <2> QED
    BY <2>1, <2>3
<1>6. HasVoted(voted, x.seat.me) <=> HasVoted(x.game, x.seat.me)
  BY <1>1, <1>2, <1>3 DEF State, HasVoted, Ballot
<1>7. HasVoted(y.game, x.seat.me) <=> HasVoted(x.game, x.seat.me)
  BY <1>5, <1>6 DEF HasVoted
<1>8. SameSeat(x, y) /\ (Marked(y) <=> Marked(x))
  BY <1>5, <1>7 DEF Called, SameSeat, Marked, Pending
<1>9. Roster(y.game) = Roster(x.game)
  BY <1>5 DEF Keeps, Roster
<1>10. CASE ~VotingCanResolve(voted, x.seat.connected)
  <2>1. /\ y.game.phase = "voting"
        /\ Hears(x) => Follows(y.seat.ui, y, Marked(x))
    BY <1>5, <1>10
  <2>2. Follows(y.seat.ui, y, Marked(x)) => Follows(y.seat.ui, y, Marked(y))
    BY <1>8 DEF Follows, Marks
  <2>3. Pending(x) => ~HasVoted(y.game, y.seat.me)
    BY <1>1, <1>7, <1>8 DEF SameSeat
  <2> QED
    BY <1>5, <1>9, <2>1, <2>2, <2>3, GoodCall DEF Good
<1>11. CASE VotingCanResolve(voted, x.seat.connected)
  <2>1. Inv(voted) /\ Keeps(x.game, voted)
    BY <1>1, <1>2, <1>3, VoteStep DEF Ballot
  <2>2. x.seat.connected \subseteq Roster(voted)
    BY <1>1, <2>1 DEF Keeps, Roster
  <2>3. \A p \in x.seat.connected : HasVoted(voted, p)
    BY <1>11, <2>1, <2>2, CanResolveLemma
  <2>4. ~Pending(x)
    BY <1>1, <1>6, <2>3 DEF Hears
  <2> QED
    BY <1>5, <1>9, <1>11, <2>4, GoodCall DEF Good
<1> QED
  BY <1>10, <1>11

\* The screen owes the same match the same, whatever is on its way.
LEMMA FollowsSame ==
  ASSUME NEW x, NEW y, y.game = x.game, y.seat.me = x.seat.me, y.seat.away = x.seat.away,
         y.seat.connected = x.seat.connected, y.seat.strokes = x.seat.strokes,
         NEW u, NEW marked
  PROVE  Follows(u, x, marked) <=> Follows(u, y, marked)
  BY DEF Follows, Lists, Plays, RoleShown, HidesWord, Counts, VotesCast, VotesTotal, Marks,
         Result, Redacted

LEMMA BallotCleared ==
  ASSUME NEW q, IsSeat(q), NEW v, v = [q EXCEPT !.ballot = Nobody, !.stale = FALSE]
  PROVE  /\ IsSeat(v) /\ v.ui = q.ui /\ v.me = q.me /\ v.ballot = Nobody
         /\ v.connected = q.connected /\ v.away = q.away /\ v.strokes = q.strokes
  BY DEF IsSeat

Cleared(x) == [x EXCEPT !.seat.ballot = Nobody, !.seat.stale = FALSE]

\* The viewer's vote arrives, or is lost with the connection it was sent over.
LEMMA CountsBallotGood ==
  ASSUME NEW x, Good(x), x.seat.ballot # Nobody,
         NEW z, z = Cleared(x),
         NEW y, y = IF Listened(x.seat) /\ MayVote(x.game, x.seat.me, x.seat.ballot)
                    THEN Apply(z, CastVote(x.game, x.seat.me, x.seat.ballot, x.seat.connected))
                    ELSE z
  PROVE  Good(y)
<1>1. /\ IsPair(x) /\ IsSeat(x.seat) /\ Seated(x) /\ Honest(x)
      /\ Inv(x.game) /\ x.game \in State /\ x.seat.me \in PlayerID
      /\ x.seat.connected \subseteq Roster(x.game)
      /\ Pending(x) => /\ Hears(x) /\ x.game.phase = "voting"
                       /\ ~HasVoted(x.game, x.seat.me) /\ x.seat.ballot \in Roster(x.game)
  BY DEF Good, Sound, Seated, Inv, IsPair
<1>2. /\ IsPair(z) /\ z.game = x.game /\ z.seat.ui = x.seat.ui /\ z.seat.me = x.seat.me
      /\ z.seat.connected = x.seat.connected /\ z.seat.away = x.seat.away
      /\ z.seat.strokes = x.seat.strokes /\ z.seat.ballot = Nobody
  <2> DEFINE v == [x.seat EXCEPT !.ballot = Nobody, !.stale = FALSE]
  <2>1. z = [x EXCEPT !.seat = v]
    BY DEF Cleared
  <2>2. /\ IsSeat(v) /\ v.ui = x.seat.ui /\ v.me = x.seat.me /\ v.ballot = Nobody
        /\ v.connected = x.seat.connected /\ v.away = x.seat.away /\ v.strokes = x.seat.strokes
    BY <1>1, BallotCleared
  <2> HIDE DEF v
  <2>3. IsPair(z) /\ z.game = x.game /\ z.seat = v
    BY <1>1, <2>1, <2>2 DEF IsPair
  <2> QED
    BY <2>2, <2>3
<1>3. ~Pending(z) /\ Seated(z) /\ Honest(z) /\ (Hears(z) <=> Hears(x))
  BY <1>1, <1>2 DEF Pending, Seated, Honest, Hears
<1>4. Sound(z)
  BY <1>2, <1>3 DEF Sound
<1>5. Hears(x) => Follows(x.seat.ui, x, Marked(x))
  BY DEF Good, Shown
<1>6. \A m : Follows(x.seat.ui, x, m) <=> Follows(z.seat.ui, z, m)
  BY <1>2, FollowsSame
<1>7. CASE Pending(x)
  <2>1. Listened(x.seat) /\ x.seat.me \in Roster(x.game)
    BY <1>1, <1>7 DEF Pending, Listened, Hears
  <2>2. MayVote(x.game, x.seat.me, x.seat.ballot)
    BY <1>1, <1>7, <2>1 DEF MayVote
  <2>3. PICK me, ballot, connected :
          /\ me = x.seat.me /\ ballot = x.seat.ballot /\ connected = x.seat.connected
    OBVIOUS
  <2>4. me \in PlayerID /\ ballot \in PlayerID /\ MayVote(z.game, me, ballot) /\ Inv(z.game)
    BY <1>1, <1>2, <1>7, <2>2, <2>3, RosterType
  <2>5. y = Apply(z, CastVote(z.game, me, ballot, connected))
    BY <1>2, <2>1, <2>2, <2>3
  <2>6. Hears(z) => Follows(z.seat.ui, z, TRUE)
    <3>1. Follows(x.seat.ui, x, Marked(x)) => Follows(x.seat.ui, x, TRUE)
      BY <1>7 DEF Follows, Marks, Marked
    <3> QED
      BY <1>3, <1>5, <1>6, <3>1
  <2>7. PICK voted : voted = Ballot(z.game, me, ballot)
    OBVIOUS
  <2>8. /\ Called(z, y.game, y) /\ Inv(y.game) /\ Keeps(z.game, y.game)
        /\ y.game.votes = voted.votes
        /\ Hears(z) => Follows(y.seat.ui, y, TRUE)
    <3>1. PICK marked : marked = TRUE
      OBVIOUS
    <3>2. /\ IsPair(z) /\ Inv(z.game) /\ me \in PlayerID /\ ballot \in PlayerID
          /\ MayVote(z.game, me, ballot)
          /\ Hears(z) => Follows(z.seat.ui, z, marked)
          /\ y = Apply(z, CastVote(z.game, me, ballot, connected))
      BY <1>2, <2>4, <2>5, <2>6, <3>1
    <3>3. /\ Called(z, y.game, y) /\ Inv(y.game) /\ Keeps(z.game, y.game)
          /\ y.game.votes = voted.votes
          /\ \/ /\ y.game = voted /\ voted.phase = "voting"
                /\ ~VotingCanResolve(voted, connected)
                /\ Hears(z) => Follows(y.seat.ui, y, marked)
             \/ /\ VotingCanResolve(voted, connected)
                /\ Hears(z) => Follows(y.seat.ui, y, marked)
      BY <2>7, <3>2, CastShows
    <3> QED
      BY <3>1, <3>3
  <2>9. Marked(y)
    <3>1. voted.votes[me] = ballot /\ ballot # Nobody
      BY <1>1, <1>2, <2>4, <2>7, NobodyAssumption DEF State, Ballot
    <3>2. y.seat.me = me
      BY <1>2, <2>3, <2>8 DEF Called, SameSeat
    <3> QED
      BY <2>8, <3>1, <3>2 DEF Marked, HasVoted
  <2>10. Follows(y.seat.ui, y, TRUE) => Follows(y.seat.ui, y, Marked(y))
    BY <2>9 DEF Follows, Marks
  <2>11. Roster(y.game) = Roster(z.game)
    <3>1. PICK s, t : s = z.game /\ t = y.game
      OBVIOUS
    <3>2. Keeps(s, t)
      BY <2>8, <3>1
    <3>3. Roster(t) = Roster(s)
      BY <3>2 DEF Keeps, Roster
    <3> QED
      BY <3>1, <3>3
  <2> QED
    BY <1>3, <1>4, <2>8, <2>10, <2>11, GoodCall
<1>8. CASE ~Pending(x)
  <2>1. ~Listened(x.seat)
    BY <1>8 DEF Pending, Listened
  <2>2. y = z
    BY <2>1
  <2>3. Marked(z) <=> Marked(x)
    BY <1>2, <1>3, <1>8 DEF Marked
  <2>4. Follows(x.seat.ui, x, Marked(x)) => Follows(x.seat.ui, x, Marked(z))
    BY <2>3 DEF Follows, Marks
  <2>5. Hears(z) => Follows(z.seat.ui, z, Marked(z))
    BY <1>3, <1>5, <1>6, <2>4
  <2> QED
    BY <1>4, <2>2, <2>5 DEF Good, Shown
<1> QED
  BY <1>7, <1>8

\* The screen on which the viewer has voted.
SeesOwnVote(u, w) ==
  /\ MarkSeen(w, TRUE) /\ w.phase = u.phase
  /\ SameLists(u, w) /\ SameTurn(u, w) /\ SameRole(u, w) /\ SameEnd(u, w)
  /\ w.strokes = u.strokes /\ w.votesCast = u.votesCast /\ w.votesTotal = u.votesTotal

LEMMA OwnVoteScreen ==
  ASSUME NEW u, IsScreen(u), NEW w, w = [u EXCEPT !.hasVoted = TRUE]
  PROVE  IsScreen(w) /\ SeesOwnVote(u, w)
<1>1. w.hasVoted = TRUE
  BY DEF IsScreen
<1>2. MarkSeen(w, TRUE)
  BY <1>1 DEF MarkSeen
<1>3. /\ IsScreen(w) /\ w.phase = u.phase
      /\ SameLists(u, w) /\ SameTurn(u, w) /\ SameRole(u, w) /\ SameEnd(u, w)
      /\ w.strokes = u.strokes /\ w.votesCast = u.votesCast /\ w.votesTotal = u.votesTotal
  BY DEF IsScreen, SameLists, SameTurn, SameRole, SameEnd
<1> QED
  BY <1>2, <1>3 DEF SeesOwnVote

Sent(q, b) == [q EXCEPT !.ballot = b, !.stale = FALSE, !.ui.hasVoted = TRUE]

Sends(q, b, v) ==
  /\ IsSeat(v) /\ v.me = q.me /\ v.connected = q.connected /\ v.away = q.away
  /\ v.strokes = q.strokes /\ v.ballot = b /\ ~v.stale /\ SeesOwnVote(q.ui, v.ui)

LEMMA BallotSent ==
  ASSUME NEW q, IsSeat(q), NEW b, NEW v, v = Sent(q, b)
  PROVE  Sends(q, b, v)
<1>1. PICK w : w = [q.ui EXCEPT !.hasVoted = TRUE]
  OBVIOUS
<1>2. v = [q EXCEPT !.ballot = b, !.stale = FALSE, !.ui = w]
  BY <1>1 DEF Sent
<1>3. IsScreen(w) /\ SeesOwnVote(q.ui, w)
  <2>1. IsScreen(q.ui)
    BY DEF IsSeat
  <2> QED
    BY <1>1, <2>1, OwnVoteScreen
<1>4. /\ IsSeat(v) /\ v.ui = w /\ v.me = q.me /\ v.connected = q.connected /\ v.away = q.away
      /\ v.strokes = q.strokes /\ v.ballot = b /\ v.stale = FALSE
  BY <1>2, <1>3 DEF IsSeat
<1> QED
  BY <1>3, <1>4 DEF Sends

LEMMA SendsBallotGood ==
  ASSUME NEW x, Good(x), Hears(x), x.seat.ui.phase = "voting", ~x.seat.ui.hasVoted,
         x.seat.ballot = Nobody, NEW i \in 1 .. Len(x.seat.ui.players),
         NEW b, b = x.seat.ui.players[i],
         NEW y, y = [game |-> x.game, seat |-> Sent(x.seat, b)]
  PROVE  Good(y)
<1>1. PICK v : v = Sent(x.seat, b)
  OBVIOUS
<1>2. IsSeat(x.seat) /\ Seated(x) /\ Honest(x) /\ Follows(x.seat.ui, x, Marked(x))
  BY DEF Good, Sound, Shown, IsPair
<1>3. Sends(x.seat, b, v)
  BY <1>1, <1>2, BallotSent
<1>4. /\ x.game.phase = "voting" /\ x.seat.ui.players = x.game.players
      /\ ~HasVoted(x.game, x.seat.me)
  BY <1>2 DEF Follows, Plays, Lists, Marks, Marked
<1>5. b \in Roster(x.game)
  BY <1>4 DEF Roster
<1>6. y.game = x.game /\ y.seat = v /\ IsPair(y)
  BY <1>1, <1>3 DEF IsPair, Sends
<1>7. Seated(y)
  BY <1>2, <1>3, <1>4, <1>5, <1>6 DEF Sends, SeesOwnVote, Seated, Pending, Hears
<1>8. Honest(y)
  BY <1>2, <1>3, <1>6 DEF Sends, SeesOwnVote, Honest, HonestTo, SameRole, SameEnd
<1>9. Marked(y)
  <2>1. b # Nobody
    BY <1>2, <1>5, RosterType, NobodyAssumption DEF Seated, Inv
  <2> QED
    BY <1>3, <1>6, <2>1 DEF Sends, Marked, Pending
<1>10. Follows(v.ui, y, TRUE)
  <2>1. Lists(v.ui, y)
    BY <1>2, <1>3, <1>6 DEF Sends, SeesOwnVote, Follows, Lists, SameLists
  <2>2. Plays(v.ui, y)
    BY <1>2, <1>3, <1>4, <1>6 DEF Sends, SeesOwnVote, Follows, Plays, SameRole, RoleShown, HidesWord
  <2>3. Counts(v.ui, y)
    BY <1>2, <1>3, <1>6 DEF Sends, SeesOwnVote, Follows, Counts, VotesCast, VotesTotal
  <2>4. Marks(v.ui, y, TRUE)
    BY <1>3, <1>4, <1>6 DEF Sends, SeesOwnVote, Marks, MarkSeen
  <2> QED
    BY <2>1, <2>2, <2>3, <2>4 DEF Follows
<1>11. Follows(v.ui, y, TRUE) => Follows(v.ui, y, Marked(y))
  BY <1>9 DEF Follows, Marks
<1> QED
  BY <1>6, <1>7, <1>8, <1>10, <1>11 DEF Good, Sound, Shown

-----------------------------------------------------------------------------
(* Presence: the roster's messages, the count that follows them, and the   *)
(* snapshot that greets a connection.                                      *)

\* All but the counts, and in the lobby but for the lists: what a handler of
\* presence starts from.
Fits(x) ==
  Hears(x) => /\ Plays(x.seat.ui, x) /\ Marks(x.seat.ui, x, Marked(x))
              /\ x.game.phase # "lobby" => Lists(x.seat.ui, x)

Counted(x) == Hears(x) => Counts(x.seat.ui, x)

LEMMA ShownParts ==
  ASSUME NEW x
  PROVE  /\ Shown(x) => Fits(x) /\ Counted(x)
         /\ Fits(x) /\ Counted(x) /\ (Hears(x) => Lists(x.seat.ui, x)) => Shown(x)
  BY DEF Shown, Fits, Counted, Follows

LEMMA PlayStays ==
  ASSUME NEW u, NEW v, SamePlay(u, v), NEW x, NEW marked
  PROVE  /\ Plays(u, x) => Plays(v, x)
         /\ Marks(u, x, marked) => Marks(v, x, marked)
         /\ Counts(u, x) => Counts(v, x)
  BY DEF SamePlay, SameTurn, SameRole, SameVote, SameEnd, Plays, RoleShown, Marks, Counts

LEMMA RosterTold ==
  ASSUME NEW x, Sound(x), NEW e \in {"Lobby", "Left", "Presence", "Host"},
         NEW y, y = Tell(x, e)
  PROVE  /\ Sound(y) /\ SameFacts(x, y)
         /\ Hears(x) => SamePlay(x.seat.ui, y.seat.ui)
         /\ Hears(x) /\ e = "Lobby" => Lists(y.seat.ui, y)
         /\ Hears(x) => RosterSeen(x.seat.ui, x, e, y.seat.ui)
<1>1. IsPair(x) /\ e \in MessageType /\ e # "Snapshot" /\ Honest(x) /\ Seated(x)
  BY DEF Sound, MessageType
<1>2. /\ IsPair(y) /\ SameFacts(x, y) /\ Honest(y)
      /\ Hears(x) => y.seat.ui = Reduce(x.seat.ui, x, e)
  BY <1>1, TellStep
<1>3. Sound(y)
  BY <1>1, <1>2, SeatedSame DEF Sound, SameFacts
<1>4. ASSUME Hears(x)
      PROVE  SamePlay(x.seat.ui, y.seat.ui) /\ RosterSeen(x.seat.ui, x, e, y.seat.ui)
  <2>1. PICK u, v : u = x.seat.ui /\ v = Reduce(u, x, e)
    OBVIOUS
  <2>2. IsScreen(u) /\ y.seat.ui = v
    BY <1>1, <1>2, <1>4, <2>1 DEF IsPair, IsSeat
  <2>3. IsScreen(u) /\ v = Reduce(u, x, e)
    BY <2>1, <2>2
  <2>4. IsScreen(v) /\ SamePlay(u, v) /\ RosterSeen(u, x, e, v)
    BY <2>3, RosterScreen
  <2> QED
    BY <2>1, <2>2, <2>4
<1>5. RosterSeen(x.seat.ui, x, "Lobby", y.seat.ui) => Lists(y.seat.ui, y)
  BY <1>2, ShowsSame DEF RosterSeen
<1> QED
  BY <1>2, <1>3, <1>4, <1>5

\* A message about the roster keeps what is shown of the match.
LEMMA RosterFits ==
  ASSUME NEW x, Sound(x), NEW e \in {"Lobby", "Left", "Presence", "Host"},
         NEW y, y = Tell(x, e)
  PROVE  /\ Hears(x) /\ Plays(x.seat.ui, x) => Plays(y.seat.ui, y)
         /\ Hears(x) /\ Marks(x.seat.ui, x, Marked(x)) => Marks(y.seat.ui, y, Marked(y))
         /\ Counted(x) => Counted(y)
<1>1. SameFacts(x, y) /\ (Hears(x) => SamePlay(x.seat.ui, y.seat.ui))
  BY RosterTold
<1>2. (Hears(y) <=> Hears(x)) /\ (Marked(y) <=> Marked(x))
  BY <1>1, SeatedSame DEF SameFacts
<1>3. ASSUME Hears(x)
      PROVE  /\ Plays(x.seat.ui, x) => Plays(y.seat.ui, y)
             /\ Counts(x.seat.ui, x) => Counts(y.seat.ui, y)
             /\ Marks(x.seat.ui, x, Marked(x)) => Marks(y.seat.ui, y, Marked(y))
  <2>1. PICK u, v, marked : u = x.seat.ui /\ v = y.seat.ui /\ marked = Marked(x)
    OBVIOUS
  <2>2. SamePlay(u, v)
    BY <1>1, <1>3, <2>1
  <2>3. /\ Plays(u, x) => Plays(v, x)
        /\ Marks(u, x, marked) => Marks(v, x, marked)
        /\ Counts(u, x) => Counts(v, x)
    BY <2>2, PlayStays
  <2>4. /\ Plays(v, x) <=> Plays(v, y)
        /\ Counts(v, x) <=> Counts(v, y)
    BY <1>1, ShowsSame
  <2>5. Marks(v, x, marked) => Marks(v, y, Marked(y))
    BY <1>1, <1>2, <2>1 DEF Marks, SameFacts
  <2> QED
    BY <2>1, <2>3, <2>4, <2>5
<1> QED
  BY <1>2, <1>3 DEF Counted

LEMMA CountTold ==
  ASSUME NEW x, Sound(x), x.game.phase = "voting", NEW y, y = Tell(x, "VoteRecorded")
  PROVE  Sound(y) /\ SameFacts(x, y) /\ (Fits(x) => Shown(y))
<1>1. IsPair(x) /\ Honest(x) /\ Seated(x) /\ "VoteRecorded" \in MessageType
  BY DEF Sound, MessageType, EventType
<1>2. /\ IsPair(y) /\ SameFacts(x, y) /\ Honest(y)
      /\ Hears(x) => y.seat.ui = Reduce(x.seat.ui, x, "VoteRecorded")
  BY <1>1, TellStep
<1>3. Sound(y)
  BY <1>1, <1>2, SeatedSame DEF Sound, SameFacts
<1>4. (Hears(y) <=> Hears(x)) /\ (Marked(y) <=> Marked(x))
  BY <1>2, SeatedSame DEF SameFacts
<1>5. ASSUME Fits(x), Hears(x)
      PROVE  Follows(y.seat.ui, y, Marked(y))
  <2>1. PICK u, marked : u = x.seat.ui /\ marked = Marked(x)
    OBVIOUS
  <2>2. Plays(u, x) /\ Marks(u, x, marked) /\ Lists(u, x) /\ IsScreen(u)
    BY <1>1, <1>5, <2>1 DEF Fits, IsPair, IsSeat
  <2>3. RoundSeen(u, x) /\ u.phase = "voting" /\ MarkSeen(u, marked)
    BY <2>2 DEF Plays, Marks, RoundSeen, MarkSeen
  <2>4. Follows(Reduce(u, x, "VoteRecorded"), x, marked)
    BY <2>3, CountScreen
  <2>5. Follows(y.seat.ui, x, marked)
    BY <1>2, <1>5, <2>1, <2>4
  <2>6. Follows(y.seat.ui, y, marked)
    BY <1>2, <2>5, FollowsSame DEF SameFacts, SameSeat
  <2>7. Follows(y.seat.ui, y, marked) => Follows(y.seat.ui, y, Marked(y))
    BY <1>4, <2>1 DEF Follows, Marks
  <2> QED
    BY <2>6, <2>7
<1> QED
  BY <1>2, <1>3, <1>4, <1>5 DEF Shown

\* What EvaluateVoting leaves alone, and what it brings about.
LEMMA Evaluated ==
  ASSUME NEW x, Sound(x), NEW y, y = EvaluateVoting(x)
  PROVE  /\ Sound(y) /\ SameSeat(x, y) /\ Roster(y.game) = Roster(x.game)
         /\ x.game.phase # "voting" => y = x
         /\ x.game.phase = "voting" /\ Fits(x) => Shown(y)
         /\ Fits(x) => Fits(y) /\ Counted(y)
<1>1. CASE x.game.phase # "voting"
  <2>1. y = x
    BY <1>1 DEF EvaluateVoting
  <2> QED
    BY <1>1, <2>1 DEF SameSeat, Counted, Counts
<1>2. CASE x.game.phase = "voting"
  <2>1. PICK t : t = Tell(x, "VoteRecorded")
    OBVIOUS
  <2>2. Sound(t) /\ SameFacts(x, t) /\ (Fits(x) => Shown(t))
    BY <1>2, <2>1, CountTold
  <2>3. CASE ~MayResolveVoting(x.game, x.seat.connected)
    <3>1. y = t
      BY <1>2, <2>1, <2>3 DEF EvaluateVoting
    <3>2. SameSeat(x, y) /\ Roster(y.game) = Roster(x.game)
      BY <2>2, <3>1 DEF SameFacts
    <3> QED
      BY <1>2, <2>2, <3>1, <3>2, ShownParts
  <2>4. CASE MayResolveVoting(x.game, x.seat.connected)
    <3>1. y = Apply(t, FinishVoting(x.game))
      BY <1>2, <2>1, <2>4 DEF EvaluateVoting
    <3>2. PICK s : s = FinishVoting(x.game).state
      OBVIOUS
    <3>3. /\ Inv(x.game) /\ x.game \in State /\ x.seat.connected \subseteq Roster(x.game)
          /\ IsPair(t) /\ t.game = x.game /\ SameSeat(x, t) /\ Honest(t)
      BY <2>2 DEF Sound, Seated, Inv, SameFacts
    <3>4. Inv(s) /\ Keeps(x.game, s) /\ s.phase = "reveal" /\ s.votes = x.game.votes
      BY <1>2, <3>2, <3>3, VerdictStep
    <3>5. PICK o : o = FinishVoting(x.game)
      OBVIOUS
    <3>6. o = Out(s, IF s.result.caught THEN <<"PhaseChanged">>
                                        ELSE <<"PhaseChanged", "RoundEnded">>)
      BY <3>2, <3>3, <3>5, VerdictOut
    <3>7. PICK marked, after : marked = Marked(t) /\ after = Marked(y)
      OBVIOUS
    <3>8. /\ t.game.phase = "voting" /\ Keeps(t.game, s) /\ y = Apply(t, o)
          /\ \/ s.result.caught  /\ o = Out(s, <<"PhaseChanged">>)
             \/ ~s.result.caught /\ o = Out(s, <<"PhaseChanged", "RoundEnded">>)
      BY <1>2, <3>1, <3>3, <3>4, <3>5, <3>6
    <3>9. /\ Called(t, s, y)
          /\ Hears(t) /\ Follows(t.seat.ui, t, marked) => Follows(y.seat.ui, y, after)
      BY <3>3, <3>4, <3>8, VerdictShows
    <3>10. SameSeat(x, y) /\ (Hears(t) <=> Hears(x)) /\ (Hears(y) <=> Hears(x))
      BY <3>3, <3>9 DEF SameSeat, Called, Hears
    <3>11. ~Pending(t)
      <4>1. \A p \in x.seat.connected : HasVoted(x.game, p)
        BY <2>4, <3>3, CanResolveLemma DEF MayResolveVoting
      <4> QED
        BY <2>2, <3>3, <4>1 DEF Sound, Seated, Hears, SameSeat
    <3>12. Roster(y.game) = Roster(x.game) /\ y.game = s
      BY <3>4, <3>9 DEF Called, Keeps, Roster
    <3>13. Sound(y)
      <4>1. IsPair(y) /\ Honest(y) /\ SameSeat(t, y)
        BY <3>3, <3>9 DEF Called
      <4>2. Seated(y)
        BY <2>2, <3>3, <3>4, <3>11, <3>12, <4>1 DEF Sound, Seated, SameSeat, Pending
      <4> QED
        BY <4>1, <4>2 DEF Sound
    <3>14. Fits(x) => Shown(y)
      BY <2>2, <3>7, <3>9, <3>10 DEF Shown
    <3> QED
      BY <1>2, <3>10, <3>12, <3>13, <3>14, ShownParts
  <2> QED
    BY <2>3, <2>4
<1> QED
  BY <1>1, <1>2

LEMMA LobbyTold ==
  ASSUME NEW x, Sound(x), Fits(x), Counted(x), NEW y, y = Tell(x, "Lobby")
  PROVE  Good(y)
<1>1. Sound(y) /\ SameFacts(x, y) /\ (Hears(x) => Lists(y.seat.ui, y))
  BY RosterTold
<1>2. Hears(y) <=> Hears(x)
  BY <1>1, SeatedSame DEF SameFacts
<1>3. Fits(y) /\ Counted(y)
  BY <1>1, <1>2, RosterFits DEF Fits
<1> QED
  BY <1>1, <1>2, <1>3, ShownParts DEF Good

\* A snapshot puts everything right.
LEMMA SnapshotTold ==
  ASSUME NEW x, Sound(x), ~Pending(x), NEW y, y = Tell(x, "Snapshot")
  PROVE  Good(y) /\ SameFacts(x, y)
<1>1. IsPair(x) /\ Honest(x) /\ Seated(x) /\ "Snapshot" \in MessageType
  BY DEF Sound, MessageType
<1>2. /\ IsPair(y) /\ SameFacts(x, y) /\ Honest(y)
      /\ Hears(x) => y.seat.ui = Reduce(x.seat.ui, x, "Snapshot")
  BY <1>1, TellStep
<1>3. Sound(y)
  BY <1>1, <1>2, SeatedSame DEF Sound, SameFacts
<1>4. (Hears(y) <=> Hears(x)) /\ (Marked(y) <=> Marked(x))
  BY <1>2, SeatedSame DEF SameFacts
<1>5. ASSUME Hears(x)
      PROVE  Follows(y.seat.ui, y, Marked(y))
  <2>1. PICK v : v = Snapshot(x)
    OBVIOUS
  <2>2. y.seat.ui = v
    BY <1>2, <1>5, <2>1, ReduceNames
  <2>3. Lists(v, x) /\ Plays(v, x) /\ Counts(v, x) /\ SnapshotVote(v, x)
    BY <1>1, <2>1, SnapshotScreen
  <2>4. Marked(x) <=> HasVoted(x.game, x.seat.me)
    BY DEF Marked
  <2>5. Marks(v, x, Marked(y))
    BY <1>4, <2>3, <2>4 DEF SnapshotVote, Marks
  <2>6. Follows(v, x, Marked(y))
    BY <2>3, <2>5 DEF Follows
  <2> QED
    BY <1>2, <2>2, <2>6, FollowsSame DEF SameFacts, SameSeat
<1> QED
  BY <1>2, <1>3, <1>4, <1>5 DEF Good, Shown

\* A vote under way is counted anew, and then all is shown.
LEMMA EvaluatedGood ==
  ASSUME NEW x, Sound(x), Fits(x), Hears(x) => Lists(x.seat.ui, x),
         NEW y, y = EvaluateVoting(x)
  PROVE  Good(y)
<1>1. CASE x.game.phase = "voting"
  BY <1>1, Evaluated DEF Good
<1>2. CASE x.game.phase # "voting"
  <2>1. y = x /\ Counted(x)
    BY <1>2, Evaluated DEF Counted, Counts
  <2> QED
    BY <2>1, ShownParts DEF Good
<1> QED
  BY <1>1, <1>2

-----------------------------------------------------------------------------
(* A new host.                                                             *)

\* A screen that fits x fits z.
PlaysOn(x, z) ==
  \A u : /\ Plays(u, x) => Plays(u, z)
         /\ Counts(u, x) => Counts(u, z)
         /\ Marks(u, x, Marked(x)) => Marks(u, z, Marked(z))

SameRoles(s, t) ==
  /\ t.phase = s.phase /\ t.round = s.round /\ t.impostor = s.impostor
  /\ t.order = s.order /\ t.players = s.players /\ t.result = s.result

LEMMA ResultSame ==
  ASSUME NEW x, NEW z, SameRoles(x.game, z.game), z.seat.me = x.seat.me
  PROVE  Result(z) = Result(x)
<1>1. ResultImpostor(z.game) = ResultImpostor(x.game)
  BY DEF SameRoles, ResultImpostor, ImpostorOf
<1>2. Redacted(z) = Redacted(x)
  BY <1>1 DEF Redacted
<1>3. z.game.result = x.game.result
  BY DEF SameRoles
<1> QED
  BY <1>1, <1>2, <1>3 DEF Result

LEMMA HostSet ==
  ASSUME NEW x, Sound(x), NEW p \in PlayerID, NEW z, z = [x EXCEPT !.game = SetHostID(@, p)]
  PROVE  /\ Sound(z) /\ SameSeat(x, z) /\ Roster(z.game) = Roster(x.game)
         /\ z.seat = x.seat /\ z.game.players = x.game.players
         /\ z.game.phase = x.game.phase
         /\ PlaysOn(x, z)
<1> DEFINE s == SetHostID(x.game, p)
<1>1. IsPair(x) /\ Seated(x) /\ Honest(x) /\ Inv(x.game) /\ x.game \in State
  BY DEF Sound, Seated, Inv
<1>2. Inv(s)
  BY <1>1, SetHostInv
<1>3. /\ s.players = x.game.players /\ s.phase = x.game.phase /\ s.round = x.game.round
      /\ s.order = x.game.order /\ s.total = x.game.total /\ s.impostor = x.game.impostor
      /\ s.turn = x.game.turn /\ s.lap = x.game.lap /\ s.guess = x.game.guess
      /\ s.result = x.game.result /\ s.score = x.game.score /\ s.votes = x.game.votes
  BY <1>1 DEF State, SetHostID
<1>4. z = [x EXCEPT !.game = s]
  OBVIOUS
<1> HIDE DEF s
<1>5. IsPair(z) /\ z.game = s /\ z.seat = x.seat
  BY <1>1, <1>4 DEF IsPair
<1>6. Roster(s) = Roster(x.game) /\ (HasVoted(s, x.seat.me) <=> HasVoted(x.game, x.seat.me))
  BY <1>3 DEF Roster, HasVoted
<1>7. Seated(z) /\ Honest(z) /\ SameSeat(x, z)
  BY <1>1, <1>2, <1>3, <1>5, <1>6 DEF Seated, Honest, SameSeat, Pending, Hears
<1>8. Marked(z) <=> Marked(x)
  BY <1>5, <1>6 DEF Marked, Pending
<1>9. /\ HidesWord(z) = HidesWord(x) /\ Drawer(s) = Drawer(x.game)
      /\ VotesCast(z) = VotesCast(x) /\ VotesTotal(z) = VotesTotal(x)
  BY <1>3, <1>5, <1>6 DEF HidesWord, Drawer, VotesCast, VotesTotal, Voters, Required, HasVoted
<1>10. Result(z) = Result(x)
  <2>1. SameRoles(x.game, z.game) /\ z.seat.me = x.seat.me
    BY <1>3, <1>5 DEF SameRoles
  <2> QED
    BY <2>1, ResultSame
<1>11. ASSUME NEW u
       PROVE  /\ (Plays(u, x) => Plays(u, z)) /\ (Counts(u, x) => Counts(u, z))
              /\ Marks(u, x, Marked(x)) => Marks(u, z, Marked(z))
  BY <1>3, <1>5, <1>8, <1>9, <1>10 DEF Plays, RoleShown, Counts, Marks
<1>12. PlaysOn(x, z)
  BY <1>11 DEF PlaysOn
<1>13. Sound(z) /\ Roster(z.game) = Roster(x.game)
  BY <1>5, <1>6, <1>7 DEF Sound
<1> QED
  BY <1>3, <1>5, <1>7, <1>12, <1>13

\* The screen keeps what it shows of the match, and follows the host.
LEMMA MigrationKeeps ==
  ASSUME NEW x, Sound(x), NEW y \in Migrations(x)
  PROVE  /\ Sound(y) /\ SameSeat(x, y) /\ Roster(y.game) = Roster(x.game)
         /\ Fits(x) => Fits(y)
         /\ Counted(x) => Counted(y)
<1>1. CASE y = x
  BY <1>1 DEF SameSeat
<1>2. CASE \E p \in x.seat.connected \cap Roster(x.game) :
             y = Tell([x EXCEPT !.game = SetHostID(@, p)], "Host")
  <2>1. PICK p \in x.seat.connected \cap Roster(x.game) :
               y = Tell([x EXCEPT !.game = SetHostID(@, p)], "Host")
    BY <1>2
  <2>2. PICK z : z = [x EXCEPT !.game = SetHostID(@, p)]
    OBVIOUS
  <2>3. y = Tell(z, "Host")
    BY <2>1, <2>2
  <2>4. p \in PlayerID
    BY RosterType DEF Sound, Seated, Inv
  <2>5. /\ Sound(z) /\ SameSeat(x, z) /\ Roster(z.game) = Roster(x.game)
        /\ z.seat = x.seat /\ z.game.players = x.game.players
        /\ z.game.phase = x.game.phase
        /\ PlaysOn(x, z)
    BY <2>2, <2>4, HostSet
  <2> HIDE <2>1, <2>2
  <2>6. /\ Sound(y) /\ SameFacts(z, y)
        /\ Hears(z) => RosterSeen(z.seat.ui, z, "Host", y.seat.ui)
    BY <2>3, <2>5, RosterTold
  <2>7. /\ Hears(z) /\ Plays(z.seat.ui, z) => Plays(y.seat.ui, y)
        /\ Hears(z) /\ Marks(z.seat.ui, z, Marked(z)) => Marks(y.seat.ui, y, Marked(y))
        /\ Counted(z) => Counted(y)
    BY <2>3, <2>5, RosterFits
  <2>8. (Hears(z) <=> Hears(x)) /\ (Hears(y) <=> Hears(x)) /\ SameSeat(x, y)
    BY <2>5, <2>6 DEF Hears, SameSeat, SameFacts
  <2>9. Counted(x) => Counted(y)
    BY <2>5, <2>7, <2>8 DEF Counted, PlaysOn
  <2>10. ASSUME Hears(x), Lists(x.seat.ui, x)
         PROVE  Lists(y.seat.ui, y)
    BY <2>5, <2>6, <2>8, <2>10 DEF Lists, RosterSeen, SameFacts, SameSeat
  <2>11. Fits(x) => Fits(y)
    <3>1. ASSUME Hears(x), Fits(x)
          PROVE  Plays(y.seat.ui, y) /\ Marks(y.seat.ui, y, Marked(y))
      BY <2>5, <2>7, <2>8, <3>1 DEF Fits, PlaysOn
    <3>2. y.game.phase = x.game.phase
      BY <2>5, <2>6 DEF SameFacts
    <3> QED
      BY <2>8, <2>10, <3>1, <3>2 DEF Fits
  <2> QED
    BY <2>5, <2>6, <2>8, <2>9, <2>11 DEF SameFacts
<1> QED
  BY <1>1, <1>2 DEF Migrations

-----------------------------------------------------------------------------
(* Joins, departures and the end of a grace period.                        *)

LEMMA FirstScreen ==
  /\ IsScreen(InitialState)
  /\ \A me : HonestTo(InitialState, me)
<1>1. IsResult(NoRoundResult) /\ NoRoundResult.word = FALSE
  BY DEF NoRoundResult, IsResult
<1>2. PICK none : none = NoRoundResult
  OBVIOUS
<1>3. IsResult(none) /\ none.word = FALSE
  BY <1>1, <1>2
<1>4. /\ IsScreen(InitialState) /\ InitialState.word = FALSE
      /\ InitialState.lastResult = none
  BY <1>2, <1>3 DEF InitialState, IsScreen
<1> QED
  BY <1>3, <1>4 DEF HonestTo

\* Who is connected and who is away changes at p's seat; the viewer's own screen and
\* vote are given up with its connection.
Moved(q, p, connected, away, v) ==
  /\ IsSeat(v) /\ v.me = q.me /\ v.connected = connected /\ v.away = away
  /\ v.strokes = q.strokes /\ v.ballot = q.ballot
  /\ p # q.me => v.ui = q.ui /\ v.stale = q.stale
  /\ p = q.me => (v.ballot = Nobody \/ v.stale) /\ v.ui = InitialState

Seats(q, connected, away) == [q EXCEPT !.connected = connected, !.away = away]

LEMMA SeatsReplaced ==
  ASSUME NEW q, IsSeat(q), NEW connected, NEW away, NEW v, v = Seats(q, connected, away)
  PROVE  /\ IsSeat(v) /\ v.me = q.me /\ v.connected = connected /\ v.away = away
         /\ v.strokes = q.strokes /\ v.ballot = q.ballot /\ v.ui = q.ui /\ v.stale = q.stale
  BY DEF IsSeat, Seats

LEMMA SeatMoves ==
  ASSUME NEW q, IsSeat(q), NEW p, NEW w, w = Severed(q, p), NEW connected, NEW away,
         NEW v, v = Seats(w, connected, away)
  PROVE  Moved(q, p, connected, away, v) /\ w.connected = q.connected /\ w.away = q.away
<1>1. CASE p # q.me
  <2>1. w = q
    BY <1>1 DEF Severed
  <2>2. /\ IsSeat(v) /\ v.me = q.me /\ v.connected = connected /\ v.away = away
        /\ v.strokes = q.strokes /\ v.ballot = q.ballot /\ v.ui = q.ui /\ v.stale = q.stale
    BY <2>1, SeatsReplaced
  <2> QED
    BY <1>1, <2>1, <2>2 DEF Moved
<1>2. CASE p = q.me
  <2>1. PICK stale : stale = (q.ballot # Nobody)
    OBVIOUS
  <2>2. PICK ui : ui = InitialState
    OBVIOUS
  <2>3. IsScreen(ui)
    BY <2>2, FirstScreen
  <2>4. w = [q EXCEPT !.stale = stale, !.ui = ui]
    BY <1>2, <2>1, <2>2 DEF Severed
  <2> HIDE <2>1, <2>2
  <2>5. /\ w.connected = q.connected /\ w.away = q.away
        /\ IsSeat(v) /\ v.me = q.me /\ v.connected = connected /\ v.away = away
        /\ v.strokes = q.strokes /\ v.ballot = q.ballot /\ v.stale = stale /\ v.ui = ui
    BY <2>3, <2>4 DEF IsSeat, Seats
  <2>6. v.ballot = Nobody \/ v.stale
    <3>1. CASE q.ballot = Nobody
      BY <2>5, <3>1
    <3>2. CASE q.ballot # Nobody
      <4>1. stale = TRUE
        BY <2>1, <3>2
      <4>2. v.stale = TRUE
        BY <2>5, <4>1
      <4> QED
        BY <4>2
    <3> QED
      BY <3>1, <3>2
  <2>7. v.ui = InitialState
    BY <2>2, <2>5
  <2>8. /\ IsSeat(v) /\ v.me = q.me /\ v.connected = connected /\ v.away = away
        /\ v.strokes = q.strokes /\ v.ballot = q.ballot
        /\ w.connected = q.connected /\ w.away = q.away
    BY <2>5
  <2> HIDE <2>4, <2>5
  <2> QED
    BY <1>2, <2>6, <2>7, <2>8 DEF Moved
<1> QED
  BY <1>1, <1>2

\* A player has come or gone, and nobody has been told yet.
Reseated(x, p, y) ==
  /\ IsPair(y) /\ Inv(y.game)
  /\ Moved(x.seat, p, y.seat.connected, y.seat.away, y.seat)
  /\ y.seat.connected \subseteq Roster(y.game) /\ y.seat.connected \cap y.seat.away = {}
  /\ \/ y.game = x.game
     \/ y.game.phase = "lobby" /\ x.game.phase = "lobby"
  /\ p # x.seat.me => (Hears(y) <=> Hears(x))

LEMMA ReseatedSound ==
  ASSUME NEW x, Good(x), NEW p, NEW y, Reseated(x, p, y)
  PROVE  Sound(y) /\ (p = x.seat.me => ~Pending(y))
<1>1. IsPair(x) /\ Seated(x) /\ Honest(x)
  BY DEF Good, Sound
<1>2. CASE p = x.seat.me
  <2>1. Honest(y) /\ ~Pending(y)
    BY <1>2, FirstScreen DEF Reseated, Moved, Honest, Pending
  <2>2. Seated(y)
    BY <1>1, <1>2, <2>1 DEF Seated, Reseated, Moved
  <2> QED
    BY <2>1, <2>2 DEF Sound, Reseated
<1>3. CASE p # x.seat.me
  <2>1. Honest(y)
    BY <1>1, <1>3 DEF Honest, Reseated, Moved
  <2>2. Pending(y) <=> Pending(x)
    BY <1>3 DEF Reseated, Moved, Pending
  <2>3. Seated(y)
    <3>1. CASE y.game = x.game
      BY <1>1, <1>3, <2>2, <3>1 DEF Seated, Reseated, Moved
    <3>2. CASE x.game.phase = "lobby"
      BY <1>1, <1>3, <2>2, <3>2 DEF Seated, Reseated, Moved
    <3> QED
      BY <3>1, <3>2 DEF Reseated
  <2> QED
    BY <1>3, <2>1, <2>3 DEF Sound, Reseated
<1> QED
  BY <1>2, <1>3

\* What another player's coming or going leaves on the screen.
StillShows(x, y) ==
  /\ Plays(y.seat.ui, y) /\ Marks(y.seat.ui, y, Marked(y))
  /\ y.game = x.game => y.seat.ui.players = y.game.players /\ y.seat.ui.hostId = y.game.host
  /\ y.seat.ui.away = x.seat.away

LEMMA ReseatedPlays ==
  ASSUME NEW x, Good(x), Hears(x), NEW p, p # x.seat.me, NEW y, Reseated(x, p, y)
  PROVE  StillShows(x, y)
<1>1. Follows(x.seat.ui, x, Marked(x))
  BY DEF Good, Shown
<1>2. /\ y.seat.ui = x.seat.ui /\ y.seat.me = x.seat.me /\ y.seat.strokes = x.seat.strokes
      /\ y.seat.ballot = x.seat.ballot /\ y.seat.stale = x.seat.stale
  BY DEF Reseated, Moved
<1>3. /\ y.seat.ui.away = x.seat.away
      /\ y.game = x.game => y.seat.ui.players = y.game.players /\ y.seat.ui.hostId = y.game.host
  BY <1>1, <1>2 DEF Follows, Lists
<1>4. CASE y.game = x.game
  <2>1. Result(y) = Result(x) /\ HidesWord(y) = HidesWord(x)
    BY <1>2, <1>4 DEF Result, Redacted, HidesWord
  <2>2. Marked(y) <=> Marked(x)
    BY <1>2, <1>4 DEF Marked, Pending
  <2>3. Plays(y.seat.ui, y) /\ Marks(y.seat.ui, y, Marked(y))
    BY <1>1, <1>2, <1>4, <2>1, <2>2 DEF Follows, Plays, RoleShown, Marks
  <2> QED
    BY <1>3, <2>3 DEF StillShows
<1>5. CASE y.game.phase = "lobby" /\ x.game.phase = "lobby"
  <2>1. Plays(y.seat.ui, y) /\ Marks(y.seat.ui, y, Marked(y))
    BY <1>1, <1>2, <1>5 DEF Follows, Plays, Marks
  <2> QED
    BY <1>3, <2>1 DEF StillShows
<1> QED
  BY <1>4, <1>5 DEF Reseated

\* Once presence is told, all fits but for the counts.
LEMMA PresenceFits ==
  ASSUME NEW x, Sound(x),
         Hears(x) => /\ Plays(x.seat.ui, x) /\ Marks(x.seat.ui, x, Marked(x))
                     /\ x.game.phase # "lobby" =>
                          x.seat.ui.players = x.game.players /\ x.seat.ui.hostId = x.game.host,
         NEW y,
         \/ y = Tell(x, "Presence")
         \/ y = x /\ (Hears(x) => x.seat.ui.away = x.seat.away)
  PROVE  /\ Sound(y) /\ SameFacts(x, y) /\ Fits(y)
         /\ Hears(x) /\ x.seat.ui.players = x.game.players /\ x.seat.ui.hostId = x.game.host =>
              Lists(y.seat.ui, y)
<1>1. CASE y = Tell(x, "Presence")
  <2>1. /\ Sound(y) /\ SameFacts(x, y)
        /\ Hears(x) => RosterSeen(x.seat.ui, x, "Presence", y.seat.ui)
    BY <1>1, RosterTold
  <2>2. /\ Hears(x) /\ Plays(x.seat.ui, x) => Plays(y.seat.ui, y)
        /\ Hears(x) /\ Marks(x.seat.ui, x, Marked(x)) => Marks(y.seat.ui, y, Marked(y))
    BY <1>1, RosterFits
  <2>3. Hears(y) <=> Hears(x)
    BY <2>1, SeatedSame DEF SameFacts
  <2>4. Hears(x) /\ x.seat.ui.players = x.game.players /\ x.seat.ui.hostId = x.game.host =>
          Lists(y.seat.ui, y)
    BY <2>1 DEF RosterSeen, Lists, SameFacts, SameSeat
  <2>5. Fits(y)
    BY <2>1, <2>2, <2>3, <2>4 DEF Fits, SameFacts
  <2> QED
    BY <2>1, <2>4, <2>5
<1>2. CASE y = x /\ (Hears(x) => x.seat.ui.away = x.seat.away)
  <2>1. Hears(x) /\ x.seat.ui.players = x.game.players /\ x.seat.ui.hostId = x.game.host =>
          Lists(y.seat.ui, y)
    BY <1>2 DEF Lists
  <2>2. SameFacts(x, y)
    BY <1>2 DEF SameFacts, SameSeat
  <2>3. Fits(y)
    BY <1>2, <2>1 DEF Fits
  <2> QED
    BY <1>2, <2>1, <2>2, <2>3
<1> QED
  BY <1>1, <1>2

LEMMA WelcomeSound ==
  ASSUME NEW x, Sound(x), Fits(x), NEW y, y = Tell(EvaluateVoting(x), "Lobby")
  PROVE  Good(y)
<1>1. PICK settled : settled = EvaluateVoting(x)
  OBVIOUS
<1>2. Sound(settled) /\ Fits(settled) /\ Counted(settled)
  BY <1>1, Evaluated
<1> QED
  BY <1>1, <1>2, LobbyTold

LEMMA WelcomeViewer ==
  ASSUME NEW x, Sound(x), ~Pending(x),
         NEW y, y = Tell(Tell(EvaluateVoting(x), "Snapshot"), "Lobby")
  PROVE  Good(y)
<1>1. PICK settled : settled = EvaluateVoting(x)
  OBVIOUS
<1>2. PICK greeted : greeted = Tell(settled, "Snapshot")
  OBVIOUS
<1>3. Sound(settled) /\ SameSeat(x, settled)
  BY <1>1, Evaluated
<1>4. ~Pending(settled)
  BY <1>3 DEF SameSeat, Pending
<1>5. Good(greeted)
  BY <1>2, <1>3, <1>4, SnapshotTold
<1>6. Sound(greeted) /\ Fits(greeted) /\ Counted(greeted) /\ y = Tell(greeted, "Lobby")
  BY <1>1, <1>2, <1>5, ShownParts DEF Good
<1> QED
  BY <1>6, LobbyTold

\* A player joins, comes back, or supersedes its own connection.
LEMMA ConnectGood ==
  ASSUME VInv, NEW p \in PlayerID, Connect(p)
  PROVE  VInv'
<1>1. PICK x0 : x0 = Now
  OBVIOUS
<1>2. Good(x0)
  BY <1>1 DEF VInv
<1>3. /\ IsPair(x0) /\ IsSeat(x0.seat) /\ Inv(x0.game) /\ x0.seat.connected \subseteq Roster(x0.game)
      /\ x0.seat.connected \cap x0.seat.away = {}
  BY <1>2 DEF Good, Sound, Seated, IsPair
<1>4. PICK s : s = IF MayAdd(x0.game, p) THEN AddPlayer(x0.game, p) ELSE x0.game
  OBVIOUS
<1>5. PICK w : w = Severed(x0.seat, p)
  OBVIOUS
<1>6. PICK connected, away : connected = x0.seat.connected \cup {p} /\ away = x0.seat.away \ {p}
  OBVIOUS
<1>7. PICK v : v = Seats(w, connected, away)
  OBVIOUS
<1>8. Moved(x0.seat, p, connected, away, v) /\ w.connected = x0.seat.connected /\ w.away = x0.seat.away
  BY <1>3, <1>5, <1>7, SeatMoves
<1>9. v = [w EXCEPT !.connected = @ \cup {p}, !.away = @ \ {p}]
  BY <1>6, <1>7, <1>8 DEF Seats
<1>10. PICK x : x = [game |-> s, seat |-> v]
  OBVIOUS
<1>11. PICK told : told = IF p \in x0.seat.away THEN Tell(x, "Presence") ELSE x
  OBVIOUS
<1>12. p \in Roster(s) /\ \E y \in Migrations(told) : Becomes(Welcome(y, p))
  <2>1. x0.game = game /\ x0.seat = seat
    BY <1>1, NowIs
  <2> QED
    BY <1>4, <1>5, <1>9, <1>10, <1>11, <2>1 DEF Connect
<1>13. /\ Inv(s) /\ Roster(x0.game) \subseteq Roster(s)
       /\ \/ s = x0.game
          \/ s.phase = "lobby" /\ x0.game.phase = "lobby"
  <2>1. CASE MayAdd(x0.game, p)
    <3>1. s = AddPlayer(x0.game, p)
      BY <1>4, <2>1
    <3> QED
      BY <1>3, <2>1, <3>1, AddPlayerInv DEF MayAdd
  <2>2. CASE ~MayAdd(x0.game, p)
    BY <1>3, <1>4, <2>2
  <2> QED
    BY <2>1, <2>2
<1>14. connected \subseteq Roster(s) /\ connected \cap away = {}
  BY <1>3, <1>6, <1>12, <1>13
<1>15. x.game = s /\ x.seat = v /\ v.me = x0.seat.me /\ v.connected = connected /\ v.away = away
  BY <1>8, <1>10 DEF Moved
<1>16. Reseated(x0, p, x)
  <2>1. IsPair(x)
    BY <1>8, <1>10 DEF IsPair, Moved
  <2>2. p # x0.seat.me => (Hears(x) <=> Hears(x0))
    BY <1>6, <1>15 DEF Hears
  <2> QED
    BY <1>8, <1>13, <1>14, <1>15, <2>1, <2>2 DEF Reseated
<1>17. PICK y \in Migrations(told) : Becomes(Welcome(y, p))
  BY <1>12
<1>18. Sound(x) /\ (p = x0.seat.me => ~Pending(x))
  BY <1>2, <1>16, ReseatedSound
<1>19. CASE p = x0.seat.me
  <2>1. Sound(told) /\ SameSeat(x, told)
    <3>1. CASE told = Tell(x, "Presence")
      BY <1>18, <3>1, RosterTold DEF SameFacts
    <3>2. CASE told = x
      BY <1>18, <3>2 DEF SameSeat
    <3> QED
      BY <1>11, <3>1, <3>2
  <2>2. Sound(y) /\ SameSeat(told, y)
    BY <1>17, <2>1, MigrationKeeps
  <2>3. ~Pending(y) /\ y.seat.me = x0.seat.me
    BY <1>15, <1>18, <1>19, <2>1, <2>2 DEF SameSeat, Pending
  <2>4. PICK z : z = Welcome(y, p)
    OBVIOUS
  <2>5. z = Tell(Tell(EvaluateVoting(y), "Snapshot"), "Lobby")
    BY <1>19, <2>3, <2>4 DEF Welcome
  <2>6. Good(z)
    BY <2>2, <2>3, <2>5, WelcomeViewer
  <2> QED
    BY <1>17, <2>4, <2>6, BecomesGood DEF VInv
<1>20. CASE p # x0.seat.me
  <2>1. Hears(x) => StillShows(x0, x)
    BY <1>2, <1>16, <1>20, ReseatedPlays DEF Reseated
  <2>2. p \notin x0.seat.away => (Hears(x) => x.seat.ui.away = x.seat.away)
    BY <1>6, <1>15, <2>1 DEF StillShows
  <2>3. \/ told = Tell(x, "Presence")
        \/ told = x /\ (Hears(x) => x.seat.ui.away = x.seat.away)
    BY <1>11, <2>2
  <2>4. Hears(x) => /\ Plays(x.seat.ui, x) /\ Marks(x.seat.ui, x, Marked(x))
                    /\ x.game.phase # "lobby" =>
                         x.seat.ui.players = x.game.players /\ x.seat.ui.hostId = x.game.host
    BY <1>16, <2>1 DEF StillShows, Reseated
  <2>5. Sound(told) /\ SameFacts(x, told) /\ Fits(told)
    BY <1>18, <2>3, <2>4, PresenceFits
  <2>6. Sound(y) /\ SameSeat(told, y) /\ Fits(y)
    BY <1>17, <2>5, MigrationKeeps
  <2>7. PICK z : z = Welcome(y, p)
    OBVIOUS
  <2>8. y.seat.me = x0.seat.me
    BY <1>15, <2>5, <2>6 DEF SameFacts, SameSeat
  <2>9. z = Tell(EvaluateVoting(y), "Lobby")
    BY <1>20, <2>7, <2>8 DEF Welcome
  <2>10. Good(z)
    BY <2>6, <2>9, WelcomeSound
  <2> QED
    BY <1>17, <2>7, <2>10, BecomesGood DEF VInv
<1> QED
  BY <1>19, <1>20

\* A connection is lost.
LEMMA DisconnectGood ==
  ASSUME VInv, NEW p \in PlayerID, Disconnect(p)
  PROVE  VInv'
<1>1. PICK x0 : x0 = Now
  OBVIOUS
<1>2. Good(x0)
  BY <1>1 DEF VInv
<1>3. /\ IsPair(x0) /\ IsSeat(x0.seat) /\ Inv(x0.game)
      /\ x0.seat.connected \subseteq Roster(x0.game)
      /\ x0.seat.connected \cap x0.seat.away = {}
  BY <1>2 DEF Good, Sound, Seated, IsPair
<1>4. PICK w : w = Severed(x0.seat, p)
  OBVIOUS
<1>5. PICK connected, away : connected = x0.seat.connected \ {p} /\ away = x0.seat.away \cup {p}
  OBVIOUS
<1>6. PICK v : v = Seats(w, connected, away)
  OBVIOUS
<1>7. /\ Moved(x0.seat, p, connected, away, v)
      /\ w.connected = x0.seat.connected /\ w.away = x0.seat.away
  BY <1>3, <1>4, <1>6, SeatMoves
<1>8. v = [w EXCEPT !.connected = @ \ {p}, !.away = @ \cup {p}]
  BY <1>5, <1>6, <1>7 DEF Seats
<1>9. PICK x : x = [game |-> x0.game, seat |-> v]
  OBVIOUS
<1>10. PICK told : told = Tell(x, "Presence")
  OBVIOUS
<1>11. PICK y : y = EvaluateVoting(told)
  OBVIOUS
<1>12. Becomes(y)
  <2>1. x0.game = game /\ x0.seat = seat
    BY <1>1, NowIs
  <2> QED
    BY <1>4, <1>8, <1>9, <1>10, <1>11, <2>1 DEF Disconnect
<1>13. /\ x.game = x0.game /\ x.seat = v /\ v.me = x0.seat.me
       /\ v.connected = connected /\ v.away = away
  BY <1>7, <1>9 DEF Moved
<1>14. Reseated(x0, p, x)
  <2>1. IsPair(x)
    BY <1>7, <1>9 DEF IsPair, Moved
  <2>2. p # x0.seat.me => (Hears(x) <=> Hears(x0))
    BY <1>5, <1>13 DEF Hears
  <2>3. connected \subseteq Roster(x0.game) /\ connected \cap away = {}
    BY <1>3, <1>5
  <2> QED
    BY <1>3, <1>7, <1>13, <2>1, <2>2, <2>3 DEF Reseated
<1>15. Sound(x)
  BY <1>2, <1>14, ReseatedSound
<1>16. Hears(x) => p # x0.seat.me
  BY <1>5, <1>13 DEF Hears
<1>17. Hears(x) => StillShows(x0, x)
  BY <1>2, <1>14, <1>16, ReseatedPlays DEF Reseated
<1>18. Hears(x) => /\ Plays(x.seat.ui, x) /\ Marks(x.seat.ui, x, Marked(x))
                   /\ x.seat.ui.players = x.game.players /\ x.seat.ui.hostId = x.game.host
  BY <1>13, <1>17 DEF StillShows
<1>19. /\ Sound(told) /\ SameFacts(x, told) /\ Fits(told)
       /\ Hears(x) => Lists(told.seat.ui, told)
  BY <1>10, <1>15, <1>18, PresenceFits
<1>20. Hears(told) <=> Hears(x)
  BY <1>19, SeatedSame DEF SameFacts
<1>21. Good(y)
  BY <1>11, <1>19, <1>20, EvaluatedGood
<1> QED
  BY <1>12, <1>21, BecomesGood DEF VInv

\* A player whose grace ran out leaves the lobby.
LEMMA Removed ==
  ASSUME NEW x, Good(x), NEW p \in x.seat.away, p \in PlayerID, MayRemove(x.game, p),
         NEW s, s = RemovePlayer(x.game, p), NEW away, away \subseteq x.seat.away,
         NEW v, v = Seats(x.seat, x.seat.connected, away),
         NEW y, y = [game |-> s, seat |-> v]
  PROVE  Sound(y) /\ Fits(y) /\ Counted(y)
<1>1. IsPair(x) /\ IsSeat(x.seat) /\ Seated(x) /\ Honest(x) /\ Inv(x.game)
  BY DEF Good, Sound, Seated, IsPair
<1>2. /\ Inv(s) /\ Roster(s) = Roster(x.game) \ {p} /\ s.phase = "lobby"
      /\ x.game.phase = "lobby"
  BY <1>1, RemovePlayerInv DEF MayRemove
<1>3. PICK connected : connected = x.seat.connected
  OBVIOUS
<1>4. /\ IsSeat(v) /\ v.me = x.seat.me /\ v.connected = x.seat.connected /\ v.away = away
      /\ v.strokes = x.seat.strokes /\ v.ballot = x.seat.ballot /\ v.ui = x.seat.ui
      /\ v.stale = x.seat.stale
  <2>1. IsSeat(x.seat) /\ v = Seats(x.seat, connected, away)
    BY <1>1, <1>3
  <2>2. /\ IsSeat(v) /\ v.me = x.seat.me /\ v.connected = connected /\ v.away = away
        /\ v.strokes = x.seat.strokes /\ v.ballot = x.seat.ballot /\ v.ui = x.seat.ui
        /\ v.stale = x.seat.stale
    BY <2>1, SeatsReplaced
  <2> QED
    BY <1>3, <2>2
<1>5. IsPair(y) /\ y.game = s /\ y.seat = v
  BY <1>4 DEF IsPair
<1>6. ~Pending(x)
  BY <1>1, <1>2 DEF Seated
<1>7. ~Pending(y) /\ Honest(y) /\ (Hears(y) <=> Hears(x))
  BY <1>1, <1>4, <1>5, <1>6 DEF Pending, Honest, Hears
<1>8. Seated(y)
  BY <1>1, <1>2, <1>4, <1>5, <1>7 DEF Seated
<1>9. Hears(x) => Follows(x.seat.ui, x, Marked(x))
  BY DEF Good, Shown
<1>10. Fits(y) /\ Counted(y)
  BY <1>2, <1>4, <1>5, <1>7, <1>9 DEF Fits, Counted, Counts, Plays, Marks, Follows
<1> QED
  BY <1>5, <1>7, <1>8, <1>10 DEF Sound

LEMMA GraceExpiresGood ==
  ASSUME VInv, NEW p \in PlayerID, GraceExpires(p)
  PROVE  VInv'
<1>1. PICK x0 : x0 = Now
  OBVIOUS
<1>2. Good(x0)
  BY <1>1 DEF VInv
<1>3. PICK s : s = RemovePlayer(x0.game, p)
  OBVIOUS
<1>4. PICK connected, away : connected = x0.seat.connected /\ away = x0.seat.away \ {p}
  OBVIOUS
<1>5. PICK v : v = Seats(x0.seat, x0.seat.connected, away)
  OBVIOUS
<1>6. v = [x0.seat EXCEPT !.away = @ \ {p}]
  <2>1. IsSeat(x0.seat)
    BY <1>2 DEF Good, Sound, IsPair
  <2> QED
    BY <1>4, <1>5, <2>1 DEF Seats, IsSeat
<1>7. PICK removed : removed = [game |-> s, seat |-> v]
  OBVIOUS
<1>8. PICK x : x = IF MayRemove(x0.game, p) THEN Tell(removed, "Left") ELSE x0
  OBVIOUS
<1>9. p \in x0.seat.away /\ \E y \in Migrations(x) : Becomes(Tell(y, "Lobby"))
  <2>1. x0.game = game /\ x0.seat = seat
    BY <1>1, NowIs
  <2> QED
    BY <1>1, <1>3, <1>6, <1>7, <1>8, <2>1 DEF GraceExpires
<1>10. Sound(x) /\ Fits(x) /\ Counted(x)
  <2>1. CASE MayRemove(x0.game, p)
    <3>1. x = Tell(removed, "Left")
      BY <1>8, <2>1
    <3>2. away \subseteq x0.seat.away
      BY <1>4
    <3>3. Sound(removed) /\ Fits(removed) /\ Counted(removed)
      BY <1>2, <1>3, <1>5, <1>7, <1>9, <2>1, <3>2, Removed
    <3>4. removed.game.phase = "lobby"
      <4>1. Inv(x0.game)
        BY <1>2 DEF Good, Sound, Seated
      <4>2. s.phase = "lobby"
        BY <1>3, <2>1, <4>1, RemovePlayerInv DEF MayRemove
      <4> QED
        BY <1>7, <4>2
    <3>5. Sound(x) /\ SameFacts(removed, x)
      BY <3>1, <3>3, RosterTold
    <3>6. /\ Hears(removed) /\ Plays(removed.seat.ui, removed) => Plays(x.seat.ui, x)
          /\ Hears(removed) /\ Marks(removed.seat.ui, removed, Marked(removed)) =>
               Marks(x.seat.ui, x, Marked(x))
          /\ Counted(removed) => Counted(x)
      BY <3>1, <3>3, RosterFits
    <3>7. Hears(x) <=> Hears(removed)
      BY <3>5, SeatedSame DEF SameFacts
    <3> QED
      BY <3>3, <3>4, <3>5, <3>6, <3>7 DEF Fits, SameFacts
  <2>2. CASE ~MayRemove(x0.game, p)
    BY <1>2, <1>8, <2>2, ShownParts DEF Good
  <2> QED
    BY <2>1, <2>2
<1>11. PICK y \in Migrations(x) : Becomes(Tell(y, "Lobby"))
  BY <1>9
<1>12. Sound(y) /\ Fits(y) /\ Counted(y)
  BY <1>10, <1>11, MigrationKeeps
<1>13. PICK z : z = Tell(y, "Lobby")
  OBVIOUS
<1>14. Good(z)
  BY <1>12, <1>13, LobbyTold
<1> QED
  BY <1>11, <1>13, <1>14, BecomesGood DEF VInv

\* A snapshot is asked for once the votes sent before have arrived.
LEMMA ResyncGood ==
  ASSUME VInv, Resync
  PROVE  VInv'
<1>1. PICK x : x = Now
  OBVIOUS
<1>2. PICK y : y = Tell(x, "Snapshot")
  OBVIOUS
<1>3. Sound(x)
  BY <1>1 DEF VInv, Good
<1>4. ~Pending(x)
  <2>1. x.seat = seat
    BY <1>1, NowIs
  <2> QED
    BY <2>1 DEF Resync, Pending
<1>5. Good(y) /\ Becomes(y)
  <2>1. Becomes(y)
    BY <1>1, <1>2 DEF Resync
  <2> QED
    BY <1>2, <1>3, <1>4, <2>1, SnapshotTold
<1> QED
  BY <1>5, BecomesGood DEF VInv

-----------------------------------------------------------------------------
(* The invariant.                                                          *)

LEMMA ViewInitGood == ViewInit => VInv
<1> SUFFICES ASSUME ViewInit
             PROVE  VInv
  OBVIOUS
<1>1. PICK x : x = Now
  OBVIOUS
<1>2. PICK host \in PlayerID : game = NewEngine(host)
  BY DEF ViewInit, Init
<1>3. PICK ui : ui = InitialState
  OBVIOUS
<1>4. PICK me \in PlayerID :
        seat = [me |-> me, connected |-> {}, away |-> {}, strokes |-> 0, ballot |-> Nobody,
                stale |-> FALSE, ui |-> ui]
  BY <1>3 DEF ViewInit
<1>5. IsScreen(ui) /\ HonestTo(ui, me)
  BY <1>3, FirstScreen
<1>6. /\ IsSeat(seat) /\ seat.me = me /\ seat.connected = {} /\ seat.ballot = Nobody
      /\ seat.ui = ui
  BY <1>4, <1>5 DEF IsSeat
<1>7. IsPair(x) /\ x.game = game /\ x.seat = seat
  BY <1>1, <1>6 DEF Now, IsPair
<1>8. Inv(game)
  BY <1>2, NewEngineInv
<1>9. ~Hears(x) /\ ~Pending(x) /\ Honest(x)
  BY <1>5, <1>6, <1>7 DEF Hears, Pending, Honest
<1>10. Seated(x)
  BY <1>6, <1>7, <1>8, <1>9 DEF Seated
<1> QED
  BY <1>1, <1>7, <1>9, <1>10 DEF VInv, Good, Sound, Shown

LEMMA PlaysGood ==
  ASSUME VInv, Begins \/ Draws \/ EndsDiscussion \/ OthersVote \/ SendsBallot \/ CountsBallot \/ Reveals
  PROVE  VInv'
<1>1. PICK x : x = Now
  OBVIOUS
<1>2. x.game = game /\ x.seat = seat
  BY <1>1, NowIs
<1>3. Good(x)
  BY <1>1 DEF VInv
<1>4. ASSUME NEW y, Good(y), Becomes(y)
      PROVE  VInv'
  BY <1>4, BecomesGood DEF VInv
<1>5. CASE Begins
  <2>1. PICK by \in seat.connected, perm \in Perms(Len(game.players)) :
           \/ MayStart(game, by) /\ Becomes(Apply(Now, StartGame(game, perm)))
           \/ MayRestart(game, by) /\ Becomes(Apply(Now, Restart(game, perm)))
    BY <1>5 DEF Begins, Played
  <2>2. PICK y : /\ Becomes(y)
                 /\ \/ MayStart(x.game, by) /\ y = Apply(x, StartGame(x.game, perm))
                    \/ MayRestart(x.game, by) /\ y = Apply(x, Restart(x.game, perm))
    BY <1>1, <1>2, <2>1
  <2> perm \in Perms(Len(x.game.players))
    BY <1>2
  <2>3. Good(y)
    BY <1>3, <2>2, BeginGood
  <2> QED
    BY <1>4, <2>2, <2>3
<1>6. CASE Draws
  <2>1. PICK y : /\ x.game.phase = "drawing" /\ Becomes(y)
                 /\ y = Apply(x, AddStroke(x.game)) \/ y = Apply(x, SkipTurn(x.game))
    BY <1>1, <1>2, <1>6 DEF Draws, Played, MayStroke, MaySkip
  <2>2. Good(y)
    BY <1>3, <2>1, TurnGood
  <2> QED
    BY <1>4, <2>1, <2>2
<1>7. CASE EndsDiscussion
  <2>1. PICK y : /\ x.game.phase = "discussion" /\ Becomes(y)
                 /\ y = Apply(x, EndDiscussion(x.game))
    BY <1>1, <1>2, <1>7 DEF EndsDiscussion, Played, MayEndDiscussion
  <2>2. Good(y)
    BY <1>3, <2>1, EndDiscussionGood
  <2> QED
    BY <1>4, <2>1, <2>2
<1>8. CASE OthersVote
  <2>1. PICK voter \in x.seat.connected \ {x.seat.me}, target \in Roster(x.game) :
          /\ MayVote(x.game, voter, target)
          /\ Becomes(Apply(x, CastVote(x.game, voter, target, x.seat.connected)))
    BY <1>1, <1>2, <1>8 DEF OthersVote, Played
  <2>2. PICK y : y = Apply(x, CastVote(x.game, voter, target, x.seat.connected))
    OBVIOUS
  <2>3. Good(y)
    BY <1>3, <2>1, <2>2, OthersVoteGood
  <2> QED
    BY <1>4, <2>1, <2>2, <2>3
<1>9. CASE SendsBallot
  <2>1. /\ Hears(x) /\ x.seat.ui.phase = "voting" /\ ~x.seat.ui.hasVoted
        /\ x.seat.ballot = Nobody
    BY <1>2, <1>9 DEF SendsBallot, Hears
  <2>2. PICK i \in 1 .. Len(seat.ui.players) :
          /\ game' = game
          /\ seat' = [seat EXCEPT !.ballot = seat.ui.players[i], !.stale = FALSE,
                                  !.ui.hasVoted = TRUE]
    BY <1>9 DEF SendsBallot
  <2>3. PICK b : b = x.seat.ui.players[i]
    OBVIOUS
  <2>4. PICK y : y = [game |-> x.game, seat |-> Sent(x.seat, b)]
    OBVIOUS
  <2>5. i \in 1 .. Len(x.seat.ui.players)
    BY <1>2
  <2>6. Good(y)
    BY <1>3, <2>1, <2>3, <2>4, <2>5, SendsBallotGood
  <2>7. Becomes(y)
    BY <1>2, <2>2, <2>3, <2>4 DEF Becomes, Sent
  <2> QED
    BY <1>4, <2>6, <2>7
<1>10. CASE CountsBallot
  <2>1. PICK z : z = Cleared(x)
    OBVIOUS
  <2>2. PICK y : y = IF Listened(x.seat) /\ MayVote(x.game, x.seat.me, x.seat.ballot)
                     THEN Apply(z, CastVote(x.game, x.seat.me, x.seat.ballot, x.seat.connected))
                     ELSE z
    OBVIOUS
  <2>3. x.seat.ballot # Nobody /\ Becomes(y)
    BY <1>1, <1>2, <1>10, <2>1, <2>2 DEF CountsBallot, Cleared
  <2>4. Good(y)
    BY <1>3, <2>1, <2>2, <2>3, CountsBallotGood
  <2> QED
    BY <1>4, <2>3, <2>4
<1>11. CASE Reveals
  <2>1. CASE MayAdvance(game) /\ Settled(game) /\ Becomes(Apply(Now, AdvanceRound(game)))
    <3>1. PICK y : y = Apply(x, AdvanceRound(x.game))
      OBVIOUS
    <3>2. MayAdvance(x.game) /\ Settled(x.game) /\ Becomes(y)
      BY <1>1, <1>2, <2>1, <3>1
    <3>3. Good(y)
      BY <1>3, <3>1, <3>2, AdvanceGood
    <3> QED
      BY <1>4, <3>2, <3>3
  <2>2. CASE \E by \in seat.connected, guess \in Guess :
               /\ MayGuess(game, by) /\ ClientSends(game, by, guess)
               /\ Becomes(Apply(Now, ImpostorGuess(game, guess)))
    <3>1. PICK by \in seat.connected, guess \in Guess :
               /\ MayGuess(game, by) /\ ClientSends(game, by, guess)
               /\ Becomes(Apply(Now, ImpostorGuess(game, guess)))
      BY <2>2
    <3>2. PICK o : o = ImpostorGuess(x.game, guess)
      OBVIOUS
    <3>3. PICK y : y = Apply(x, o)
      OBVIOUS
    <3>4. MayGuess(x.game, by) /\ ClientSends(x.game, by, guess) /\ Becomes(y)
      BY <1>1, <1>2, <3>1, <3>2, <3>3
    <3>5. Good(y)
      BY <1>3, <3>2, <3>3, <3>4, RoundEndGood
    <3> QED
      BY <1>4, <3>4, <3>5
  <2>3. CASE MayTimeOutGuess(game) /\ Becomes(Apply(Now, ResolveImpostorTimeout(game)))
    <3>1. PICK o : o = ResolveImpostorTimeout(x.game)
      OBVIOUS
    <3>2. PICK y : y = Apply(x, o)
      OBVIOUS
    <3>3. MayTimeOutGuess(x.game) /\ Becomes(y)
      BY <1>1, <1>2, <2>3, <3>1, <3>2
    <3>4. Good(y)
      BY <1>3, <3>1, <3>2, <3>3, RoundEndGood
    <3> QED
      BY <1>4, <3>3, <3>4
  <2> QED
    BY <1>11, <2>1, <2>2, <2>3 DEF Reveals, Played
<1> QED
  BY <1>5, <1>6, <1>7, <1>8, <1>9, <1>10, <1>11

LEMMA ViewNextGood == VInv /\ [ViewNext]_viewVars => VInv'
<1> SUFFICES ASSUME VInv, [ViewNext]_viewVars
             PROVE  VInv'
  OBVIOUS
<1>1. CASE UNCHANGED viewVars
  BY <1>1 DEF viewVars, VInv, Now, Good, Sound, Shown, IsPair, IsSeat, Seated, Honest, Hears,
              Marked, Pending
<1>2. ASSUME NEW p \in PlayerID, Connect(p) \/ Disconnect(p) \/ GraceExpires(p)
      PROVE  VInv'
  BY <1>2, ConnectGood, DisconnectGood, GraceExpiresGood
<1>3. CASE Resync
  BY <1>3, ResyncGood
<1>4. CASE Begins \/ Draws \/ EndsDiscussion \/ OthersVote \/ SendsBallot \/ CountsBallot
           \/ Reveals
  BY <1>4, PlaysGood
<1> QED
  BY <1>1, <1>2, <1>3, <1>4 DEF ViewNext

\* The viewer's seat agrees with the match, no word is shown to its impostor, and the
\* screen of a connected viewer shows what the match and the seat owe it, whichever
\* messages and snapshots it came from.
THEOREM ViewSound == ViewSpec => []VInv
  BY ViewInitGood, ViewNextGood, PTL DEF ViewSpec

-----------------------------------------------------------------------------
(* Theorems.                                                               *)

\* No message and no snapshot tells a round's impostor its word, neither this
\* round's nor the last one's with the result (redactedResult, buildSnapshot,
\* RoundStarted in broadcast.go; reduce in reducer.js).
THEOREM ImpostorsAreNotTold == ViewSpec => []ImpostorNeverLearns
<1>1. VInv => ImpostorNeverLearns
  <2> SUFFICES ASSUME VInv
               PROVE  ImpostorNeverLearns
    OBVIOUS
  <2>1. PICK x : x = Now
    OBVIOUS
  <2>2. x.game = game /\ x.seat = seat
    BY <2>1, NowIs
  <2>3. Honest(x) /\ Shown(x) /\ IsScreen(x.seat.ui)
    BY <2>1 DEF VInv, Good, Sound, IsPair, IsSeat
  <2>4. /\ seat.ui.word => ~seat.ui.youAreImpostor
        /\ seat.ui.lastResult.word => seat.ui.lastResult.impostor # seat.me
    BY <2>2, <2>3 DEF Honest, HonestTo
  <2>5. ASSUME seat.me \in seat.connected, game.phase # "lobby"
        PROVE  seat.ui.word = (seat.me # game.impostor)
    <3>1. RoleShown(x.seat.ui, x)
      BY <2>2, <2>3, <2>5 DEF Shown, Hears, Follows, Plays
    <3>2. CASE seat.me = game.impostor
      BY <2>2, <3>1, <3>2 DEF RoleShown, HidesWord
    <3>3. CASE seat.me # game.impostor
      BY <2>2, <3>1, <3>3 DEF RoleShown, HidesWord
    <3> QED
      BY <3>2, <3>3
  <2> QED
    BY <2>4, <2>5 DEF ImpostorNeverLearns
<1> QED
  BY <1>1, ViewSound, PTL

\* What Leniently leaves of a screen; n is the number of votes the viewer was last
\* told of.
Lenient(u, n, a) ==
  /\ a.phase = u.phase /\ SameLists(u, a) /\ SameTurn(u, a) /\ SameRole(u, a)
  /\ a.strokes = u.strokes /\ a.hasVoted = u.hasVoted /\ a.finalScores = u.finalScores
  /\ a.totalRounds = 0 /\ a.lastResult = Undated(u.lastResult)
  /\ a.votesCast  = IF n = 0 THEN 0 ELSE u.votesCast
  /\ a.votesTotal = IF n = 0 THEN 0 ELSE u.votesTotal

LEMMA LenientScreen ==
  ASSUME NEW u, IsScreen(u), NEW a, a = Leniently(u)
  PROVE  Lenient(u, seat.ui.votesTotal, a)
<1> DEFINE n     == seat.ui.votesTotal
           cast  == IF n = 0 THEN 0 ELSE u.votesCast
           total == IF n = 0 THEN 0 ELSE u.votesTotal
           r     == [u.lastResult EXCEPT !.deadline = FALSE]
<1>1. a = [u EXCEPT !.totalRounds = 0, !.lastResult = r, !.votesCast = cast, !.votesTotal = total]
  BY DEF Leniently
<1> HIDE DEF cast, total, r
<1>2. /\ a.phase = u.phase /\ SameLists(u, a) /\ SameTurn(u, a) /\ SameRole(u, a)
      /\ a.strokes = u.strokes /\ a.hasVoted = u.hasVoted /\ a.finalScores = u.finalScores
      /\ a.totalRounds = 0 /\ a.lastResult = r /\ a.votesCast = cast /\ a.votesTotal = total
  BY <1>1 DEF IsScreen, SameLists, SameTurn, SameRole
<1> QED
  BY <1>2 DEF Lenient, Undated, cast, total, r

\* Two screens whose component shows the same.
LooksLike(a, c) ==
  /\ a.phase = c.phase
  /\ c.phase \in {"lobby", "drawing", "voting"} => a.away = c.away
  /\ c.phase \in {"lobby", "discussion", "voting", "reveal"} => a.players = c.players
  /\ c.phase \in {"lobby", "discussion", "game_over"} => a.hostId = c.hostId
  /\ c.phase = "drawing" => /\ SameRole(c, a) /\ SameTurn(c, a)
                            /\ a.totalRounds = c.totalRounds /\ a.strokes = c.strokes
  /\ c.phase = "voting" => SameVote(c, a)
  /\ c.phase = "reveal" => a.lastResult = c.lastResult
  /\ c.phase = "game_over" => a.finalScores = c.finalScores

LEMMA RenderedAlike ==
  ASSUME NEW a, NEW c, LooksLike(a, c), c.phase \in Phase
  PROVE  Rendered(a) = Rendered(c)
<1> USE DEF LooksLike
<1>1. CASE c.phase = "lobby"
  BY <1>1 DEF Rendered
<1>2. CASE c.phase = "drawing"
  BY <1>2 DEF Rendered, SameRole, SameTurn
<1>3. CASE c.phase = "discussion"
  BY <1>3 DEF Rendered
<1>4. CASE c.phase = "voting"
  BY <1>4 DEF Rendered, SameVote
<1>5. CASE c.phase = "reveal"
  BY <1>5 DEF Rendered
<1>6. CASE c.phase = "game_over"
  BY <1>6 DEF Rendered
<1> QED
  BY <1>1, <1>2, <1>3, <1>4, <1>5, <1>6 DEF Phase

\* Current, on the snapshot v: the viewer's vote counts as cast once it is sent.
LEMMA CurrentScreen ==
  ASSUME NEW v, IsScreen(v), v = Snapshot(Now)
  PROVE  /\ IsScreen(Current) /\ Current.phase = v.phase /\ SameLists(v, Current)
         /\ SameTurn(v, Current) /\ SameRole(v, Current) /\ SameEnd(v, Current)
         /\ Current.strokes = v.strokes /\ Current.votesCast = v.votesCast
         /\ Current.votesTotal = v.votesTotal
         /\ Current.hasVoted = (v.hasVoted \/ (game.phase = "voting" /\ Pending(Now)))
<1>1. PICK voted : voted = (v.hasVoted \/ (game.phase = "voting" /\ seat.ballot # Nobody /\ ~seat.stale))
  OBVIOUS
<1>2. PICK c : c = Current
  OBVIOUS
<1>3. c = [v EXCEPT !.hasVoted = voted]
  BY <1>1, <1>2 DEF Current
<1>4. voted = (v.hasVoted \/ (game.phase = "voting" /\ Pending(Now)))
  BY <1>1, NowIs DEF Pending
<1> HIDE <1>1
<1>5. /\ IsScreen(c) /\ c.phase = v.phase /\ SameLists(v, c) /\ SameTurn(v, c)
      /\ SameRole(v, c) /\ SameEnd(v, c) /\ c.strokes = v.strokes
      /\ c.votesCast = v.votesCast /\ c.votesTotal = v.votesTotal /\ c.hasVoted = voted
  BY <1>3 DEF IsScreen, SameLists, SameTurn, SameRole, SameEnd
<1> QED
  BY <1>2, <1>4, <1>5

\* All that is shown of the vote, once it runs.
LEMMA VoteAlike ==
  ASSUME NEW x, x = Now, x.game.phase = "voting", NEW u, u = x.seat.ui,
         Counts(u, x), Marks(u, x, Marked(x)),
         NEW v, v = Snapshot(x), SnapshotVote(v, x),
         NEW c, c.hasVoted = (v.hasVoted \/ (game.phase = "voting" /\ Pending(Now))),
         c.votesCast = v.votesCast, c.votesTotal = v.votesTotal,
         NEW a, NEW b, Lenient(u, seat.ui.votesTotal, a), Lenient(c, seat.ui.votesTotal, b)
  PROVE  SameVote(b, a)
<1>1. game = x.game /\ seat = x.seat
  BY NowIs
<1>2. v.votesCast = VotesCast(x) /\ v.votesTotal = VotesTotal(x)
  BY DEF Snapshot
<1>3. a.votesCast = b.votesCast /\ a.votesTotal = b.votesTotal
  <2>1. seat.ui.votesTotal = u.votesTotal
    BY <1>1
  <2>2. CASE u.votesTotal = 0
    BY <2>1, <2>2 DEF Lenient
  <2>3. CASE u.votesCast = VotesCast(x) /\ u.votesTotal = VotesTotal(x)
    BY <1>2, <2>1, <2>3 DEF Lenient
  <2> QED
    BY <2>2, <2>3 DEF Counts
<1>4. a.hasVoted = u.hasVoted /\ b.hasVoted = c.hasVoted
  BY DEF Lenient
<1>5. a.hasVoted = b.hasVoted
  <2>1. CASE HasVoted(x.game, x.seat.me)
    <3>1. u.hasVoted = TRUE /\ v.hasVoted = TRUE
      BY <2>1 DEF Marks, Marked, SnapshotVote
    <3>2. c.hasVoted = TRUE
      BY <3>1
    <3> QED
      BY <1>4, <3>1, <3>2
  <2>2. CASE ~HasVoted(x.game, x.seat.me) /\ Pending(x)
    <3>1. u.hasVoted = TRUE
      BY <2>2 DEF Marks, Marked
    <3>2. c.hasVoted = TRUE
      BY <1>1, <2>2
    <3> QED
      BY <1>4, <3>1, <3>2
  <2>3. CASE ~HasVoted(x.game, x.seat.me) /\ ~Pending(x)
    <3>1. u.hasVoted = FALSE /\ v.hasVoted = FALSE
      BY <2>3 DEF Marks, Marked, SnapshotVote
    <3>2. c.hasVoted = FALSE
      BY <2>3, <3>1
    <3> QED
      BY <1>4, <3>1, <3>2
  <2> QED
    BY <2>1, <2>2, <2>3
<1> QED
  BY <1>3, <1>5 DEF SameVote

\* However a connected player came to where the match is, by messages, by a
\* reconnect or by a resync, its screen is the one a snapshot would give it, but for
\* the three fields Leniently names (reduce and snapshotToState in reducer.js,
\* buildSnapshot in broadcast.go).
THEOREM ScreensFollow == ViewSpec => []ScreenFollows
<1>1. VInv => ScreenFollows
  <2> SUFFICES ASSUME VInv, seat.me \in seat.connected
               PROVE  Rendered(Leniently(seat.ui)) = Rendered(Leniently(Current))
    BY DEF ScreenFollows
  <2>1. PICK x : x = Now
    OBVIOUS
  <2>2. x.game = game /\ x.seat = seat
    BY <2>1, NowIs
  <2>3. PICK u, v, c : u = x.seat.ui /\ v = Snapshot(x) /\ c = Current
    OBVIOUS
  <2>4. /\ Seated(x) /\ x.game.phase \in Phase /\ IsScreen(u)
        /\ Lists(u, x) /\ Plays(u, x) /\ Counts(u, x) /\ Marks(u, x, Marked(x))
    BY <2>1, <2>2, <2>3 DEF VInv, Good, Sound, Shown, Hears, Follows, IsPair, IsSeat, Seated,
                            Inv, State
  <2>5. IsScreen(v) /\ Lists(v, x) /\ Plays(v, x) /\ SnapshotVote(v, x)
    BY <2>3, <2>4, SnapshotScreen
  <2>6. /\ IsScreen(c) /\ c.phase = v.phase /\ SameLists(v, c)
        /\ SameTurn(v, c) /\ SameRole(v, c) /\ SameEnd(v, c)
        /\ c.strokes = v.strokes /\ c.votesCast = v.votesCast /\ c.votesTotal = v.votesTotal
        /\ c.hasVoted = (v.hasVoted \/ (game.phase = "voting" /\ Pending(Now)))
    BY <2>1, <2>3, <2>5, CurrentScreen
  <2>7. PICK a, b : a = Leniently(u) /\ b = Leniently(c)
    OBVIOUS
  <2>8. Lenient(u, seat.ui.votesTotal, a) /\ Lenient(c, seat.ui.votesTotal, b)
    BY <2>4, <2>6, <2>7, LenientScreen
  <2>9. a.phase = x.game.phase /\ b.phase = x.game.phase
    BY <2>4, <2>5, <2>6, <2>8 DEF Lenient, Plays
  <2>10. a.away = b.away /\ a.players = b.players /\ a.hostId = b.hostId
    BY <2>4, <2>5, <2>6, <2>8 DEF Lenient, Lists, SameLists
  <2>11. a.strokes = b.strokes /\ a.totalRounds = b.totalRounds
    BY <2>4, <2>5, <2>6, <2>8 DEF Lenient, Plays
  <2>12. ASSUME x.game.phase = "drawing"
         PROVE  SameRole(b, a) /\ SameTurn(b, a)
    <3>1. u.word = v.word /\ u.youAreImpostor = v.youAreImpostor
      BY <2>4, <2>5, <2>12 DEF Plays, RoleShown
    <3>2. u.round = v.round /\ u.currentPlayer = v.currentPlayer /\ u.lap = v.lap
      BY <2>4, <2>5, <2>12 DEF Plays
    <3> QED
      BY <2>6, <2>8, <3>1, <3>2 DEF Lenient, SameRole, SameTurn
  <2>13. ASSUME x.game.phase = "voting"
         PROVE  SameVote(b, a)
    BY <2>1, <2>3, <2>4, <2>5, <2>6, <2>8, <2>13, VoteAlike
  <2>14. ASSUME x.game.phase = "reveal"
         PROVE  a.lastResult = b.lastResult
    BY <2>4, <2>5, <2>6, <2>8, <2>14 DEF Lenient, Plays, SameEnd
  <2>15. ASSUME x.game.phase = "game_over"
         PROVE  a.finalScores = b.finalScores
    BY <2>4, <2>5, <2>6, <2>8, <2>15 DEF Lenient, Plays, SameEnd
  <2>16. LooksLike(a, b)
    BY <2>9, <2>10, <2>11, <2>12, <2>13, <2>14, <2>15 DEF LooksLike
  <2>17. Rendered(a) = Rendered(b)
    BY <2>4, <2>9, <2>16, RenderedAlike
  <2> QED
    BY <2>2, <2>3, <2>7, <2>17
<1> QED
  BY <1>1, ViewSound, PTL
-----------------------------------------------------------------------------
(* The match under the screen: a handler is one step of it, or leaves it.  *)

Both(x) == x = [game |-> x.game, seat |-> x.seat]

\* A message is not of the match.
LEMMA TellMatch ==
  ASSUME NEW x, Both(x), NEW e, NEW y, y = Tell(x, e)
  PROVE  Both(y) /\ y.game = x.game
<1>1. CASE x.seat.me \in x.seat.connected
  <2> DEFINE v == [x.seat EXCEPT !.ui = Reduce(x.seat.ui, x, e)]
  <2>1. y = [x EXCEPT !.seat = v]
    BY <1>1 DEF Tell
  <2> HIDE DEF v
  <2> QED
    BY <2>1 DEF Both
<1>2. CASE ~(x.seat.me \in x.seat.connected)
  BY <1>2 DEF Tell
<1> QED
  BY <1>1, <1>2

\* What a call tells the viewer changes nothing of what it does.
LEMMA ApplyMatch ==
  ASSUME NEW x, Both(x), NEW o, NEW y, y = Apply(x, o)
  PROVE  Both(y) /\ y.game = o.state
<1> DEFINE s  == o.state
           v  == [x.seat EXCEPT !.strokes = Strokes(@, o.events)]
           x0 == [x EXCEPT !.game = o.state, !.seat.strokes = Strokes(@, o.events)]
           n  == Len(o.events)
           x1 == IF n >= 1 THEN Tell(x0, o.events[1]) ELSE x0
           x2 == IF n >= 2 THEN Tell(x1, o.events[2]) ELSE x1
<1>1. y = IF n >= 3 THEN Tell(x2, o.events[3]) ELSE x2
  BY DEF Apply
<1>2. x0 = [x EXCEPT !.game = s, !.seat = v]
  OBVIOUS
<1> HIDE DEF s, v, x0, n
<1>3. Both(x0) /\ x0.game = s
  BY <1>2 DEF Both
<1>4. Both(x1) /\ x1.game = s
  BY <1>3, TellMatch
<1> HIDE DEF x1
<1>5. Both(x2) /\ x2.game = s
  BY <1>4, TellMatch
<1> HIDE DEF x2
<1> QED
  BY <1>1, <1>5, TellMatch DEF s

\* A vote that may close closes once.
LEMMA EvaluateMatch ==
  ASSUME NEW x, Both(x), Inv(x.game), NEW y, y = EvaluateVoting(x)
  PROVE  /\ Both(y) /\ MatchStep(x.game, y.game)
         /\ x.game.phase # "voting" => y = x
<1>1. PICK t : t = Tell(x, "VoteRecorded")
  OBVIOUS
<1>2. Both(t) /\ t.game = x.game
  BY <1>1, TellMatch
<1>3. PICK o : o = FinishVoting(x.game)
  OBVIOUS
<1>4. CASE x.game.phase = "voting" /\ MayResolveVoting(x.game, x.seat.connected)
  <2>1. y = Apply(t, o)
    BY <1>1, <1>3, <1>4 DEF EvaluateVoting
  <2>2. Both(y) /\ y.game = o.state
    BY <1>2, <2>1, ApplyMatch
  <2>3. MatchStep(x.game, o.state)
    BY <1>3, <1>4, VerdictStep
  <2> QED
    BY <1>4, <2>2, <2>3
<1>5. CASE x.game.phase = "voting" /\ ~MayResolveVoting(x.game, x.seat.connected)
  <2>1. y = t
    BY <1>1, <1>5 DEF EvaluateVoting
  <2> QED
    BY <1>2, <1>5, <2>1 DEF MatchStep, SameMatch, SameRound
<1>6. CASE x.game.phase # "voting"
  <2>1. y = x
    BY <1>6 DEF EvaluateVoting
  <2> QED
    BY <2>1 DEF MatchStep, SameMatch, SameRound
<1> QED
  BY <1>4, <1>5, <1>6

\* A new host is no step of the match.
LEMMA MigrationMatch ==
  ASSUME NEW x, Both(x), Inv(x.game), NEW y \in Migrations(x)
  PROVE  /\ Both(y) /\ Inv(y.game) /\ SameMatch(x.game, y.game)
         /\ y.game.phase = x.game.phase
<1>1. CASE y = x
  BY <1>1 DEF SameMatch, SameRound
<1>2. CASE y # x
  <2>1. PICK p \in x.seat.connected \cap Roster(x.game) :
               y = Tell([x EXCEPT !.game = SetHostID(@, p)], "Host")
    BY <1>2 DEF Migrations
  <2>2. PICK s : s = SetHostID(x.game, p)
    OBVIOUS
  <2>3. PICK z : z = [x EXCEPT !.game = s]
    OBVIOUS
  <2>4. y = Tell(z, "Host")
    BY <2>1, <2>2, <2>3
  <2>5. Both(z) /\ z.game = s
    BY <2>3 DEF Both
  <2>6. Both(y) /\ y.game = s
    BY <2>4, <2>5, TellMatch
  <2>7. p \in PlayerID /\ x.game \in State
    BY RosterType DEF Inv
  <2>8. Inv(s) /\ SameMatch(x.game, s)
    BY <2>2, <2>7, SetHostInv, SetHostStep
  <2>9. s.phase = x.game.phase
    BY <2>2, <2>7 DEF State, SetHostID
  <2> QED
    BY <2>6, <2>8, <2>9
<1> QED
  BY <1>1, <1>2

\* The tail of a join is at most the end of a vote.
LEMMA WelcomeMatch ==
  ASSUME NEW x, Both(x), Inv(x.game), NEW p, NEW y, y = Welcome(x, p)
  PROVE  /\ MatchStep(x.game, y.game)
         /\ x.game.phase # "voting" => y.game = x.game
<1>1. PICK settled : settled = EvaluateVoting(x)
  OBVIOUS
<1>2. PICK greeted : greeted = IF p = x.seat.me THEN Tell(settled, "Snapshot") ELSE settled
  OBVIOUS
<1>3. y = Tell(greeted, "Lobby")
  BY <1>1, <1>2 DEF Welcome
<1>4. /\ Both(settled) /\ MatchStep(x.game, settled.game)
      /\ x.game.phase # "voting" => settled = x
  BY <1>1, EvaluateMatch
<1>5. Both(greeted) /\ greeted.game = settled.game
  <2>1. CASE greeted = Tell(settled, "Snapshot")
    BY <1>4, <2>1, TellMatch
  <2> QED
    BY <1>2, <1>4, <2>1
<1>6. y.game = greeted.game
  BY <1>3, <1>5, TellMatch
<1> QED
  BY <1>4, <1>5, <1>6

LEMMA ConnectMatch ==
  ASSUME Inv(game), NEW p \in PlayerID, Connect(p)
  PROVE  MatchStep(game, game')
<1>1. PICK s : s = IF MayAdd(game, p) THEN AddPlayer(game, p) ELSE game
  OBVIOUS
<1>2. PICK v : v = [Severed(seat, p) EXCEPT !.connected = @ \cup {p}, !.away = @ \ {p}]
  OBVIOUS
<1>3. PICK x : x = [game |-> s, seat |-> v]
  OBVIOUS
<1>4. PICK told : told = IF p \in seat.away THEN Tell(x, "Presence") ELSE x
  OBVIOUS
<1>5. PICK y \in Migrations(told) : Becomes(Welcome(y, p))
  BY <1>1, <1>2, <1>3, <1>4 DEF Connect
<1>6. PICK z : z = Welcome(y, p)
  OBVIOUS
<1>7. game' = z.game
  BY <1>5, <1>6 DEF Becomes
<1>8. Both(x) /\ x.game = s
  BY <1>3 DEF Both
<1>9. Both(told) /\ told.game = s
  <2>1. CASE told = Tell(x, "Presence")
    BY <1>8, <2>1, TellMatch
  <2> QED
    BY <1>4, <1>8, <2>1
<1>10. /\ Inv(s)
       /\ \/ s = game
          \/ s.phase = "lobby" /\ MatchStep(game, s)
  <2>1. CASE MayAdd(game, p)
    <3>1. /\ Inv(s) /\ s.impostor = game.impostor
          /\ s.phase = "lobby" /\ game.phase = "lobby"
      BY <1>1, <2>1, AddPlayerInv DEF MayAdd
    <3> QED
      BY <3>1, RosterStep DEF MatchStep
  <2> QED
    BY <1>1, <2>1
<1>11. Both(y) /\ Inv(y.game) /\ SameMatch(s, y.game) /\ y.game.phase = s.phase
  BY <1>5, <1>9, <1>10, MigrationMatch
<1>12. MatchStep(y.game, z.game) /\ (y.game.phase # "voting" => z.game = y.game)
  BY <1>6, <1>11, WelcomeMatch
<1>13. CASE s = game
  BY <1>7, <1>11, <1>12, <1>13, StutterBefore
<1>14. CASE s.phase = "lobby" /\ MatchStep(game, s)
  BY <1>7, <1>11, <1>12, <1>14, StutterAfter
<1> QED
  BY <1>10, <1>13, <1>14

LEMMA DisconnectMatch ==
  ASSUME Inv(game), NEW p \in PlayerID, Disconnect(p)
  PROVE  MatchStep(game, game')
<1>1. PICK v : v = [Severed(seat, p) EXCEPT !.connected = @ \ {p}, !.away = @ \cup {p}]
  OBVIOUS
<1>2. PICK x : x = [game |-> game, seat |-> v]
  OBVIOUS
<1>3. PICK told : told = Tell(x, "Presence")
  OBVIOUS
<1>4. PICK y : y = EvaluateVoting(told)
  OBVIOUS
<1>5. game' = y.game
  BY <1>1, <1>2, <1>3, <1>4 DEF Disconnect, Becomes
<1>6. Both(x) /\ x.game = game
  BY <1>2 DEF Both
<1>7. Both(told) /\ told.game = game
  BY <1>3, <1>6, TellMatch
<1>8. MatchStep(game, y.game)
  BY <1>4, <1>7, EvaluateMatch
<1> QED
  BY <1>5, <1>8

LEMMA GraceExpiresMatch ==
  ASSUME Inv(game), NEW p \in PlayerID, GraceExpires(p)
  PROVE  MatchStep(game, game')
<1>1. PICK v : v = [seat EXCEPT !.away = @ \ {p}]
  OBVIOUS
<1>2. PICK removed : removed = [game |-> RemovePlayer(game, p), seat |-> v]
  OBVIOUS
<1>3. PICK x : x = IF MayRemove(game, p) THEN Tell(removed, "Left") ELSE Now
  OBVIOUS
<1>4. PICK y \in Migrations(x) : Becomes(Tell(y, "Lobby"))
  BY <1>1, <1>2, <1>3 DEF GraceExpires
<1>5. PICK z : z = Tell(y, "Lobby")
  OBVIOUS
<1>6. game' = z.game
  BY <1>4, <1>5 DEF Becomes
<1>7. Both(x) /\ Inv(x.game) /\ MatchStep(game, x.game)
  <2>1. CASE MayRemove(game, p)
    <3>1. PICK s : s = RemovePlayer(game, p)
      OBVIOUS
    <3>2. /\ Inv(s) /\ s.impostor = game.impostor
          /\ s.phase = "lobby" /\ game.phase = "lobby"
      BY <2>1, <3>1, RemovePlayerInv DEF MayRemove
    <3>3. MatchStep(game, s)
      BY <3>2, RosterStep DEF MatchStep
    <3>4. Both(removed) /\ removed.game = s
      BY <1>2, <3>1 DEF Both
    <3>5. x = Tell(removed, "Left")
      BY <1>3, <2>1
    <3>6. Both(x) /\ x.game = s
      BY <3>4, <3>5, TellMatch
    <3> QED
      BY <3>2, <3>3, <3>6
  <2>2. CASE ~MayRemove(game, p)
    <3>1. Both(x) /\ x.game = game
      BY <1>3, <2>2 DEF Now, Both
    <3> QED
      BY <3>1 DEF MatchStep, SameMatch, SameRound
  <2> QED
    BY <2>1, <2>2
<1>8. Both(y) /\ SameMatch(x.game, y.game)
  BY <1>4, <1>7, MigrationMatch
<1>9. z.game = y.game
  BY <1>5, <1>8, TellMatch
<1> QED
  BY <1>6, <1>7, <1>8, <1>9, StutterAfter
LEMMA NowBoth == Both(Now) /\ Now.game = game /\ Now.seat = seat
  BY DEF Now, Both

\* What a call makes of the match, whoever is told.
LEMMA PlayedMatch ==
  ASSUME NEW may, NEW o, Played(may, o)
  PROVE  may /\ game' = o.state
<1>1. PICK y : y = Apply(Now, o)
  OBVIOUS
<1>2. y.game = o.state
  BY <1>1, NowBoth, ApplyMatch
<1> QED
  BY <1>1, <1>2 DEF Played, Becomes

LEMMA CastMatch ==
  ASSUME NEW s, Inv(s), NEW voter \in Roster(s), NEW target \in Roster(s),
         MayVote(s, voter, target), NEW connected,
         NEW t, t = CastVote(s, voter, target, connected).state
  PROVE  MatchStep(s, t)
<1>1. voter \in PlayerID /\ target \in PlayerID
  BY RosterType DEF Inv
<1>2. PICK voted : voted = [s EXCEPT !.votes[voter] = target]
  OBVIOUS
<1>3. Inv(voted) /\ SameMatch(s, voted) /\ voted.phase = "voting"
  BY <1>1, <1>2, VoteStep
<1>4. t = voted \/ t = FinishVoting(voted).state
  BY <1>2 DEF CastVote, Out, Ignored
<1> QED
  BY <1>3, <1>4, VerdictStep, StutterBefore DEF MatchStep

LEMMA CountsBallotMatch ==
  ASSUME VInv, CountsBallot
  PROVE  MatchStep(game, game')
<1>1. PICK x : x = [Now EXCEPT !.seat.ballot = Nobody, !.seat.stale = FALSE]
  OBVIOUS
<1>2. PICK o : o = CastVote(game, seat.me, seat.ballot, seat.connected)
  OBVIOUS
<1>3. PICK v : v = [seat EXCEPT !.ballot = Nobody, !.stale = FALSE]
  OBVIOUS
<1>4. x = [game |-> game, seat |-> v]
  BY <1>1, <1>3 DEF Now
<1>5. Both(x) /\ x.game = game
  BY <1>4 DEF Both
<1>6. PICK y : y = IF Listened(seat) /\ MayVote(game, seat.me, seat.ballot)
                   THEN Apply(x, o) ELSE x
  OBVIOUS
<1>7. game' = y.game
  BY <1>1, <1>2, <1>6 DEF CountsBallot, Becomes
<1>8. Inv(game)
  BY NowIs DEF VInv, Good, Sound, Seated
<1>9. CASE Listened(seat) /\ MayVote(game, seat.me, seat.ballot)
  <2>1. y.game = o.state
    BY <1>5, <1>6, <1>9, ApplyMatch
  <2>2. seat.me \in Roster(game) /\ seat.ballot \in Roster(game)
    BY <1>9 DEF MayVote
  <2> QED
    BY <1>2, <1>7, <1>8, <1>9, <2>1, <2>2, CastMatch
<1>10. CASE ~(Listened(seat) /\ MayVote(game, seat.me, seat.ballot))
  BY <1>5, <1>6, <1>7, <1>10 DEF MatchStep, SameMatch, SameRound
<1> QED
  BY <1>9, <1>10

\* Every handler, with all the calls it makes, is one step of the match.
LEMMA ViewMatchStep ==
  ASSUME VInv, [ViewNext]_viewVars, WebClientOnly
  PROVE  MatchStep(game, game')
<1>1. Inv(game) /\ seat.connected \subseteq Roster(game)
  BY NowIs DEF VInv, Good, Sound, Seated
<1>2. ASSUME NEW p \in PlayerID, Connect(p) \/ Disconnect(p) \/ GraceExpires(p)
      PROVE  MatchStep(game, game')
  BY <1>1, <1>2, ConnectMatch, DisconnectMatch, GraceExpiresMatch
<1>3. CASE game' = game
  BY <1>3 DEF MatchStep, SameMatch, SameRound
<1>4. CASE Resync
  <2>1. PICK y : y = Tell(Now, "Snapshot")
    OBVIOUS
  <2>2. y.game = game
    BY <2>1, NowBoth, TellMatch
  <2>3. game' = game
    BY <1>4, <2>1, <2>2 DEF Resync, Becomes
  <2> QED
    BY <1>3, <2>3
<1>5. CASE Begins
  <2>1. PICK by \in seat.connected, perm \in Perms(Len(game.players)) :
          \/ Played(MayStart(game, by), StartGame(game, perm))
          \/ Played(MayRestart(game, by), Restart(game, perm))
    BY <1>5 DEF Begins
  <2>2. CASE Played(MayStart(game, by), StartGame(game, perm))
    BY <1>1, <2>2, PlayedMatch, StartStep
  <2>3. CASE Played(MayRestart(game, by), Restart(game, perm))
    BY <1>1, <2>3, PlayedMatch, RestartStep
  <2> QED
    BY <2>1, <2>2, <2>3
<1>6. CASE Draws
  <2>1. CASE \E by \in seat.connected : Played(MayStroke(game, by), AddStroke(game))
    <3>1. PICK by \in seat.connected : MayStroke(game, by) /\ game' = AddStroke(game).state
      BY <2>1, PlayedMatch
    <3> QED
      BY <1>1, <3>1, TurnStep DEF MayStroke, AddStroke, Out
  <2>2. CASE Played(MaySkip(game) /\ Drawer(game) \in seat.away /\ seat.connected # {},
                    SkipTurn(game))
    <3>1. MaySkip(game) /\ game' = SkipTurn(game).state
      BY <2>2, PlayedMatch
    <3> QED
      BY <1>1, <3>1, TurnStep DEF MaySkip, SkipTurn
  <2> QED
    BY <1>6, <2>1, <2>2 DEF Draws
<1>7. CASE EndsDiscussion
  <2>1. MayEndDiscussion(game, game.host) /\ game' = EndDiscussion(game).state
    BY <1>7, PlayedMatch DEF EndsDiscussion
  <2> QED
    BY <1>1, <2>1, EndDiscussionStep DEF MayEndDiscussion
<1>8. CASE OthersVote
  <2>1. PICK voter \in seat.connected \ {seat.me}, target \in Roster(game) :
          Played(MayVote(game, voter, target), CastVote(game, voter, target, seat.connected))
    BY <1>8 DEF OthersVote
  <2>2. /\ MayVote(game, voter, target)
        /\ game' = CastVote(game, voter, target, seat.connected).state
    BY <2>1, PlayedMatch
  <2> QED
    BY <1>1, <2>2, CastMatch
<1>9. CASE SendsBallot
  BY <1>3, <1>9 DEF SendsBallot
<1>10. CASE CountsBallot
  BY <1>10, CountsBallotMatch
<1>11. CASE Reveals
  <2>1. CASE \E by \in seat.connected, guess \in Guess :
               Played(MayGuess(game, by) /\ ClientSends(game, by, guess), ImpostorGuess(game, guess))
    <3>1. PICK by \in seat.connected, guess \in Guess :
            Played(MayGuess(game, by) /\ ClientSends(game, by, guess), ImpostorGuess(game, guess))
      BY <2>1
    <3>2. PICK may, o : /\ may = (MayGuess(game, by) /\ ClientSends(game, by, guess))
                        /\ o = ImpostorGuess(game, guess)
      OBVIOUS
    <3>3. may /\ game' = o.state
      BY <3>1, <3>2, PlayedMatch
    <3>4. MayGuess(game, by) /\ ClientSends(game, by, guess)
      BY <3>2, <3>3
    <3> QED
      BY <1>1, <3>2, <3>3, <3>4, GuessAwaited, GuessStep
  <2>2. CASE Played(MayTimeOutGuess(game), ResolveImpostorTimeout(game))
    BY <1>1, <2>2, PlayedMatch, TimeoutStep
  <2>3. CASE Played(MayAdvance(game) /\ Settled(game), AdvanceRound(game))
    BY <1>1, <2>3, PlayedMatch, AdvanceStep
  <2> QED
    BY <1>11, <2>1, <2>2, <2>3 DEF Reveals
<1>12. CASE UNCHANGED viewVars
  BY <1>3, <1>12 DEF viewVars
<1> QED
  BY <1>2, <1>4, <1>5, <1>6, <1>7, <1>8, <1>9, <1>10, <1>11, <1>12 DEF ViewNext

-----------------------------------------------------------------------------
(* Theorems about the match under the screen.                              *)

\* Whoever connects and whatever the browsers send, the match under the screens has its
\* type, its roles stay those that were drawn, and the turn names a seat.
THEOREM ViewKeepsRules == ViewSpec => [](TypeOK /\ RolesFixed /\ TurnInRange)
<1>1. VInv => Inv(game)
  BY NowIs DEF VInv, Good, Sound, Seated
<1> QED
  BY <1>1, InvKeepsRules, ViewSound, PTL

\* Whoever is connected when it is decided, the points of a round are those of exactly one
\* outcome, if guesses come from the web client.
THEOREM ViewSettlesOnce ==
  ASSUME WebClientOnly
  PROVE  ViewSpec => []OneSettlement
<1>1. VInv => Inv(game)
  BY NowIs DEF VInv, Good, Sound, Seated
<1> QED
  BY <1>1, InvKeepsRules, ViewSound, PTL

\* With joins, departures, changes of host and votes that end when somebody leaves, every
\* handler is still one step of the abstract match or none: no cascade of engine calls
\* within a handler takes two.
THEOREM ViewImplementsMatch ==
  ASSUME WebClientOnly
  PROVE  ViewSpec => ImplementsMatch
<1>1. ViewInit => M!Init
  BY InitRefines DEF ViewInit
<1>2. VInv /\ [ViewNext]_viewVars => [M!Next]_(M!vars)
  BY ViewMatchStep, MatchStepRefines
<1> QED
  BY <1>1, <1>2, ViewSound, PTL DEF ViewSpec, ImplementsMatch, M!Spec

\* So what holds of every match holds of the one on the screens: scores are explained by
\* decided rounds, and a match ends when everybody was impostor.
THEOREM ViewScoresAddUp ==
  ASSUME WebClientOnly
  PROVE  ViewSpec => [](ScoreBound /\ EveryoneWasImpostor)
  BY ViewImplementsMatch, MatchBoundsScores, MatchTakesEverybody, PTL
=============================================================================
