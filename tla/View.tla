-------------------------------- MODULE View --------------------------------
(***************************************************************************)
(* The match as one player's browser shows it: the rules engine with who   *)
(* is connected, the messages the room sends that player                   *)
(* (internal/room/broadcast.go), the reducer that folds them into the      *)
(* screen's state (web/src/reducer.js) and what the components render of   *)
(* it (web/src/components). Two paths lead to a screen, single messages    *)
(* and whole snapshots; the properties say that they lead to the same one, *)
(* and that neither tells an impostor the word.                            *)
(*                                                                         *)
(* Messages reach a connected player in order and at once: what loss and   *)
(* delay do is Connection's question. A handler is one step, as in Room;   *)
(* the choice of a new host is left open, Room determines it.              *)
(*                                                                         *)
(* An operator whose name starts with Bug is the one after it with a       *)
(* plausible defect; nothing uses it.                                      *)
(***************************************************************************)
EXTENDS Game

CONSTANT MaxAway   \* bound: players away at the same time, by the number of players

ASSUME MaxAwayAssumption == MaxAway \in [1 .. MaxPlayers -> Nat]

VARIABLE
  seat    \* the viewer's seat and what it depends on besides the match

viewVars == <<game, seat>>

\* What Reveal shows of a round. word: whether it is told.
NoRoundResult == [impostor |-> Nobody, caught |-> FALSE, awaiting |-> FALSE,
                  timedOut |-> FALSE, word |-> FALSE, deadline |-> FALSE]

InitialState ==
  [phase |-> "connecting", players |-> <<>>, away |-> {}, hostId |-> Nobody, round |-> 0,
   totalRounds |-> 0, word |-> FALSE, youAreImpostor |-> FALSE, currentPlayer |-> Nobody,
   lap |-> 0, strokes |-> 0, hasVoted |-> FALSE, votesCast |-> 0, votesTotal |-> 0,
   lastResult |-> NoRoundResult, finalScores |-> FALSE]

ViewInit ==
  /\ Init
  /\ \E me \in PlayerID :
       seat = [me |-> me,
               connected |-> {},        \* seats with a registered client
               away |-> {},             \* seats marked disconnected
               strokes |-> 0,           \* the engine's strokes of the round
               ballot |-> Nobody,       \* the viewer's vote on its way to the room
               stale |-> FALSE,         \* ... over a connection since given up
               ui |-> InitialState]

-----------------------------------------------------------------------------
(* What the room tells the viewer. x is the match and the seat.            *)

Now == [game |-> game, seat |-> seat]

Becomes(x) == game' = x.game /\ seat' = x.seat

\* votingProgress.
VotesCast(x)  == Cardinality(Voters(x.game))
VotesTotal(x) == Cardinality(Required(x.game, x.seat.connected))

\* The round LastResult is about: this one once it is decided, or the one before.
ResultImpostor(s) ==
  IF s.phase \in {"reveal", "game_over"} THEN s.impostor
  ELSE IF s.round > 1 THEN ImpostorOf(s, s.round - 1) ELSE Nobody

BugRedactedCurrent(x) == x.game.impostor # x.seat.me

\* redactedResult: the word is blanked for the impostor of the result's round.
Redacted(x) == ResultImpostor(x.game) # x.seat.me

Result(x) ==
  [impostor |-> ResultImpostor(x.game),
   caught   |-> x.game.result.caught,
   awaiting |-> x.game.result.caught /\ x.game.result.guess = "" /\ ~x.game.result.timedOut,
   timedOut |-> x.game.result.timedOut,
   word     |-> Redacted(x),
   deadline |-> FALSE]

\* The announcement carries the deadline, the result of a snapshot does not.
RoundResultPayload(x) == [Result(x) EXCEPT !.deadline = AwaitingGuess(x.game)]

HidesWord(x) == x.seat.me = x.game.impostor

\* buildSnapshot as snapshotToState takes it.
Snapshot(x) ==
  [phase |-> x.game.phase, players |-> x.game.players, away |-> x.seat.away,
   hostId |-> x.game.host, round |-> x.game.round, totalRounds |-> x.game.total,
   word |-> x.game.phase # "lobby" /\ ~HidesWord(x),
   youAreImpostor |-> x.game.phase # "lobby" /\ HidesWord(x),
   currentPlayer |-> IF x.game.phase = "drawing" THEN Drawer(x.game) ELSE Nobody,
   lap |-> x.game.lap, strokes |-> x.seat.strokes,
   hasVoted   |-> x.game.phase = "voting" /\ HasVoted(x.game, x.seat.me),
   votesCast  |-> IF x.game.phase = "voting" THEN VotesCast(x) ELSE 0,
   votesTotal |-> IF x.game.phase = "voting" THEN VotesTotal(x) ELSE 0,
   lastResult |-> IF ResultImpostor(x.game) = Nobody THEN NoRoundResult ELSE Result(x),
   finalScores |-> x.game.phase = "game_over"]

-----------------------------------------------------------------------------
(* reduce: one operator per message of the match.                          *)

OnRoundStarted(u, x) ==
  [u EXCEPT !.phase = "drawing", !.round = x.game.round, !.word = ~HidesWord(x),
            !.youAreImpostor = HidesWord(x), !.strokes = 0,
            !.lastResult = NoRoundResult, !.hasVoted = FALSE, !.votesCast = 0,
            !.votesTotal = 0]

OnTurnChanged(u, x) == [u EXCEPT !.currentPlayer = Drawer(x.game), !.lap = x.game.lap]

OnVoteUpdate(u, x) == [u EXCEPT !.votesCast = VotesCast(x), !.votesTotal = VotesTotal(x)]

OnRoundResult(u, x) ==
  [u EXCEPT !.phase = "reveal", !.lastResult = RoundResultPayload(x)]

\* A caught impostor's result follows the phase at once.
OnPhaseChanged(u, x) ==
  LET told == [u EXCEPT !.phase = x.game.phase]
  IN  IF x.game.phase = "reveal" /\ x.game.result.caught THEN OnRoundResult(told, x) ELSE told

OnGameOver(u, x) == [u EXCEPT !.phase = "game_over", !.finalScores = TRUE]

OnLobbyUpdate(u, x) ==
  [u EXCEPT !.players = x.game.players, !.away = x.seat.away, !.hostId = x.game.host]

Still(players, roster) == SelectSeq(players, LAMBDA p : p \in roster)

OnPlayerLeft(u, x) == [u EXCEPT !.players = Still(@, Roster(x.game))]

Reduce(u, x, event) ==
  CASE event = "RoundStarted" -> OnRoundStarted(u, x)
    [] event = "TurnChanged"  -> OnTurnChanged(u, x)
    [] event = "StrokeAdded"  -> [u EXCEPT !.strokes = @ + 1]
    [] event = "PhaseChanged" -> OnPhaseChanged(u, x)
    [] event = "VoteRecorded" -> OnVoteUpdate(u, x)
    [] event = "RoundEnded"   -> OnRoundResult(u, x)
    [] event = "GameEnded"    -> OnGameOver(u, x)
    [] event = "Lobby"        -> OnLobbyUpdate(u, x)
    [] event = "Left"         -> OnPlayerLeft(u, x)
    [] event = "Presence"     -> [u EXCEPT !.away = x.seat.away]
    [] event = "Host"         -> [u EXCEPT !.hostId = x.game.host]
    [] event = "Snapshot"     -> Snapshot(x)

\* Whoever has no connection is told nothing.
Tell(x, event) ==
  IF x.seat.me \in x.seat.connected THEN [x EXCEPT !.seat.ui = Reduce(@, x, event)] ELSE x

\* beginRound clears the strokes, AddStroke adds one.
Strokes(n, events) ==
  LET told == {events[i] : i \in 1 .. Len(events)}
  IN  IF "RoundStarted" \in told THEN 0 ELSE IF "StrokeAdded" \in told THEN n + 1 ELSE n

\* No call cascades into more than three events.
Apply(x, out) ==
  LET x0 == [x EXCEPT !.game = out.state, !.seat.strokes = Strokes(@, out.events)]
      n  == Len(out.events)
      x1 == IF n >= 1 THEN Tell(x0, out.events[1]) ELSE x0
      x2 == IF n >= 2 THEN Tell(x1, out.events[2]) ELSE x1
  IN  IF n >= 3 THEN Tell(x2, out.events[3]) ELSE x2

-----------------------------------------------------------------------------
(* Presence.                                                               *)

\* Outside the vote nothing; in it the new requirement, and perhaps its end.
EvaluateVoting(x) ==
  IF x.game.phase # "voting" THEN x
  ELSE IF MayResolveVoting(x.game, x.seat.connected)
       THEN Apply(Tell(x, "VoteRecorded"), FinishVoting(x.game))
       ELSE Tell(x, "VoteRecorded")

\* A host that is gone or away may have lost its role to somebody connected.
Migrations(x) ==
  {x} \cup IF x.game.host \in x.seat.connected THEN {}
           ELSE {Tell([x EXCEPT !.game = SetHostID(@, p)], "Host") :
                   p \in x.seat.connected \cap Roster(x.game)}

\* The viewer's connection is given up, and with it what it has sent. The screen it
\* leaves is forgotten: the snapshot that greets the next one replaces it whole.
Severed(v, p) ==
  IF p = v.me THEN [v EXCEPT !.stale = v.ballot # Nobody, !.ui = InitialState] ELSE v

\* The tail of processJoin: the snapshot is for the player who joined.
Welcome(x, p) ==
  LET settled == EvaluateVoting(x)
  IN  Tell(IF p = x.seat.me THEN Tell(settled, "Snapshot") ELSE settled, "Lobby")

\* A new player, the host's first connection, a reconnect, or one that supersedes
\* another. Host changes are announced before the lobby update that repeats them.
Connect(p) ==
  LET seated == IF MayAdd(game, p) THEN AddPlayer(game, p) ELSE game
      x == [game |-> seated,
            seat |-> [Severed(seat, p) EXCEPT !.connected = @ \cup {p}, !.away = @ \ {p}]]
      told == IF p \in seat.away THEN Tell(x, "Presence") ELSE x
  IN  /\ p \in Roster(seated)
      /\ Cardinality(x.seat.away) <= MaxAway[Len(seated.players)]
      /\ \E y \in Migrations(told) : Becomes(Welcome(y, p))

Disconnect(p) ==
  LET x == [game |-> game,
            seat |-> [Severed(seat, p) EXCEPT !.connected = @ \ {p}, !.away = @ \cup {p}]]
  IN  /\ p \in seat.connected
      /\ Cardinality(seat.away) < MaxAway[Len(game.players)]
      /\ Becomes(EvaluateVoting(Tell(x, "Presence")))

\* handleGraceExpired: the seat is lost in the lobby only.
GraceExpires(p) ==
  LET removed == [game |-> RemovePlayer(game, p), seat |-> [seat EXCEPT !.away = @ \ {p}]]
      x == IF MayRemove(game, p) THEN Tell(removed, "Left") ELSE Now
  IN  /\ p \in seat.away
      /\ \E y \in Migrations(x) : Becomes(Tell(y, "Lobby"))

Resync ==
  /\ seat.ballot = Nobody \/ seat.stale   \* the connection keeps the order sent
  /\ seat.me \in seat.connected
  /\ Becomes(Tell(Now, "Snapshot"))

-----------------------------------------------------------------------------
(* The match goes on: commands of connected players, and timers.           *)

Played(may, out) == may /\ Becomes(Apply(Now, out))

Begins ==
  \E by \in seat.connected, perm \in Perms(Len(game.players)) :
    \/ Played(MayStart(game, by), StartGame(game, perm))
    \/ Played(MayRestart(game, by), Restart(game, perm))

Draws ==
  \/ \E by \in seat.connected : Played(MayStroke(game, by), AddStroke(game))
  \/ Played(MaySkip(game) /\ Drawer(game) \in seat.away /\ seat.connected # {}, SkipTurn(game))

EndsDiscussion == Played(MayEndDiscussion(game, game.host), EndDiscussion(game))

OthersVote ==
  \E voter \in seat.connected \ {seat.me}, target \in Roster(game) :
    Played(MayVote(game, voter, target), CastVote(game, voter, target, seat.connected))

\* Voting.jsx offers everybody else; send marks the vote as cast.
SendsBallot ==
  /\ seat.me \in seat.connected
  /\ seat.ui.phase = "voting" /\ ~seat.ui.hasVoted /\ seat.ballot = Nobody
  /\ \E i \in 1 .. Len(seat.ui.players) :
       /\ seat.ui.players[i] # seat.me
       /\ seat' = [seat EXCEPT !.ballot = seat.ui.players[i], !.stale = FALSE,
                               !.ui.hasVoted = TRUE]
  /\ UNCHANGED game

BugListenedToSeat(v) == v.me \in v.connected

\* The room hears a connection only while it is the seat's registered one.
Listened(v) == v.me \in v.connected /\ ~v.stale

CountsBallot ==
  LET x == [Now EXCEPT !.seat.ballot = Nobody, !.seat.stale = FALSE]
  IN  /\ seat.ballot # Nobody
      /\ Becomes(IF Listened(seat) /\ MayVote(game, seat.me, seat.ballot)
                 THEN Apply(x, CastVote(game, seat.me, seat.ballot, seat.connected))
                 ELSE x)

Reveals ==
  \/ \E by \in seat.connected, guess \in Guess :
       Played(MayGuess(game, by) /\ ClientSends(game, by, guess), ImpostorGuess(game, guess))
  \/ Played(MayTimeOutGuess(game), ResolveImpostorTimeout(game))
  \/ Played(MayAdvance(game) /\ Settled(game), AdvanceRound(game))

ViewNext ==
  \/ \E p \in PlayerID : Connect(p) \/ Disconnect(p) \/ GraceExpires(p)
  \/ Resync
  \/ Begins \/ Draws \/ EndsDiscussion \/ OthersVote \/ SendsBallot \/ CountsBallot
  \/ Reveals

ViewSpec == ViewInit /\ [][ViewNext]_viewVars

-----------------------------------------------------------------------------
(* What is on the screen.                                                  *)

\* The fields the component of the phase renders, without the error banner that App
\* shows above it. The counts of a vote nobody was told about yet are 0 of 0 (Voting)
\* after a message, never after a snapshot.
Rendered(u) ==
  CASE u.phase = "lobby" -> [players |-> u.players, away |-> u.away, host |-> u.hostId]
    [] u.phase = "drawing" ->
         [round |-> u.round, total |-> u.totalRounds, lap |-> u.lap, strokes |-> u.strokes,
          impostor |-> u.youAreImpostor, word |-> u.word, drawer |-> u.currentPlayer,
          away |-> u.away]
    [] u.phase = "discussion" -> [host |-> u.hostId, players |-> u.players]
    [] u.phase = "voting" ->
         [players |-> u.players, away |-> u.away, voted |-> u.hasVoted,
          cast |-> u.votesCast, needed |-> u.votesTotal]
    [] u.phase = "reveal" -> [result |-> u.lastResult, players |-> u.players]
    [] u.phase = "game_over" -> [scores |-> u.finalScores, host |-> u.hostId]
    [] OTHER -> <<>>

\* The screen a snapshot would give now; a vote under way counts as cast.
Current ==
  [Snapshot(Now) EXCEPT !.hasVoted = @ \/ (game.phase = "voting" /\ seat.ballot # Nobody
                                             /\ ~seat.stale)]

\* The fields the single messages are known to leave behind: the number of rounds, the
\* deadline in a result, the counts of a vote before its first vote_update.
Leniently(u) ==
  [u EXCEPT !.totalRounds = 0,
            !.lastResult.deadline = FALSE,
            !.votesCast  = IF seat.ui.votesTotal = 0 THEN 0 ELSE @,
            !.votesTotal = IF seat.ui.votesTotal = 0 THEN 0 ELSE @]

\* However a connected player came to where the match is, by messages, by a
\* reconnect or by a resync, the screen is the one a snapshot would give.
ScreenFollows ==
  seat.me \in seat.connected => Rendered(Leniently(seat.ui)) = Rendered(Leniently(Current))

\* reducer.js: nothing "may leave the screen showing a mix of two different
\* snapshots' worth of state".
ScreenIsCurrent ==
  seat.me \in seat.connected => Rendered(seat.ui) = Rendered(Current)

\* No message and no snapshot tells a round's impostor its word: not this
\* round's, and not the last one's with the result, then or later.
ImpostorNeverLearns ==
  /\ seat.ui.word => ~seat.ui.youAreImpostor
  /\ seat.me \in seat.connected /\ game.phase # "lobby" =>
       seat.ui.word = (seat.me # game.impostor)
  /\ seat.ui.lastResult.word => seat.ui.lastResult.impostor # seat.me

=============================================================================
