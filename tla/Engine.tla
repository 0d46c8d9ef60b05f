------------------------------- MODULE Engine -------------------------------
(***************************************************************************)
(* The rules of a match (internal/game): a state record and, for every     *)
(* method of the Go Engine that changes state, a guard named May... (its   *)
(* early returns) and an operator that maps a state to the next state and  *)
(* the events the method returns. A call whose guard is false returns an   *)
(* error and changes nothing, so it is no step at all.                     *)
(*                                                                         *)
(* Data that no rule looks at is left out: names, emoji, the strokes' ink, *)
(* the chosen word. A guess is "right", "wrong" or "" (what a blank guess  *)
(* is trimmed to, and also what the field holds when nobody has guessed).  *)
(*                                                                         *)
(* An operator whose name starts with Bug is the one after it with a       *)
(* plausible defect; nothing uses it.                                      *)
(***************************************************************************)
EXTENDS Naturals, Sequences, FiniteSets

CONSTANTS
  PlayerID,      \* identities a seat can have
  Nobody,        \* the empty PlayerID
  MinPlayers,    \* fewest players a match starts with
  MaxPlayers,    \* most seats of a room
  TotalLaps,     \* turns each player draws in a round
  WebClientOnly  \* TRUE: every guess comes from the repository's web client

ASSUME NobodyAssumption == Nobody \notin PlayerID
ASSUME BoundsAssumption == /\ MinPlayers \in Nat \ {0}
                           /\ MaxPlayers \in Nat
                           /\ TotalLaps \in Nat \ {0}
ASSUME WebClientOnlyAssumption == WebClientOnly \in BOOLEAN

Phase == {"lobby", "drawing", "discussion", "voting", "reveal", "game_over"}
Guess == {"", "right", "wrong"}
EventType == {"RoundStarted", "TurnChanged", "StrokeAdded", "PhaseChanged",
              "VoteRecorded", "RoundEnded", "GameEnded"}

NoVotes   == [p \in PlayerID |-> Nobody]
ZeroScore == [p \in PlayerID |-> 0]

\* The nil LastResult: nobody was caught, nothing was guessed.
NoResult == [caught |-> FALSE, guess |-> "", timedOut |-> FALSE, delta |-> ZeroScore]

RoundResult == [caught : BOOLEAN, guess : Guess, timedOut : BOOLEAN,
                delta : [PlayerID -> Nat]]

State == [phase    : Phase,
          players  : Seq(PlayerID),           \* roster, in join order
          host     : PlayerID,
          round    : Nat,
          total    : Nat,
          order    : Seq(Nat),                \* impostorOrder, as indices from 1
          turn     : Nat,                     \* TurnIndex, from 0
          lap      : Nat,
          impostor : PlayerID \cup {Nobody},
          votes    : [PlayerID -> PlayerID \cup {Nobody}],
          guess    : Guess,
          result   : RoundResult,
          score    : [PlayerID -> Nat]]

\* What a method returns: the state it leaves and the events it emits. A
\* PhaseChanged event always carries the phase of the state it is returned with.
Out(s, events) == [state |-> s, events |-> events]
Ignored(s)     == Out(s, <<>>)

Roster(s) == {s.players[i] : i \in 1 .. Len(s.players)}
Drawer(s) == s.players[s.turn + 1]

\* What rng.Perm can return for n players.
Perms(n) == {f \in [1 .. n -> 1 .. n] : \A i, j \in 1 .. n : f[i] = f[j] => i = j}

NewEngine(host) ==
  [phase |-> "lobby", players |-> <<host>>, host |-> host, round |-> 0, total |-> 1,
   order |-> <<>>, turn |-> 0, lap |-> 0, impostor |-> Nobody, votes |-> NoVotes,
   guess |-> "", result |-> NoResult, score |-> ZeroScore]

-----------------------------------------------------------------------------
(* The roster: only the lobby may change it.                               *)

MayAdd(s, p) ==
  /\ p \notin Roster(s)
  /\ s.phase = "lobby"
  /\ Len(s.players) < MaxPlayers

AddPlayer(s, p) == [s EXCEPT !.players = Append(@, p)]

BugMayRemoveAnytime(s, p) == p \in Roster(s)

MayRemove(s, p) == s.phase = "lobby" /\ p \in Roster(s)

RemovePlayer(s, p) ==
  LET i == CHOOSE i \in 1 .. Len(s.players) : s.players[i] = p
  IN  [s EXCEPT !.players = SubSeq(@, 1, i - 1) \o SubSeq(@, i + 1, Len(@))]

MaySetHost(s, p) == p \in Roster(s)
SetHostID(s, p)  == [s EXCEPT !.host = p]

-----------------------------------------------------------------------------
(* Rounds and turns.                                                       *)

\* LastResult is kept: it still shows the round that just ended.
BeginRound(s, n) ==
  Out([s EXCEPT !.phase = "drawing",
                !.round = n,
                !.impostor = s.players[s.order[((n - 1) % Len(s.order)) + 1]],
                !.turn = 0,
                !.lap = 0,
                !.votes = NoVotes,
                !.guess = ""],
      <<"RoundStarted", "TurnChanged">>)

MayStart(s, by) ==
  /\ s.phase = "lobby"
  /\ by = s.host
  /\ Len(s.players) >= MinPlayers

BugStartGameKeepingTotal(s, perm) == BeginRound([s EXCEPT !.order = perm], 1)

StartGame(s, perm) ==
  BeginRound([s EXCEPT !.total = Len(s.players), !.order = perm], 1)

MayRestart(s, by) ==
  /\ s.phase = "game_over"
  /\ by = s.host
  /\ Len(s.players) >= MinPlayers

BugRestartKeepingScores(s, perm) ==
  BeginRound([s EXCEPT !.result = NoResult, !.total = Len(s.players), !.order = perm], 1)

Restart(s, perm) ==
  BeginRound([s EXCEPT !.score = ZeroScore, !.result = NoResult,
                       !.total = Len(s.players), !.order = perm], 1)

LastOfLap(s) == s.turn + 1 >= Len(s.players)

BugAdvanceTurnLapTooMany(s) ==
  IF LastOfLap(s) /\ s.lap >= TotalLaps
  THEN Out([s EXCEPT !.turn = 0, !.phase = "discussion"], <<"PhaseChanged">>)
  ELSE Out([s EXCEPT !.turn = IF LastOfLap(s) THEN 0 ELSE @ + 1,
                     !.lap = IF LastOfLap(s) THEN @ + 1 ELSE @], <<"TurnChanged">>)

AdvanceTurn(s) ==
  LET turn == IF LastOfLap(s) THEN 0 ELSE s.turn + 1
      lap  == IF LastOfLap(s) THEN s.lap + 1 ELSE s.lap
  IN  IF LastOfLap(s) /\ lap >= TotalLaps
      THEN Out([s EXCEPT !.turn = turn, !.lap = lap, !.phase = "discussion"],
               <<"PhaseChanged">>)
      ELSE Out([s EXCEPT !.turn = turn, !.lap = lap], <<"TurnChanged">>)

MayStroke(s, by) == s.phase = "drawing" /\ by = Drawer(s)

AddStroke(s) ==
  LET out == AdvanceTurn(s)
  IN  Out(out.state, <<"StrokeAdded">> \o out.events)

MaySkip(s)  == s.phase = "drawing"
SkipTurn(s) == AdvanceTurn(s)

MayEndDiscussion(s, by) == s.phase = "discussion" /\ by = s.host

EndDiscussion(s) == Out([s EXCEPT !.phase = "voting"], <<"PhaseChanged">>)

-----------------------------------------------------------------------------
(* Voting and the verdict.                                                 *)

HasVoted(s, p) == s.votes[p] # Nobody
Voters(s)      == {p \in PlayerID : HasVoted(s, p)}

BugRequiredConnectedOnly(s, connected) == Roster(s) \cap connected

\* Counted towards the requirement: connected now, or has already voted.
Required(s, connected) == {p \in Roster(s) : HasVoted(s, p) \/ p \in connected}

VotingCanResolve(s, connected) ==
  /\ connected # {}
  /\ Cardinality(Required(s, connected)) > 0
  /\ Cardinality(Voters(s)) >= Cardinality(Required(s, connected))

Tally(s) == [p \in PlayerID |-> Cardinality({v \in Voters(s) : s.votes[v] = p})]

CaughtByPlurality(s) ==
  /\ Tally(s)[s.impostor] > 0
  /\ \A p \in PlayerID \ {s.impostor} : Tally(s)[p] < Tally(s)[s.impostor]

BugApplyScoreTaking(s, who, points) ==
  [s EXCEPT !.score = [p \in PlayerID |-> IF p \in who THEN @[p] - points ELSE @[p]]]

ApplyScore(s, who, points) ==
  [s EXCEPT
     !.score = [p \in PlayerID |-> IF p \in who THEN @[p] + points ELSE @[p]],
     !.result.delta = [p \in PlayerID |-> IF p \in who THEN @[p] + points ELSE @[p]]]

NonImpostors(s) == Roster(s) \ {s.impostor}

FinishVoting(s) ==
  LET caught   == CaughtByPlurality(s)
      revealed == [s EXCEPT !.phase = "reveal",
                            !.result = [NoResult EXCEPT !.caught = caught]]
  IN  IF caught
      THEN Out(revealed, <<"PhaseChanged">>)
      ELSE Out(ApplyScore(revealed, {s.impostor}, 2), <<"PhaseChanged", "RoundEnded">>)

MayVote(s, voter, target) ==
  /\ s.phase = "voting"
  /\ voter \in Roster(s)
  /\ target \in Roster(s)
  /\ ~HasVoted(s, voter)

CastVote(s, voter, target, connected) ==
  LET voted == [s EXCEPT !.votes[voter] = target]
      out   == IF VotingCanResolve(voted, connected) THEN FinishVoting(voted)
                                                     ELSE Ignored(voted)
  IN  Out(out.state, <<"VoteRecorded">> \o out.events)

MayResolveVoting(s, connected) == s.phase = "voting" /\ VotingCanResolve(s, connected)

-----------------------------------------------------------------------------
(* The reveal: a caught impostor's guess, its deadline, the next round.    *)

GuessAlreadyResolved(s) == s.guess # "" \/ s.result.timedOut

BugMayGuessAfterTimeout(s, by) ==
  s.phase = "reveal" /\ by = s.impostor /\ s.guess = ""

MayGuess(s, by) ==
  /\ s.phase = "reveal"
  /\ by = s.impostor
  /\ ~GuessAlreadyResolved(s)

ImpostorGuess(s, guess) ==
  LET guessed == [s EXCEPT !.guess = guess, !.result.guess = guess]
  IN  Out(IF guess = "right" THEN ApplyScore(guessed, {s.impostor}, 2)
                             ELSE ApplyScore(guessed, NonImpostors(s), 1),
          <<"RoundEnded">>)

MayTimeOutGuess(s) ==
  /\ s.phase = "reveal"
  /\ s.result.caught
  /\ ~GuessAlreadyResolved(s)

ResolveImpostorTimeout(s) ==
  Out([ApplyScore(s, NonImpostors(s), 1) EXCEPT !.result.timedOut = TRUE], <<"RoundEnded">>)

MayAdvance(s) == s.phase = "reveal"

BugAdvanceRoundPastTotal(s) ==
  IF s.round > s.total
  THEN Out([s EXCEPT !.phase = "game_over"], <<"GameEnded">>)
  ELSE BeginRound(s, s.round + 1)

AdvanceRound(s) ==
  IF s.round >= s.total
  THEN Out([s EXCEPT !.phase = "game_over"], <<"GameEnded">>)
  ELSE BeginRound(s, s.round + 1)

-----------------------------------------------------------------------------
(* What a reveal is waiting for. Both read only fields of the state.       *)

\* A caught impostor has neither guessed nor run out of time.
AwaitingGuess(s) ==
  /\ s.phase = "reveal"
  /\ s.result.caught
  /\ s.result.guess = ""
  /\ ~s.result.timedOut

\* The verdict's points are given and the round only waits to be advanced.
Settled(s) == s.phase = "reveal" /\ ~AwaitingGuess(s)

\* The guesses that reach the room from the web client, whose form is shown to a
\* caught impostor and ignores blank input, but stays open until an answer comes: a
\* guess may be the second one, or late for its deadline or its round. That it comes
\* before the next reveal is a bound on the delay of a message.
ClientSends(s, by, guess) ==
  WebClientOnly => guess # "" /\ (s.phase = "reveal" => by = s.impostor /\ s.result.caught)

-----------------------------------------------------------------------------
(* A state as the players see the match: see Match.                        *)

StageOf(s) ==
  CASE s.phase = "reveal"    -> IF AwaitingGuess(s) THEN "awaiting" ELSE "settled"
    [] s.phase = "game_over" -> "over"
    [] OTHER                 -> s.phase

ImpostorOf(s, n) == s.players[s.order[n]]
PastImpostors(s) == {ImpostorOf(s, n) : n \in 1 .. s.round - 1}

\* The points a round can give.
Outcomes(s) ==
  {[p \in PlayerID |-> IF p = s.impostor THEN 2 ELSE 0],
   [p \in PlayerID |-> IF p \in NonImpostors(s) THEN 1 ELSE 0]}

=============================================================================
