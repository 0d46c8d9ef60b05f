-------------------------------- MODULE Game --------------------------------
(***************************************************************************)
(* The engine as a state machine: any interleaving of the calls the room   *)
(* may make, with every set of connected players the room may pass. Two    *)
(* things about the caller are assumed and are checked in Room:            *)
(*   - AdvanceRound is called only once the round is settled: the reveal   *)
(*     timer is armed by RoundEnded and by nothing else;                   *)
(*   - if WebClientOnly, guesses come from the repository's own web        *)
(*     client, which shows its form to a caught impostor and never sends   *)
(*     a blank guess: a late or a second one is refused.                   *)
(***************************************************************************)
EXTENDS Engine

VARIABLE game

vars == <<game>>

TypeOK == game \in State

Init == \E host \in PlayerID : game = NewEngine(host)

Add(p) == MayAdd(game, p) /\ game' = AddPlayer(game, p)

Remove(p) == MayRemove(game, p) /\ game' = RemovePlayer(game, p)

SetHost(p) == MaySetHost(game, p) /\ game' = SetHostID(game, p)

Start(by) ==
  /\ MayStart(game, by)
  /\ \E perm \in Perms(Len(game.players)) : game' = StartGame(game, perm).state

Again(by) ==
  /\ MayRestart(game, by)
  /\ \E perm \in Perms(Len(game.players)) : game' = Restart(game, perm).state

Stroke(by) == MayStroke(game, by) /\ game' = AddStroke(game).state

Skip == MaySkip(game) /\ game' = SkipTurn(game).state

End(by) == MayEndDiscussion(game, by) /\ game' = EndDiscussion(game).state

Cast(voter, target, connected) ==
  /\ MayVote(game, voter, target)
  /\ game' = CastVote(game, voter, target, connected).state

Recheck(connected) ==
  /\ MayResolveVoting(game, connected)
  /\ game' = FinishVoting(game).state

GuessWord(by, guess) ==
  /\ MayGuess(game, by)
  /\ ClientSends(game, by, guess)
  /\ game' = ImpostorGuess(game, guess).state

TimeOut == MayTimeOutGuess(game) /\ game' = ResolveImpostorTimeout(game).state

Advance == MayAdvance(game) /\ Settled(game) /\ game' = AdvanceRound(game).state

Next ==
  \/ \E p \in PlayerID : Add(p) \/ Remove(p) \/ SetHost(p)
  \/ \E by \in PlayerID : Start(by) \/ Again(by) \/ Stroke(by) \/ End(by)
  \/ \E voter, target \in PlayerID, connected \in SUBSET PlayerID :
       Cast(voter, target, connected)
  \/ \E connected \in SUBSET PlayerID : Recheck(connected)
  \/ \E by \in PlayerID, guess \in Guess : GuessWord(by, guess)
  \/ Skip \/ TimeOut \/ Advance

Spec == Init /\ [][Next]_vars

-----------------------------------------------------------------------------
(* The match the engine implements.                                        *)

M == INSTANCE Match WITH stage    <- StageOf(game),
                         roster   <- Roster(game),
                         round    <- game.round,
                         impostor <- game.impostor,
                         past     <- PastImpostors(game),
                         score    <- game.score

\* Every call of the engine is a step of the abstract match or leaves it alone:
\* no round is decided twice, skipped, or scored outside its reveal.
ImplementsMatch == M!Spec

-----------------------------------------------------------------------------
(* Safety.                                                                 *)

\* In a running match the impostor order is a permutation of the roster it was
\* drawn for, the round lies within it and the impostor is the one it names:
\* beginRound and advanceTurn index Players with it, in a roster nobody may
\* have changed in between.
RolesFixed ==
  game.phase # "lobby" =>
    /\ game.order \in Perms(Len(game.players))
    /\ game.total = Len(game.players)
    /\ game.round \in 1 .. game.total
    /\ game.impostor = ImpostorOf(game, game.round)

\* Nobody holds two seats: turn order, the vote requirement and the impostor
\* order all count roster entries.
NoDuplicateSeat ==
  \A i, j \in 1 .. Len(game.players) : game.players[i] = game.players[j] => i = j

\* While strokes are awaited the drawer exists and a lap is left to draw.
TurnInRange ==
  game.phase = "drawing" => game.turn < Len(game.players) /\ game.lap < TotalLaps

\* The points a round gave, as LastResult records them, are those of one of the
\* three outcomes the rules name, and none while a guess is awaited.
OneSettlement ==
  game.phase = "reveal" =>
    IF AwaitingGuess(game) THEN game.result.delta = ZeroScore
                           ELSE game.result.delta \in Outcomes(game)

\* The scores of a running match are explained by its decided rounds: at most 2
\* for a player's own and 1 for each other, over rounds and rematches.
ScoreBound == M!ScoreBound

\* A match ends only when everybody has been the impostor of a decided round.
EveryoneWasImpostor == M!EveryoneWasImpostor

\* engine.go on an uncaught impostor: "+2. Result is final"; README: a caught one
\* "gets one guess". Once a round's points are given its result stays as it is.
PointsAreFinal ==
  [][game.phase = "reveal" /\ game'.phase = "reveal" /\ game.result.delta # ZeroScore =>
       game'.result = game.result]_vars

=============================================================================
