----------------------------- MODULE GameProofs -----------------------------
(***************************************************************************)
(* Theorems about the engine (module Game), for every set of identities    *)
(* and every bound on seats and laps: its safety properties, and that it   *)
(* implements the abstract match when its guesses come from the web        *)
(* client. What each call does is proved in EngineProofs.                  *)
(***************************************************************************)
EXTENDS Game, EngineProofs

-----------------------------------------------------------------------------
(* The invariant is inductive.                                             *)

LEMMA InitInv == Init => Inv(game)
  BY NewEngineInv DEF Init

\* Every call keeps the invariant and, with guesses from the web client, is a
\* step of the match or leaves it alone.
LEMMA NextStep ==
  ASSUME Inv(game), [Next]_vars
  PROVE  Inv(game') /\ (WebClientOnly => MatchStep(game, game'))
<1> USE DEF vars
<1>1. game \in State
  BY DEF Inv
<1>2. ASSUME NEW p \in PlayerID, Add(p) PROVE Inv(game') /\ MatchStep(game, game')
  <2>1. Inv(game')
    BY <1>2, AddPlayerInv DEF Add
  <2>2. /\ game.phase = "lobby" /\ game'.phase = "lobby"
        /\ game'.impostor = game.impostor
    BY <1>1, <1>2 DEF Add, MayAdd, AddPlayer, State
  <2> QED
    BY <2>1, <2>2, RosterStep DEF MatchStep
<1>3. ASSUME NEW p \in PlayerID, Remove(p) PROVE Inv(game') /\ MatchStep(game, game')
  <2>1. Inv(game')
    BY <1>3, RemovePlayerInv DEF Remove
  <2>2. /\ game.phase = "lobby" /\ game'.phase = "lobby"
        /\ game'.impostor = game.impostor
    BY <1>1, <1>3 DEF Remove, MayRemove, RemovePlayer, State
  <2> QED
    BY <2>1, <2>2, RosterStep DEF MatchStep
<1>4. ASSUME NEW p \in PlayerID, SetHost(p) PROVE Inv(game') /\ MatchStep(game, game')
  BY <1>1, <1>4, SetHostInv, SetHostStep DEF SetHost, MatchStep
<1>5. ASSUME NEW by \in PlayerID, Start(by) PROVE Inv(game') /\ MatchStep(game, game')
  BY <1>5, StartStep DEF Start
<1>6. ASSUME NEW by \in PlayerID, Again(by) PROVE Inv(game') /\ MatchStep(game, game')
  BY <1>6, RestartStep DEF Again
<1>7. ASSUME NEW by \in PlayerID, Stroke(by) PROVE Inv(game') /\ MatchStep(game, game')
  BY <1>7, TurnStep DEF Stroke, MayStroke, AddStroke, Out
<1>8. CASE Skip
  BY <1>8, TurnStep DEF Skip, MaySkip, SkipTurn
<1>9. ASSUME NEW by \in PlayerID, End(by) PROVE Inv(game') /\ MatchStep(game, game')
  BY <1>9, EndDiscussionStep DEF End, MayEndDiscussion
<1>10. ASSUME NEW voter \in PlayerID, NEW target \in PlayerID,
              NEW connected \in SUBSET PlayerID, Cast(voter, target, connected)
       PROVE  Inv(game') /\ MatchStep(game, game')
  <2> DEFINE voted == [game EXCEPT !.votes[voter] = target]
  <2>1. Inv(voted) /\ SameMatch(game, voted) /\ voted.phase = "voting"
    BY <1>10, VoteStep DEF Cast
  <2> HIDE DEF voted
  <2>2. game' = voted \/ game' = FinishVoting(voted).state
    BY <1>10 DEF Cast, CastVote, Out, Ignored, voted
  <2> QED
    BY <2>1, <2>2, VerdictStep, StutterBefore DEF MatchStep
<1>11. ASSUME NEW connected \in SUBSET PlayerID, Recheck(connected)
       PROVE  Inv(game') /\ MatchStep(game, game')
  BY <1>11, VerdictStep DEF Recheck, MayResolveVoting
<1>12. ASSUME NEW by \in PlayerID, NEW guess \in Guess, GuessWord(by, guess)
       PROVE  Inv(game') /\ (WebClientOnly => MatchStep(game, game'))
  <2>1. Inv(game')
    BY <1>12, GuessInv DEF GuessWord
  <2>2. WebClientOnly => MatchStep(game, game')
    BY <1>12, GuessAwaited, GuessStep DEF GuessWord
  <2> QED
    BY <2>1, <2>2
<1>13. CASE TimeOut
  BY <1>13, TimeoutStep DEF TimeOut
<1>14. CASE Advance
  BY <1>14, AdvanceStep DEF Advance
<1>15. CASE UNCHANGED vars
  BY <1>15 DEF MatchStep, SameMatch, SameRound
<1> QED
  BY <1>2, <1>3, <1>4, <1>5, <1>6, <1>7, <1>8, <1>9, <1>10, <1>11, <1>12, <1>13, <1>14,
     <1>15 DEF Next

LEMMA NextInv == Inv(game) /\ [Next]_vars => Inv(game)'
  BY NextStep

THEOREM InvIsInvariant == Spec => []Inv(game)
  BY InitInv, NextInv, PTL DEF Spec

-----------------------------------------------------------------------------
(* Theorems.                                                               *)

LEMMA InvKeepsRules ==
  /\ Inv(game) => TypeOK /\ RolesFixed /\ TurnInRange
  /\ WebClientOnly /\ Inv(game) => OneSettlement
  BY DEF Inv, TypeOK, RolesAssigned, RolesFixed, TurnValid, TurnInRange, Verdict, OneSettlement

\* The fields of the engine's State always have the values their types promise,
\* whatever calls were made in whatever order (state.go).
THEOREM TypeCorrect == Spec => []TypeOK
  BY InvKeepsRules, InvIsInvariant, PTL

\* No player ever holds two seats (UpsertPlayer, RemovePlayer).
THEOREM SeatsStayDistinct == Spec => []NoDuplicateSeat
<1>1. Inv(game) => NoDuplicateSeat
  BY DEF Inv, SeatsDistinct, NoDuplicateSeat
<1> QED
  BY <1>1, InvIsInvariant, PTL

\* From StartGame to the end of the match the impostor order is a permutation of
\* the roster it was drawn for, and names the impostor of the round: the indices
\* beginRound takes are never out of range.
THEOREM RolesStayFixed == Spec => []RolesFixed
  BY InvKeepsRules, InvIsInvariant, PTL

\* While strokes are awaited the drawer the turn names exists (AddStroke indexes
\* Players with TurnIndex unchecked) and a lap is left to draw.
THEOREM TurnStaysInRange == Spec => []TurnInRange
  BY InvKeepsRules, InvIsInvariant, PTL

\* With guesses from the web client only, LastResult's points are those of exactly
\* one outcome of the round, and none while a guess is awaited: a guess and its
\* deadline, in either order, never both pay (ImpostorGuess, ResolveImpostorTimeout).
THEOREM SettledOnce ==
  ASSUME WebClientOnly
  PROVE  Spec => []OneSettlement
  BY InvKeepsRules, InvIsInvariant, PTL

-----------------------------------------------------------------------------
(* The engine implements the match.                                        *)

\* Match counts with its own copy of FiniteSets.
LEMMA SameCounting ==
  ASSUME NEW S
  PROVE  M!IsFiniteSet(S) = IsFiniteSet(S) /\ M!Cardinality(S) = Cardinality(S)
  BY DEF M!IsFiniteSet, IsFiniteSet, M!Cardinality, Cardinality

LEMMA InitRefines == Init => M!Init
<1> SUFFICES ASSUME NEW host \in PlayerID, game = NewEngine(host) PROVE M!Init
  BY DEF Init
<1>1. /\ game.phase = "lobby" /\ game.players = <<host>> /\ game.round = 0
      /\ game.impostor = Nobody /\ game.score = ZeroScore
  BY DEF NewEngine
<1>2. Roster(game) = {host}
  BY <1>1 DEF Roster
<1>3. StageOf(game) = "lobby" /\ PastImpostors(game) = {}
  BY <1>1 DEF StageOf, PastImpostors
<1> QED
  BY <1>1, <1>2, <1>3 DEF M!Init, M!Zero, ZeroScore

LEMMA MatchStepRefines ==
  ASSUME MatchStep(game, game')
  PROVE  [M!Next]_(M!vars)
<1> USE DEF SameRound, M!vars, M!Next, M!Award, Awarded
<1>1. CASE SameMatch(game, game')
  BY <1>1 DEF SameMatch
<1>2. CASE RosterChanges(game, game')
  BY <1>2, SameCounting DEF RosterChanges, M!ChangeRoster
<1>3. CASE MatchBegins(game, game')
  BY <1>3 DEF MatchBegins, M!Begin, M!Zero, ZeroScore
<1>4. CASE Passes(game, game')
  BY <1>4 DEF Passes, M!Discuss, M!Vote, M!Catch
<1>5. CASE Pays(game, game')
  BY <1>5 DEF Pays, M!Evade, M!Resolve
<1>6. CASE RoundFollows(game, game')
  BY <1>6, SameCounting DEF RoundFollows, M!NextRound
<1>7. CASE MatchEnds(game, game')
  BY <1>7, SameCounting DEF MatchEnds, M!GameOver
<1> QED
  BY <1>1, <1>2, <1>3, <1>4, <1>5, <1>6, <1>7 DEF MatchStep

\* The engine (engine.go), with guesses from the web client, is a match as Match
\* promises it: every call is one step of the rules or leaves the match alone.
THEOREM EngineImplementsMatch ==
  ASSUME WebClientOnly
  PROVE  Spec => ImplementsMatch
<1>1. Init => M!Init
  BY InitRefines
<1>2. Inv(game) /\ [Next]_vars => [M!Next]_(M!vars)
  BY NextStep, MatchStepRefines
<1> QED
  BY <1>1, <1>2, InvIsInvariant, PTL DEF Spec, ImplementsMatch, M!Spec

-----------------------------------------------------------------------------
(* What the engine inherits from the match.                                *)

MP == INSTANCE MatchProofs WITH stage    <- StageOf(game),
                                roster   <- Roster(game),
                                round    <- game.round,
                                impostor <- game.impostor,
                                past     <- PastImpostors(game),
                                score    <- game.score

\* M and MP are the same match: M is Match, MP is Match with its theorems.
LEMMA SameSpec == M!Spec <=> MP!Spec
  BY DEF M!Spec, MP!Spec, M!Init, MP!Init, M!Next, MP!Next, M!vars, MP!vars,
         M!ChangeRoster, MP!ChangeRoster, M!Begin, MP!Begin, M!Discuss, MP!Discuss,
         M!Vote, MP!Vote, M!Catch, MP!Catch, M!Evade, MP!Evade, M!Resolve, MP!Resolve,
         M!NextRound, MP!NextRound, M!GameOver, MP!GameOver, M!Award, MP!Award,
         M!Zero, MP!Zero, M!IsFiniteSet, MP!IsFiniteSet, M!Cardinality, MP!Cardinality

LEMMA MatchBoundsScores == ImplementsMatch => []ScoreBound
<1>1. MP!ScoreBound => ScoreBound
  BY DEF ScoreBound, M!ScoreBound, MP!ScoreBound, M!Running, MP!Running, M!Decided,
         MP!Decided, M!IsFiniteSet, MP!IsFiniteSet, M!Cardinality, MP!Cardinality
<1> QED
  BY <1>1, SameSpec, MP!ScoresAreBounded, PTL DEF ImplementsMatch

LEMMA MatchTakesEverybody == ImplementsMatch => []EveryoneWasImpostor
<1>1. MP!EveryoneWasImpostor => EveryoneWasImpostor
  BY DEF EveryoneWasImpostor, M!EveryoneWasImpostor, MP!EveryoneWasImpostor, M!Decided,
         MP!Decided
<1> QED
  BY <1>1, SameSpec, MP!EverybodyWasImpostor, PTL DEF ImplementsMatch

\* Nobody's score exceeds what the decided rounds of the running match were worth:
\* no round is paid twice, and no score survives into a rematch.
THEOREM EngineScoreBound ==
  ASSUME WebClientOnly
  PROVE  Spec => []ScoreBound
  BY EngineImplementsMatch, MatchBoundsScores, PTL

\* A match ends only after every player has been the impostor of a decided round
\* (AdvanceRound ends it at TotalRounds, impostorOrder names one player each).
THEOREM EngineEverybodyWasImpostor ==
  ASSUME WebClientOnly
  PROVE  Spec => []EveryoneWasImpostor
  BY EngineImplementsMatch, MatchTakesEverybody, PTL

=============================================================================
