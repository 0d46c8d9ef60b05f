---------------------------- MODULE EngineProofs ----------------------------
(***************************************************************************)
(* Lemmas about the operators of Engine: what a state keeps whatever calls *)
(* are made of it, and which step of the abstract match (module Match) a   *)
(* call is. They speak of states, not of variables, so that the theorems   *)
(* about the engine alone and those about a room rest on the same proofs.  *)
(***************************************************************************)
EXTENDS Engine, FiniteSetTheorems, SequenceTheorems, TLAPS

-----------------------------------------------------------------------------
(* What every call keeps. The properties of Game are restated over a state *)
(* s, so that lemmas can speak about the operators of Engine.              *)

SeatsDistinct(s) ==
  \A i, j \in 1 .. Len(s.players) : s.players[i] = s.players[j] => i = j

RolesAssigned(s) ==
  s.phase # "lobby" =>
    /\ s.order \in Perms(Len(s.players))
    /\ s.total = Len(s.players)
    /\ s.round \in 1 .. s.total
    /\ s.impostor = ImpostorOf(s, s.round)

TurnValid(s) == s.phase = "drawing" => s.turn < Len(s.players) /\ s.lap < TotalLaps

\* The strengthening: no round and no points before the match, no guess before
\* its reveal, and the recorded guess is that of the round on show.
NotStale(s) ==
  /\ s.phase = "lobby" => s.round = 0 /\ s.score = ZeroScore
  /\ s.phase \in {"drawing", "discussion", "voting"} => s.guess = ""
  /\ s.phase = "reveal" => s.result.guess = s.guess

Verdict(s) ==
  s.phase = "reveal" =>
    IF AwaitingGuess(s) THEN s.result.delta = ZeroScore ELSE s.result.delta \in Outcomes(s)

\* Only seats vote, and none before the vote is open.
VotesValid(s) ==
  /\ Voters(s) \subseteq Roster(s)
  /\ s.phase \in {"lobby", "drawing", "discussion"} => s.votes = NoVotes

Inv(s) ==
  /\ s \in State
  /\ SeatsDistinct(s)
  /\ RolesAssigned(s)
  /\ TurnValid(s)
  /\ VotesValid(s)
  /\ NotStale(s)
  /\ WebClientOnly => Verdict(s)

\* What every call between two rounds leaves alone.
Keeps(s, t) ==
  /\ t.players = s.players /\ t.order = s.order /\ t.total = s.total
  /\ t.round = s.round /\ t.impostor = s.impostor /\ t.host = s.host

-----------------------------------------------------------------------------
(* Lemmas about the operators of Engine. *)

LEMMA ModSmall ==
  ASSUME NEW n \in Nat \ {0}, NEW b \in Nat, n <= b
  PROVE  ((n - 1) % b) + 1 = n
<1>1. n - 1 \in Nat /\ n - 1 < b
  OBVIOUS
<1>2. (n - 1) % b = n - 1
  BY <1>1
<1> QED
  BY <1>1, <1>2

LEMMA PermsType ==
  ASSUME NEW n \in Nat, NEW f \in Perms(n)
  PROVE  /\ f \in Seq(Nat) /\ Len(f) = n
         /\ \A i \in 1 .. n : f[i] \in 1 .. n
  BY DEF Perms

LEMMA BeginRoundLemma ==
  ASSUME NEW s \in State, NEW n \in 1 .. Len(s.players),
         s.order \in Perms(Len(s.players))
  PROVE  LET t == BeginRound(s, n).state
         IN  /\ t \in State
             /\ t = [s EXCEPT !.phase = "drawing", !.round = n,
                              !.impostor = s.players[s.order[n]], !.turn = 0, !.lap = 0,
                              !.votes = NoVotes, !.guess = ""]
             /\ s.players[s.order[n]] \in PlayerID
<1>1. Len(s.players) \in Nat /\ Len(s.order) = Len(s.players)
  BY PermsType DEF State
<1>2. ((n - 1) % Len(s.order)) + 1 = n
  <2>1. n \in Nat \ {0} /\ Len(s.order) \in Nat /\ n <= Len(s.order)
    BY <1>1
  <2> QED
    BY <2>1, ModSmall
<1>3. s.order[n] \in 1 .. Len(s.players)
  BY <1>1, PermsType
<1>4. s.players[s.order[n]] \in PlayerID
  BY <1>3, SMTT(60) DEF State
<1>5. NoVotes \in [PlayerID -> PlayerID \cup {Nobody}]
  BY DEF NoVotes
<1> DEFINE drawer == s.players[s.order[n]]
<1>6. BeginRound(s, n).state = [s EXCEPT !.phase = "drawing", !.round = n,
                                         !.impostor = drawer, !.turn = 0, !.lap = 0,
                                         !.votes = NoVotes, !.guess = ""]
  BY <1>2 DEF BeginRound, Out
<1> HIDE DEF drawer
<1>7. [s EXCEPT !.phase = "drawing", !.round = n, !.impostor = drawer, !.turn = 0,
                !.lap = 0, !.votes = NoVotes, !.guess = ""] \in State
  <2> DEFINE none == NoVotes
  <2>1. none \in [PlayerID -> PlayerID \cup {Nobody}] /\ drawer \in PlayerID /\ n \in Nat
    BY <1>1, <1>4, <1>5 DEF drawer
  <2> HIDE DEF none
  <2>2. [s EXCEPT !.phase = "drawing", !.round = n, !.impostor = drawer, !.turn = 0,
                !.lap = 0, !.votes = none, !.guess = ""] \in State
    BY <2>1 DEF State, Phase, Guess
  <2> QED
    BY <2>2 DEF none
<1> QED
  BY <1>4, <1>6, <1>7 DEF drawer

LEMMA KeepsRoles ==
  ASSUME NEW s, NEW t, Inv(s), t \in State, Keeps(s, t), s.phase # "lobby"
  PROVE  SeatsDistinct(t) /\ RolesAssigned(t)
  BY DEF Inv, Keeps, SeatsDistinct, RolesAssigned, ImpostorOf

LEMMA KeepsVotes ==
  ASSUME NEW s, NEW t, VotesValid(s), t.players = s.players, t.votes = s.votes,
         t.phase \in {"lobby", "drawing", "discussion"} =>
           s.phase \in {"lobby", "drawing", "discussion"}
  PROVE  VotesValid(t)
  BY DEF VotesValid, Voters, HasVoted, Roster

LEMMA NobodyVoted ==
  ASSUME NEW s, s.votes = NoVotes
  PROVE  VotesValid(s)
  BY DEF VotesValid, Voters, HasVoted, NoVotes

LEMMA AdvanceTurnLemma ==
  ASSUME NEW s \in State, s.turn < Len(s.players), s.lap < TotalLaps,
         s.phase = "drawing"
  PROVE  LET t == AdvanceTurn(s).state
         IN  /\ t \in State /\ Keeps(s, t)
             /\ t.guess = s.guess /\ t.score = s.score /\ t.votes = s.votes
             /\ t.phase \in {"drawing", "discussion"}
             /\ TurnValid(t)
<1>1. Len(s.players) \in Nat /\ s.turn \in Nat /\ s.lap \in Nat /\ TotalLaps \in Nat
  BY BoundsAssumption DEF State
<1> DEFINE turn == IF LastOfLap(s) THEN 0 ELSE s.turn + 1
           lap  == IF LastOfLap(s) THEN s.lap + 1 ELSE s.lap
           t    == AdvanceTurn(s).state
<1>2. turn \in Nat /\ lap \in Nat
  BY <1>1
<1>3. turn < Len(s.players)
  BY <1>1 DEF LastOfLap
<1>4. CASE LastOfLap(s) /\ lap >= TotalLaps
  <2>1. t = [s EXCEPT !.turn = turn, !.lap = lap, !.phase = "discussion"]
    BY <1>4 DEF AdvanceTurn, Out
  <2> HIDE DEF t, turn, lap
  <2> QED
    BY <1>2, <2>1, ZenonT(60) DEF State, Phase, Keeps, TurnValid, t
<1>5. CASE ~(LastOfLap(s) /\ lap >= TotalLaps)
  <2>1. t = [s EXCEPT !.turn = turn, !.lap = lap]
    BY <1>5 DEF AdvanceTurn, Out
  <2>2. lap < TotalLaps
    BY <1>1, <1>5
  <2> HIDE DEF t, turn, lap
  <2>3. t \in State /\ t.turn = turn /\ t.lap = lap /\ t.players = s.players
    BY <1>2, <2>1 DEF State
  <2>4. TurnValid(t)
    BY <1>3, <2>2, <2>3 DEF TurnValid
  <2> QED
    BY <1>2, <2>1, <2>3, <2>4 DEF State, Keeps, t
<1> QED
  BY <1>4, <1>5

\* A round begun with a fresh impostor order, or the next one of the running order.
LEMMA BeginRoundInv ==
  ASSUME NEW s \in State, NEW n \in 1 .. Len(s.players), SeatsDistinct(s),
         s.order \in Perms(Len(s.players)), s.total = Len(s.players)
  PROVE  Inv(BeginRound(s, n).state)
<1> DEFINE t == BeginRound(s, n).state
<1>1. Len(s.players) \in Nat /\ TotalLaps \in Nat \ {0}
  BY BoundsAssumption DEF State
<1>2. /\ t \in State /\ t.phase = "drawing" /\ t.round = n /\ t.turn = 0 /\ t.lap = 0
      /\ t.guess = "" /\ t.players = s.players /\ t.order = s.order /\ t.total = s.total
      /\ t.impostor = s.players[s.order[n]] /\ t.votes = NoVotes
  <2>1. t \in State /\ t = [s EXCEPT !.phase = "drawing", !.round = n,
                              !.impostor = s.players[s.order[n]], !.turn = 0, !.lap = 0,
                              !.votes = NoVotes, !.guess = ""]
    BY BeginRoundLemma
  <2> QED
    BY <2>1, ZenonT(60) DEF State
<1> HIDE DEF t
<1>3. SeatsDistinct(t)
  BY <1>2 DEF SeatsDistinct
<1>4. RolesAssigned(t)
  BY <1>1, <1>2 DEF RolesAssigned, ImpostorOf
<1>5. TurnValid(t)
  <2>1. 0 < Len(s.players) /\ 0 < TotalLaps
    BY <1>1
  <2> QED
    BY <1>2, <2>1 DEF TurnValid
<1>6. NotStale(t) /\ Verdict(t)
  BY <1>2 DEF NotStale, Verdict
<1>7. VotesValid(t)
  BY <1>2, NobodyVoted
<1> QED
  BY <1>2, <1>3, <1>4, <1>5, <1>6, <1>7 DEF Inv, t

Awarded(score, who, points) ==
  [p \in PlayerID |-> IF p \in who THEN score[p] + points ELSE score[p]]

LEMMA AwardedType ==
  ASSUME NEW score \in [PlayerID -> Nat], NEW who, NEW points \in Nat
  PROVE  Awarded(score, who, points) \in [PlayerID -> Nat]
  BY DEF Awarded

LEMMA ApplyScoreLemma ==
  ASSUME NEW s \in State, NEW who, NEW points \in Nat, NEW t,
         t = ApplyScore(s, who, points)
  PROVE  /\ t \in State /\ Keeps(s, t) /\ t.phase = s.phase /\ t.guess = s.guess
         /\ t.votes = s.votes
         /\ t.score = Awarded(s.score, who, points)
         /\ t.result.delta = Awarded(s.result.delta, who, points)
         /\ t.result.caught = s.result.caught /\ t.result.guess = s.result.guess
         /\ t.result.timedOut = s.result.timedOut
<1> DEFINE score == Awarded(s.score, who, points)
           delta == Awarded(s.result.delta, who, points)
<1>1. score \in [PlayerID -> Nat] /\ delta \in [PlayerID -> Nat]
  BY AwardedType DEF State, RoundResult
<1>2. t = [s EXCEPT !.score = score, !.result.delta = delta]
  BY DEF ApplyScore, Awarded
<1> HIDE DEF score, delta
<1>3. t = [s EXCEPT !.score = score, !.result = [s.result EXCEPT !.delta = delta]]
  BY <1>2 DEF State
<1> DEFINE result == [s.result EXCEPT !.delta = delta]
<1>4. /\ result \in RoundResult /\ result.delta = delta
      /\ result.caught = s.result.caught /\ result.guess = s.result.guess
      /\ result.timedOut = s.result.timedOut
  BY <1>1 DEF State, RoundResult
<1> HIDE DEF result
<1>5. t = [s EXCEPT !.score = score, !.result = result]
  BY <1>3 DEF result
<1>6. t \in State /\ Keeps(s, t) /\ t.phase = s.phase /\ t.guess = s.guess
      /\ t.score = score /\ t.result = result /\ t.votes = s.votes
  BY <1>1, <1>4, <1>5 DEF State, Keeps
<1> QED
  BY <1>4, <1>6 DEF score, delta

LEMMA FinishVotingLemma ==
  ASSUME NEW s \in State
  PROVE  LET t == FinishVoting(s).state
         IN  /\ t \in State /\ Keeps(s, t) /\ t.phase = "reveal" /\ t.guess = s.guess
             /\ t.result.guess = "" /\ t.votes = s.votes
             /\ (t.result.caught <=> CaughtByPlurality(s)) /\ ~t.result.timedOut
             /\ \/ /\ AwaitingGuess(t)
                   /\ t.score = s.score
                   /\ t.result.delta = ZeroScore
                \/ /\ ~AwaitingGuess(t)
                   /\ t.score = Awarded(s.score, {s.impostor}, 2)
                   /\ t.result.delta \in Outcomes(t)
<1> DEFINE caught   == CaughtByPlurality(s)
           verdict  == [NoResult EXCEPT !.caught = caught]
           revealed == [s EXCEPT !.phase = "reveal", !.result = verdict]
           t        == FinishVoting(s).state
<1>1. caught \in BOOLEAN
  BY DEF CaughtByPlurality
<1>2. ZeroScore \in [PlayerID -> Nat]
  BY DEF ZeroScore
<1>3. /\ verdict \in RoundResult /\ verdict.caught = caught /\ verdict.guess = ""
      /\ verdict.timedOut = FALSE /\ verdict.delta = ZeroScore
  <2> HIDE DEF caught
  <2> QED
    BY <1>1, <1>2, Zenon DEF NoResult, RoundResult, Guess
<1> HIDE DEF verdict
<1>4. /\ revealed \in State /\ Keeps(s, revealed) /\ revealed.phase = "reveal"
      /\ revealed.guess = s.guess /\ revealed.score = s.score
      /\ revealed.result = verdict /\ revealed.votes = s.votes
  BY <1>3 DEF State, Phase, Keeps
<1>5. t = IF caught THEN revealed ELSE ApplyScore(revealed, {s.impostor}, 2)
  BY DEF FinishVoting, Out, verdict
<1>c. caught = CaughtByPlurality(s)
  OBVIOUS
<1> HIDE DEF revealed, t, caught
<1>6. CASE caught
  <2>1. t = revealed
    BY <1>5, <1>6
  <2>2. AwaitingGuess(t)
    BY <1>3, <1>4, <1>6, <2>1 DEF AwaitingGuess
  <2> QED
    BY <1>3, <1>4, <1>6, <1>c, <2>1, <2>2 DEF t
<1>7. CASE ~caught
  <2>1. t = ApplyScore(revealed, {s.impostor}, 2)
    BY <1>5, <1>7
  <2>2. /\ t \in State /\ Keeps(revealed, t) /\ t.phase = revealed.phase
        /\ t.guess = revealed.guess /\ t.votes = s.votes
        /\ t.score = Awarded(s.score, {s.impostor}, 2)
        /\ t.result.delta = Awarded(ZeroScore, {s.impostor}, 2)
        /\ t.result.guess = "" /\ ~t.result.caught /\ ~t.result.timedOut
    <3> DEFINE who == {s.impostor}
    <3>1. t = ApplyScore(revealed, who, 2)
      BY <2>1
    <3> HIDE DEF who
    <3>2. /\ t \in State /\ Keeps(revealed, t) /\ t.phase = revealed.phase
          /\ t.guess = revealed.guess /\ t.votes = revealed.votes
          /\ t.result.timedOut = revealed.result.timedOut
          /\ t.score = Awarded(revealed.score, who, 2)
          /\ t.result.delta = Awarded(revealed.result.delta, who, 2)
          /\ t.result.caught = revealed.result.caught
          /\ t.result.guess = revealed.result.guess
      BY <1>4, <3>1, ApplyScoreLemma
    <3> QED
      BY <1>3, <1>4, <1>7, <3>2 DEF who
  <2>3. t.result.delta = [p \in PlayerID |-> IF p = s.impostor THEN 2 ELSE 0]
    <3>1. Awarded(ZeroScore, {s.impostor}, 2)
            = [p \in PlayerID |-> IF p = s.impostor THEN 2 ELSE 0]
      BY DEF Awarded, ZeroScore
    <3> QED
      BY <2>2, <3>1
  <2>4. ~AwaitingGuess(t)
    BY <2>2 DEF AwaitingGuess
  <2>5. t.impostor = s.impostor
    BY <1>4, <2>2 DEF Keeps
  <2>6. t.result.delta \in Outcomes(t)
    BY <2>3, <2>5 DEF Outcomes
  <2> QED
    BY <1>1, <1>4, <1>7, <1>c, <2>2, <2>3, <2>4, <2>6 DEF Keeps, t
<1> QED
  BY <1>6, <1>7

\* What a guess or its deadline does to a round that waited for it.
Resolves(s, t) ==
  /\ t \in State /\ Keeps(s, t) /\ t.phase = "reveal" /\ t.votes = s.votes
  /\ t.result.guess = t.guess /\ t.result.caught = s.result.caught
  /\ ~AwaitingGuess(t)
  /\ \/ /\ t.score = Awarded(s.score, {s.impostor}, 2)
        /\ t.result.delta = Awarded(s.result.delta, {s.impostor}, 2)
     \/ /\ t.score = Awarded(s.score, NonImpostors(s), 1)
        /\ t.result.delta = Awarded(s.result.delta, NonImpostors(s), 1)

LEMMA ImpostorGuessLemma ==
  ASSUME NEW s \in State, NEW guess \in Guess, s.phase = "reveal"
  PROVE  LET t == ImpostorGuess(s, guess).state
         IN  /\ t \in State /\ Keeps(s, t) /\ t.phase = "reveal"
             /\ t.result.guess = t.guess /\ t.votes = s.votes
             /\ guess # "" => Resolves(s, t)
<1> DEFINE recorded == [s.result EXCEPT !.guess = guess]
           guessed  == [s EXCEPT !.guess = guess, !.result = recorded]
           who      == IF guess = "right" THEN {s.impostor} ELSE NonImpostors(s)
           points   == IF guess = "right" THEN 2 ELSE 1
           t        == ImpostorGuess(s, guess).state
<1>1. /\ recorded \in RoundResult /\ recorded.guess = guess
      /\ recorded.caught = s.result.caught /\ recorded.delta = s.result.delta
  BY DEF State, RoundResult
<1>2. [s EXCEPT !.guess = guess, !.result.guess = guess] = guessed
  BY DEF State
<1> HIDE DEF recorded
<1>3. /\ guessed \in State /\ Keeps(s, guessed) /\ guessed.phase = "reveal"
      /\ guessed.guess = guess /\ guessed.score = s.score
      /\ guessed.result = recorded /\ guessed.impostor = s.impostor
      /\ guessed.players = s.players /\ guessed.votes = s.votes
  BY <1>1 DEF State, Keeps
<1> HIDE DEF guessed
<1>4. NonImpostors(guessed) = NonImpostors(s)
  BY <1>3 DEF NonImpostors, Roster
<1>5. t = ApplyScore(guessed, who, points)
  BY <1>2, <1>3, <1>4 DEF ImpostorGuess, Out
<1>6. points \in Nat
  OBVIOUS
<1> HIDE DEF who, points, t
<1>7. /\ t \in State /\ Keeps(guessed, t) /\ t.phase = guessed.phase
      /\ t.guess = guessed.guess /\ t.votes = guessed.votes
      /\ t.score = Awarded(guessed.score, who, points)
      /\ t.result.delta = Awarded(guessed.result.delta, who, points)
      /\ t.result.caught = guessed.result.caught
      /\ t.result.guess = guessed.result.guess
  BY <1>3, <1>5, <1>6, ApplyScoreLemma
<1>8. Keeps(s, t)
  BY <1>3, <1>7 DEF Keeps
<1>9. guess # "" => ~AwaitingGuess(t)
  BY <1>1, <1>3, <1>7 DEF AwaitingGuess
<1> QED
  BY <1>1, <1>3, <1>7, <1>8, <1>9 DEF Resolves, who, points, t

LEMMA TimeoutLemma ==
  ASSUME NEW s \in State, s.phase = "reveal", s.result.guess = s.guess
  PROVE  Resolves(s, ResolveImpostorTimeout(s).state)
<1> DEFINE who    == NonImpostors(s)
           scored == ApplyScore(s, who, 1)
           late   == [scored.result EXCEPT !.timedOut = TRUE]
           t      == ResolveImpostorTimeout(s).state
<1>1. t = [scored EXCEPT !.result.timedOut = TRUE]
  BY DEF ResolveImpostorTimeout, Out
<1> HIDE DEF who, t
<1>2. /\ scored \in State /\ Keeps(s, scored) /\ scored.phase = s.phase
      /\ scored.guess = s.guess /\ scored.votes = s.votes
      /\ scored.score = Awarded(s.score, who, 1)
      /\ scored.result.delta = Awarded(s.result.delta, who, 1)
      /\ scored.result.caught = s.result.caught /\ scored.result.guess = s.result.guess
  BY ApplyScoreLemma
<1> HIDE DEF scored
<1>3. /\ late \in RoundResult /\ late.delta = scored.result.delta
      /\ late.caught = scored.result.caught /\ late.guess = scored.result.guess
      /\ late.timedOut
  BY <1>2 DEF State, RoundResult
<1> HIDE DEF late
<1>4. t = [scored EXCEPT !.result = late]
  BY <1>1, <1>2 DEF State, late
<1>5. /\ t \in State /\ Keeps(scored, t) /\ t.phase = scored.phase
      /\ t.guess = scored.guess /\ t.score = scored.score /\ t.result = late
      /\ t.votes = scored.votes
  BY <1>2, <1>3, <1>4 DEF State, Keeps
<1>6. Keeps(s, t)
  BY <1>2, <1>5 DEF Keeps
<1>7. ~AwaitingGuess(t)
  BY <1>3, <1>5 DEF AwaitingGuess
<1> QED
  BY <1>2, <1>3, <1>5, <1>6, <1>7 DEF Resolves, who, t

LEMMA ResolvesVerdict ==
  ASSUME NEW s, NEW t, Resolves(s, t), s.result.delta = ZeroScore
  PROVE  Verdict(t)
<1>1. Outcomes(t) = Outcomes(s)
  BY DEF Resolves, Keeps, Outcomes, NonImpostors, Roster
<1>2. Awarded(ZeroScore, {s.impostor}, 2) \in Outcomes(s)
  <2>1. Awarded(ZeroScore, {s.impostor}, 2)
          = [p \in PlayerID |-> IF p = s.impostor THEN 2 ELSE 0]
    BY DEF Awarded, ZeroScore
  <2> QED
    BY <2>1 DEF Outcomes
<1>3. Awarded(ZeroScore, NonImpostors(s), 1) \in Outcomes(s)
  <2> DEFINE who == NonImpostors(s)
  <2>1. Awarded(ZeroScore, who, 1) = [p \in PlayerID |-> IF p \in who THEN 1 ELSE 0]
    <3> HIDE DEF who
    <3> QED
      BY DEF Awarded, ZeroScore
  <2> QED
    BY <2>1 DEF Outcomes
<1> QED
  BY <1>1, <1>2, <1>3 DEF Resolves, Verdict

LEMMA NewEngineInv ==
  ASSUME NEW host \in PlayerID
  PROVE  Inv(NewEngine(host))
<1> DEFINE t == NewEngine(host)
<1>1. NoVotes \in [PlayerID -> PlayerID \cup {Nobody}] /\ ZeroScore \in [PlayerID -> Nat]
  BY DEF NoVotes, ZeroScore
<1>2. NoResult \in RoundResult
  BY <1>1 DEF NoResult, RoundResult, Guess
<1>3. <<host>> \in Seq(PlayerID) /\ Len(<<host>>) = 1 /\ <<>> \in Seq(Nat)
  OBVIOUS
<1>4. t \in State
  BY <1>1, <1>2, <1>3 DEF NewEngine, State, Phase, Guess
<1>5. /\ t.phase = "lobby" /\ t.round = 0 /\ t.score = ZeroScore /\ t.players = <<host>>
      /\ t.votes = NoVotes
  BY DEF NewEngine
<1> HIDE DEF t
<1>6. VotesValid(t)
  BY <1>5, NobodyVoted
<1> QED
  BY <1>3, <1>4, <1>5, <1>6
  DEF Inv, SeatsDistinct, RolesAssigned, TurnValid, NotStale, Verdict, t

\* A roster change keeps the invariant if seats stay distinct: only the lobby
\* allows it, where no rule depends on the roster yet.
LEMMA RosterChangeInv ==
  ASSUME NEW s, Inv(s), s.phase = "lobby", NEW players \in Seq(PlayerID),
         \A i, j \in 1 .. Len(players) : players[i] = players[j] => i = j
  PROVE  Inv([s EXCEPT !.players = players])
<1> DEFINE t == [s EXCEPT !.players = players]
<1>1. /\ t \in State /\ t.players = players /\ t.phase = "lobby" /\ t.round = s.round
      /\ t.score = s.score /\ t.votes = s.votes
  BY DEF Inv, State
<1> HIDE DEF t
<1>2. VotesValid(t)
  BY <1>1, NobodyVoted DEF Inv, VotesValid
<1>3. Inv(t)
  BY <1>1, <1>2 DEF Inv, SeatsDistinct, RolesAssigned, TurnValid, NotStale, Verdict
<1> QED
  BY <1>3 DEF t

\* What joining and leaving change: the roster and the number of seats.
LEMMA AddPlayerInv ==
  ASSUME NEW s, Inv(s), NEW p \in PlayerID, MayAdd(s, p), NEW t, t = AddPlayer(s, p)
  PROVE  /\ Inv(t) /\ Roster(t) = Roster(s) \cup {p}
         /\ Len(t.players) = Len(s.players) + 1
         /\ t.phase = s.phase /\ t.host = s.host /\ t.impostor = s.impostor
<1> DEFINE players == Append(s.players, p)
<1>1. s.players \in Seq(PlayerID)
  BY DEF Inv, State
<1>2. players \in Seq(PlayerID) /\ Len(players) = Len(s.players) + 1
      /\ \A i \in 1 .. Len(players) :
           players[i] = IF i = Len(players) THEN p ELSE s.players[i]
  BY <1>1
<1>3. \A i \in 1 .. Len(s.players) : s.players[i] # p
  BY DEF MayAdd, Roster
<1>4. \A i, j \in 1 .. Len(players) : players[i] = players[j] => i = j
  BY <1>1, <1>2, <1>3 DEF Inv, SeatsDistinct
<1> HIDE DEF players
<1>e. players = Append(s.players, p)
  BY DEF players
<1>5. Inv([s EXCEPT !.players = players])
  BY <1>2, <1>4, RosterChangeInv DEF MayAdd
<1>6. t = [s EXCEPT !.players = players]
  BY <1>e DEF AddPlayer, Inv, State
<1>7. /\ t.players = players /\ t.phase = s.phase /\ t.host = s.host
      /\ t.impostor = s.impostor
  BY <1>6 DEF Inv, State
<1>8. Roster(t) = Roster(s) \cup {p}
  <2>1. Len(s.players) \in Nat
    BY <1>1
  <2>2. \A i \in 1 .. Len(s.players) : i \in 1 .. Len(players) /\ players[i] = s.players[i]
    BY <1>2, <2>1
  <2>3. Len(players) \in 1 .. Len(players) /\ players[Len(players)] = p
    BY <1>2, <2>1
  <2>4. \A i \in 1 .. Len(players) :
          i = Len(players) \/ i \in 1 .. Len(s.players)
    BY <1>2, <2>1
  <2> QED
    BY <1>2, <1>7, <2>2, <2>3, <2>4 DEF Roster
<1> QED
  BY <1>2, <1>5, <1>6, <1>7, <1>8

LEMMA RemovePlayerInv ==
  ASSUME NEW s, Inv(s), NEW p \in PlayerID, MayRemove(s, p), NEW t, t = RemovePlayer(s, p)
  PROVE  /\ Inv(t) /\ Roster(t) = Roster(s) \ {p}
         /\ Len(t.players) = Len(s.players) - 1
         /\ t.phase = s.phase /\ t.host = s.host /\ t.impostor = s.impostor
<1> DEFINE n       == Len(s.players)
           i       == CHOOSE i \in 1 .. n : s.players[i] = p
           before  == SubSeq(s.players, 1, i - 1)
           after   == SubSeq(s.players, i + 1, n)
           players == before \o after
<1>1. s.players \in Seq(PlayerID) /\ n \in Nat
  BY DEF Inv, State
<1>2. i \in 1 .. n /\ s.players[i] = p
  BY DEF MayRemove, Roster
<1>r. t = [s EXCEPT !.players = players]
  BY DEF RemovePlayer, Inv, State
<1> HIDE DEF i
<1>3. /\ before \in Seq(PlayerID) /\ Len(before) = i - 1
      /\ \A k \in 1 .. i - 1 : before[k] = s.players[k]
  BY <1>1, <1>2
<1>4. /\ after \in Seq(PlayerID) /\ Len(after) = n - i
      /\ \A k \in 1 .. n - i : after[k] = s.players[i + k]
  BY <1>1, <1>2
<1> HIDE DEF before, after
<1>5. /\ players \in Seq(PlayerID) /\ Len(players) = n - 1
      /\ \A k \in 1 .. n - 1 :
           players[k] = IF k <= i - 1 THEN s.players[k] ELSE s.players[k + 1]
  <2>1. players \in Seq(PlayerID) /\ Len(players) = Len(before) + Len(after)
    <3>1. ASSUME NEW b \in Seq(PlayerID), NEW c \in Seq(PlayerID)
          PROVE  b \o c \in Seq(PlayerID) /\ Len(b \o c) = Len(b) + Len(c)
      OBVIOUS
    <3> QED
      BY <1>3, <1>4, <3>1
  <2>2. \A k \in 1 .. Len(before) + Len(after) :
          players[k] = IF k <= Len(before) THEN before[k] ELSE after[k - Len(before)]
    BY <1>3, <1>4
  <2> HIDE DEF players
  <2>3. Len(players) = n - 1
    BY <1>1, <1>2, <1>3, <1>4, <2>1
  <2>4. ASSUME NEW k \in 1 .. n - 1, k <= i - 1 PROVE players[k] = s.players[k]
    BY <1>1, <1>2, <1>3, <1>4, <2>2, <2>4, SMTT(60)
  <2>5. ASSUME NEW k \in 1 .. n - 1, ~(k <= i - 1) PROVE players[k] = s.players[k + 1]
    <3>1. players[k] = after[k - (i - 1)]
      <4>1. k \in 1 .. Len(before) + Len(after) /\ ~(k <= Len(before))
        BY <1>1, <1>2, <1>3, <1>4, <2>5
      <4>2. players[k] = after[k - Len(before)]
        BY <2>2, <4>1
      <4> QED
        BY <1>3, <4>2
    <3>2. k - (i - 1) \in 1 .. n - i /\ i + (k - (i - 1)) = k + 1
      BY <1>1, <1>2, <2>5
    <3> QED
      BY <1>4, <3>1, <3>2
  <2> QED
    BY <2>1, <2>3, <2>4, <2>5
<1> HIDE DEF players
<1>6. \A j, k \in 1 .. Len(players) : players[j] = players[k] => j = k
  BY <1>1, <1>2, <1>5 DEF Inv, SeatsDistinct
<1>7. Inv([s EXCEPT !.players = players])
  BY <1>5, <1>6, RosterChangeInv DEF MayRemove
<1>8. /\ t.players = players /\ t.phase = s.phase /\ t.host = s.host
      /\ t.impostor = s.impostor
  BY <1>r DEF Inv, State
<1>9. Roster(t) = Roster(s) \ {p}
  <2>1. \A k \in 1 .. n : s.players[k] = p => k = i
    BY <1>2 DEF Inv, SeatsDistinct
  <2>2. \A k \in 1 .. n - 1 : players[k] # p /\ \E j \in 1 .. n : players[k] = s.players[j]
    BY <1>1, <1>2, <1>5, <2>1
  <2>3. \A k \in 1 .. n : k < i => k \in 1 .. n - 1 /\ players[k] = s.players[k]
    BY <1>1, <1>2, <1>5
  <2>4. ASSUME NEW k \in 1 .. n, k > i PROVE k - 1 \in 1 .. n - 1 /\ players[k - 1] = s.players[k]
    <3>1. k - 1 \in 1 .. n - 1 /\ ~(k - 1 <= i - 1) /\ (k - 1) + 1 = k
      BY <1>1, <1>2, <2>4
    <3> QED
      BY <1>5, <3>1
  <2>5. \A k \in 1 .. n : k = i \/ k < i \/ k > i
    BY <1>1, <1>2
  <2>6. Roster(t) = {players[k] : k \in 1 .. n - 1}
    BY <1>5, <1>8 DEF Roster
  <2>7. \A q \in Roster(s) \ {p} : q \in Roster(t)
    BY <1>2, <2>3, <2>4, <2>5, <2>6, ZenonT(60) DEF Roster
  <2>8. \A q \in Roster(t) : q \in Roster(s) /\ q # p
    <3>1. ASSUME NEW q \in Roster(t) PROVE q \in Roster(s) /\ q # p
      <4>1. PICK k \in 1 .. n - 1 : q = players[k]
        BY <2>6
      <4>2. PICK j \in 1 .. n : players[k] = s.players[j]
        BY <2>2
      <4>3. q # p
        BY <2>2, <4>1
      <4> QED
        BY <4>1, <4>2, <4>3 DEF Roster
    <3> QED
      BY <3>1
  <2> QED
    BY <2>7, <2>8
<1> QED
  BY <1>5, <1>7, <1>8, <1>9, <1>r

LEMMA SetHostInv ==
  ASSUME NEW s, Inv(s), NEW p \in PlayerID
  PROVE  Inv(SetHostID(s, p))
<1> DEFINE t == SetHostID(s, p)
<1>1. /\ t \in State /\ t.players = s.players /\ t.phase = s.phase /\ t.round = s.round
      /\ t.order = s.order /\ t.total = s.total /\ t.impostor = s.impostor
      /\ t.turn = s.turn /\ t.lap = s.lap /\ t.guess = s.guess /\ t.result = s.result
      /\ t.score = s.score /\ t.votes = s.votes
  BY DEF Inv, State, SetHostID
<1> HIDE DEF t
<1>2. SeatsDistinct(t) /\ RolesAssigned(t) /\ TurnValid(t) /\ NotStale(t) /\ VotesValid(t)
  BY <1>1, KeepsVotes DEF Inv, SeatsDistinct, RolesAssigned, TurnValid, NotStale, ImpostorOf
<1>3. Outcomes(t) = Outcomes(s) /\ (AwaitingGuess(t) <=> AwaitingGuess(s))
  BY <1>1 DEF Outcomes, NonImpostors, Roster, AwaitingGuess
<1>4. WebClientOnly => Verdict(t)
  BY <1>1, <1>3 DEF Inv, Verdict
<1>5. Inv(t)
  BY <1>1, <1>2, <1>4 DEF Inv
<1> QED
  BY <1>5 DEF t

\* The first round of a match, whose impostor order was drawn for this roster.
LEMMA FirstRoundInv ==
  ASSUME NEW s, Inv(s), NEW perm \in Perms(Len(s.players)), Len(s.players) >= MinPlayers,
         NEW score \in [PlayerID -> Nat], NEW result \in RoundResult
  PROVE  Inv(BeginRound([s EXCEPT !.score = score, !.result = result,
                                  !.total = Len(s.players), !.order = perm], 1).state)
<1> DEFINE drawn == [s EXCEPT !.score = score, !.result = result,
                              !.total = Len(s.players), !.order = perm]
<1>1. Len(s.players) \in Nat /\ perm \in Seq(Nat)
  BY PermsType DEF Inv, State
<1>2. /\ drawn \in State /\ drawn.players = s.players /\ drawn.order = perm
      /\ drawn.total = Len(s.players)
  BY <1>1 DEF Inv, State
<1> HIDE DEF drawn
<1>3. 1 \in 1 .. Len(drawn.players) /\ SeatsDistinct(drawn)
  BY <1>1, <1>2, BoundsAssumption DEF Inv, SeatsDistinct
<1>4. Inv(BeginRound(drawn, 1).state)
  BY <1>2, <1>3, BeginRoundInv
<1> QED
  BY <1>4 DEF drawn

LEMMA TurnInv ==
  ASSUME NEW s, Inv(s), s.phase = "drawing"
  PROVE  Inv(AdvanceTurn(s).state)
<1> DEFINE t == AdvanceTurn(s).state
<1>1. s \in State /\ s.turn < Len(s.players) /\ s.lap < TotalLaps /\ s.guess = ""
  BY DEF Inv, TurnValid, NotStale
<1>2. /\ t \in State /\ Keeps(s, t) /\ t.guess = s.guess /\ t.votes = s.votes
      /\ t.phase \in {"drawing", "discussion"} /\ TurnValid(t)
  BY <1>1, AdvanceTurnLemma
<1> HIDE DEF t
<1>3. SeatsDistinct(t) /\ RolesAssigned(t)
  BY <1>2, KeepsRoles
<1>4. NotStale(t) /\ Verdict(t) /\ VotesValid(t)
  BY <1>1, <1>2, KeepsVotes DEF Inv, Keeps, NotStale, Verdict
<1>5. Inv(t)
  BY <1>2, <1>3, <1>4 DEF Inv
<1> QED
  BY <1>5 DEF t

LEMMA EndDiscussionInv ==
  ASSUME NEW s, Inv(s), s.phase = "discussion"
  PROVE  Inv(EndDiscussion(s).state) /\ Keeps(s, EndDiscussion(s).state)
<1> DEFINE t == EndDiscussion(s).state
<1>1. t = [s EXCEPT !.phase = "voting"]
  BY DEF EndDiscussion, Out
<1>2. /\ t \in State /\ Keeps(s, t) /\ t.guess = s.guess /\ t.phase = "voting"
      /\ t.votes = s.votes
  BY <1>1 DEF Inv, State, Phase, Keeps
<1> HIDE DEF t
<1>3. SeatsDistinct(t) /\ RolesAssigned(t)
  BY <1>2, KeepsRoles
<1>4. TurnValid(t) /\ NotStale(t) /\ Verdict(t) /\ VotesValid(t)
  BY <1>2, KeepsVotes DEF Inv, Keeps, TurnValid, NotStale, Verdict
<1>5. Inv(t)
  BY <1>2, <1>3, <1>4 DEF Inv
<1> QED
  BY <1>2, <1>5 DEF t

LEMMA FinishVotingInv ==
  ASSUME NEW s, Inv(s), s.phase = "voting"
  PROVE  Inv(FinishVoting(s).state)
<1> DEFINE t == FinishVoting(s).state
<1>1. s \in State /\ s.guess = ""
  BY DEF Inv, NotStale
<1>2. /\ t \in State /\ Keeps(s, t) /\ t.phase = "reveal" /\ t.guess = s.guess
      /\ t.result.guess = "" /\ t.votes = s.votes
      /\ IF AwaitingGuess(t) THEN t.result.delta = ZeroScore
                             ELSE t.result.delta \in Outcomes(t)
  BY <1>1, FinishVotingLemma
<1> HIDE DEF t
<1>3. SeatsDistinct(t) /\ RolesAssigned(t)
  BY <1>2, KeepsRoles
<1>4. TurnValid(t) /\ NotStale(t) /\ Verdict(t) /\ VotesValid(t)
  BY <1>1, <1>2, KeepsVotes DEF Inv, Keeps, TurnValid, NotStale, Verdict
<1>5. Inv(t)
  BY <1>2, <1>3, <1>4 DEF Inv
<1> QED
  BY <1>5 DEF t

\* A vote alone changes nothing the invariant reads.
LEMMA VotedInv ==
  ASSUME NEW s, Inv(s), s.phase = "voting", NEW voter \in Roster(s), NEW target \in PlayerID
  PROVE  LET t == [s EXCEPT !.votes[voter] = target]
         IN  Inv(t) /\ t.phase = "voting" /\ Keeps(s, t) /\ t.score = s.score
<1> DEFINE t == [s EXCEPT !.votes[voter] = target]
<1>1. t \in State /\ Keeps(s, t) /\ t.guess = s.guess /\ t.phase = "voting"
      /\ t.score = s.score
  BY DEF Inv, State, Keeps
<1> HIDE DEF t
<1>2. SeatsDistinct(t) /\ RolesAssigned(t)
  BY <1>1, KeepsRoles
<1>v. VotesValid(t)
  <2>1. Voters(t) \subseteq Voters(s) \cup {voter}
    BY DEF Inv, State, Voters, HasVoted, t
  <2> QED
    BY <1>1, <2>1 DEF Inv, VotesValid, Keeps, Roster
<1>3. TurnValid(t) /\ NotStale(t) /\ Verdict(t) /\ VotesValid(t)
  BY <1>1, <1>v DEF Inv, TurnValid, NotStale, Verdict
<1>4. Inv(t)
  BY <1>1, <1>2, <1>3 DEF Inv
<1> QED
  BY <1>1, <1>4 DEF t

LEMMA ResolvesInv ==
  ASSUME NEW s, Inv(s), s.phase = "reveal", NEW t, Resolves(s, t),
         WebClientOnly => AwaitingGuess(s)
  PROVE  Inv(t)
<1>1. SeatsDistinct(t) /\ RolesAssigned(t)
  BY KeepsRoles DEF Resolves
<1>2. WebClientOnly => Verdict(t)
  BY ResolvesVerdict DEF Inv, Verdict
<1>3. TurnValid(t) /\ NotStale(t) /\ VotesValid(t)
  BY KeepsVotes DEF Inv, Keeps, Resolves, TurnValid, NotStale
<1> QED
  BY <1>1, <1>2, <1>3 DEF Inv, Resolves

\* Of the web client's guesses the engine takes those it awaits: the second one and
\* the late one are refused.
LEMMA GuessAwaited ==
  ASSUME NEW s, Inv(s), WebClientOnly, NEW by, NEW guess, MayGuess(s, by),
         ClientSends(s, by, guess)
  PROVE  AwaitingGuess(s) /\ guess # ""
  BY DEF Inv, NotStale, MayGuess, GuessAlreadyResolved, ClientSends, AwaitingGuess

LEMMA GuessInv ==
  ASSUME NEW s, Inv(s), NEW by, NEW guess \in Guess, MayGuess(s, by), ClientSends(s, by, guess)
  PROVE  Inv(ImpostorGuess(s, guess).state)
<1> DEFINE t == ImpostorGuess(s, guess).state
<1>1. s \in State /\ s.phase = "reveal"
  BY DEF Inv, MayGuess
<1>2. /\ t \in State /\ Keeps(s, t) /\ t.phase = "reveal" /\ t.result.guess = t.guess
      /\ t.votes = s.votes
      /\ guess # "" => Resolves(s, t)
  BY <1>1, ImpostorGuessLemma
<1> HIDE DEF t
<1>3. CASE guess # ""
  <2>1. WebClientOnly => AwaitingGuess(s)
    BY GuessAwaited
  <2> QED
    BY <1>1, <1>2, <1>3, <2>1, ResolvesInv DEF t
<1>4. CASE guess = ""
  <2>1. ~WebClientOnly
    BY <1>4 DEF ClientSends
  <2>2. SeatsDistinct(t) /\ RolesAssigned(t)
    BY <1>1, <1>2, KeepsRoles
  <2>3. TurnValid(t) /\ NotStale(t) /\ VotesValid(t)
    BY <1>2, KeepsVotes DEF Inv, Keeps, TurnValid, NotStale
  <2>4. Inv(t)
    BY <1>2, <2>1, <2>2, <2>3 DEF Inv
  <2> QED
    BY <2>4 DEF t
<1> QED
  BY <1>3, <1>4

LEMMA TimeoutInv ==
  ASSUME NEW s, Inv(s), MayTimeOutGuess(s)
  PROVE  /\ Inv(ResolveImpostorTimeout(s).state)
         /\ AwaitingGuess(s)
         /\ Resolves(s, ResolveImpostorTimeout(s).state)
<1>1. s \in State /\ s.phase = "reveal" /\ s.result.guess = s.guess
  BY DEF Inv, MayTimeOutGuess, NotStale
<1>2. AwaitingGuess(s)
  BY <1>1 DEF MayTimeOutGuess, GuessAlreadyResolved, AwaitingGuess
<1>3. Resolves(s, ResolveImpostorTimeout(s).state)
  BY <1>1, TimeoutLemma
<1> QED
  BY <1>1, <1>2, <1>3, ResolvesInv

\* Either the last round was played and only the phase changes, or the next begins.
LEMMA AdvanceRoundInv ==
  ASSUME NEW s, Inv(s), MayAdvance(s)
  PROVE  LET t == AdvanceRound(s).state
         IN  /\ Inv(t)
             /\ \/ /\ s.round = s.total /\ t.phase = "game_over"
                   /\ Keeps(s, t) /\ t.score = s.score
                \/ /\ s.round + 1 \in 1 .. s.total
                   /\ t = BeginRound(s, s.round + 1).state
<1> DEFINE t == AdvanceRound(s).state
<1>1. /\ s \in State /\ s.phase = "reveal" /\ s.order \in Perms(Len(s.players))
      /\ s.total = Len(s.players) /\ s.round \in 1 .. s.total /\ SeatsDistinct(s)
  BY DEF Inv, MayAdvance, RolesAssigned
<1>2. s.total \in Nat
  BY <1>1 DEF State
<1>3. CASE s.round >= s.total
  <2>1. t = [s EXCEPT !.phase = "game_over"] /\ s.round = s.total
    BY <1>1, <1>2, <1>3 DEF AdvanceRound, Out
  <2>2. /\ t \in State /\ Keeps(s, t) /\ t.phase = "game_over" /\ t.score = s.score
        /\ t.votes = s.votes
    BY <1>1, <2>1 DEF State, Phase, Keeps
  <2> HIDE DEF t
  <2>3. SeatsDistinct(t) /\ RolesAssigned(t)
    BY <1>1, <2>2, KeepsRoles
  <2>4. TurnValid(t) /\ NotStale(t) /\ Verdict(t) /\ VotesValid(t)
    BY <2>2, KeepsVotes DEF Inv, Keeps, TurnValid, NotStale, Verdict
  <2>5. Inv(t)
    BY <2>2, <2>3, <2>4 DEF Inv
  <2> QED
    BY <2>1, <2>2, <2>5 DEF t
<1>4. CASE ~(s.round >= s.total)
  <2>1. t = BeginRound(s, s.round + 1).state
    BY <1>4 DEF AdvanceRound
  <2>2. s.round + 1 \in 1 .. Len(s.players)
    BY <1>1, <1>2, <1>4
  <2>3. Inv(BeginRound(s, s.round + 1).state)
    BY <1>1, <2>2, BeginRoundInv
  <2> HIDE DEF t
  <2> QED
    BY <1>1, <2>1, <2>2, <2>3 DEF t
<1> QED
  BY <1>3, <1>4

-----------------------------------------------------------------------------
(* A state as a state of the match.                                        *)

\* Seats are distinct, so the roster has as many players as seats.
LEMMA RosterSize ==
  ASSUME NEW s, Inv(s)
  PROVE  IsFiniteSet(Roster(s)) /\ Cardinality(Roster(s)) = Len(s.players)
<1> DEFINE n == Len(s.players)
           f == [i \in 1 .. n |-> s.players[i]]
<1>1. n \in Nat
  BY DEF Inv, State
<1>2. f \in Injection(1 .. n, Roster(s))
  BY <1>1 DEF Inv, SeatsDistinct, Roster, Injection, IsInjective
<1>3. f \in Surjection(1 .. n, Roster(s))
  BY <1>1 DEF Roster, Surjection
<1>4. ExistsBijection(1 .. n, Roster(s))
  BY <1>2, <1>3 DEF ExistsBijection, Bijection
<1>5. IsFiniteSet(1 .. n) /\ Cardinality(1 .. n) = n
  BY <1>1, FS_Interval
<1> QED
  BY <1>1, <1>4, <1>5, FS_Bijection

LEMMA RosterType ==
  ASSUME NEW s \in State
  PROVE  Roster(s) \subseteq PlayerID
  BY DEF State, Roster

LEMMA KeepsMatch ==
  ASSUME NEW s, NEW t, Keeps(s, t)
  PROVE  /\ Roster(t) = Roster(s) /\ t.round = s.round /\ t.impostor = s.impostor
         /\ PastImpostors(t) = PastImpostors(s)
  BY DEF Keeps, Roster, PastImpostors, ImpostorOf

\* The impostor of the n-th round is on the roster, and another one each round.
LEMMA ImpostorsDiffer ==
  ASSUME NEW s, Inv(s), NEW order \in Perms(Len(s.players))
  PROVE  /\ \A n \in 1 .. Len(s.players) : s.players[order[n]] \in Roster(s)
         /\ \A m, n \in 1 .. Len(s.players) :
              s.players[order[m]] = s.players[order[n]] => m = n
<1>1. Len(s.players) \in Nat
  BY DEF Inv, State
<1>2. \A n \in 1 .. Len(s.players) : order[n] \in 1 .. Len(s.players)
  BY <1>1, PermsType
<1>3. \A m, n \in 1 .. Len(s.players) : order[m] = order[n] => m = n
  BY DEF Perms
<1> QED
  BY <1>1, <1>2, <1>3 DEF Roster, Inv, SeatsDistinct

-----------------------------------------------------------------------------
(* The step of the match from a state to another.                          *)

\* What only the roster, or only the beginning of a round, changes.
SameRound(s, t) ==
  /\ Roster(t) = Roster(s) /\ t.round = s.round /\ t.impostor = s.impostor
  /\ PastImpostors(t) = PastImpostors(s)

SameMatch(s, t) == SameRound(s, t) /\ StageOf(t) = StageOf(s) /\ t.score = s.score

RosterChanges(s, t) ==
  /\ StageOf(s) = "lobby" /\ StageOf(t) = "lobby"
  /\ IsFiniteSet(Roster(t)) /\ Roster(t) \subseteq PlayerID
  /\ t.round = s.round /\ t.impostor = s.impostor /\ t.score = s.score
  /\ PastImpostors(t) = PastImpostors(s)

MatchBegins(s, t) ==
  /\ StageOf(s) \in {"lobby", "over"} /\ StageOf(t) = "drawing"
  /\ Roster(t) = Roster(s) /\ t.round = 1 /\ t.impostor \in Roster(s)
  /\ PastImpostors(t) = {} /\ t.score = ZeroScore

\* The stages a round passes through, and those of them that give no points.
Passes(s, t) ==
  /\ SameRound(s, t) /\ t.score = s.score
  /\ <<StageOf(s), StageOf(t)>> \in {<<"drawing", "discussion">>, <<"discussion", "voting">>,
                                      <<"voting", "awaiting">>}

Pays(s, t) ==
  /\ SameRound(s, t) /\ StageOf(t) = "settled"
  /\ \/ /\ StageOf(s) \in {"voting", "awaiting"}
        /\ t.score = Awarded(s.score, {s.impostor}, 2)
     \/ /\ StageOf(s) = "awaiting"
        /\ t.score = Awarded(s.score, Roster(s) \ {s.impostor}, 1)

RoundFollows(s, t) ==
  /\ StageOf(s) = "settled" /\ StageOf(t) = "drawing"
  /\ s.round < Cardinality(Roster(s))
  /\ Roster(t) = Roster(s) /\ t.round = s.round + 1 /\ t.score = s.score
  /\ PastImpostors(t) = PastImpostors(s) \cup {s.impostor}
  /\ t.impostor \in Roster(s) \ PastImpostors(t)

MatchEnds(s, t) ==
  /\ StageOf(s) = "settled" /\ StageOf(t) = "over"
  /\ s.round = Cardinality(Roster(s))
  /\ SameRound(s, t) /\ t.score = s.score

MatchStep(s, t) ==
  \/ SameMatch(s, t) \/ RosterChanges(s, t) \/ MatchBegins(s, t)
  \/ Passes(s, t) \/ Pays(s, t) \/ RoundFollows(s, t) \/ MatchEnds(s, t)

\* A stutter before or after a step is not seen.
LEMMA StutterBefore ==
  ASSUME NEW s, NEW t, NEW u, SameMatch(s, t), MatchStep(t, u)
  PROVE  MatchStep(s, u)
  BY DEF MatchStep, SameMatch, SameRound, RosterChanges, MatchBegins, Passes, Pays,
         RoundFollows, MatchEnds

LEMMA StutterAfter ==
  ASSUME NEW s, NEW t, NEW u, MatchStep(s, t), SameMatch(t, u)
  PROVE  MatchStep(s, u)
  BY DEF MatchStep, SameMatch, SameRound, RosterChanges, MatchBegins, Passes, Pays,
         RoundFollows, MatchEnds

LEMMA RosterStep ==
  ASSUME NEW s, NEW t, Inv(s), Inv(t), s.phase = "lobby", t.phase = "lobby",
         t.impostor = s.impostor
  PROVE  RosterChanges(s, t)
<1>1. IsFiniteSet(Roster(t)) /\ Roster(t) \subseteq PlayerID
  BY RosterSize, RosterType DEF Inv
<1>2. s.round = 0 /\ t.round = 0 /\ s.score = ZeroScore /\ t.score = ZeroScore
  BY DEF Inv, NotStale
<1>3. PastImpostors(s) = {} /\ PastImpostors(t) = {}
  BY <1>2 DEF PastImpostors
<1>4. StageOf(s) = "lobby" /\ StageOf(t) = "lobby"
  BY DEF StageOf
<1> QED
  BY <1>1, <1>2, <1>3, <1>4 DEF RosterChanges

LEMMA SetHostStep ==
  ASSUME NEW s \in State, NEW p \in PlayerID
  PROVE  SameMatch(s, SetHostID(s, p))
<1> DEFINE t == SetHostID(s, p)
<1>1. /\ t.players = s.players /\ t.phase = s.phase /\ t.round = s.round
      /\ t.order = s.order /\ t.impostor = s.impostor /\ t.score = s.score
      /\ t.result = s.result
  BY DEF State, SetHostID
<1> HIDE DEF t
<1>2. SameMatch(s, t)
  BY <1>1 DEF SameMatch, SameRound, Roster, PastImpostors, ImpostorOf, StageOf, AwaitingGuess
<1> QED
  BY <1>2 DEF t

\* A state as a match starts from it, its impostor order drawn.
Drawn(s, perm, result) ==
  [s EXCEPT !.score = ZeroScore, !.result = result, !.total = Len(s.players), !.order = perm]

LEMMA BeginStep ==
  ASSUME NEW s, Inv(s), s.phase \in {"lobby", "game_over"}, Len(s.players) >= MinPlayers,
         NEW perm \in Perms(Len(s.players)), NEW result \in RoundResult,
         NEW t, t = BeginRound(Drawn(s, perm, result), 1).state
  PROVE  /\ Inv(t) /\ MatchBegins(s, t)
         /\ t.phase = "drawing" /\ t.players = s.players /\ t.host = s.host
<1> DEFINE drawn == Drawn(s, perm, result)
<1>1. Len(s.players) \in Nat /\ perm \in Seq(Nat) /\ ZeroScore \in [PlayerID -> Nat]
  <2>1. Len(s.players) \in Nat
    BY DEF Inv, State
  <2> QED
    BY <2>1, PermsType DEF ZeroScore
<1>2. /\ drawn \in State /\ drawn.players = s.players /\ drawn.order = perm
      /\ drawn.score = ZeroScore /\ drawn.host = s.host
  BY <1>1 DEF Inv, State, Drawn
<1>0. Inv(t)
  BY <1>1, FirstRoundInv DEF Drawn
<1> HIDE DEF drawn
<1>3. 1 \in 1 .. Len(drawn.players)
  BY <1>1, <1>2, BoundsAssumption
<1>4. /\ drawn.order \in Perms(Len(drawn.players))
      /\ t = BeginRound(drawn, 1).state
  BY <1>2 DEF drawn, Drawn
<1>5. t = [drawn EXCEPT !.phase = "drawing", !.round = 1,
                        !.impostor = drawn.players[drawn.order[1]], !.turn = 0,
                        !.lap = 0, !.votes = NoVotes, !.guess = ""]
  BY <1>2, <1>3, <1>4, BeginRoundLemma
<1>6. /\ t.phase = "drawing" /\ t.round = 1 /\ t.players = s.players
      /\ t.impostor = s.players[perm[1]] /\ t.score = ZeroScore /\ t.host = s.host
  BY <1>2, <1>5, ZenonT(60) DEF State
<1>7. t.impostor \in Roster(s)
  BY <1>2, <1>3, <1>6, ImpostorsDiffer
<1>8. Roster(t) = Roster(s) /\ PastImpostors(t) = {}
  BY <1>6 DEF Roster, PastImpostors
<1>9. StageOf(s) \in {"lobby", "over"} /\ StageOf(t) = "drawing"
  BY <1>6 DEF StageOf
<1> QED
  BY <1>0, <1>6, <1>7, <1>8, <1>9 DEF MatchBegins

LEMMA StartStep ==
  ASSUME NEW s, Inv(s), NEW by, MayStart(s, by), NEW perm \in Perms(Len(s.players)),
         NEW t, t = StartGame(s, perm).state
  PROVE  /\ Inv(t) /\ MatchStep(s, t)
         /\ t.phase = "drawing" /\ t.players = s.players /\ t.host = s.host
<1>1. s \in State /\ s.phase = "lobby" /\ Len(s.players) >= MinPlayers /\ s.score = ZeroScore
  BY DEF MayStart, Inv, NotStale
<1>2. s.result \in RoundResult
  BY <1>1 DEF State
<1>3. [s EXCEPT !.total = Len(s.players), !.order = perm] = Drawn(s, perm, s.result)
  BY <1>1 DEF State, Drawn
<1>4. t = BeginRound(Drawn(s, perm, s.result), 1).state
  BY <1>3 DEF StartGame
<1>5. s.phase \in {"lobby", "game_over"} /\ Len(s.players) >= MinPlayers
  BY <1>1
<1>6. MatchBegins(s, t) /\ Inv(t) /\ t.phase = "drawing" /\ t.players = s.players
      /\ t.host = s.host
  BY <1>2, <1>4, <1>5, BeginStep
<1> QED
  BY <1>6 DEF MatchStep

LEMMA RestartStep ==
  ASSUME NEW s, Inv(s), NEW by, MayRestart(s, by), NEW perm \in Perms(Len(s.players)),
         NEW t, t = Restart(s, perm).state
  PROVE  /\ Inv(t) /\ MatchStep(s, t)
         /\ t.phase = "drawing" /\ t.players = s.players /\ t.host = s.host
<1>1. s.phase = "game_over" /\ Len(s.players) >= MinPlayers
  BY DEF MayRestart
<1>2. NoResult \in RoundResult
  BY DEF ZeroScore, NoResult, RoundResult, Guess
<1>3. t = BeginRound(Drawn(s, perm, NoResult), 1).state
  BY DEF Restart, Drawn
<1>4. s.phase \in {"lobby", "game_over"} /\ Len(s.players) >= MinPlayers
  BY <1>1
<1>5. MatchBegins(s, t) /\ Inv(t) /\ t.phase = "drawing" /\ t.players = s.players
      /\ t.host = s.host
  BY <1>2, <1>3, <1>4, BeginStep
<1> QED
  BY <1>5 DEF MatchStep

LEMMA TurnStep ==
  ASSUME NEW s, Inv(s), s.phase = "drawing", NEW t, t = AdvanceTurn(s).state
  PROVE  /\ Inv(t) /\ MatchStep(s, t) /\ Keeps(s, t) /\ t.phase \in {"drawing", "discussion"}
<1>1. s \in State /\ s.turn < Len(s.players) /\ s.lap < TotalLaps
  BY DEF Inv, TurnValid
<1>2. Keeps(s, t) /\ t.score = s.score /\ t.phase \in {"drawing", "discussion"}
  BY <1>1, AdvanceTurnLemma
<1>3. SameRound(s, t)
  BY <1>2, KeepsMatch DEF SameRound
<1>4. StageOf(s) = "drawing" /\ StageOf(t) = t.phase
  BY <1>2 DEF StageOf
<1> QED
  BY <1>2, <1>3, <1>4, TurnInv DEF MatchStep, SameMatch, Passes

LEMMA EndDiscussionStep ==
  ASSUME NEW s, Inv(s), s.phase = "discussion", NEW t, t = EndDiscussion(s).state
  PROVE  /\ Inv(t) /\ MatchStep(s, t) /\ Keeps(s, t) /\ t.phase = "voting"
         /\ t.votes = s.votes
<1>1. Keeps(s, t) /\ t.score = s.score /\ t.phase = "voting" /\ t.votes = s.votes
  BY DEF Inv, State, EndDiscussion, Out, Keeps
<1>2. SameRound(s, t)
  BY <1>1, KeepsMatch DEF SameRound
<1>3. StageOf(s) = "discussion" /\ StageOf(t) = "voting"
  BY <1>1 DEF StageOf
<1> QED
  BY <1>1, <1>2, <1>3, EndDiscussionInv DEF MatchStep, Passes

\* The verdict: points at once, or a caught impostor that may still guess.
LEMMA VerdictStep ==
  ASSUME NEW s, Inv(s), s.phase = "voting", NEW t, t = FinishVoting(s).state
  PROVE  /\ Inv(t) /\ MatchStep(s, t) /\ Keeps(s, t) /\ t.phase = "reveal"
         /\ t.votes = s.votes /\ (AwaitingGuess(t) <=> t.result.caught)
<1>1. s \in State
  BY DEF Inv
<1>2. /\ Keeps(s, t) /\ t.phase = "reveal" /\ t.votes = s.votes
      /\ t.result.guess = "" /\ ~t.result.timedOut
      /\ \/ AwaitingGuess(t) /\ t.score = s.score
         \/ ~AwaitingGuess(t) /\ t.score = Awarded(s.score, {s.impostor}, 2)
  BY <1>1, FinishVotingLemma
<1>3. SameRound(s, t)
  BY <1>2, KeepsMatch DEF SameRound
<1>4. /\ StageOf(s) = "voting"
      /\ StageOf(t) = IF AwaitingGuess(t) THEN "awaiting" ELSE "settled"
  BY <1>2 DEF StageOf
<1>5. AwaitingGuess(t) <=> t.result.caught
  BY <1>2 DEF AwaitingGuess
<1>6. MatchStep(s, t)
  BY <1>2, <1>3, <1>4 DEF MatchStep, Passes, Pays
<1> QED
  BY <1>2, <1>5, <1>6, FinishVotingInv

LEMMA VoteStep ==
  ASSUME NEW s, Inv(s), NEW voter \in PlayerID, NEW target \in PlayerID,
         MayVote(s, voter, target), NEW t, t = [s EXCEPT !.votes[voter] = target]
  PROVE  /\ Inv(t) /\ SameMatch(s, t) /\ Keeps(s, t) /\ t.phase = "voting"
<1>1. s.phase = "voting" /\ voter \in Roster(s)
  BY DEF MayVote
<1>2. Inv(t) /\ t.phase = "voting" /\ Keeps(s, t) /\ t.score = s.score
  BY <1>1, VotedInv
<1>3. SameRound(s, t)
  BY <1>2, KeepsMatch DEF SameRound
<1>4. StageOf(s) = "voting" /\ StageOf(t) = "voting"
  BY <1>1, <1>2 DEF StageOf
<1> QED
  BY <1>2, <1>3, <1>4 DEF SameMatch

LEMMA ResolveStep ==
  ASSUME NEW s, AwaitingGuess(s), NEW t, Resolves(s, t)
  PROVE  MatchStep(s, t) /\ Settled(t) /\ Keeps(s, t)
<1>1. SameRound(s, t)
  BY KeepsMatch DEF Resolves, SameRound
<1>2. StageOf(s) = "awaiting" /\ StageOf(t) = "settled"
  BY DEF StageOf, Resolves, AwaitingGuess
<1> QED
  BY <1>1, <1>2 DEF MatchStep, Pays, Resolves, NonImpostors, Settled

LEMMA GuessStep ==
  ASSUME NEW s, Inv(s), NEW by, NEW guess \in Guess, MayGuess(s, by), AwaitingGuess(s),
         guess # "", NEW t, t = ImpostorGuess(s, guess).state
  PROVE  /\ Inv(t) /\ MatchStep(s, t) /\ Keeps(s, t) /\ t.phase = "reveal" /\ Settled(t)
         /\ t.votes = s.votes
<1>1. s \in State /\ s.phase = "reveal" /\ ClientSends(s, by, guess)
  BY DEF Inv, MayGuess, ClientSends, AwaitingGuess
<1>2. Resolves(s, t)
  BY <1>1, ImpostorGuessLemma
<1>3. Inv(t)
  BY <1>1, GuessInv
<1>4. MatchStep(s, t) /\ Keeps(s, t) /\ Settled(t)
  BY <1>2, ResolveStep
<1>5. t.phase = "reveal" /\ t.votes = s.votes
  BY <1>2 DEF Resolves
<1> QED
  BY <1>3, <1>4, <1>5

LEMMA TimeoutStep ==
  ASSUME NEW s, Inv(s), MayTimeOutGuess(s), NEW t, t = ResolveImpostorTimeout(s).state
  PROVE  /\ Inv(t) /\ MatchStep(s, t) /\ Keeps(s, t) /\ t.phase = "reveal" /\ Settled(t)
         /\ t.votes = s.votes
<1>1. AwaitingGuess(s) /\ Inv(t) /\ Resolves(s, t)
  BY TimeoutInv
<1>2. MatchStep(s, t) /\ Keeps(s, t) /\ Settled(t)
  BY <1>1, ResolveStep
<1>3. t.phase = "reveal" /\ t.votes = s.votes
  BY <1>1 DEF Resolves
<1> QED
  BY <1>1, <1>2, <1>3

LEMMA AdvanceStep ==
  ASSUME NEW s, Inv(s), Settled(s), NEW t, t = AdvanceRound(s).state
  PROVE  /\ Inv(t) /\ MatchStep(s, t) /\ t.players = s.players /\ t.host = s.host
         /\ t.phase = IF s.round >= s.total THEN "game_over" ELSE "drawing"
<1>1. s.phase = "reveal" /\ ~AwaitingGuess(s) /\ MayAdvance(s)
  BY DEF Settled, MayAdvance
<1>2. /\ s \in State /\ SeatsDistinct(s) /\ s.order \in Perms(Len(s.players))
      /\ s.total = Len(s.players) /\ s.round \in 1 .. s.total
      /\ s.impostor = ImpostorOf(s, s.round) /\ s.round \in Nat /\ s.total \in Nat
  BY <1>1 DEF Inv, RolesAssigned, State
<1>3. Cardinality(Roster(s)) = s.total
  BY <1>2, RosterSize
<1>4. StageOf(s) = "settled"
  BY <1>1 DEF StageOf
<1>5. CASE s.round = s.total /\ t.phase = "game_over" /\ Keeps(s, t) /\ t.score = s.score
  <2>1. SameRound(s, t)
    BY <1>5, KeepsMatch DEF SameRound
  <2>2. StageOf(t) = "over"
    BY <1>5 DEF StageOf
  <2>3. MatchStep(s, t)
    BY <1>3, <1>4, <1>5, <2>1, <2>2 DEF MatchStep, MatchEnds
  <2> QED
    BY <1>1, <1>2, <1>5, <2>3, AdvanceRoundInv DEF Keeps
<1>6. CASE s.round + 1 \in 1 .. s.total /\ t = BeginRound(s, s.round + 1).state
  <2> DEFINE n == s.round + 1
  <2>1. n \in 1 .. Len(s.players) /\ ~(s.round >= s.total)
    BY <1>2, <1>6
  <2>2. t = [s EXCEPT !.phase = "drawing", !.round = n,
                      !.impostor = s.players[s.order[n]], !.turn = 0,
                      !.lap = 0, !.votes = NoVotes, !.guess = ""]
    BY <1>2, <1>6, <2>1, BeginRoundLemma
  <2>3. /\ t.phase = "drawing" /\ t.round = n /\ t.players = s.players
        /\ t.order = s.order /\ t.score = s.score /\ t.host = s.host
        /\ t.impostor = s.players[s.order[n]]
    BY <1>2, <2>2 DEF State
  <2>4. Roster(t) = Roster(s) /\ StageOf(t) = "drawing"
    BY <2>3 DEF Roster, StageOf
  <2>5. PastImpostors(t) = {ImpostorOf(s, m) : m \in 1 .. s.round}
    BY <1>2, <2>3 DEF PastImpostors, ImpostorOf
  <2>6. PastImpostors(t) = PastImpostors(s) \cup {s.impostor}
    <3>1. 1 .. s.round = (1 .. s.round - 1) \cup {s.round}
      BY <1>2
    <3> QED
      BY <1>2, <2>5, <3>1 DEF PastImpostors
  <2>7. t.impostor \in Roster(s) \ PastImpostors(t)
    <3>1. t.impostor \in Roster(s)
      BY <1>2, <2>1, <2>3, ImpostorsDiffer
    <3>2. ASSUME NEW m \in 1 .. s.round PROVE t.impostor # ImpostorOf(s, m)
      <4>1. m \in 1 .. Len(s.players) /\ m # n
        BY <1>2, <3>2
      <4> QED
        BY <1>2, <2>1, <2>3, <4>1, ImpostorsDiffer DEF ImpostorOf
    <3> QED
      BY <2>5, <3>1, <3>2
  <2>8. s.round < Cardinality(Roster(s))
    BY <1>2, <1>3, <1>6
  <2>9. MatchStep(s, t)
    BY <1>4, <2>3, <2>4, <2>6, <2>7, <2>8 DEF MatchStep, RoundFollows
  <2> QED
    BY <1>1, <2>1, <2>3, <2>9, AdvanceRoundInv
<1> QED
  BY <1>1, <1>5, <1>6, AdvanceRoundInv

-----------------------------------------------------------------------------
(* What a call returns.                                                    *)

\* An event put before others.
LEMMA EventAhead ==
  ASSUME NEW a \in EventType, NEW y \in Seq(EventType)
  PROVE  /\ <<a>> \o y \in Seq(EventType) /\ Len(<<a>> \o y) = Len(y) + 1
         /\ (<<a>> \o y)[1] = a
         /\ \A i \in 1 .. Len(y) : (<<a>> \o y)[i + 1] = y[i]
<1> DEFINE x == <<a>>
<1>1. x \in Seq(EventType) /\ Len(x) = 1 /\ x[1] = a
  OBVIOUS
<1> HIDE DEF x
<1>2. /\ x \o y \in Seq(EventType) /\ Len(x \o y) = Len(x) + Len(y)
      /\ \A i \in 1 .. Len(x) + Len(y) :
           (x \o y)[i] = IF i <= Len(x) THEN x[i] ELSE y[i - Len(x)]
  BY <1>1, ConcatProperties
<1> QED
  BY <1>1, <1>2 DEF x

LEMMA EventPair ==
  ASSUME NEW a \in EventType, NEW b \in EventType
  PROVE  <<a>> \o <<b>> = <<a, b>>
<1> DEFINE y == <<b>>
           z == <<a>> \o y
           w == <<a, b>>
<1>1. y \in Seq(EventType) /\ Len(y) = 1 /\ y[1] = b
  OBVIOUS
<1>2. w \in Seq(EventType) /\ Len(w) = 2 /\ w[1] = a /\ w[2] = b
  OBVIOUS
<1> HIDE DEF y, w
<1>3. z \in Seq(EventType) /\ Len(z) = 2 /\ z[1] = a /\ z[2] = b
  BY <1>1, EventAhead
<1> HIDE DEF z
<1>4. z = w
  BY <1>2, <1>3
<1> QED
  BY <1>4 DEF y, z, w

LEMMA EventTriple ==
  ASSUME NEW a \in EventType, NEW b \in EventType, NEW c \in EventType
  PROVE  <<a>> \o <<b, c>> = <<a, b, c>>
<1> DEFINE y == <<b, c>>
           z == <<a>> \o y
           w == <<a, b, c>>
<1>1. y \in Seq(EventType) /\ Len(y) = 2 /\ y[1] = b /\ y[2] = c
  OBVIOUS
<1>2. w \in Seq(EventType) /\ Len(w) = 3 /\ w[1] = a /\ w[2] = b /\ w[3] = c
  OBVIOUS
<1> HIDE DEF y, w
<1>3. z \in Seq(EventType) /\ Len(z) = 3 /\ z[1] = a /\ z[2] = b /\ z[3] = c
  <2>1. /\ z \in Seq(EventType) /\ Len(z) = Len(y) + 1 /\ z[1] = a
        /\ \A i \in 1 .. Len(y) : z[i + 1] = y[i]
    BY <1>1, EventAhead
  <2> HIDE DEF z
  <2>2. z[1 + 1] = y[1] /\ z[2 + 1] = y[2]
    BY <1>1, <2>1
  <2> QED
    BY <1>1, <2>1, <2>2
<1> HIDE DEF z
<1>4. z = w
  BY <1>2, <1>3
<1> QED
  BY <1>4 DEF y, z, w

\* The vote is resolved exactly when somebody is connected and everybody who is
\* has voted: an absent voter's ballot counts, an absent non-voter is not waited for.
LEMMA CanResolveLemma ==
  ASSUME NEW s, Inv(s), NEW connected, connected \subseteq Roster(s)
  PROVE  VotingCanResolve(s, connected)
           <=> connected # {} /\ \A p \in connected : HasVoted(s, p)
<1> DEFINE R == Required(s, connected)
           V == Voters(s)
<1>1. IsFiniteSet(Roster(s)) /\ Roster(s) \subseteq PlayerID /\ V \subseteq Roster(s)
  BY RosterSize, RosterType DEF Inv, VotesValid
<1>2. R \subseteq Roster(s) /\ V \subseteq R /\ connected \subseteq R
  BY <1>1 DEF Required, Voters
<1>3. IsFiniteSet(R)
  BY <1>1, <1>2, FS_Subset
<1>4. /\ IsFiniteSet(V) /\ Cardinality(V) <= Cardinality(R)
      /\ Cardinality(R) = Cardinality(V) => R = V
  BY <1>2, <1>3, FS_Subset
<1>5. Cardinality(R) \in Nat /\ Cardinality(V) \in Nat /\ (Cardinality(R) = 0 <=> R = {})
  BY <1>3, <1>4, FS_CardinalityType, FS_EmptySet
<1>6. VotingCanResolve(s, connected)
        <=> connected # {} /\ Cardinality(R) > 0 /\ Cardinality(V) >= Cardinality(R)
  BY DEF VotingCanResolve
<1>7. \A p \in PlayerID : p \in V <=> HasVoted(s, p)
  BY DEF Voters
<1>8. \A p \in R : HasVoted(s, p) \/ p \in connected
  BY DEF Required
<1> HIDE DEF R, V
<1>9. ASSUME connected # {}, Cardinality(V) >= Cardinality(R)
      PROVE  \A p \in connected : HasVoted(s, p)
  <2>1. R = V
    BY <1>4, <1>5, <1>9
  <2> QED
    BY <1>1, <1>2, <1>7, <2>1
<1>10. ASSUME connected # {}, \A p \in connected : HasVoted(s, p)
       PROVE  Cardinality(R) > 0 /\ Cardinality(V) >= Cardinality(R)
  <2>1. R = V
    BY <1>1, <1>2, <1>7, <1>8, <1>10
  <2> QED
    BY <1>2, <1>5, <1>10, <2>1
<1> QED
  BY <1>6, <1>9, <1>10

LEMMA GuessOut ==
  ASSUME NEW g, NEW guess
  PROVE  ImpostorGuess(g, guess) = Out(ImpostorGuess(g, guess).state, <<"RoundEnded">>)
<1>1. ASSUME NEW y, NEW e, NEW o, o = Out(y, e) PROVE o = Out(o.state, e)
  BY <1>1 DEF Out
<1> DEFINE guessed == [g EXCEPT !.guess = guess, !.result.guess = guess]
           paid    == IF guess = "right" THEN ApplyScore(guessed, {g.impostor}, 2)
                                         ELSE ApplyScore(guessed, NonImpostors(g), 1)
<1>2. ImpostorGuess(g, guess) = Out(paid, <<"RoundEnded">>)
  BY DEF ImpostorGuess
<1> HIDE DEF guessed, paid
<1> QED
  BY <1>1, <1>2

\* What a call returns, named by the state it leads to.
LEMMA OutIs ==
  ASSUME NEW s, NEW e, NEW o, o = Out(s, e)
  PROVE  o.state = s /\ o = Out(o.state, e)
  BY DEF Out

LEMMA BeginOut ==
  ASSUME NEW s, NEW perm, NEW o, o = StartGame(s, perm) \/ o = Restart(s, perm)
  PROVE  o = Out(o.state, <<"RoundStarted", "TurnChanged">>)
  BY OutIs DEF StartGame, Restart, BeginRound

LEMMA AdvanceOut ==
  ASSUME NEW s, NEW o, o = AdvanceRound(s)
  PROVE  o = Out(o.state, IF s.round >= s.total THEN <<"GameEnded">>
                                                ELSE <<"RoundStarted", "TurnChanged">>)
<1>1. CASE s.round >= s.total
  BY <1>1, OutIs DEF AdvanceRound
<1>2. CASE ~(s.round >= s.total)
  BY <1>2, OutIs DEF AdvanceRound, BeginRound
<1> QED
  BY <1>1, <1>2

LEMMA TurnOut ==
  ASSUME NEW s \in State, s.phase = "drawing", NEW t, t = AdvanceTurn(s).state
  PROVE  \/ /\ t.phase = "drawing" /\ SkipTurn(s) = Out(t, <<"TurnChanged">>)
            /\ AddStroke(s) = Out(t, <<"StrokeAdded", "TurnChanged">>)
         \/ /\ t.phase = "discussion" /\ SkipTurn(s) = Out(t, <<"PhaseChanged">>)
            /\ AddStroke(s) = Out(t, <<"StrokeAdded", "PhaseChanged">>)
<1> DEFINE turn == IF LastOfLap(s) THEN 0 ELSE s.turn + 1
           lap  == IF LastOfLap(s) THEN s.lap + 1 ELSE s.lap
<1>1. ASSUME NEW event \in EventType, AdvanceTurn(s) = Out(t, <<event>>)
      PROVE  /\ SkipTurn(s) = Out(t, <<event>>)
             /\ AddStroke(s) = Out(t, <<"StrokeAdded", event>>)
  <2>1. AddStroke(s) = Out(t, <<"StrokeAdded">> \o <<event>>)
    BY <1>1 DEF AddStroke, Out
  <2>2. <<"StrokeAdded">> \o <<event>> = <<"StrokeAdded", event>>
    BY EventPair DEF EventType
  <2> QED
    BY <1>1, <2>1, <2>2 DEF SkipTurn
<1>2. CASE LastOfLap(s) /\ lap >= TotalLaps
  <2>1. AdvanceTurn(s) = Out([s EXCEPT !.turn = turn, !.lap = lap, !.phase = "discussion"],
                             <<"PhaseChanged">>)
    BY <1>2 DEF AdvanceTurn
  <2>2. t = [s EXCEPT !.turn = turn, !.lap = lap, !.phase = "discussion"]
    BY <2>1 DEF Out
  <2>3. t.phase = "discussion"
    BY <2>2 DEF State
  <2> QED
    BY <1>1, <2>1, <2>2, <2>3 DEF EventType
<1>3. CASE ~(LastOfLap(s) /\ lap >= TotalLaps)
  <2>1. AdvanceTurn(s) = Out([s EXCEPT !.turn = turn, !.lap = lap], <<"TurnChanged">>)
    BY <1>3 DEF AdvanceTurn
  <2>2. t = [s EXCEPT !.turn = turn, !.lap = lap]
    BY <2>1 DEF Out
  <2>3. t.phase = "drawing"
    BY <2>2 DEF State
  <2> QED
    BY <1>1, <2>1, <2>2, <2>3 DEF EventType
<1> QED
  BY <1>2, <1>3

\* A verdict is announced with the result, unless a guess is still to come.
LEMMA VerdictOut ==
  ASSUME NEW s \in State, NEW t, t = FinishVoting(s).state
  PROVE  FinishVoting(s) = Out(t, IF t.result.caught THEN <<"PhaseChanged">>
                                                     ELSE <<"PhaseChanged", "RoundEnded">>)
<1>1. t.result.caught <=> CaughtByPlurality(s)
  BY FinishVotingLemma
<1> QED
  BY <1>1 DEF FinishVoting, Out

LEMMA CastOut ==
  ASSUME NEW s, NEW voter, NEW target, NEW connected, NEW o, o = CastVote(s, voter, target, connected),
         NEW voted, voted = [s EXCEPT !.votes[voter] = target], voted \in State
  PROVE  \/ ~VotingCanResolve(voted, connected) /\ o = Out(voted, <<"VoteRecorded">>)
         \/ /\ VotingCanResolve(voted, connected) /\ o.state = FinishVoting(voted).state
            /\ o = Out(o.state, IF o.state.result.caught
                                THEN <<"VoteRecorded", "PhaseChanged">>
                                ELSE <<"VoteRecorded", "PhaseChanged", "RoundEnded">>)
<1>1. CASE ~VotingCanResolve(voted, connected)
  <2>1. o = Out(voted, <<"VoteRecorded">> \o <<>>)
    BY <1>1 DEF CastVote, Ignored, Out
  <2>2. <<"VoteRecorded">> \o <<>> = <<"VoteRecorded">>
    OBVIOUS
  <2> QED
    BY <1>1, <2>1, <2>2
<1>2. CASE VotingCanResolve(voted, connected)
  <2> DEFINE t == FinishVoting(voted).state
             e == IF t.result.caught THEN <<"PhaseChanged">> ELSE <<"PhaseChanged", "RoundEnded">>
  <2>1. FinishVoting(voted) = Out(t, e)
    BY VerdictOut
  <2>2. o = Out(FinishVoting(voted).state, <<"VoteRecorded">> \o FinishVoting(voted).events)
    BY <1>2 DEF CastVote
  <2>3. FinishVoting(voted).events = e
    BY <2>1 DEF Out
  <2>4. o = Out(t, <<"VoteRecorded">> \o e) /\ o.state = t
    BY <2>2, <2>3, OutIs
  <2>5. /\ <<"VoteRecorded">> \o <<"PhaseChanged">> = <<"VoteRecorded", "PhaseChanged">>
        /\ <<"VoteRecorded">> \o <<"PhaseChanged", "RoundEnded">>
             = <<"VoteRecorded", "PhaseChanged", "RoundEnded">>
    BY EventPair, EventTriple DEF EventType
  <2> HIDE DEF t
  <2> QED
    BY <1>2, <2>4, <2>5 DEF t
<1> QED
  BY <1>1, <1>2

LEMMA TimeoutOut ==
  ASSUME NEW s, NEW o, o = ResolveImpostorTimeout(s)
  PROVE  o = Out(o.state, <<"RoundEnded">>)
  BY OutIs DEF ResolveImpostorTimeout

=============================================================================
