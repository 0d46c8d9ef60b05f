-------------------------------- MODULE Match --------------------------------
(***************************************************************************)
(* What a match promises its players, whatever happens underneath: rounds  *)
(* are played in order, every player of the roster is the impostor in      *)
(* exactly one of them, each round is decided once and its points are      *)
(* given once, and the roster does not change while the match runs.        *)
(* README.md of the repository (How to play) states these rules; Game and  *)
(* Room are shown to implement this specification.                         *)
(***************************************************************************)
EXTENDS Naturals, FiniteSets

CONSTANTS PlayerID, Nobody

VARIABLES
  stage,      \* what the players are doing
  roster,     \* who takes part
  round,      \* number of the round being played, 0 before the first
  impostor,   \* the impostor of that round
  past,       \* the impostors of the earlier rounds of this match
  score       \* points of this match

vars == <<stage, roster, round, impostor, past, score>>

Stage == {"lobby", "drawing", "discussion", "voting", "awaiting", "settled", "over"}
Zero  == [p \in PlayerID |-> 0]

TypeOK ==
  /\ stage \in Stage
  /\ roster \in SUBSET PlayerID
  /\ round \in Nat
  /\ impostor \in PlayerID \cup {Nobody}
  /\ past \in SUBSET PlayerID
  /\ score \in [PlayerID -> Nat]

Init ==
  /\ stage = "lobby"
  /\ roster \in {{p} : p \in PlayerID}
  /\ round = 0
  /\ impostor = Nobody
  /\ past = {}
  /\ score = Zero

\* Seats are taken and given up in the lobby only.
ChangeRoster ==
  /\ stage = "lobby"
  /\ roster' \in SUBSET PlayerID /\ IsFiniteSet(roster')
  /\ UNCHANGED <<stage, round, impostor, past, score>>

Begin ==
  /\ stage \in {"lobby", "over"}
  /\ stage' = "drawing"
  /\ round' = 1
  /\ impostor' \in roster
  /\ past' = {}
  /\ score' = Zero
  /\ UNCHANGED roster

Discuss ==
  /\ stage = "drawing"
  /\ stage' = "discussion"
  /\ UNCHANGED <<roster, round, impostor, past, score>>

Vote ==
  /\ stage = "discussion"
  /\ stage' = "voting"
  /\ UNCHANGED <<roster, round, impostor, past, score>>

Award(who, points) ==
  score' = [p \in PlayerID |-> IF p \in who THEN score[p] + points ELSE score[p]]

Catch ==
  /\ stage = "voting"
  /\ stage' = "awaiting"
  /\ UNCHANGED <<roster, round, impostor, past, score>>

Evade ==
  /\ stage = "voting"
  /\ stage' = "settled"
  /\ Award({impostor}, 2)
  /\ UNCHANGED <<roster, round, impostor, past>>

\* One guess: the impostor steals the win, or everybody else scores.
Resolve ==
  /\ stage = "awaiting"
  /\ stage' = "settled"
  /\ Award({impostor}, 2) \/ Award(roster \ {impostor}, 1)
  /\ UNCHANGED <<roster, round, impostor, past>>

NextRound ==
  /\ stage = "settled"
  /\ round < Cardinality(roster)
  /\ stage' = "drawing"
  /\ round' = round + 1
  /\ past' = past \cup {impostor}
  /\ impostor' \in roster \ past'
  /\ UNCHANGED <<roster, score>>

GameOver ==
  /\ stage = "settled"
  /\ round = Cardinality(roster)
  /\ stage' = "over"
  /\ UNCHANGED <<roster, round, impostor, past, score>>

Next ==
  \/ ChangeRoster \/ Begin \/ Discuss \/ Vote
  \/ Catch \/ Evade \/ Resolve \/ NextRound \/ GameOver

Spec == Init /\ [][Next]_vars

-----------------------------------------------------------------------------
\* Rounds whose points have been given, by their impostor.
Decided == IF stage \in {"settled", "over"} THEN past \cup {impostor} ELSE past

Running == stage \notin {"lobby"}

\* The round number counts the impostors of the match, all of them different.
RolesOnce ==
  Running => /\ impostor \in roster \ past
             /\ past \subseteq roster
             /\ round = Cardinality(past) + 1

\* A player gets at most 2 points as impostor and 1 in any other decided round,
\* so nobody's score can exceed what the decided rounds were worth.
ScoreBound ==
  Running =>
    \A p \in PlayerID :
      score[p] <= (IF p \in Decided THEN 2 ELSE 0) + Cardinality(Decided \ {p})

\* When the match is over every player of the roster has been impostor once.
EveryoneWasImpostor == stage = "over" => Decided = roster

=============================================================================
