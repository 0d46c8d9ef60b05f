---------------------------- MODULE MatchProofs -----------------------------
(***************************************************************************)
(* What the abstract match guarantees, for every set of players: proved    *)
(* here once, and inherited by whatever implements Match.                  *)
(***************************************************************************)
EXTENDS Match, FiniteSetTheorems, TLAPS

\* The inductive invariant. ScoreBound counts the decided rounds, RolesOnce says
\* they had different impostors, and both need the sets they count to be finite.
IInv ==
  /\ TypeOK
  /\ IsFiniteSet(roster) /\ IsFiniteSet(past)
  /\ RolesOnce
  /\ ScoreBound
  /\ stage = "over" => round = Cardinality(roster)

-----------------------------------------------------------------------------
(* Counting.                                                               *)

\* What p can have from a set of decided rounds, by their impostors.
Worth(decided, p) == (IF p \in decided THEN 2 ELSE 0) + Cardinality(decided \ {p})

LEMMA WorthType ==
  ASSUME NEW decided, IsFiniteSet(decided), NEW p
  PROVE  Worth(decided, p) \in Nat
<1>1. IsFiniteSet(decided \ {p}) /\ Cardinality(decided \ {p}) \in Nat
  BY FS_RemoveElement, FS_CardinalityType
<1> QED
  BY <1>1 DEF Worth

\* A round decided with a new impostor is worth 2 to the impostor and 1 to others.
LEMMA WorthGrows ==
  ASSUME NEW decided, IsFiniteSet(decided), NEW i, i \notin decided, NEW p
  PROVE  Worth(decided \cup {i}, p) = Worth(decided, p) + (IF p = i THEN 2 ELSE 1)
<1>1. CASE p = i
  <2>1. (decided \cup {i}) \ {p} = decided /\ decided \ {p} = decided
    BY <1>1
  <2>2. Cardinality(decided) \in Nat
    BY FS_CardinalityType
  <2> QED
    BY <1>1, <2>1, <2>2 DEF Worth
<1>2. CASE p # i
  <2> DEFINE rest == decided \ {p}
  <2>1. IsFiniteSet(rest) /\ Cardinality(rest) \in Nat
    BY FS_RemoveElement, FS_CardinalityType
  <2>2. (decided \cup {i}) \ {p} = rest \cup {i} /\ i \notin rest
    BY <1>2
  <2>3. p \in decided \cup {i} <=> p \in decided
    BY <1>2
  <2> HIDE DEF rest
  <2>4. Cardinality(rest \cup {i}) = Cardinality(rest) + 1
    BY <2>1, <2>2, FS_AddElement
  <2>5. Worth(decided \cup {i}, p) = (IF p \in decided THEN 2 ELSE 0) + (Cardinality(rest) + 1)
    BY <2>2, <2>3, <2>4 DEF Worth
  <2>6. Worth(decided, p) = (IF p \in decided THEN 2 ELSE 0) + Cardinality(rest)
    BY DEF Worth, rest
  <2> QED
    BY <1>2, <2>1, <2>5, <2>6
<1> QED
  BY <1>1, <1>2

LEMMA ScoreBoundIsWorth ==
  ScoreBound <=> (Running => \A p \in PlayerID : score[p] <= Worth(Decided, p))
  BY DEF ScoreBound, Worth

-----------------------------------------------------------------------------
(* The invariant is inductive.                                             *)

LEMMA InitIInv == Init => IInv
<1> SUFFICES ASSUME Init PROVE IInv
  OBVIOUS
<1>1. TypeOK /\ ~Running
  BY DEF Init, TypeOK, Stage, Zero, Running
<1>2. IsFiniteSet(roster) /\ IsFiniteSet(past)
  BY FS_Singleton, FS_EmptySet DEF Init
<1> QED
  BY <1>1, <1>2 DEF Init, IInv, RolesOnce, ScoreBound, Running

\* A step that only moves on within a round decides nothing.
LEMMA MovesOn ==
  ASSUME IInv, Running, UNCHANGED <<roster, round, impostor, past, score>>,
         stage' \in Stage \ {"lobby", "over"}, Decided' = Decided
  PROVE  IInv'
<1>1. TypeOK' /\ IsFiniteSet(roster') /\ IsFiniteSet(past')
  BY DEF IInv, TypeOK
<1>2. RolesOnce'
  BY DEF IInv, RolesOnce, Running
<1>3. ScoreBound'
  BY DEF IInv, ScoreBound, Running
<1> QED
  BY <1>1, <1>2, <1>3 DEF IInv

LEMMA AwardType ==
  ASSUME TypeOK, NEW who, NEW points \in Nat, Award(who, points)
  PROVE  /\ score' \in [PlayerID -> Nat]
         /\ \A p \in PlayerID : score'[p] = IF p \in who THEN score[p] + points ELSE score[p]
  BY DEF TypeOK, Award

\* Deciding the round gives nobody more than the round is worth.
LEMMA Decides ==
  ASSUME IInv, stage \in {"voting", "awaiting"}, stage' = "settled",
         UNCHANGED <<roster, round, impostor, past>>,
         score' \in [PlayerID -> Nat],
         \A p \in PlayerID : score'[p] <= score[p] + (IF p = impostor THEN 2 ELSE 1)
  PROVE  IInv'
<1>1. TypeOK' /\ IsFiniteSet(roster') /\ IsFiniteSet(past')
  BY DEF IInv, TypeOK, Stage
<1>2. Running /\ Running' /\ impostor \notin past /\ IsFiniteSet(past)
  BY DEF IInv, RolesOnce, Running
<1>3. RolesOnce'
  BY <1>2 DEF IInv, RolesOnce
<1>4. Decided = past /\ Decided' = past \cup {impostor}
  BY DEF Decided
<1>5. ASSUME NEW p \in PlayerID PROVE score'[p] <= Worth(past \cup {impostor}, p)
  <2>1. score[p] <= Worth(past, p)
    BY <1>2, <1>4, ScoreBoundIsWorth DEF IInv
  <2>2. Worth(past \cup {impostor}, p) = Worth(past, p) + (IF p = impostor THEN 2 ELSE 1)
    BY <1>2, WorthGrows
  <2>3. Worth(past, p) \in Nat /\ score[p] \in Nat /\ score'[p] \in Nat
    BY <1>2, WorthType DEF IInv, TypeOK
  <2>4. score'[p] <= score[p] + (IF p = impostor THEN 2 ELSE 1)
    OBVIOUS
  <2> QED
    BY <2>1, <2>2, <2>3, <2>4
<1>6. ScoreBound'
  BY <1>4, <1>5 DEF ScoreBound, Worth
<1> QED
  BY <1>1, <1>3, <1>6 DEF IInv

LEMMA NextIInv == IInv /\ [Next]_vars => IInv'
<1> SUFFICES ASSUME IInv, [Next]_vars PROVE IInv'
  OBVIOUS
<1>1. CASE ChangeRoster
  BY <1>1 DEF ChangeRoster, IInv, TypeOK, RolesOnce, ScoreBound, Running
<1>2. CASE Begin
  <2>1. TypeOK' /\ IsFiniteSet(roster') /\ IsFiniteSet(past') /\ Cardinality(past') = 0
    BY <1>2, FS_EmptySet DEF Begin, IInv, TypeOK, Stage, Zero
  <2>2. RolesOnce'
    BY <1>2, <2>1 DEF Begin, RolesOnce
  <2>3. ScoreBound'
    <3>1. Decided' = {} /\ \A p \in PlayerID : score'[p] = 0
      BY <1>2 DEF Begin, Decided, Zero
    <3>2. \A p : Cardinality({} \ {p}) = 0
      BY FS_EmptySet
    <3> QED
      BY <3>1, <3>2 DEF ScoreBound
  <2> QED
    BY <1>2, <2>1, <2>2, <2>3 DEF Begin, IInv
<1>3. CASE Discuss \/ Vote \/ Catch
  <2>1. Running /\ stage' \in Stage \ {"lobby", "over"} /\ Decided' = Decided
        /\ UNCHANGED <<roster, round, impostor, past, score>>
    BY <1>3 DEF Discuss, Vote, Catch, Running, Stage, Decided
  <2> QED
    BY <2>1, MovesOn
<1>4. CASE Evade
  <2>1. score' \in [PlayerID -> Nat]
        /\ \A p \in PlayerID : score'[p] <= score[p] + (IF p = impostor THEN 2 ELSE 1)
    BY <1>4 DEF Evade, Award, IInv, TypeOK
  <2> QED
    BY <1>4, <2>1, Decides DEF Evade
<1>5. CASE Resolve
  <2>1. score' \in [PlayerID -> Nat]
        /\ \A p \in PlayerID : score'[p] <= score[p] + (IF p = impostor THEN 2 ELSE 1)
    BY <1>5 DEF Resolve, Award, IInv, TypeOK
  <2> QED
    BY <1>5, <2>1, Decides DEF Resolve
<1>6. CASE NextRound
  <2>1. past' = past \cup {impostor} /\ impostor \in roster \ past /\ past \subseteq roster
        /\ round = Cardinality(past) + 1 /\ IsFiniteSet(past)
    BY <1>6 DEF NextRound, IInv, RolesOnce, Running
  <2>2. IsFiniteSet(past') /\ Cardinality(past') = Cardinality(past) + 1
        /\ Cardinality(past) \in Nat
    BY <2>1, FS_AddElement, FS_CardinalityType
  <2>3. TypeOK' /\ IsFiniteSet(roster')
    BY <1>6, <2>1 DEF NextRound, IInv, TypeOK, Stage
  <2>4. RolesOnce'
    BY <1>6, <2>1, <2>2 DEF NextRound, RolesOnce, Running
  <2>5. Decided' = Decided /\ Running
    BY <1>6, <2>1 DEF NextRound, Decided, Running
  <2>6. ScoreBound'
    BY <1>6, <2>5 DEF NextRound, IInv, ScoreBound
  <2> QED
    BY <1>6, <2>2, <2>3, <2>4, <2>6 DEF NextRound, IInv
<1>7. CASE GameOver
  <2>1. TypeOK' /\ IsFiniteSet(roster') /\ IsFiniteSet(past')
    BY <1>7 DEF GameOver, IInv, TypeOK, Stage
  <2>2. RolesOnce'
    BY <1>7 DEF GameOver, IInv, RolesOnce, Running
  <2>3. Decided' = Decided /\ Running
    BY <1>7 DEF GameOver, Decided, Running
  <2>4. ScoreBound'
    BY <1>7, <2>3 DEF GameOver, IInv, ScoreBound
  <2> QED
    BY <1>7, <2>1, <2>2, <2>4 DEF GameOver, IInv
<1>8. CASE UNCHANGED vars
  BY <1>8 DEF vars, IInv, TypeOK, RolesOnce, ScoreBound, Running, Decided
<1> QED
  BY <1>1, <1>2, <1>3, <1>4, <1>5, <1>6, <1>7, <1>8 DEF Next

THEOREM IInvIsInvariant == Spec => []IInv
  BY InitIInv, NextIInv, PTL DEF Spec

-----------------------------------------------------------------------------
(* Theorems.                                                               *)

\* Every variable of the match always has the values its type promises.
THEOREM TypeCorrect == Spec => []TypeOK
<1>1. IInv => TypeOK
  BY DEF IInv
<1> QED
  BY <1>1, IInvIsInvariant, PTL

\* The rounds of a match have different impostors, all of them of the roster.
THEOREM RolesAreOnce == Spec => []RolesOnce
<1>1. IInv => RolesOnce
  BY DEF IInv
<1> QED
  BY <1>1, IInvIsInvariant, PTL

\* Nobody has more points than the decided rounds of this match are worth.
THEOREM ScoresAreBounded == Spec => []ScoreBound
<1>1. IInv => ScoreBound
  BY DEF IInv
<1> QED
  BY <1>1, IInvIsInvariant, PTL

\* A match is over only when every player of the roster has been its impostor.
THEOREM EverybodyWasImpostor == Spec => []EveryoneWasImpostor
<1>1. IInv => EveryoneWasImpostor
  <2> SUFFICES ASSUME IInv, stage = "over" PROVE Decided = roster
    BY DEF EveryoneWasImpostor
  <2>1. /\ Decided = past \cup {impostor} /\ Decided \subseteq roster
        /\ impostor \notin past /\ round = Cardinality(past) + 1
        /\ round = Cardinality(roster) /\ IsFiniteSet(past) /\ IsFiniteSet(roster)
    BY DEF IInv, RolesOnce, Running, Decided
  <2>2. Cardinality(Decided) = Cardinality(roster)
    BY <2>1, FS_AddElement
  <2> QED
    BY <2>1, <2>2, FS_Subset
<1> QED
  BY <1>1, IInvIsInvariant, PTL

=============================================================================
