---------------------------- MODULE RoomMethods ----------------------------
(***************************************************************************)
(* What the methods of a room (module Room) do, for every set of           *)
(* identities and all bounds: lemmas about the room record r a method      *)
(* starts from and the record t it returns. A handler is composed of       *)
(* methods, and RoomProofs composes these lemmas in the same way.          *)
(***************************************************************************)
EXTENDS RoomProperties, EngineProofs, SequenceTheorems, WellFoundedInduction

-----------------------------------------------------------------------------
(* Types.                                                                  *)

Absence == [player : PlayerID, gen : Nat]

RoomRec ==
  [game : State, clients : [PlayerID -> 0 .. MaxConns], presence : [PlayerID -> Presence],
   seats : SUBSET PlayerID, voice : SUBSET PlayerID, nextConn : Nat \ {0},
   nextJoinSeq : Nat, roundGen : Nat, grace : [PlayerID -> Nat],
   drawSkip : Absence \cup {NoTimer}, guess : Nat, deadline : [gen : Nat, moved : BOOLEAN],
   discussion : BOOLEAN, reveal : BOOLEAN, young : SUBSET Timer, idle : BOOLEAN,
   running : BOOLEAN, bumps : Nat, wire : Seq(Message)]

Channels ==
  [advance : BOOLEAN, discussion : BOOLEAN, grace : SUBSET Absence, draw : SUBSET Absence,
   guess : SUBSET Nat]

\* A channel holds what its capacity allows.
Fits(channel, cap) == IsFiniteSet(channel) /\ Cardinality(channel) <= cap

Socket == [player : PlayerID, conn : 1 .. MaxConns, superseded : BOOLEAN]

\* OneRevisionEach, of what was sent so far.
Numbered(wire, bumps) ==
  /\ {wire[i].seq : i \in Sequenced(wire)} = 1 .. bumps
  /\ \A i, j \in Sequenced(wire) : i < j => wire[i].seq < wire[j].seq
  /\ \A i \in 1 .. Len(wire) :
       wire[i].type = "state_snapshot" =>
         /\ wire[i].seq <= bumps
         /\ \A j \in Sequenced(wire) : j < i <=> wire[j].seq <= wire[i].seq

\* What every method of the room keeps, whatever it is applied to.
Sane(r) == r \in RoomRec /\ Numbered(r.wire, r.bumps)

-----------------------------------------------------------------------------
(* What a method leaves alone, by the part of the room it belongs to.      *)

SameSeats(r, t) ==
  /\ t.clients = r.clients /\ t.presence = r.presence /\ t.seats = r.seats
  /\ t.voice = r.voice /\ t.nextConn = r.nextConn /\ t.nextJoinSeq = r.nextJoinSeq
  /\ t.grace = r.grace /\ t.running = r.running
  /\ \A p \in PlayerID : p \in t.young <=> p \in r.young

SameDraw(r, t) == t.drawSkip = r.drawSkip /\ ("draw" \in t.young <=> "draw" \in r.young)

SameGuess(r, t) ==
  /\ t.guess = r.guess /\ t.deadline = r.deadline
  /\ "guess" \in t.young <=> "guess" \in r.young

SameHold(r, t) == t.discussion = r.discussion /\ t.reveal = r.reveal

SameMatchOf(r, t) == t.game = r.game /\ t.roundGen = r.roundGen

\* A method that only sends.
Told(r, t) ==
  SameSeats(r, t) /\ SameDraw(r, t) /\ SameGuess(r, t) /\ SameHold(r, t) /\ SameMatchOf(r, t)

-----------------------------------------------------------------------------
(* Sending.                                                                *)

LEMMA SequencedAppend ==
  ASSUME NEW wire \in Seq(Message), NEW bumps \in Nat, Numbered(wire, bumps),
         NEW type \in BumpedType
  PROVE  Numbered(Append(wire, [type |-> type, seq |-> bumps + 1]), bumps + 1)
<1> DEFINE m == [type |-> type, seq |-> bumps + 1]
           n == Len(wire)
           w == Append(wire, m)
<1>1. /\ n \in Nat /\ Len(w) = n + 1 /\ w[n + 1] = m
      /\ \A i \in 1 .. n : w[i] = wire[i]
  OBVIOUS
<1>2. m.type = type /\ m.seq = bumps + 1 /\ type \notin Unsequenced
  BY DEF BumpedType, Unsequenced
<1>3. \A i \in 1 .. n : wire[i].seq \in Nat
  <2>1. \A i \in 1 .. n : wire[i] \in Message
    OBVIOUS
  <2> QED
    BY <2>1 DEF Message
<1> HIDE DEF m, w
<1>4. Sequenced(w) = Sequenced(wire) \cup {n + 1}
  BY <1>1, <1>2 DEF Sequenced
<1>5. \A i \in Sequenced(wire) : i \in 1 .. n /\ wire[i].seq \in 1 .. bumps
  BY DEF Numbered, Sequenced
<1>6. {w[i].seq : i \in Sequenced(w)} = 1 .. bumps + 1
  <2>1. {w[i].seq : i \in Sequenced(w)} = {wire[i].seq : i \in Sequenced(wire)} \cup {bumps + 1}
    BY <1>1, <1>2, <1>4, <1>5
  <2>2. {wire[i].seq : i \in Sequenced(wire)} = 1 .. bumps
    BY DEF Numbered
  <2>3. 1 .. bumps + 1 = (1 .. bumps) \cup {bumps + 1}
    OBVIOUS
  <2> QED
    BY <2>1, <2>2, <2>3
<1>7. \A i, j \in Sequenced(w) : i < j => w[i].seq < w[j].seq
  BY <1>1, <1>2, <1>4, <1>5, SMTT(60) DEF Numbered
<1>8. ASSUME NEW i \in 1 .. Len(w), w[i].type = "state_snapshot"
      PROVE  w[i].seq <= bumps + 1 /\ \A j \in Sequenced(w) : j < i <=> w[j].seq <= w[i].seq
  <2>1. i \in 1 .. n /\ w[i] = wire[i]
    BY <1>1, <1>2, <1>8 DEF Unsequenced
  <2>2. wire[i].seq <= bumps /\ wire[i].seq \in Nat
    BY <1>3, <1>8, <2>1 DEF Numbered
  <2>3. ASSUME NEW j \in Sequenced(wire) PROVE j < i <=> w[j].seq <= w[i].seq
    BY <1>1, <1>5, <1>8, <2>1 DEF Numbered
  <2>4. ~(n + 1 < i) /\ ~(w[n + 1].seq <= w[i].seq)
    BY <1>1, <1>2, <2>1, <2>2
  <2> QED
    BY <1>4, <2>1, <2>2, <2>3, <2>4
<1> QED
  BY <1>6, <1>7, <1>8 DEF Numbered, w, m

LEMMA SnapshotAppend ==
  ASSUME NEW wire \in Seq(Message), NEW bumps \in Nat, Numbered(wire, bumps),
         NEW type \in Unsequenced
  PROVE  Numbered(Append(wire, [type |-> type, seq |-> bumps]), bumps)
<1> DEFINE m == [type |-> type, seq |-> bumps]
           n == Len(wire)
           w == Append(wire, m)
<1>1. /\ n \in Nat /\ Len(w) = n + 1 /\ w[n + 1] = m
      /\ \A i \in 1 .. n : w[i] = wire[i]
  OBVIOUS
<1>2. m.type = type /\ m.seq = bumps
  OBVIOUS
<1> HIDE DEF m, w
<1>3. Sequenced(w) = Sequenced(wire)
  BY <1>1, <1>2 DEF Sequenced
<1>4. \A i \in Sequenced(wire) : i \in 1 .. n /\ wire[i].seq \in 1 .. bumps
  BY DEF Numbered, Sequenced
<1>5. {w[i].seq : i \in Sequenced(w)} = 1 .. bumps
  <2>1. {w[i].seq : i \in Sequenced(w)} = {wire[i].seq : i \in Sequenced(wire)}
    BY <1>1, <1>3, <1>4
  <2> QED
    BY <2>1 DEF Numbered
<1>6. \A i, j \in Sequenced(w) : i < j => w[i].seq < w[j].seq
  BY <1>1, <1>3, <1>4 DEF Numbered
<1>7. ASSUME NEW i \in 1 .. Len(w), w[i].type = "state_snapshot"
      PROVE  w[i].seq <= bumps /\ \A j \in Sequenced(w) : j < i <=> w[j].seq <= w[i].seq
  <2>1. CASE i = n + 1
    BY <1>1, <1>2, <1>3, <1>4, <2>1
  <2>2. CASE i \in 1 .. n
    BY <1>1, <1>3, <1>4, <1>7, <2>2 DEF Numbered
  <2> QED
    BY <1>1, <2>1, <2>2
<1> QED
  BY <1>5, <1>6, <1>7 DEF Numbered, w, m

LEMMA TellLemma ==
  ASSUME NEW r, Sane(r), NEW type \in BumpedType,
         NEW t, t = BroadcastSequenced(r, type)
  PROVE  Sane(t) /\ Told(r, t)
<1>1. CASE ~TrackWire
  BY <1>1 DEF BroadcastSequenced, Send, Bump, Told, SameSeats, SameDraw, SameGuess,
              SameHold, SameMatchOf
<1>2. CASE TrackWire
  <2> DEFINE m == [type |-> type, seq |-> r.bumps + 1]
  <2>1. r.wire \in Seq(Message) /\ r.bumps \in Nat /\ m \in Message
    BY DEF Sane, RoomRec, Message
  <2>2. Append(r.wire, m) \in Seq(Message) /\ r.bumps + 1 \in Nat
    BY <2>1
  <2>3. Numbered(Append(r.wire, m), r.bumps + 1)
    BY <2>1, SequencedAppend DEF Sane
  <2>4. t = [r EXCEPT !.bumps = r.bumps + 1, !.wire = Append(r.wire, m)]
    BY <1>2 DEF Sane, RoomRec, BroadcastSequenced, Send, Bump, Stamped
  <2> HIDE DEF m
  <2>5. /\ t \in RoomRec /\ t.wire = Append(r.wire, m) /\ t.bumps = r.bumps + 1
        /\ Told(r, t)
    BY <2>2, <2>4, ZenonT(60) DEF Sane, RoomRec, Told, SameSeats, SameDraw, SameGuess, SameHold,
                      SameMatchOf
  <2> QED
    BY <2>3, <2>5 DEF Sane
<1> QED
  BY <1>1, <1>2

LEMMA SnapshotLemma ==
  ASSUME NEW r, Sane(r), NEW type \in Unsequenced, NEW t, t = Send(r, type)
  PROVE  Sane(t) /\ Told(r, t)
<1>1. CASE ~TrackWire
  BY <1>1 DEF Send, Told, SameSeats, SameDraw, SameGuess, SameHold, SameMatchOf
<1>2. CASE TrackWire
  <2> DEFINE m == [type |-> type, seq |-> r.bumps]
  <2>1. r.wire \in Seq(Message) /\ r.bumps \in Nat /\ m \in Message
    BY DEF Sane, RoomRec, Message
  <2>2. Append(r.wire, m) \in Seq(Message)
    BY <2>1
  <2>3. Numbered(Append(r.wire, m), r.bumps)
    BY <2>1, SnapshotAppend DEF Sane
  <2>4. t = [r EXCEPT !.wire = Append(r.wire, m)]
    BY <1>2 DEF Sane, RoomRec, Send, Stamped
  <2> HIDE DEF m
  <2>5. /\ t \in RoomRec /\ t.wire = Append(r.wire, m) /\ t.bumps = r.bumps
        /\ Told(r, t)
    BY <2>2, <2>4 DEF Sane, RoomRec, Told, SameSeats, SameDraw, SameGuess, SameHold,
                      SameMatchOf
  <2> QED
    BY <2>3, <2>5 DEF Sane
<1> QED
  BY <1>1, <1>2


-----------------------------------------------------------------------------
(* The timers.                                                             *)

SameButYoung(r, t) ==
  /\ t.clients = r.clients /\ t.presence = r.presence /\ t.seats = r.seats
  /\ t.voice = r.voice /\ t.nextConn = r.nextConn /\ t.nextJoinSeq = r.nextJoinSeq
  /\ t.grace = r.grace /\ t.running = r.running
  /\ t.drawSkip = r.drawSkip /\ t.guess = r.guess /\ t.deadline = r.deadline
  /\ SameHold(r, t) /\ SameMatchOf(r, t)

LEMMA ArmLemma ==
  ASSUME NEW r, Sane(r), NEW x \in Timer, NEW t, t = Arm(r, x)
  PROVE  /\ Sane(t) /\ SameButYoung(r, t)
         /\ \A y \in Timer \ {x} : y \in t.young <=> y \in r.young
         /\ Prompt => x \in t.young
<1> DEFINE young == IF Prompt THEN r.young \cup {x} ELSE r.young
<1>1. t = [r EXCEPT !.young = young] /\ young \subseteq Timer
  BY DEF Arm, Sane, RoomRec
<1>2. /\ \A y \in Timer \ {x} : y \in young <=> y \in r.young
      /\ Prompt => x \in young
  OBVIOUS
<1> HIDE DEF young
<1> QED
  BY <1>1, <1>2, ZenonT(60) DEF Sane, RoomRec, SameButYoung, SameHold, SameMatchOf

LEMMA DisarmLemma ==
  ASSUME NEW r, Sane(r), NEW x \in Timer, NEW t, t = Disarm(r, x)
  PROVE  /\ Sane(t) /\ SameButYoung(r, t)
         /\ \A y \in Timer \ {x} : y \in t.young <=> y \in r.young
  BY DEF Disarm, Sane, RoomRec, SameButYoung, SameHold, SameMatchOf

LEMMA TimerNames ==
  /\ {"draw", "guess", "discussion", "reveal"} \subseteq Timer /\ PlayerID \subseteq Timer
  /\ \A p \in PlayerID : p \notin {"draw", "guess", "discussion", "reveal"}
  BY TimerAssumption DEF Timer

\* The drawer is away and somebody watches.
DrawerAbsent(r) ==
  /\ Connected(r) # {}
  /\ r.game.phase = "drawing"
  /\ r.game.turn < Len(r.game.players)
  /\ r.presence[Drawer(r.game)].known
  /\ ~r.presence[Drawer(r.game)].connected

Skip(r) == [player |-> Drawer(r.game), gen |-> r.presence[Drawer(r.game)].gen]

\* The skip timer is the one the room calls for.
DrawSet(r) ==
  /\ r.drawSkip = IF DrawerAbsent(r) THEN Skip(r) ELSE NoTimer
  /\ Prompt /\ DrawerAbsent(r) => "draw" \in r.young

LEMMA DrawLemma ==
  ASSUME NEW r, Sane(r), NEW t, t = EvaluateDrawTimer(r)
  PROVE  /\ Sane(t) /\ DrawSet(t)
         /\ SameSeats(r, t) /\ SameGuess(r, t) /\ SameHold(r, t) /\ SameMatchOf(r, t)
<1> DEFINE skip == IF DrawerAbsent(r) THEN Skip(r) ELSE NoTimer
           set  == [r EXCEPT !.drawSkip = skip]
<1>1. skip \in Absence \cup {NoTimer}
  <2>1. CASE DrawerAbsent(r)
    <3>1. r.game.players \in Seq(PlayerID) /\ r.game.turn \in Nat
      BY DEF Sane, RoomRec, State
    <3>2. Drawer(r.game) \in PlayerID
      BY <2>1, <3>1 DEF DrawerAbsent, Drawer
    <3>3. r.presence[Drawer(r.game)].gen \in Nat
      BY <3>2 DEF Sane, RoomRec, Presence
    <3> QED
      BY <2>1, <3>2, <3>3 DEF Skip, Absence
  <2> QED
    BY <2>1
<1>2. t = IF DrawerAbsent(r) THEN Arm(set, "draw") ELSE Disarm(set, "draw")
  BY DEF EvaluateDrawTimer, DrawerAbsent, Skip
<1> HIDE DEF skip
<1>3. /\ Sane(set) /\ set.drawSkip = skip /\ set.young = r.young
      /\ SameSeats(r, set) /\ SameGuess(r, set) /\ SameHold(r, set) /\ SameMatchOf(r, set)
  BY <1>1 DEF Sane, RoomRec, SameSeats, SameGuess, SameHold, SameMatchOf
<1> HIDE DEF set
<1>4. /\ Sane(t) /\ SameButYoung(set, t)
      /\ \A y \in Timer \ {"draw"} : y \in t.young <=> y \in set.young
      /\ Prompt /\ DrawerAbsent(r) => "draw" \in t.young
  BY <1>2, <1>3, ArmLemma, DisarmLemma, TimerNames
<1>5. SameSeats(r, t) /\ SameGuess(r, t) /\ SameHold(r, t) /\ SameMatchOf(r, t)
  BY <1>3, <1>4, TimerNames DEF SameButYoung, SameSeats, SameGuess, SameHold, SameMatchOf
<1>6. (DrawerAbsent(t) <=> DrawerAbsent(r)) /\ Skip(t) = Skip(r)
  BY <1>5 DEF SameSeats, SameMatchOf, DrawerAbsent, Skip, Connected
<1>7. t.drawSkip = skip
  BY <1>3, <1>4 DEF SameButYoung
<1> QED
  BY <1>4, <1>5, <1>6, <1>7 DEF DrawSet, skip

\* The guess timer and the deadline are those of this round, if a guess is awaited.
GuessSet(r, t) ==
  /\ t.guess = IF AwaitingGuess(r.game) THEN r.roundGen ELSE 0
  /\ t.deadline = IF AwaitingGuess(r.game)
                  THEN [gen |-> r.roundGen, moved |-> r.deadline.gen = r.roundGen]
                  ELSE NoDeadline
  /\ Prompt /\ AwaitingGuess(r.game) => "guess" \in t.young

LEMMA DeadlineLemma ==
  ASSUME NEW r, Sane(r), NEW t, t = EvaluateGuessDeadline(r)
  PROVE  /\ Sane(t) /\ GuessSet(r, t)
         /\ SameSeats(r, t) /\ SameDraw(r, t) /\ SameHold(r, t) /\ SameMatchOf(r, t)
<1> DEFINE guess    == IF AwaitingGuess(r.game) THEN r.roundGen ELSE 0
           deadline == IF AwaitingGuess(r.game)
                       THEN [gen |-> r.roundGen, moved |-> r.deadline.gen = r.roundGen]
                       ELSE NoDeadline
           set      == [r EXCEPT !.guess = guess, !.deadline = deadline]
<1>1. guess \in Nat /\ deadline \in [gen : Nat, moved : BOOLEAN]
  BY DEF Sane, RoomRec, NoDeadline
<1>2. t = IF AwaitingGuess(r.game) THEN Arm(set, "guess") ELSE Disarm(set, "guess")
  BY DEF EvaluateGuessDeadline, Sane, RoomRec
<1>g. /\ guess = IF AwaitingGuess(r.game) THEN r.roundGen ELSE 0
      /\ deadline = IF AwaitingGuess(r.game)
                    THEN [gen |-> r.roundGen, moved |-> r.deadline.gen = r.roundGen]
                    ELSE NoDeadline
  OBVIOUS
<1> HIDE DEF guess, deadline
<1>3. /\ Sane(set) /\ set.guess = guess /\ set.deadline = deadline /\ set.young = r.young
      /\ SameSeats(r, set) /\ SameDraw(r, set) /\ SameHold(r, set) /\ SameMatchOf(r, set)
  BY <1>1 DEF Sane, RoomRec, SameSeats, SameDraw, SameHold, SameMatchOf
<1> HIDE DEF set
<1>4. /\ Sane(t) /\ SameButYoung(set, t)
      /\ \A y \in Timer \ {"guess"} : y \in t.young <=> y \in set.young
      /\ Prompt /\ AwaitingGuess(r.game) => "guess" \in t.young
  BY <1>2, <1>3, ArmLemma, DisarmLemma, TimerNames
<1>5. SameSeats(r, t) /\ SameDraw(r, t) /\ SameHold(r, t) /\ SameMatchOf(r, t)
  BY <1>3, <1>4, TimerNames DEF SameButYoung, SameSeats, SameDraw, SameHold, SameMatchOf
<1>6. t.guess = guess /\ t.deadline = deadline
  BY <1>3, <1>4 DEF SameButYoung
<1> QED
  BY <1>4, <1>5, <1>6, <1>g DEF GuessSet

LEMMA RevealLemma ==
  ASSUME NEW r, Sane(r), NEW t, t = StartRevealTimer(r)
  PROVE  /\ Sane(t) /\ t.reveal /\ t.discussion = r.discussion
         /\ SameSeats(r, t) /\ SameDraw(r, t) /\ SameGuess(r, t) /\ SameMatchOf(r, t)
<1> DEFINE set == [r EXCEPT !.reveal = TRUE]
<1>1. /\ Sane(set) /\ set.reveal /\ set.discussion = r.discussion /\ set.young = r.young
      /\ SameSeats(r, set) /\ SameDraw(r, set) /\ SameGuess(r, set) /\ SameMatchOf(r, set)
  BY DEF Sane, RoomRec, SameSeats, SameDraw, SameGuess, SameMatchOf
<1>2. t = Arm(set, "reveal")
  BY DEF StartRevealTimer
<1> HIDE DEF set
<1>3. /\ Sane(t) /\ SameButYoung(set, t)
      /\ \A y \in Timer \ {"reveal"} : y \in t.young <=> y \in set.young
  BY <1>1, <1>2, ArmLemma, TimerNames
<1> QED
  BY <1>1, <1>3, TimerNames
  DEF SameButYoung, SameSeats, SameDraw, SameGuess, SameMatchOf, SameHold

LEMMA DiscussionLemma ==
  ASSUME NEW r, Sane(r), NEW t, t = OnPhaseChange(r)
  PROVE  /\ Sane(t) /\ (t.discussion <=> r.game.phase = "discussion") /\ t.reveal = r.reveal
         /\ SameSeats(r, t) /\ SameDraw(r, t) /\ SameGuess(r, t) /\ SameMatchOf(r, t)
<1> DEFINE armed == r.game.phase = "discussion"
           set   == [r EXCEPT !.discussion = armed]
<1>1. t = IF armed THEN Arm(set, "discussion") ELSE Disarm(set, "discussion")
  <2>1. CASE armed
    BY <2>1 DEF OnPhaseChange
  <2>2. CASE ~armed
    <3>1. armed = FALSE
      BY <2>2
    <3> QED
      BY <2>2, <3>1 DEF OnPhaseChange
  <2> QED
    BY <2>1, <2>2
<1>2. armed \in BOOLEAN /\ (armed <=> r.game.phase = "discussion")
  OBVIOUS
<1> HIDE DEF armed
<1>3. /\ Sane(set) /\ set.discussion = armed /\ set.reveal = r.reveal /\ set.young = r.young
      /\ SameSeats(r, set) /\ SameDraw(r, set) /\ SameGuess(r, set) /\ SameMatchOf(r, set)
  BY <1>2 DEF Sane, RoomRec, SameSeats, SameDraw, SameGuess, SameMatchOf
<1> HIDE DEF set
<1>4. /\ Sane(t) /\ SameButYoung(set, t)
      /\ \A y \in Timer \ {"discussion"} : y \in t.young <=> y \in set.young
  BY <1>1, <1>3, ArmLemma, DisarmLemma, TimerNames
<1> QED
  BY <1>2, <1>3, <1>4, TimerNames
  DEF SameButYoung, SameSeats, SameDraw, SameGuess, SameMatchOf, SameHold

-----------------------------------------------------------------------------
(* Events.                                                                 *)

LEMMA RoundStartedLemma ==
  ASSUME NEW r, Sane(r), NEW t, t = RoundStarted(r)
  PROVE  /\ Sane(t) /\ DrawSet(t) /\ SameSeats(r, t) /\ SameGuess(r, t) /\ SameHold(r, t)
         /\ t.game = r.game /\ t.roundGen = r.roundGen + 1
<1> DEFINE gen  == r.roundGen + 1
           next == [r EXCEPT !.roundGen = gen]
           sent == BroadcastSequenced(next, "round_started")
<1>g. gen \in Nat /\ gen = r.roundGen + 1
  BY DEF Sane, RoomRec
<1>2. t = EvaluateDrawTimer(sent)
  BY DEF RoundStarted, BroadcastSequenced, Bump, Send, Stamped, Sane, RoomRec
<1> HIDE DEF gen
<1>1. /\ Sane(next) /\ SameSeats(r, next) /\ SameDraw(r, next) /\ SameGuess(r, next)
      /\ SameHold(r, next) /\ next.game = r.game /\ next.roundGen = gen
  BY <1>g DEF Sane, RoomRec, SameSeats, SameDraw, SameGuess, SameHold
<1> HIDE DEF next
<1>3. Sane(sent) /\ Told(next, sent)
  BY <1>1, TellLemma DEF BumpedType
<1> HIDE DEF sent
<1>4. /\ Sane(t) /\ DrawSet(t) /\ SameSeats(sent, t) /\ SameGuess(sent, t) /\ SameHold(sent, t)
      /\ SameMatchOf(sent, t)
  BY <1>2, <1>3, DrawLemma
<1> QED
  BY <1>1, <1>3, <1>4, <1>g DEF Told, SameSeats, SameGuess, SameHold, SameMatchOf

LEMMA TurnChangedLemma ==
  ASSUME NEW r, Sane(r), NEW t, t = TurnChanged(r)
  PROVE  /\ Sane(t) /\ DrawSet(t) /\ SameSeats(r, t) /\ SameGuess(r, t) /\ SameHold(r, t)
         /\ SameMatchOf(r, t)
<1> DEFINE sent == BroadcastSequenced(r, "turn_changed")
<1>1. Sane(sent) /\ Told(r, sent)
  BY TellLemma DEF BumpedType
<1>2. t = EvaluateDrawTimer(sent)
  BY DEF TurnChanged
<1> HIDE DEF sent
<1>3. /\ Sane(t) /\ DrawSet(t) /\ SameSeats(sent, t) /\ SameGuess(sent, t) /\ SameHold(sent, t)
      /\ SameMatchOf(sent, t)
  BY <1>1, <1>2, DrawLemma
<1> QED
  BY <1>1, <1>3 DEF Told, SameSeats, SameGuess, SameHold, SameMatchOf

LEMMA RoundEndedLemma ==
  ASSUME NEW r, Sane(r), NEW t, t = RoundEnded(r)
  PROVE  /\ Sane(t) /\ t.reveal /\ t.discussion = r.discussion
         /\ SameSeats(r, t) /\ SameDraw(r, t) /\ SameGuess(r, t) /\ SameMatchOf(r, t)
<1> DEFINE sent == BroadcastSequenced(r, "round_result")
<1>1. Sane(sent) /\ Told(r, sent)
  BY TellLemma DEF BumpedType
<1>2. t = StartRevealTimer(sent)
  BY DEF RoundEnded
<1> HIDE DEF sent
<1>3. /\ Sane(t) /\ t.reveal /\ t.discussion = sent.discussion
      /\ SameSeats(sent, t) /\ SameDraw(sent, t) /\ SameGuess(sent, t) /\ SameMatchOf(sent, t)
  BY <1>1, <1>2, RevealLemma
<1> QED
  BY <1>1, <1>3 DEF Told, SameSeats, SameDraw, SameGuess, SameHold, SameMatchOf

LEMMA PhaseChangedLemma ==
  ASSUME NEW r, Sane(r), NEW t, t = PhaseChanged(r)
  PROVE  /\ Sane(t) /\ DrawSet(t) /\ SameSeats(r, t) /\ SameMatchOf(r, t)
         /\ t.reveal = r.reveal /\ (t.discussion <=> r.game.phase = "discussion")
         /\ IF r.game.phase = "reveal" THEN GuessSet(r, t) ELSE SameGuess(r, t)
<1> DEFINE sent      == BroadcastSequenced(r, "phase_changed")
           due       == EvaluateGuessDeadline(sent)
           announced == AnnounceCaught(due)
           told      == IF r.game.phase = "reveal" THEN announced ELSE sent
           changed   == OnPhaseChange(told)
<1>1. Sane(sent) /\ Told(r, sent)
  BY TellLemma DEF BumpedType
<1>2. t = EvaluateDrawTimer(changed)
  BY DEF PhaseChanged
<1> HIDE DEF sent
<1>3. /\ Sane(due) /\ GuessSet(sent, due) /\ SameSeats(sent, due) /\ SameDraw(sent, due)
      /\ SameHold(sent, due) /\ SameMatchOf(sent, due)
  BY <1>1, DeadlineLemma
<1> HIDE DEF due
<1>4. Sane(announced) /\ Told(due, announced)
  <2>1. announced = due \/ announced = BroadcastSequenced(due, "round_result")
    BY DEF AnnounceCaught
  <2>2. Told(due, due)
    BY DEF Told, SameSeats, SameDraw, SameGuess, SameHold, SameMatchOf
  <2> HIDE DEF announced
  <2> QED
    BY <1>3, <2>1, <2>2, TellLemma DEF BumpedType
<1> HIDE DEF announced
<1>5. /\ Sane(told) /\ SameSeats(r, told) /\ SameMatchOf(r, told) /\ SameHold(r, told)
      /\ IF r.game.phase = "reveal" THEN GuessSet(r, told) ELSE SameGuess(r, told)
  <2>1. CASE r.game.phase = "reveal"
    <3>1. GuessSet(r, due)
      BY <1>1, <1>3 DEF Told, GuessSet, SameMatchOf, SameGuess
    <3> QED
      BY <1>1, <1>3, <1>4, <2>1, <3>1
      DEF Told, SameSeats, SameHold, SameMatchOf, SameGuess, GuessSet
  <2>2. CASE r.game.phase # "reveal"
    BY <1>1, <2>2 DEF Told
  <2> QED
    BY <2>1, <2>2
<1> HIDE DEF told
<1>6. /\ Sane(changed) /\ (changed.discussion <=> told.game.phase = "discussion")
      /\ changed.reveal = told.reveal
      /\ SameSeats(told, changed) /\ SameGuess(told, changed) /\ SameMatchOf(told, changed)
  BY <1>5, DiscussionLemma
<1> HIDE DEF changed
<1>7. /\ Sane(t) /\ DrawSet(t) /\ SameSeats(changed, t) /\ SameGuess(changed, t)
      /\ SameHold(changed, t) /\ SameMatchOf(changed, t)
  BY <1>2, <1>6, DrawLemma
<1>8. SameSeats(r, t) /\ SameMatchOf(r, t)
  BY <1>5, <1>6, <1>7 DEF SameSeats, SameMatchOf
<1>9. SameGuess(told, t)
  BY <1>6, <1>7 DEF SameGuess
<1>10. IF r.game.phase = "reveal" THEN GuessSet(r, t) ELSE SameGuess(r, t)
  BY <1>5, <1>9 DEF GuessSet, SameGuess
<1> QED
  BY <1>5, <1>6, <1>7, <1>8, <1>10 DEF SameHold, SameMatchOf

-----------------------------------------------------------------------------
(* Calls of the engine, with the events they return.                       *)

WithGame(r, s) == [r EXCEPT !.game = s]

LEMMA WithGameLemma ==
  ASSUME NEW r, Sane(r), NEW s \in State, NEW t, t = WithGame(r, s)
  PROVE  /\ Sane(t) /\ t.game = s /\ t.roundGen = r.roundGen
         /\ SameSeats(r, t) /\ SameDraw(r, t) /\ SameGuess(r, t) /\ SameHold(r, t)
  BY DEF WithGame, Sane, RoomRec, SameSeats, SameDraw, SameGuess, SameHold

LEMMA ApplyOne ==
  ASSUME NEW r, NEW s, NEW a
  PROVE  Apply(r, Out(s, <<a>>)) = BroadcastEvent(WithGame(r, s), a)
<1> DEFINE e == <<a>>
<1>1. Len(e) = 1 /\ e[1] = a
  OBVIOUS
<1> HIDE DEF e
<1>2. Out(s, e).state = s /\ Out(s, e).events = e
  BY DEF Out
<1>3. Len(e) >= 1 /\ ~(Len(e) >= 2) /\ ~(Len(e) >= 3)
  BY <1>1
<1>4. Apply(r, Out(s, e)) = BroadcastEvent(WithGame(r, s), e[1])
  BY <1>2, <1>3 DEF Apply, WithGame
<1> QED
  BY <1>1, <1>4 DEF e

LEMMA ApplyTwo ==
  ASSUME NEW r, NEW s, NEW a, NEW b
  PROVE  Apply(r, Out(s, <<a, b>>)) = BroadcastEvent(BroadcastEvent(WithGame(r, s), a), b)
<1> DEFINE e == <<a, b>>
<1>1. Len(e) = 2 /\ e[1] = a /\ e[2] = b
  OBVIOUS
<1> HIDE DEF e
<1>2. Out(s, e).state = s /\ Out(s, e).events = e
  BY DEF Out
<1>3. Apply(r, Out(s, e)) = BroadcastEvent(BroadcastEvent(WithGame(r, s), a), b)
  BY <1>1, <1>2, SMTT(60) DEF Apply, WithGame
<1> QED
  BY <1>3 DEF e

LEMMA ApplyThree ==
  ASSUME NEW r, NEW s, NEW a, NEW b, NEW c
  PROVE  Apply(r, Out(s, <<a, b, c>>))
           = BroadcastEvent(BroadcastEvent(BroadcastEvent(WithGame(r, s), a), b), c)
<1> DEFINE e == <<a, b, c>>
<1>1. Len(e) = 3 /\ e[1] = a /\ e[2] = b /\ e[3] = c
  OBVIOUS
<1> HIDE DEF e
<1>2. Out(s, e).state = s /\ Out(s, e).events = e
  BY DEF Out
<1>3. Apply(r, Out(s, e))
        = BroadcastEvent(BroadcastEvent(BroadcastEvent(WithGame(r, s), a), b), c)
  BY <1>1, <1>2 DEF Apply, WithGame
<1> QED
  BY <1>3 DEF e

LEMMA EventNames ==
  ASSUME NEW r
  PROVE  /\ BroadcastEvent(r, "RoundStarted") = RoundStarted(r)
         /\ BroadcastEvent(r, "TurnChanged") = TurnChanged(r)
         /\ BroadcastEvent(r, "StrokeAdded") = BroadcastSequenced(r, "stroke_broadcast")
         /\ BroadcastEvent(r, "PhaseChanged") = PhaseChanged(r)
         /\ BroadcastEvent(r, "VoteRecorded") = BroadcastSequenced(r, "vote_update")
         /\ BroadcastEvent(r, "RoundEnded") = RoundEnded(r)
         /\ BroadcastEvent(r, "GameEnded") = BroadcastSequenced(r, "game_over")
  BY DEF BroadcastEvent

\* What every call leaves alone: the room's seats. s is the state it leads to.
Moved(r, t, s) == Sane(t) /\ SameSeats(r, t) /\ t.game = s

LEMMA BeginEvents ==
  ASSUME NEW r, Sane(r), NEW s \in State,
         NEW t, t = Apply(r, Out(s, <<"RoundStarted", "TurnChanged">>))
  PROVE  /\ Moved(r, t, s) /\ DrawSet(t) /\ SameGuess(r, t) /\ SameHold(r, t)
         /\ t.roundGen = r.roundGen + 1
<1> DEFINE r0 == WithGame(r, s)
           r1 == RoundStarted(r0)
<1>1. t = TurnChanged(r1)
  <2>1. t = BroadcastEvent(BroadcastEvent(r0, "RoundStarted"), "TurnChanged")
    BY ApplyTwo
  <2> HIDE DEF r0
  <2> QED
    BY <2>1, EventNames
<1>2. /\ Sane(r0) /\ r0.game = s /\ r0.roundGen = r.roundGen
      /\ SameSeats(r, r0) /\ SameGuess(r, r0) /\ SameHold(r, r0)
  BY WithGameLemma
<1> HIDE DEF r0
<1>3. /\ Sane(r1) /\ SameSeats(r0, r1) /\ SameGuess(r0, r1) /\ SameHold(r0, r1)
      /\ r1.game = r0.game /\ r1.roundGen = r0.roundGen + 1
  BY <1>2, RoundStartedLemma
<1> HIDE DEF r1
<1>4. /\ Sane(t) /\ DrawSet(t) /\ SameSeats(r1, t) /\ SameGuess(r1, t) /\ SameHold(r1, t)
      /\ SameMatchOf(r1, t)
  BY <1>1, <1>3, TurnChangedLemma
<1> QED
  BY <1>2, <1>3, <1>4 DEF Moved, SameSeats, SameGuess, SameHold, SameMatchOf

LEMMA PhaseEvent ==
  ASSUME NEW r, Sane(r), NEW s \in State, NEW t, t = PhaseChanged(WithGame(r, s))
  PROVE  /\ Moved(r, t, s) /\ DrawSet(t) /\ t.roundGen = r.roundGen /\ t.reveal = r.reveal
         /\ t.discussion <=> s.phase = "discussion"
         /\ IF s.phase = "reveal" THEN GuessSet(WithGame(r, s), t) ELSE SameGuess(r, t)
<1> DEFINE r0 == WithGame(r, s)
<1>1. /\ Sane(r0) /\ r0.game = s /\ r0.roundGen = r.roundGen
      /\ SameSeats(r, r0) /\ SameGuess(r, r0) /\ SameHold(r, r0)
  BY WithGameLemma
<1>2. t = PhaseChanged(r0)
  OBVIOUS
<1> HIDE DEF r0
<1>3. /\ Sane(t) /\ DrawSet(t) /\ SameSeats(r0, t) /\ SameMatchOf(r0, t)
      /\ t.reveal = r0.reveal /\ (t.discussion <=> r0.game.phase = "discussion")
      /\ IF r0.game.phase = "reveal" THEN GuessSet(r0, t) ELSE SameGuess(r0, t)
  BY <1>1, <1>2, PhaseChangedLemma
<1>4. Moved(r, t, s) /\ t.roundGen = r.roundGen /\ t.reveal = r.reveal
  BY <1>1, <1>3 DEF Moved, SameSeats, SameHold, SameMatchOf
<1>5. IF s.phase = "reveal" THEN GuessSet(r0, t) ELSE SameGuess(r, t)
  BY <1>1, <1>3 DEF SameGuess
<1> QED
  BY <1>1, <1>3, <1>4, <1>5 DEF r0

\* What a turn's end does: the next drawer's skip, or the discussion's timer.
TurnDone(r, t, s) ==
  /\ Moved(r, t, s) /\ DrawSet(t) /\ SameGuess(r, t)
  /\ t.roundGen = r.roundGen /\ t.reveal = r.reveal
  /\ t.discussion <=> r.discussion \/ s.phase = "discussion"

LEMMA TurnEvents ==
  ASSUME NEW r, Sane(r), NEW g, g \in State, g.phase = "drawing",
         NEW s \in State, s = AdvanceTurn(g).state,
         NEW t, t = Apply(r, SkipTurn(g)) \/ t = Apply(r, AddStroke(g))
  PROVE  TurnDone(r, t, s)
<1> DEFINE event == IF s.phase = "discussion" THEN "PhaseChanged" ELSE "TurnChanged"
<1>1. AdvanceTurn(g) = Out(s, <<event>>)
  <2> DEFINE turn == IF LastOfLap(g) THEN 0 ELSE g.turn + 1
             lap  == IF LastOfLap(g) THEN g.lap + 1 ELSE g.lap
  <2>1. CASE LastOfLap(g) /\ lap >= TotalLaps
    <3>1. s = [g EXCEPT !.turn = turn, !.lap = lap, !.phase = "discussion"]
      BY <2>1 DEF AdvanceTurn, Out
    <3>2. s.phase = "discussion"
      BY <3>1 DEF State
    <3> QED
      BY <2>1, <3>1, <3>2 DEF AdvanceTurn
  <2>2. CASE ~(LastOfLap(g) /\ lap >= TotalLaps)
    <3>1. s = [g EXCEPT !.turn = turn, !.lap = lap]
      BY <2>2 DEF AdvanceTurn, Out
    <3>2. s.phase = "drawing"
      BY <3>1 DEF State
    <3> QED
      BY <2>2, <3>1, <3>2 DEF AdvanceTurn
  <2> QED
    BY <2>1, <2>2
<1>2. AddStroke(g) = Out(s, <<"StrokeAdded", event>>)
  <2>1. AddStroke(g) = Out(s, <<"StrokeAdded">> \o <<event>>)
    BY <1>1 DEF AddStroke, Out
  <2>2. <<"StrokeAdded">> \o <<event>> = <<"StrokeAdded", event>>
    BY EventPair DEF EventType
  <2> QED
    BY <2>1, <2>2
<1>3. SkipTurn(g) = Out(s, <<event>>)
  BY <1>1 DEF SkipTurn
<1> HIDE DEF event
\* x is the room before the turn's own event.
<1>4. ASSUME NEW x, Sane(x), x.game = s, SameSeats(r, x), SameGuess(r, x), SameHold(r, x),
             x.roundGen = r.roundGen, t = BroadcastEvent(x, event)
      PROVE  TurnDone(r, t, s)
  <2>1. CASE s.phase = "discussion"
    <3>1. t = PhaseChanged(x)
      BY <1>4, <2>1, EventNames DEF event
    <3>2. /\ Sane(t) /\ DrawSet(t) /\ SameSeats(x, t) /\ SameMatchOf(x, t)
          /\ t.reveal = x.reveal /\ t.discussion /\ SameGuess(x, t)
      BY <1>4, <2>1, <3>1, PhaseChangedLemma
    <3> QED
      BY <1>4, <2>1, <3>2 DEF TurnDone, Moved, SameSeats, SameGuess, SameHold, SameMatchOf
  <2>2. CASE s.phase # "discussion"
    <3>1. t = TurnChanged(x)
      BY <1>4, <2>2, EventNames DEF event
    <3>2. /\ Sane(t) /\ DrawSet(t) /\ SameSeats(x, t) /\ SameGuess(x, t) /\ SameHold(x, t)
          /\ SameMatchOf(x, t)
      BY <1>4, <3>1, TurnChangedLemma
    <3> QED
      BY <1>4, <2>2, <3>2 DEF TurnDone, Moved, SameSeats, SameGuess, SameHold, SameMatchOf
  <2> QED
    BY <2>1, <2>2
<1> DEFINE r0 == WithGame(r, s)
           r1 == BroadcastSequenced(r0, "stroke_broadcast")
<1>5. /\ Sane(r0) /\ r0.game = s /\ r0.roundGen = r.roundGen
      /\ SameSeats(r, r0) /\ SameGuess(r, r0) /\ SameHold(r, r0)
  BY WithGameLemma
<1>6. \/ t = BroadcastEvent(r0, event)
      \/ t = BroadcastEvent(r1, event)
  <2>1. \/ t = BroadcastEvent(r0, event)
        \/ t = BroadcastEvent(BroadcastEvent(r0, "StrokeAdded"), event)
    BY <1>2, <1>3, ApplyOne, ApplyTwo
  <2> HIDE DEF r0
  <2> QED
    BY <2>1, EventNames
<1> HIDE DEF r0
<1>7. Sane(r1) /\ Told(r0, r1)
  BY <1>5, TellLemma DEF BumpedType
<1> HIDE DEF r1
<1>8. /\ r1.game = s /\ r1.roundGen = r.roundGen
      /\ SameSeats(r, r1) /\ SameGuess(r, r1) /\ SameHold(r, r1)
  BY <1>5, <1>7 DEF Told, SameSeats, SameGuess, SameHold, SameMatchOf
<1> QED
  BY <1>4, <1>5, <1>6, <1>7, <1>8

LEMMA EndDiscussionEvents ==
  ASSUME NEW r, Sane(r), NEW g, g \in State, NEW t, t = Apply(r, EndDiscussion(g)),
         NEW s, s = EndDiscussion(g).state
  PROVE  /\ Moved(r, t, s) /\ DrawSet(t) /\ SameGuess(r, t)
         /\ t.roundGen = r.roundGen /\ t.reveal = r.reveal /\ ~t.discussion
<1>1. s \in State /\ s.phase = "voting" /\ EndDiscussion(g) = Out(s, <<"PhaseChanged">>)
  BY DEF State, Phase, EndDiscussion, Out
<1>2. t = PhaseChanged(WithGame(r, s))
  <2> DEFINE r0 == WithGame(r, s)
  <2>1. t = BroadcastEvent(r0, "PhaseChanged")
    BY <1>1, ApplyOne
  <2> HIDE DEF r0
  <2>2. t = PhaseChanged(r0)
    BY <2>1, EventNames
  <2> QED
    BY <2>2 DEF r0
<1> QED
  BY <1>1, <1>2, PhaseEvent

\* What the verdict does: the guess timer of a caught impostor, or the hold.
VoteDone(r, t, s) ==
  /\ Moved(r, t, s) /\ DrawSet(t) /\ GuessSet(WithGame(r, s), t)
  /\ t.roundGen = r.roundGen /\ ~t.discussion
  /\ t.reveal <=> r.reveal \/ ~s.result.caught

\* x is the room before the verdict's own events.
LEMMA VerdictEvents ==
  ASSUME NEW r, Sane(r), NEW g \in State, NEW s, s = FinishVoting(g).state,
         NEW t, t = Apply(r, FinishVoting(g))
                  \/ t = Apply(r, Out(s, <<"VoteRecorded">> \o FinishVoting(g).events))
  PROVE  VoteDone(r, t, s)
<1>1. /\ s \in State /\ s.phase = "reveal" /\ (s.result.caught <=> CaughtByPlurality(g))
  BY FinishVotingLemma
<1> DEFINE events == IF s.result.caught THEN <<"PhaseChanged">>
                                        ELSE <<"PhaseChanged", "RoundEnded">>
<1>2. FinishVoting(g) = Out(s, events)
  BY <1>1 DEF FinishVoting, Out
<1>3. ASSUME NEW x, Sane(x), SameSeats(r, x), SameGuess(r, x), SameHold(r, x),
             SameDraw(r, x), x.roundGen = r.roundGen, x.game = s,
             NEW y, y = PhaseChanged(x),
             t = IF s.result.caught THEN y ELSE RoundEnded(y)
      PROVE  VoteDone(r, t, s)
  <2>1. /\ Sane(y) /\ DrawSet(y) /\ SameSeats(x, y) /\ SameMatchOf(x, y)
        /\ y.reveal = x.reveal /\ ~y.discussion /\ GuessSet(x, y)
    BY <1>1, <1>3, PhaseChangedLemma
  <2>2. WithGame(r, s).deadline = r.deadline /\ WithGame(r, s).roundGen = r.roundGen
        /\ WithGame(r, s).game = s
    BY <1>1, WithGameLemma DEF SameGuess
  <2>3. GuessSet(WithGame(r, s), y)
    BY <1>3, <2>1, <2>2 DEF GuessSet, SameGuess
  <2>4. Moved(r, y, s) /\ y.roundGen = r.roundGen /\ y.reveal = r.reveal
    BY <1>3, <2>1 DEF Moved, SameSeats, SameHold, SameMatchOf
  <2>5. CASE s.result.caught
    BY <1>3, <2>1, <2>3, <2>4, <2>5 DEF VoteDone
  <2>6. CASE ~s.result.caught
    <3>1. /\ Sane(t) /\ t.reveal /\ t.discussion = y.discussion
          /\ SameSeats(y, t) /\ SameDraw(y, t) /\ SameGuess(y, t) /\ SameMatchOf(y, t)
      BY <1>3, <2>1, <2>6, RoundEndedLemma
    <3>2. GuessSet(WithGame(r, s), t)
      BY <2>3, <3>1 DEF GuessSet, SameGuess
    <3>3. DrawSet(t)
      BY <2>1, <3>1
      DEF DrawSet, DrawerAbsent, Skip, SameDraw, SameSeats, SameMatchOf, Connected
    <3>4. Moved(r, t, s) /\ t.roundGen = r.roundGen
      BY <2>4, <3>1 DEF Moved, SameSeats, SameMatchOf
    <3> QED
      BY <2>1, <2>6, <3>1, <3>2, <3>3, <3>4 DEF VoteDone
  <2> QED
    BY <2>5, <2>6
<1> DEFINE r0 == WithGame(r, s)
           r1 == BroadcastSequenced(r0, "vote_update")
<1>4. /\ Sane(r0) /\ r0.game = s /\ r0.roundGen = r.roundGen
      /\ SameSeats(r, r0) /\ SameGuess(r, r0) /\ SameHold(r, r0) /\ SameDraw(r, r0)
  BY <1>1, WithGameLemma
<1>5. \/ t = IF s.result.caught THEN PhaseChanged(r0) ELSE RoundEnded(PhaseChanged(r0))
      \/ t = IF s.result.caught THEN PhaseChanged(r1) ELSE RoundEnded(PhaseChanged(r1))
  <2>1. /\ <<"VoteRecorded">> \o <<"PhaseChanged">> = <<"VoteRecorded", "PhaseChanged">>
        /\ <<"VoteRecorded">> \o <<"PhaseChanged", "RoundEnded">>
             = <<"VoteRecorded", "PhaseChanged", "RoundEnded">>
    BY EventPair, EventTriple DEF EventType
  <2>2. FinishVoting(g).events = events
    BY <1>2 DEF Out
  <2>3. CASE s.result.caught
    <3>1. t = Apply(r, Out(s, <<"PhaseChanged">>))
            \/ t = Apply(r, Out(s, <<"VoteRecorded", "PhaseChanged">>))
      BY <1>2, <2>1, <2>2, <2>3
    <3> QED
      <4>1. \/ t = BroadcastEvent(r0, "PhaseChanged")
            \/ t = BroadcastEvent(BroadcastEvent(r0, "VoteRecorded"), "PhaseChanged")
        BY <3>1, ApplyOne, ApplyTwo
      <4> HIDE DEF r0
      <4> QED
        BY <2>3, <4>1, EventNames
  <2>4. CASE ~s.result.caught
    <3>1. t = Apply(r, Out(s, <<"PhaseChanged", "RoundEnded">>))
            \/ t = Apply(r, Out(s, <<"VoteRecorded", "PhaseChanged", "RoundEnded">>))
      BY <1>2, <2>1, <2>2, <2>4
    <3> QED
      <4>1. \/ t = BroadcastEvent(BroadcastEvent(r0, "PhaseChanged"), "RoundEnded")
            \/ t = BroadcastEvent(BroadcastEvent(BroadcastEvent(
                      r0, "VoteRecorded"), "PhaseChanged"), "RoundEnded")
        BY <3>1, ApplyTwo, ApplyThree
      <4> HIDE DEF r0
      <4> QED
        BY <2>4, <4>1, EventNames
  <2> QED
    BY <2>3, <2>4
<1> HIDE DEF r0
<1>6. Sane(r1) /\ Told(r0, r1)
  BY <1>4, TellLemma DEF BumpedType
<1> HIDE DEF r1
<1>7. /\ r1.game = s /\ r1.roundGen = r.roundGen
      /\ SameSeats(r, r1) /\ SameGuess(r, r1) /\ SameHold(r, r1) /\ SameDraw(r, r1)
  BY <1>4, <1>6 DEF Told, SameSeats, SameGuess, SameHold, SameDraw, SameMatchOf
<1> QED
  BY <1>3, <1>4, <1>5, <1>6, <1>7

\* A message and nothing else: a vote that decides nothing, the end of the match.
LEMMA ToldEvents ==
  ASSUME NEW r, Sane(r), NEW s \in State, NEW event \in {"VoteRecorded", "GameEnded"},
         NEW t, t = Apply(r, Out(s, <<event>>))
  PROVE  /\ Moved(r, t, s) /\ t.roundGen = r.roundGen
         /\ SameDraw(r, t) /\ SameGuess(r, t) /\ SameHold(r, t)
<1> DEFINE r0 == WithGame(r, s)
<1>1. \/ t = BroadcastSequenced(r0, "vote_update")
      \/ t = BroadcastSequenced(r0, "game_over")
  <2>1. t = BroadcastEvent(r0, event)
    BY ApplyOne
  <2> HIDE DEF r0
  <2> QED
    BY <2>1, EventNames
<1>2. /\ Sane(r0) /\ r0.game = s /\ r0.roundGen = r.roundGen
      /\ SameSeats(r, r0) /\ SameGuess(r, r0) /\ SameHold(r, r0) /\ SameDraw(r, r0)
  BY WithGameLemma
<1> HIDE DEF r0
<1>3. Sane(t) /\ Told(r0, t)
  BY <1>1, <1>2, TellLemma DEF BumpedType
<1> QED
  BY <1>2, <1>3 DEF Moved, Told, SameSeats, SameGuess, SameHold, SameDraw, SameMatchOf

LEMMA EndedEvents ==
  ASSUME NEW r, Sane(r), NEW s \in State, NEW t, t = Apply(r, Out(s, <<"RoundEnded">>))
  PROVE  /\ Moved(r, t, s) /\ t.roundGen = r.roundGen /\ t.reveal
         /\ t.discussion = r.discussion
         /\ SameDraw(r, t) /\ SameGuess(r, t)
<1> DEFINE r0 == WithGame(r, s)
<1>1. t = RoundEnded(r0)
  <2>1. t = BroadcastEvent(r0, "RoundEnded")
    BY ApplyOne
  <2> HIDE DEF r0
  <2> QED
    BY <2>1, EventNames
<1>2. /\ Sane(r0) /\ r0.game = s /\ r0.roundGen = r.roundGen
      /\ SameSeats(r, r0) /\ SameGuess(r, r0) /\ SameHold(r, r0) /\ SameDraw(r, r0)
  BY WithGameLemma
<1> HIDE DEF r0
<1>3. /\ Sane(t) /\ t.reveal /\ t.discussion = r0.discussion
      /\ SameSeats(r0, t) /\ SameDraw(r0, t) /\ SameGuess(r0, t) /\ SameMatchOf(r0, t)
  BY <1>1, <1>2, RoundEndedLemma
<1> QED
  BY <1>2, <1>3 DEF Moved, SameSeats, SameGuess, SameHold, SameDraw, SameMatchOf


-----------------------------------------------------------------------------
(* Seats: the client table, presence and the engine's roster.              *)

Known(r, p) == r.presence[p].known

\* The host is the only player that can be on the roster without ever having
\* connected; whoever else is there has a presence entry.
SeatAgrees(r, p) ==
  /\ r.presence[p].connected <=> r.clients[p] # NoConn
  /\ r.presence[p].connected => Known(r, p) /\ ~r.presence[p].expired
  /\ r.presence[p].connected => p \in Roster(r.game)
  /\ r.presence[p].expired => Known(r, p)
  /\ Known(r, p) => r.presence[p].gen # 0
  /\ p \in Roster(r.game) =>
       Known(r, p) \/ (p = r.game.host /\ r.game.phase = "lobby")
  /\ p \in r.voice => r.clients[p] # NoConn
  /\ r.clients[p] < r.nextConn

SeatsAgree(r) == \A p \in PlayerID : SeatAgrees(r, p)

HostOK(r) == Connected(r) # {} => ~HostLost(r)

\* What the seats are made of, as a method that only sends or plays leaves it.
LEMMA SeatsKept ==
  ASSUME NEW r, NEW t, SeatsAgree(r), SameSeats(r, t),
         Roster(t.game) = Roster(r.game), t.game.host = r.game.host,
         r.game.phase = "lobby" => t.game.phase = "lobby" \/ Known(r, r.game.host),
         r.game.phase # "lobby" => t.game.phase # "lobby"
  PROVE  SeatsAgree(t)
  BY DEF SeatsAgree, SeatAgrees, SameSeats, Known

LEMMA HostKept ==
  ASSUME NEW r, NEW t, HostOK(r), SameSeats(r, t),
         Roster(t.game) = Roster(r.game), t.game.host = r.game.host
  PROVE  HostOK(t)
  BY DEF HostOK, HostLost, SameSeats, Connected

LEMMA LeastOf ==
  ASSUME NEW T \in SUBSET Nat, T # {}
  PROVE  \E x \in T : \A y \in T : x <= y
<1> DEFINE R == OpToRel(<, Nat)
<1>1. IsWellFoundedOn(R, Nat)
  BY NatLessThanWellFounded
<1>2. \A x, y \in Nat : <<y, x>> \in R <=> y < x
  BY DEF OpToRel
<1> HIDE DEF R
<1>3. PICK x \in T : \A y \in T : ~(<<y, x>> \in R)
  BY <1>1, WFMin
<1>4. \A y \in T : ~(y < x)
  BY <1>2, <1>3
<1>5. \A y \in T : x <= y
  BY <1>4
<1> QED
  BY <1>5

LEMMA CandidateLemma ==
  ASSUME NEW r, Sane(r), Present(r) # {}
  PROVE  Candidate(r) \in Present(r)
<1> DEFINE T == {r.presence[p].joinSeq : p \in Present(r)}
<1>1. \A p \in PlayerID : r.presence[p].joinSeq \in Nat
  BY DEF Sane, RoomRec, Presence
<1>2. Present(r) \subseteq PlayerID
  BY DEF Present
<1>3. T \in SUBSET Nat /\ T # {}
  BY <1>1, <1>2
<1>4. PICK x \in T : \A y \in T : x <= y
  BY <1>3, LeastOf
<1>5. PICK p \in Present(r) : x = r.presence[p].joinSeq
  BY <1>4
<1>6. \A q \in Present(r) : r.presence[p].joinSeq <= r.presence[q].joinSeq
  BY <1>4, <1>5
<1> QED
  BY <1>6 DEF Candidate

-----------------------------------------------------------------------------
(* Host migration.                                                         *)

HostMoved(g, h) == h = g \/ \E q \in Roster(g) : h = SetHostID(g, q)

SameButHost(g, h) ==
  /\ h.phase = g.phase /\ h.players = g.players /\ h.turn = g.turn /\ h.votes = g.votes
  /\ h.result = g.result /\ h.impostor = g.impostor /\ Roster(h) = Roster(g)
  /\ AwaitingGuess(h) <=> AwaitingGuess(g)
  /\ Settled(h) <=> Settled(g)

LEMMA HostMovedLemma ==
  ASSUME NEW g, Inv(g), NEW h, HostMoved(g, h)
  PROVE  Inv(h) /\ SameMatch(g, h) /\ SameButHost(g, h)
<1>1. CASE h = g
  BY <1>1 DEF SameMatch, SameRound, SameButHost
<1>2. ASSUME NEW q \in Roster(g), h = SetHostID(g, q)
      PROVE  Inv(h) /\ SameMatch(g, h) /\ SameButHost(g, h)
  <2>1. g \in State /\ q \in PlayerID
    BY RosterType DEF Inv
  <2>2. Inv(h) /\ SameMatch(g, h)
    BY <1>2, <2>1, SetHostInv, SetHostStep
  <2>3. /\ h.phase = g.phase /\ h.players = g.players /\ h.turn = g.turn
        /\ h.votes = g.votes /\ h.result = g.result /\ h.impostor = g.impostor
    BY <1>2, <2>1 DEF SetHostID, State
  <2> QED
    BY <2>2, <2>3 DEF SameButHost, Roster, AwaitingGuess, Settled
<1> QED
  BY <1>1, <1>2 DEF HostMoved

LEMMA MigrateLemma ==
  ASSUME NEW r, Sane(r), SeatsAgree(r), NEW t, t = MaybeMigrateHost(r)
  PROVE  /\ Sane(t) /\ SeatsAgree(t) /\ HostOK(t) /\ HostMoved(r.game, t.game)
         /\ SameSeats(r, t) /\ SameDraw(r, t) /\ SameGuess(r, t) /\ SameHold(r, t)
         /\ t.roundGen = r.roundGen
<1> DEFINE c     == Candidate(r)
           moved == /\ HostLost(r) /\ Present(r) # {}
                    /\ c # r.game.host /\ MaySetHost(r.game, c)
           s     == SetHostID(r.game, c)
<1>1. t = IF moved THEN BroadcastSequenced(WithGame(r, s), "host_changed") ELSE r
  BY DEF MaybeMigrateHost, WithGame, Sane, RoomRec
<1>2. r.game \in State
  BY DEF Sane, RoomRec
<1>3. Present(r) # {} => c \in Present(r)
  BY CandidateLemma
<1>4. \A p \in Present(r) : p \in PlayerID /\ r.presence[p].connected /\ p \in Roster(r.game)
  BY DEF Present, SeatsAgree, SeatAgrees
<1>5. CASE moved
  <2> DEFINE x == WithGame(r, s)
  <2>1. c \in PlayerID /\ r.presence[c].connected /\ c \in Roster(r.game)
    BY <1>3, <1>4, <1>5
  <2> HIDE DEF c
  <2>2. /\ s \in State /\ s.host = c /\ s.players = r.game.players
        /\ s.phase = r.game.phase
    BY <1>2, <2>1 DEF SetHostID, State
  <2>3. Roster(s) = Roster(r.game)
    BY <2>2 DEF Roster
  <2>4. t = BroadcastSequenced(x, "host_changed")
    BY <1>1, <1>5
  <2>5. HostLost(r)
    BY <1>5
  <2>6. HostMoved(r.game, s)
    BY <2>1 DEF HostMoved
  <2> HIDE DEF s
  <2>7. /\ Sane(x) /\ x.game = s /\ x.roundGen = r.roundGen
        /\ SameSeats(r, x) /\ SameDraw(r, x) /\ SameGuess(r, x) /\ SameHold(r, x)
    BY <2>2, WithGameLemma
  <2> HIDE DEF x
  <2>8. Sane(t) /\ Told(x, t)
    BY <2>4, <2>7, TellLemma DEF BumpedType
  <2>9. /\ t.game = s /\ t.roundGen = r.roundGen
        /\ SameSeats(r, t) /\ SameDraw(r, t) /\ SameGuess(r, t) /\ SameHold(r, t)
    BY <2>7, <2>8 DEF Told, SameSeats, SameDraw, SameGuess, SameHold, SameMatchOf
  <2>10. r.game.host \in Roster(r.game) => Known(r, r.game.host)
    BY <2>5 DEF HostLost, Known
  <2>11. SeatsAgree(t)
    BY <2>2, <2>3, <2>9, <2>10 DEF SeatsAgree, SeatAgrees, SameSeats, Known
  <2>12. HostOK(t)
    BY <2>1, <2>2, <2>3, <2>9 DEF HostOK, HostLost, SameSeats
  <2> QED
    BY <2>6, <2>8, <2>9, <2>11, <2>12
<1>6. CASE ~moved
  <2>1. t = r
    BY <1>1, <1>6
  <2>2. ASSUME Connected(r) # {}, HostLost(r) PROVE FALSE
    <3>1. Present(r) # {}
      BY <2>2 DEF Connected, Present, SeatsAgree, SeatAgrees
    <3>2. c \in Present(r) /\ c \in Roster(r.game) /\ r.presence[c].connected
      BY <1>3, <1>4, <3>1
    <3>3. c = r.game.host
      BY <1>6, <2>2, <3>1, <3>2 DEF MaySetHost
    <3> QED
      BY <2>2, <3>2, <3>3 DEF HostLost
  <2>3. HostOK(r) /\ HostMoved(r.game, r.game)
    BY <2>2 DEF HostOK, HostMoved
  <2> QED
    BY <2>1, <2>3 DEF SameSeats, SameDraw, SameGuess, SameHold
<1> QED
  BY <1>5, <1>6

-----------------------------------------------------------------------------
(* Votes.                                                                  *)

\* What evaluating the vote does: nothing but a message, or the verdict.
Evaluated(r, t) ==
  /\ Sane(t) /\ SameSeats(r, t)
  /\ IF MayResolveVoting(r.game, Connected(r))
     THEN VoteDone(r, t, FinishVoting(r.game).state)
     ELSE SameDraw(r, t) /\ SameGuess(r, t) /\ SameHold(r, t) /\ SameMatchOf(r, t)

LEMMA VotingLemma ==
  ASSUME NEW r, Sane(r), NEW t, t = EvaluateVoting(r)
  PROVE  Evaluated(r, t)
<1> DEFINE told == BroadcastSequenced(r, "vote_update")
           s    == FinishVoting(r.game).state
<1>1. r.game \in State
  BY DEF Sane, RoomRec
<1>2. Sane(told) /\ Told(r, told)
  BY TellLemma DEF BumpedType
<1>3. CASE MayResolveVoting(r.game, Connected(r))
  <2>1. t = Apply(told, FinishVoting(r.game))
    BY <1>3 DEF EvaluateVoting, MayResolveVoting
  <2> HIDE DEF told
  <2>2. VoteDone(told, t, s)
    BY <1>1, <1>2, <2>1, VerdictEvents
  <2>3. s \in State
    BY <1>1, FinishVotingLemma
  <2> HIDE DEF s
  <2>4. GuessSet(WithGame(r, s), t)
    <3>1. /\ WithGame(r, s).game = s /\ WithGame(r, s).roundGen = r.roundGen
          /\ WithGame(r, s).deadline = r.deadline
          /\ WithGame(told, s).game = s /\ WithGame(told, s).roundGen = r.roundGen
          /\ WithGame(told, s).deadline = r.deadline
      BY <1>2, <2>3, WithGameLemma DEF Told, SameMatchOf, SameGuess
    <3> QED
      BY <2>2, <3>1 DEF VoteDone, GuessSet
  <2>5. VoteDone(r, t, s)
    BY <1>2, <2>2, <2>4 DEF VoteDone, Moved, Told, SameSeats, SameHold, SameMatchOf
  <2>6. Sane(t) /\ SameSeats(r, t)
    BY <2>5 DEF VoteDone, Moved
  <2> QED
    BY <1>3, <2>5, <2>6 DEF Evaluated, s
<1>4. CASE ~MayResolveVoting(r.game, Connected(r))
  <2>1. t = r \/ t = told
    BY <1>4 DEF EvaluateVoting
  <2>2. Told(r, r)
    BY DEF Told, SameSeats, SameDraw, SameGuess, SameHold, SameMatchOf
  <2> HIDE DEF told
  <2>3. Sane(t) /\ Told(r, t)
    BY <1>2, <2>1, <2>2
  <2> QED
    BY <1>4, <2>3 DEF Evaluated, Told
<1> QED
  BY <1>3, <1>4

-----------------------------------------------------------------------------
(* Presence.                                                               *)

\* A connection of id is registered; only id's presence does not show it yet.
Arriving(r, id) ==
  /\ id \in Roster(r.game) /\ r.clients[id] # NoConn /\ r.clients[id] < r.nextConn
  /\ \A p \in PlayerID \ {id} : SeatAgrees(r, p)

\* What the other seats see of id's arrival or departure: nothing.
OthersSame(r, t, id) ==
  /\ \A p \in PlayerID \ {id} :
       /\ t.presence[p] = r.presence[p] /\ t.grace[p] = r.grace[p]
       /\ p \in t.young <=> p \in r.young
  /\ t.seats = r.seats /\ t.nextConn = r.nextConn /\ t.running = r.running

Present1(t, id) ==
  /\ Known(t, id) /\ t.presence[id].connected /\ ~t.presence[id].expired
  /\ t.presence[id].gen # 0 /\ t.grace[id] = 0

\* id is marked connected, the host and the skip timer follow.
Arrived(r, t, id) ==
  /\ Sane(t) /\ SeatsAgree(t) /\ HostOK(t) /\ DrawSet(t)
  /\ OthersSame(r, t, id) /\ Present1(t, id)
  /\ t.clients = r.clients /\ t.voice = r.voice
  /\ SameGuess(r, t) /\ SameHold(r, t)
  /\ HostMoved(r.game, t.game) /\ t.roundGen = r.roundGen

LEMMA MarkConnectedLemma ==
  ASSUME NEW r, Sane(r), NEW id \in PlayerID, Arriving(r, id),
         NEW t, t = MarkConnected(r, id)
  PROVE  \E m : Arrived(r, m, id) /\ Evaluated(m, t)
<1> DEFINE pres     == r.presence[id]
           entry    == [known |-> TRUE, connected |-> TRUE, gen |-> pres.gen + 1,
                        joinSeq |-> IF pres.known THEN pres.joinSeq ELSE r.nextJoinSeq,
                        expired |-> FALSE]
           nextSeq  == IF pres.known THEN r.nextJoinSeq ELSE r.nextJoinSeq + 1
           disarmed == Disarm(r, id)
           marked   == [disarmed EXCEPT !.presence = [r.presence EXCEPT ![id] = entry],
                                        !.nextJoinSeq = nextSeq,
                                        !.grace = [r.grace EXCEPT ![id] = 0]]
           told     == IF pres.known /\ ~pres.connected
                       THEN BroadcastSequenced(marked, "player_presence_changed")
                       ELSE marked
           moved    == MaybeMigrateHost(told)
           m        == EvaluateDrawTimer(moved)
<1>1. /\ pres \in Presence /\ r.nextJoinSeq \in Nat
      /\ r.presence \in [PlayerID -> Presence] /\ r.grace \in [PlayerID -> Nat]
  BY DEF Sane, RoomRec
<1>2. pres.gen \in Nat /\ pres.joinSeq \in Nat
  BY <1>1 DEF Presence
<1>3. /\ entry \in Presence /\ nextSeq \in Nat
      /\ entry.known /\ entry.connected /\ ~entry.expired /\ entry.gen # 0
  <2>1. pres.gen + 1 \in Nat /\ pres.gen + 1 # 0
    BY <1>2
  <2>2. (IF pres.known THEN pres.joinSeq ELSE r.nextJoinSeq) \in Nat /\ nextSeq \in Nat
    BY <1>1, <1>2
  <2> HIDE DEF pres, nextSeq
  <2> QED
    BY <2>1, <2>2 DEF Presence
<1>4. t = EvaluateVoting(m)
  <2>1. disarmed.presence = r.presence /\ disarmed.grace = r.grace
        /\ disarmed.nextJoinSeq = r.nextJoinSeq
    BY DEF Disarm, Sane, RoomRec
  <2>2. marked = [disarmed EXCEPT !.presence[id] = entry, !.nextJoinSeq = nextSeq,
                                  !.grace[id] = 0]
    BY <2>1 DEF Disarm, Sane, RoomRec
  <2> QED
    BY <2>1, <2>2 DEF MarkConnected, Disarm, Sane, RoomRec
<1> HIDE DEF entry, nextSeq
<1>5. /\ Sane(disarmed) /\ SameButYoung(r, disarmed)
      /\ \A y \in Timer \ {id} : y \in disarmed.young <=> y \in r.young
  BY DisarmLemma, TimerNames
<1> HIDE DEF disarmed
<1>6. /\ Sane(marked)
      /\ marked.presence = [r.presence EXCEPT ![id] = entry]
      /\ marked.grace = [r.grace EXCEPT ![id] = 0]
      /\ marked.clients = r.clients /\ marked.voice = r.voice /\ marked.seats = r.seats
      /\ marked.nextConn = r.nextConn /\ marked.running = r.running
      /\ \A y \in Timer \ {id} : y \in marked.young <=> y \in r.young
      /\ marked.guess = r.guess /\ marked.deadline = r.deadline
      /\ SameHold(r, marked) /\ SameMatchOf(r, marked)
  BY <1>1, <1>3, <1>5 DEF Sane, RoomRec, SameButYoung, SameHold, SameMatchOf
<1> HIDE DEF marked
<1>7. Sane(told) /\ Told(marked, told)
  <2>1. told = marked \/ told = BroadcastSequenced(marked, "player_presence_changed")
    OBVIOUS
  <2>2. Told(marked, marked)
    BY DEF Told, SameSeats, SameDraw, SameGuess, SameHold, SameMatchOf
  <2> HIDE DEF told
  <2> QED
    BY <1>6, <2>1, <2>2, TellLemma DEF BumpedType
<1> HIDE DEF told
<1>8. /\ told.presence = [r.presence EXCEPT ![id] = entry]
      /\ told.grace = [r.grace EXCEPT ![id] = 0]
      /\ told.clients = r.clients /\ told.voice = r.voice /\ told.seats = r.seats
      /\ told.nextConn = r.nextConn /\ told.running = r.running
      /\ \A p \in PlayerID \ {id} : p \in told.young <=> p \in r.young
      /\ SameGuess(r, told) /\ SameHold(r, told) /\ SameMatchOf(r, told)
  BY <1>6, <1>7, TimerNames
  DEF Told, SameSeats, SameGuess, SameHold, SameMatchOf
<1>9. SeatsAgree(told)
  <2>1. ASSUME NEW p \in PlayerID, p # id PROVE SeatAgrees(told, p)
    BY <1>1, <1>8, <2>1 DEF Arriving, SeatAgrees, Known, SameMatchOf
  <2>2. SeatAgrees(told, id)
    BY <1>1, <1>3, <1>8 DEF Arriving, SeatAgrees, Known, SameMatchOf
  <2> QED
    BY <2>1, <2>2 DEF SeatsAgree
<1>10. /\ Sane(moved) /\ SeatsAgree(moved) /\ HostOK(moved)
       /\ HostMoved(told.game, moved.game) /\ SameSeats(told, moved)
       /\ SameGuess(told, moved) /\ SameHold(told, moved) /\ moved.roundGen = told.roundGen
  BY <1>7, <1>9, MigrateLemma
<1> HIDE DEF moved
<1>11. /\ Sane(m) /\ DrawSet(m) /\ SameSeats(moved, m) /\ SameGuess(moved, m)
       /\ SameHold(moved, m) /\ SameMatchOf(moved, m)
  BY <1>10, DrawLemma
<1> HIDE DEF m
<1>12. SeatsAgree(m) /\ HostOK(m)
  BY <1>10, <1>11, SeatsKept, HostKept DEF SameMatchOf
<1>13. OthersSame(r, m, id) /\ Present1(m, id)
  <2>1. m.presence = [r.presence EXCEPT ![id] = entry] /\ m.grace = [r.grace EXCEPT ![id] = 0]
    BY <1>8, <1>10, <1>11 DEF SameSeats
  <2> QED
    BY <1>1, <1>3, <1>8, <1>10, <1>11, <2>1 DEF OthersSame, Present1, Known, SameSeats
<1>14. /\ m.clients = r.clients /\ m.voice = r.voice /\ SameGuess(r, m) /\ SameHold(r, m)
       /\ HostMoved(r.game, m.game) /\ m.roundGen = r.roundGen
  BY <1>8, <1>10, <1>11 DEF SameSeats, SameGuess, SameHold, SameMatchOf
<1>15. Arrived(r, m, id)
  BY <1>11, <1>12, <1>13, <1>14 DEF Arrived
<1>16. Evaluated(m, t)
  BY <1>4, <1>11, VotingLemma
<1> QED
  BY <1>15, <1>16

\* id's connection is gone; only id's presence does not show it yet.
Departing(r, id) ==
  /\ r.clients[id] = NoConn /\ r.presence[id].connected
  /\ Known(r, id) /\ ~r.presence[id].expired /\ id \notin r.voice
  /\ id \in Roster(r.game) /\ HostOK(r) /\ r.clients[id] < r.nextConn
  /\ \A p \in PlayerID \ {id} : SeatAgrees(r, p)

Absent1(r, t, id) ==
  /\ Known(t, id) /\ ~t.presence[id].connected /\ ~t.presence[id].expired
  /\ t.presence[id].gen = r.presence[id].gen + 1
  /\ t.grace[id] = t.presence[id].gen /\ (Prompt => id \in t.young)

Departed(r, t, id) ==
  /\ Sane(t) /\ SeatsAgree(t) /\ HostOK(t) /\ DrawSet(t)
  /\ OthersSame(r, t, id) /\ Absent1(r, t, id)
  /\ t.clients = r.clients /\ t.voice = r.voice
  /\ SameGuess(r, t) /\ SameHold(r, t) /\ SameMatchOf(r, t)

LEMMA MarkDisconnectedLemma ==
  ASSUME NEW r, Sane(r), NEW id \in PlayerID, Departing(r, id),
         NEW t, t = MarkDisconnected(r, id)
  PROVE  \E m : Departed(r, m, id) /\ Evaluated(m, t)
<1> DEFINE gen    == r.presence[id].gen + 1
           entry  == [r.presence[id] EXCEPT !.connected = FALSE, !.gen = gen]
           placed == [r EXCEPT !.presence = [r.presence EXCEPT ![id] = entry],
                               !.grace = [r.grace EXCEPT ![id] = gen]]
           marked == Arm(placed, id)
           told   == BroadcastSequenced(marked, "player_presence_changed")
           m      == EvaluateDrawTimer(told)
<1>1. /\ r.presence[id] \in Presence
      /\ r.presence \in [PlayerID -> Presence] /\ r.grace \in [PlayerID -> Nat]
  BY DEF Sane, RoomRec
<1>2. gen \in Nat /\ gen # 0 /\ gen = r.presence[id].gen + 1
  BY <1>1 DEF Presence
<1>3. placed = [r EXCEPT !.presence[id].connected = FALSE,
                         !.presence[id].gen = gen, !.grace[id] = gen]
  BY <1>1 DEF Sane, RoomRec, Presence
<1>4. t = EvaluateVoting(m)
  BY <1>3 DEF MarkDisconnected, Departing
<1> HIDE DEF gen
<1>5. /\ entry \in Presence /\ entry.known = Known(r, id) /\ ~entry.connected
      /\ entry.gen = gen /\ entry.expired = r.presence[id].expired
  BY <1>1, <1>2 DEF Presence, Known
<1> HIDE DEF entry
<1>6. /\ Sane(placed)
      /\ placed.presence = [r.presence EXCEPT ![id] = entry]
      /\ placed.grace = [r.grace EXCEPT ![id] = gen]
      /\ placed.clients = r.clients /\ placed.voice = r.voice /\ placed.seats = r.seats
      /\ placed.nextConn = r.nextConn /\ placed.running = r.running /\ placed.young = r.young
      /\ placed.guess = r.guess /\ placed.deadline = r.deadline
      /\ SameHold(r, placed) /\ SameMatchOf(r, placed)
  BY <1>1, <1>2, <1>5 DEF Sane, RoomRec, SameHold, SameMatchOf
<1> HIDE DEF placed
<1>7. /\ Sane(marked) /\ SameButYoung(placed, marked)
      /\ \A y \in Timer \ {id} : y \in marked.young <=> y \in placed.young
      /\ Prompt => id \in marked.young
  BY <1>6, ArmLemma, TimerNames
<1> HIDE DEF marked
<1>8. Sane(told) /\ Told(marked, told)
  BY <1>7, TellLemma DEF BumpedType
<1> HIDE DEF told
<1>9. /\ Sane(m) /\ DrawSet(m) /\ SameSeats(told, m) /\ SameGuess(told, m)
      /\ SameHold(told, m) /\ SameMatchOf(told, m)
  BY <1>8, DrawLemma
<1> HIDE DEF m
<1>10. /\ m.presence = [r.presence EXCEPT ![id] = entry]
       /\ m.grace = [r.grace EXCEPT ![id] = gen]
       /\ m.clients = r.clients /\ m.voice = r.voice /\ m.seats = r.seats
       /\ m.nextConn = r.nextConn /\ m.running = r.running
       /\ \A p \in PlayerID \ {id} : p \in m.young <=> p \in r.young
       /\ Prompt => id \in m.young
       /\ SameHold(r, m) /\ SameMatchOf(r, m)
  BY <1>6, <1>7, <1>8, <1>9, TimerNames
  DEF SameButYoung, Told, SameSeats, SameHold, SameMatchOf
<1>11. SameGuess(r, m)
  BY <1>6, <1>7, <1>8, <1>9, TimerNames DEF SameButYoung, Told, SameGuess
<1>12. OthersSame(r, m, id) /\ Absent1(r, m, id)
  BY <1>1, <1>2, <1>5, <1>10 DEF OthersSame, Absent1, Known, Departing
<1>13. SeatsAgree(m)
  <2>1. ASSUME NEW p \in PlayerID, p # id PROVE SeatAgrees(m, p)
    BY <1>1, <1>10, <2>1 DEF Departing, SeatAgrees, Known, SameMatchOf
  <2>2. SeatAgrees(m, id)
    BY <1>1, <1>2, <1>5, <1>10 DEF Departing, SeatAgrees, Known, SameMatchOf
  <2> QED
    BY <2>1, <2>2 DEF SeatsAgree
<1>14. HostOK(m)
  BY <1>1, <1>5, <1>10 DEF Departing, HostOK, HostLost, Connected, SameMatchOf, Known
<1>15. Departed(r, m, id)
  BY <1>9, <1>10, <1>11, <1>12, <1>13, <1>14 DEF Departed
<1>16. Evaluated(m, t)
  BY <1>4, <1>9, VotingLemma
<1> QED
  BY <1>15, <1>16

-----------------------------------------------------------------------------
(* Joins and leaves.                                                       *)

\* The room with id's new connection registered, its seat taken if it is new.
Registered(r, x, id) ==
  /\ Sane(x) /\ Arriving(x, id)
  /\ x.game = r.game \/ (MayAdd(r.game, id) /\ x.game = AddPlayer(r.game, id))
  /\ x.clients = [r.clients EXCEPT ![id] = r.nextConn] /\ x.nextConn = r.nextConn + 1
  /\ x.presence = r.presence /\ x.grace = r.grace /\ x.voice = r.voice
  /\ x.young = r.young /\ x.running = r.running /\ x.roundGen = r.roundGen
  /\ SameGuess(r, x) /\ SameHold(r, x)

LEMMA AttachLemma ==
  ASSUME NEW r, Sane(r), NEW id \in PlayerID,
         r.nextConn <= MaxConns, id \in Roster(r.game),
         \A p \in PlayerID \ {id} : SeatAgrees(r, p),
         NEW t, t = Attach(r, id)
  PROVE  \E x, m, v :
           /\ Sane(x) /\ Arriving(x, id) /\ x.game = r.game
           /\ x.clients = [r.clients EXCEPT ![id] = r.nextConn] /\ x.nextConn = r.nextConn + 1
           /\ x.presence = r.presence /\ x.grace = r.grace /\ x.voice = r.voice
           /\ x.young = r.young /\ x.running = r.running /\ x.roundGen = r.roundGen
           /\ SameGuess(r, x) /\ SameHold(r, x)
           /\ Arrived(x, m, id) /\ Evaluated(m, v) /\ Sane(t) /\ Told(v, t)
<1> DEFINE clients == [r.clients EXCEPT ![id] = r.nextConn]
           next    == r.nextConn + 1
           x       == [r EXCEPT !.clients = clients, !.nextConn = next, !.idle = FALSE]
           v       == MarkConnected(x, id)
           snap    == Send(v, "state_snapshot")
<1>1. /\ r.clients \in [PlayerID -> 0 .. MaxConns] /\ r.nextConn \in Nat \ {0}
      /\ MaxConns \in Nat
  BY RoomAssumption DEF Sane, RoomRec
<1>2. r.nextConn \in 0 .. MaxConns
  BY <1>1
<1>3. clients \in [PlayerID -> 0 .. MaxConns] /\ next \in Nat \ {0}
  BY <1>1, <1>2
<1>4. t = BroadcastSequenced(snap, "lobby_update")
  BY DEF Attach, Touch, Sane, RoomRec
<1>5. /\ clients[id] = r.nextConn /\ r.nextConn # NoConn /\ r.nextConn < next
      /\ \A p \in PlayerID \ {id} : clients[p] = r.clients[p]
      /\ \A p \in PlayerID : r.clients[p] \in Nat
      /\ \A n \in Nat : n < r.nextConn => n < next
  BY <1>1 DEF NoConn
<1>e. clients = [r.clients EXCEPT ![id] = r.nextConn] /\ next = r.nextConn + 1
  OBVIOUS
<1> HIDE DEF clients, next
<1>6. /\ Sane(x) /\ x.game = r.game /\ x.clients = clients /\ x.nextConn = next
      /\ x.presence = r.presence /\ x.grace = r.grace /\ x.voice = r.voice
      /\ x.young = r.young /\ x.running = r.running /\ x.roundGen = r.roundGen
      /\ SameGuess(r, x) /\ SameHold(r, x)
  BY <1>3 DEF Sane, RoomRec, SameGuess, SameHold
<1> HIDE DEF x
<1>7. Arriving(x, id)
  BY <1>5, <1>6 DEF Arriving, SeatAgrees, Known
<1>8. PICK m : Arrived(x, m, id) /\ Evaluated(m, v)
  BY <1>6, <1>7, MarkConnectedLemma
<1> HIDE DEF v
<1>9. Sane(v)
  BY <1>8 DEF Evaluated
<1>12. Sane(snap) /\ Told(v, snap)
  BY <1>9, SnapshotLemma DEF Unsequenced
<1> HIDE DEF snap
<1>13. Sane(t) /\ Told(snap, t)
  BY <1>4, <1>12, TellLemma DEF BumpedType
<1>14. Told(v, t)
  BY <1>12, <1>13
  DEF Told, SameSeats, SameDraw, SameGuess, SameHold, SameMatchOf
<1> QED
  BY <1>6, <1>7, <1>8, <1>13, <1>14, <1>e

LEMMA JoinLemma ==
  ASSUME NEW r, Sane(r), Inv(r.game), SeatsAgree(r), NEW id \in PlayerID,
         r.nextConn <= MaxConns, MayReconnect(r, id) \/ MayJoin(r, id),
         NEW t, t = ProcessJoin(r, id)
  PROVE  \E x, m, v : /\ Registered(r, x, id) /\ Arrived(x, m, id) /\ Evaluated(m, v)
                      /\ Sane(t) /\ Told(v, t)
<1>1. CASE MayReconnect(r, id)
  <2>1. t = Attach(r, id) /\ id \in Roster(r.game)
    BY <1>1 DEF ProcessJoin, MayReconnect
  <2>2. \A p \in PlayerID \ {id} : SeatAgrees(r, p)
    BY DEF SeatsAgree
  <2> QED
    BY <2>1, <2>2, AttachLemma DEF Registered
<1>2. CASE ~MayReconnect(r, id)
  <2> DEFINE s    == AddPlayer(r.game, id)
             seat == Seated(r, id)
  <2>1. MayAdd(r.game, id) /\ t = Attach(seat, id)
    BY <1>2 DEF MayJoin, ProcessJoin
  <2>2. /\ Inv(s) /\ Roster(s) = Roster(r.game) \cup {id}
        /\ s.phase = r.game.phase /\ s.host = r.game.host
    BY <2>1, AddPlayerInv
  <2> HIDE DEF s
  <2>3. seat = [r EXCEPT !.game = s, !.seats = r.seats \cup {id}]
    BY DEF Seated, s, Sane, RoomRec
  <2> HIDE DEF seat
  <2>4. /\ Sane(seat) /\ seat.game = s /\ seat.clients = r.clients
        /\ seat.nextConn = r.nextConn /\ seat.presence = r.presence /\ seat.grace = r.grace
        /\ seat.voice = r.voice /\ seat.young = r.young /\ seat.running = r.running
        /\ seat.roundGen = r.roundGen /\ SameGuess(r, seat) /\ SameHold(r, seat)
    BY <2>2, <2>3 DEF Inv, Sane, RoomRec, SameGuess, SameHold
  <2>5. \A p \in PlayerID \ {id} : SeatAgrees(seat, p)
    BY <2>2, <2>4 DEF SeatsAgree, SeatAgrees, Known
  <2>6. PICK x, m, v :
           /\ Sane(x) /\ Arriving(x, id) /\ x.game = seat.game
           /\ x.clients = [seat.clients EXCEPT ![id] = seat.nextConn]
           /\ x.nextConn = seat.nextConn + 1
           /\ x.presence = seat.presence /\ x.grace = seat.grace /\ x.voice = seat.voice
           /\ x.young = seat.young /\ x.running = seat.running /\ x.roundGen = seat.roundGen
           /\ SameGuess(seat, x) /\ SameHold(seat, x)
           /\ Arrived(x, m, id) /\ Evaluated(m, v) /\ Sane(t) /\ Told(v, t)
    BY <2>1, <2>2, <2>4, <2>5, AttachLemma
  <2>7. Registered(r, x, id)
    BY <2>1, <2>4, <2>6 DEF Registered, SameGuess, SameHold, s
  <2> QED
    BY <2>6, <2>7
<1> QED
  BY <1>1, <1>2

\* The room with id's connection gone.
Unregistered(r, x, id) ==
  /\ Sane(x) /\ Departing(x, id)
  /\ x.clients = [r.clients EXCEPT ![id] = NoConn] /\ x.nextConn = r.nextConn
  /\ x.presence = r.presence /\ x.grace = r.grace /\ x.voice = r.voice \ {id}
  /\ x.young = r.young /\ x.running = r.running
  /\ SameGuess(r, x) /\ SameHold(r, x) /\ SameMatchOf(r, x)

LEMMA LeaveLemma ==
  ASSUME NEW r, Sane(r), SeatsAgree(r), HostOK(r), NEW id \in PlayerID,
         NEW conn \in 1 .. MaxConns, r.clients[id] = conn,
         NEW t, t = ProcessLeave(r, id, conn)
  PROVE  \E x, m : Unregistered(r, x, id) /\ Departed(x, m, id) /\ Evaluated(m, t)
<1> DEFINE clients == [r.clients EXCEPT ![id] = NoConn]
           voice   == r.voice \ {id}
           x       == [r EXCEPT !.clients = clients, !.voice = voice, !.idle = FALSE]
<1>1. r.clients \in [PlayerID -> 0 .. MaxConns] /\ MaxConns \in Nat
  BY RoomAssumption DEF Sane, RoomRec
<1>2. clients \in [PlayerID -> 0 .. MaxConns] /\ voice \subseteq PlayerID
  BY <1>1 DEF NoConn, Sane, RoomRec
<1>3. t = MarkDisconnected(x, id)
  BY DEF ProcessLeave, Touch, Sane, RoomRec
<1>4. conn # NoConn /\ clients[id] = NoConn
      /\ \A p \in PlayerID \ {id} : clients[p] = r.clients[p]
  BY <1>1 DEF NoConn
<1>e. clients = [r.clients EXCEPT ![id] = NoConn] /\ voice = r.voice \ {id}
  OBVIOUS
<1> HIDE DEF clients, voice
<1>5. /\ Sane(x) /\ x.clients = clients /\ x.voice = voice /\ x.nextConn = r.nextConn
      /\ x.presence = r.presence /\ x.grace = r.grace
      /\ x.young = r.young /\ x.running = r.running
      /\ SameGuess(r, x) /\ SameHold(r, x) /\ SameMatchOf(r, x)
  BY <1>2 DEF Sane, RoomRec, SameGuess, SameHold, SameMatchOf
<1> HIDE DEF x
<1>6. SeatAgrees(r, id) /\ r.presence[id].connected
  BY <1>4 DEF SeatsAgree, SeatAgrees
<1>7. \A p \in PlayerID \ {id} : SeatAgrees(x, p)
  BY <1>4, <1>5, <1>e DEF SeatsAgree, SeatAgrees, Known, SameMatchOf
<1>8. HostOK(x)
  <2>1. Connected(x) # {} => Connected(r) # {}
    BY <1>4, <1>5 DEF Connected
  <2> QED
    BY <1>5, <2>1 DEF HostOK, HostLost, SameMatchOf
<1>9. NoConn < r.nextConn
  BY DEF NoConn, Sane, RoomRec
<1>10. Departing(x, id)
  BY <1>4, <1>5, <1>6, <1>7, <1>8, <1>9, <1>e
  DEF Departing, SeatAgrees, Known, SameMatchOf
<1>11. Unregistered(r, x, id)
  BY <1>5, <1>10, <1>e DEF Unregistered
<1>12. \E m : Departed(x, m, id) /\ Evaluated(m, t)
  BY <1>3, <1>5, <1>10, MarkDisconnectedLemma
<1> QED
  BY <1>11, <1>12

\* The absence id's timer was armed for is over: id is out of the lobby, or stays.
Expired(r, t, id) ==
  /\ Sane(t) /\ SeatsAgree(t) /\ HostOK(t)
  /\ t.clients = r.clients /\ t.voice = r.voice /\ t.nextConn = r.nextConn
  /\ t.running = r.running /\ t.grace = [r.grace EXCEPT ![id] = 0]
  /\ \A p \in PlayerID : p \in t.young <=> p \in r.young
  /\ \A p \in PlayerID \ {id} : t.presence[p] = r.presence[p]
  /\ t.presence[id] = NoPresence \/ t.presence[id] = [r.presence[id] EXCEPT !.expired = TRUE]
  /\ SameDraw(r, t) /\ SameGuess(r, t) /\ SameHold(r, t) /\ t.roundGen = r.roundGen
  /\ \E g : /\ g = r.game \/ (MayRemove(r.game, id) /\ g = RemovePlayer(r.game, id))
            /\ id \in Roster(g) => g.phase # "lobby"
            /\ HostMoved(g, t.game)

LEMMA GraceLemma ==
  ASSUME NEW r, Sane(r), Inv(r.game), SeatsAgree(r),
         NEW m \in Absence, StillAbsent(r, m), NEW t, t = HandleGraceExpired(r, m)
  PROVE  Expired(r, t, m.player)
<1> DEFINE id      == m.player
           entry   == [r.presence[id] EXCEPT !.expired = TRUE]
           gone    == MayRemove(r.game, id)
           s       == IF gone THEN RemovePlayer(r.game, id) ELSE r.game
           last    == IF gone THEN NoPresence ELSE entry
           placed  == [r EXCEPT !.presence = [r.presence EXCEPT ![id] = last],
                                !.grace = [r.grace EXCEPT ![id] = 0], !.game = s]
           removed == IF gone THEN BroadcastSequenced(placed, "player_left") ELSE placed
           moved   == MaybeMigrateHost(removed)
<1>1. /\ id \in PlayerID /\ r.presence[id] \in Presence
      /\ r.presence \in [PlayerID -> Presence] /\ r.grace \in [PlayerID -> Nat]
  BY DEF Sane, RoomRec, Absence
<1>2. /\ entry \in Presence /\ entry.expired /\ entry.known = r.presence[id].known
      /\ entry.connected = r.presence[id].connected /\ entry.gen = r.presence[id].gen
  BY <1>1 DEF Presence
<1>3. NoPresence \in Presence /\ ~NoPresence.known /\ ~NoPresence.connected
      /\ ~NoPresence.expired
  BY DEF NoPresence, Presence
<1>4. t = BroadcastSequenced(moved, "lobby_update")
  <2>1. CASE gone
    <3>1. placed = [[r EXCEPT !.presence[id].expired = TRUE, !.grace[id] = 0]
                      EXCEPT !.game = RemovePlayer(r.game, id), !.presence[id] = NoPresence]
      BY <1>1, <2>1, ZenonT(60) DEF Sane, RoomRec
    <3> QED
      BY <2>1, <3>1 DEF HandleGraceExpired, Sane, RoomRec
  <2>2. CASE ~gone
    <3>1. placed = [r EXCEPT !.presence[id].expired = TRUE, !.grace[id] = 0]
      BY <1>1, <2>2 DEF Sane, RoomRec
    <3> QED
      BY <2>2, <3>1 DEF HandleGraceExpired
  <2> QED
    BY <2>1, <2>2
<1>5. /\ Inv(s) /\ s.phase = r.game.phase /\ s.host = r.game.host
      /\ Roster(s) = IF gone THEN Roster(r.game) \ {id} ELSE Roster(r.game)
      /\ id \in Roster(s) => s.phase # "lobby"
      /\ s = r.game \/ (MayRemove(r.game, id) /\ s = RemovePlayer(r.game, id))
  <2>1. CASE gone
    BY <1>1, <2>1, RemovePlayerInv
  <2>2. CASE ~gone
    BY <2>2 DEF MayRemove
  <2> QED
    BY <2>1, <2>2
<1>6. /\ last \in Presence /\ ~last.connected /\ (last.expired => last.known)
      /\ last = NoPresence \/ last = entry
      /\ ~gone => last = entry /\ last.known
      /\ last.known => last.gen # 0
  <2>1. r.presence[id].known /\ ~r.presence[id].connected /\ r.presence[id].gen # 0
    BY <1>1 DEF StillAbsent, SeatsAgree, SeatAgrees, Known
  <2> HIDE DEF entry, gone
  <2> QED
    BY <1>2, <1>3, <2>1
<1> HIDE DEF s, last, gone
<1>7. /\ Sane(placed) /\ placed.game = s
      /\ placed.presence = [r.presence EXCEPT ![id] = last]
      /\ placed.grace = [r.grace EXCEPT ![id] = 0]
      /\ placed.clients = r.clients /\ placed.voice = r.voice
      /\ placed.nextConn = r.nextConn /\ placed.running = r.running
      /\ placed.young = r.young /\ placed.roundGen = r.roundGen
      /\ SameDraw(r, placed) /\ SameGuess(r, placed) /\ SameHold(r, placed)
  BY <1>1, <1>5, <1>6 DEF Inv, Sane, RoomRec, SameDraw, SameGuess, SameHold
<1> HIDE DEF placed
<1>8. Sane(removed) /\ Told(placed, removed)
  <2>1. removed = placed \/ removed = BroadcastSequenced(placed, "player_left")
    OBVIOUS
  <2>2. Told(placed, placed)
    BY DEF Told, SameSeats, SameDraw, SameGuess, SameHold, SameMatchOf
  <2> HIDE DEF removed
  <2> QED
    BY <1>7, <2>1, <2>2, TellLemma DEF BumpedType
<1> HIDE DEF removed
<1>9. SeatsAgree(removed)
  <2>1. /\ removed.presence = [r.presence EXCEPT ![id] = last]
        /\ removed.clients = r.clients /\ removed.voice = r.voice
        /\ removed.nextConn = r.nextConn /\ removed.game = s
    BY <1>7, <1>8 DEF Told, SameSeats, SameMatchOf
  <2>2. ASSUME NEW p \in PlayerID, p # id PROVE SeatAgrees(removed, p)
    BY <1>1, <1>5, <2>1, <2>2 DEF SeatsAgree, SeatAgrees, Known
  <2>3. SeatAgrees(removed, id)
    BY <1>1, <1>5, <1>6, <2>1 DEF SeatsAgree, SeatAgrees, Known, StillAbsent
  <2> QED
    BY <2>2, <2>3 DEF SeatsAgree
<1>10. /\ Sane(moved) /\ SeatsAgree(moved) /\ HostOK(moved)
       /\ HostMoved(removed.game, moved.game)
       /\ SameSeats(removed, moved) /\ SameDraw(removed, moved) /\ SameGuess(removed, moved)
       /\ SameHold(removed, moved) /\ moved.roundGen = removed.roundGen
  BY <1>8, <1>9, MigrateLemma
<1> HIDE DEF moved
<1>11. Sane(t) /\ Told(moved, t)
  BY <1>4, <1>10, TellLemma DEF BumpedType
<1>12. SeatsAgree(t) /\ HostOK(t)
  BY <1>10, <1>11, SeatsKept, HostKept DEF Told, SameMatchOf
<1>13. /\ t.presence = [r.presence EXCEPT ![id] = last]
       /\ t.grace = [r.grace EXCEPT ![id] = 0]
       /\ t.clients = r.clients /\ t.voice = r.voice
       /\ t.nextConn = r.nextConn /\ t.running = r.running /\ t.roundGen = r.roundGen
       /\ \A p \in PlayerID : p \in t.young <=> p \in r.young
       /\ SameDraw(r, t) /\ SameGuess(r, t) /\ SameHold(r, t) /\ HostMoved(s, t.game)
  BY <1>7, <1>8, <1>10, <1>11
  DEF Told, SameSeats, SameDraw, SameGuess, SameHold, SameMatchOf
<1>14. t.presence[id] = last /\ \A p \in PlayerID \ {id} : t.presence[p] = r.presence[p]
  BY <1>1, <1>13
<1> HIDE DEF id
<1>15. Expired(r, t, id)
  BY <1>5, <1>6, <1>11, <1>12, <1>13, <1>14 DEF Expired
<1> QED
  BY <1>15 DEF id

-----------------------------------------------------------------------------
(* Calls of the engine a handler makes, as kinds of steps.                 *)

\* What every handler finds.
Ready(r) == Sane(r) /\ Inv(r.game) /\ SeatsAgree(r)

\* What every engine call keeps, and the step of the match it is.
Called(r, t) ==
  /\ Sane(t) /\ SameSeats(r, t) /\ Inv(t.game)
  /\ t.game.players = r.game.players /\ t.game.host = r.game.host
  /\ r.game.phase = "lobby" => t.game.phase = "lobby" \/ Known(r, r.game.host)
  /\ r.game.phase # "lobby" => t.game.phase # "lobby"

\* A round begins: the first of a match or the next one.
Begun(r, t) ==
  /\ r.game.phase \in {"lobby", "reveal", "game_over"} /\ t.game.phase = "drawing"
  /\ DrawSet(t) /\ SameGuess(r, t) /\ SameHold(r, t) /\ t.roundGen = r.roundGen + 1

\* A turn ends, and with the last one the drawing.
Turned(r, t) ==
  /\ r.game.phase = "drawing" /\ t.game.phase \in {"drawing", "discussion"}
  /\ DrawSet(t) /\ SameGuess(r, t) /\ t.roundGen = r.roundGen /\ t.reveal = r.reveal
  /\ t.discussion <=> r.discussion \/ t.game.phase = "discussion"

\* The vote is open.
Opened(r, t) ==
  /\ r.game.phase = "discussion" /\ t.game.phase = "voting" /\ t.game.votes = NoVotes
  /\ DrawSet(t) /\ SameGuess(r, t) /\ t.roundGen = r.roundGen /\ t.reveal = r.reveal
  /\ ~t.discussion

\* A vote that leaves another one to wait for.
Voted(r, t) ==
  /\ r.game.phase = "voting" /\ t.game.phase = "voting"
  /\ Connected(r) # {} => \E p \in Connected(r) : ~HasVoted(t.game, p)
  /\ SameDraw(r, t) /\ SameGuess(r, t) /\ SameHold(r, t) /\ t.roundGen = r.roundGen

\* The verdict.
Decided(r, t) ==
  /\ r.game.phase = "voting" /\ t.game.phase = "reveal"
  /\ Connected(r) # {} /\ \A p \in Connected(r) : HasVoted(t.game, p)
  /\ DrawSet(t) /\ GuessSet(WithGame(r, t.game), t) /\ t.roundGen = r.roundGen
  /\ ~t.discussion /\ (t.reveal <=> r.reveal \/ Settled(t.game))

\* A guess: the web client's settles the round, or is refused because it comes too late.
Guessed(r, t) ==
  /\ SameDraw(r, t) /\ GuessSet(WithGame(r, t.game), t) /\ t.roundGen = r.roundGen
  /\ t.discussion = r.discussion /\ t.game.phase = r.game.phase
  /\ r.game.phase # "reveal" => t.game = r.game
  /\ WebClientOnly => \/ AwaitingGuess(r.game) /\ Settled(t.game) /\ t.reveal
                      \/ ~AwaitingGuess(r.game) /\ t.game = r.game /\ t.reveal = r.reveal

\* The guess's time is up.
TimedOut(r, t) ==
  /\ AwaitingGuess(r.game) /\ Settled(t.game) /\ t.reveal /\ t.discussion = r.discussion
  /\ SameDraw(r, t) /\ SameGuess(r, t) /\ t.roundGen = r.roundGen

\* The match is over.
Ended(r, t) ==
  /\ r.game.phase = "reveal" /\ t.game.phase = "game_over"
  /\ SameDraw(r, t) /\ SameGuess(r, t) /\ SameHold(r, t) /\ t.roundGen = r.roundGen

LEMMA BeginKind ==
  ASSUME NEW r, Ready(r), NEW p \in Connected(r), NEW perm \in Perms(Len(r.game.players)),
         NEW t, \/ MayStart(r.game, p) /\ t = Apply(r, StartGame(r.game, perm))
                \/ MayRestart(r.game, p) /\ t = Apply(r, Restart(r.game, perm))
  PROVE  Called(r, t) /\ Begun(r, t) /\ MatchStep(r.game, t.game)
<1> DEFINE s == IF MayStart(r.game, p) THEN StartGame(r.game, perm).state
                                       ELSE Restart(r.game, perm).state
           events == <<"RoundStarted", "TurnChanged">>
<1>1. /\ ~(MayStart(r.game, p) /\ MayRestart(r.game, p))
      /\ MayStart(r.game, p) => StartGame(r.game, perm) = Out(s, events)
      /\ MayRestart(r.game, p) => Restart(r.game, perm) = Out(s, events)
  BY DEF MayStart, MayRestart, StartGame, Restart, BeginRound, Out
<1>2. Inv(r.game)
  BY DEF Ready
<1>3. /\ Inv(s) /\ MatchStep(r.game, s) /\ s.phase = "drawing"
      /\ s.players = r.game.players /\ s.host = r.game.host
  BY <1>1, <1>2, StartStep, RestartStep
<1>4. t = Apply(r, Out(s, events))
  BY <1>1
<1> HIDE DEF s
<1>5. /\ Moved(r, t, s) /\ DrawSet(t) /\ SameGuess(r, t) /\ SameHold(r, t)
      /\ t.roundGen = r.roundGen + 1
  BY <1>3, <1>4, BeginEvents DEF Inv, Ready
<1>6. p = r.game.host /\ p \in PlayerID /\ Known(r, p)
      /\ r.game.phase \in {"lobby", "game_over"}
  BY DEF MayStart, MayRestart, Connected, Ready, SeatsAgree, SeatAgrees
<1> QED
  BY <1>3, <1>5, <1>6 DEF Called, Begun, Moved

LEMMA TurnKind ==
  ASSUME NEW r, Ready(r), r.game.phase = "drawing",
         NEW t, t = Apply(r, SkipTurn(r.game)) \/ t = Apply(r, AddStroke(r.game))
  PROVE  Called(r, t) /\ Turned(r, t) /\ MatchStep(r.game, t.game)
<1> DEFINE s == AdvanceTurn(r.game).state
<1>1. /\ Inv(s) /\ MatchStep(r.game, s) /\ Keeps(r.game, s)
      /\ s.phase \in {"drawing", "discussion"}
  BY TurnStep DEF Ready
<1> HIDE DEF s
<1>2. TurnDone(r, t, s)
  BY <1>1, TurnEvents DEF s, Ready, Inv
<1> QED
  BY <1>1, <1>2 DEF Called, Turned, TurnDone, Moved, Keeps

LEMMA DiscussionKind ==
  ASSUME NEW r, Ready(r), r.game.phase = "discussion",
         NEW t, t = Apply(r, EndDiscussion(r.game))
  PROVE  Called(r, t) /\ Opened(r, t) /\ MatchStep(r.game, t.game)
<1> DEFINE s == EndDiscussion(r.game).state
<1>1. /\ Inv(s) /\ MatchStep(r.game, s) /\ Keeps(r.game, s) /\ s.phase = "voting"
      /\ s.votes = r.game.votes
  BY EndDiscussionStep DEF Ready
<1>2. /\ Moved(r, t, s) /\ DrawSet(t) /\ SameGuess(r, t)
      /\ t.roundGen = r.roundGen /\ t.reveal = r.reveal /\ ~t.discussion
  BY EndDiscussionEvents DEF Ready, Inv
<1>3. s.votes = NoVotes
  BY <1>1 DEF Ready, Inv, VotesValid
<1> HIDE DEF s
<1> QED
  BY <1>1, <1>2, <1>3 DEF Called, Opened, Moved, Keeps

\* The verdict on a vote r.game, or on that vote with one more ballot.
LEMMA VerdictKind ==
  ASSUME NEW r, Ready(r), NEW g, Inv(g), g.phase = "voting", SameMatch(r.game, g),
         Keeps(r.game, g), r.game.phase = "voting",
         VotingCanResolve(g, Connected(r)), NEW t, VoteDone(r, t, FinishVoting(g).state)
  PROVE  Called(r, t) /\ Decided(r, t) /\ MatchStep(r.game, t.game)
<1> DEFINE s == FinishVoting(g).state
<1>1. /\ Inv(s) /\ MatchStep(g, s) /\ Keeps(g, s) /\ s.phase = "reveal"
      /\ s.votes = g.votes /\ (AwaitingGuess(s) <=> s.result.caught)
  BY VerdictStep
<1>2. VoteDone(r, t, s)
  OBVIOUS
<1> HIDE DEF s
<1>3. MatchStep(r.game, s)
  BY <1>1, StutterBefore
<1>4. Connected(r) \subseteq Roster(g)
  BY DEF Connected, Ready, SeatsAgree, SeatAgrees, Keeps, Roster
<1>5. Connected(r) # {} /\ \A p \in Connected(r) : HasVoted(g, p)
  BY <1>4, CanResolveLemma
<1>6. t.game = s /\ Sane(t) /\ SameSeats(r, t)
  BY <1>2 DEF VoteDone, Moved
<1>7. Decided(r, t)
  BY <1>1, <1>2, <1>5, <1>6 DEF Decided, VoteDone, Settled, HasVoted
<1> QED
  BY <1>1, <1>3, <1>6, <1>7 DEF Called, Keeps

LEMMA VoteKind ==
  ASSUME NEW r, Ready(r), NEW voter \in PlayerID, NEW target \in PlayerID,
         MayVote(r.game, voter, target),
         NEW t, t = Apply(r, CastVote(r.game, voter, target, Connected(r)))
  PROVE  Called(r, t) /\ (Voted(r, t) \/ Decided(r, t)) /\ MatchStep(r.game, t.game)
<1> DEFINE g == [r.game EXCEPT !.votes[voter] = target]
<1>1. /\ Inv(g) /\ SameMatch(r.game, g) /\ Keeps(r.game, g) /\ g.phase = "voting"
      /\ r.game.phase = "voting"
  BY VoteStep DEF Ready, MayVote
<1>2. t = IF VotingCanResolve(g, Connected(r))
          THEN Apply(r, Out(FinishVoting(g).state,
                            <<"VoteRecorded">> \o FinishVoting(g).events))
          ELSE Apply(r, Out(g, <<"VoteRecorded">> \o <<>>))
  BY DEF CastVote, Ignored, Out
<1> HIDE DEF g
<1>3. CASE VotingCanResolve(g, Connected(r))
  <2>1. VoteDone(r, t, FinishVoting(g).state)
    <3> DEFINE s == FinishVoting(g).state
    <3>1. t = Apply(r, Out(s, <<"VoteRecorded">> \o FinishVoting(g).events))
      BY <1>2, <1>3
    <3>2. Sane(r) /\ g \in State
      BY <1>1 DEF Ready, Inv
    <3> QED
      BY <3>1, <3>2, VerdictEvents
  <2> QED
    BY <1>1, <1>3, <2>1, VerdictKind
<1>4. CASE ~VotingCanResolve(g, Connected(r))
  <2>1. <<"VoteRecorded">> \o <<>> = <<"VoteRecorded">>
    <3>1. <<"VoteRecorded">> \in Seq(EventType)
      BY DEF EventType
    <3> QED
      BY <3>1, ConcatEmptySeq
  <2>2. t = Apply(r, Out(g, <<"VoteRecorded">>))
    BY <1>2, <1>4, <2>1
  <2>3. /\ Moved(r, t, g) /\ t.roundGen = r.roundGen
        /\ SameDraw(r, t) /\ SameGuess(r, t) /\ SameHold(r, t)
    BY <1>1, <2>2, ToldEvents DEF Ready, Inv
  <2>4. Connected(r) \subseteq Roster(g)
    BY <1>1 DEF Connected, Ready, SeatsAgree, SeatAgrees, Keeps, Roster
  <2>5. Connected(r) # {} => \E p \in Connected(r) : ~HasVoted(g, p)
    BY <1>1, <1>4, <2>4, CanResolveLemma
  <2> QED
    BY <1>1, <2>3, <2>5 DEF Called, Voted, Moved, Keeps, MatchStep
<1> QED
  BY <1>3, <1>4

\* The vote looked at again after somebody came or went.
LEMMA EvaluatedKind ==
  ASSUME NEW r, Ready(r), NEW t, Evaluated(r, t)
  PROVE  /\ Called(r, t)
         /\ \/ Decided(r, t) /\ MatchStep(r.game, t.game)
            \/ /\ SameDraw(r, t) /\ SameGuess(r, t) /\ SameHold(r, t) /\ SameMatchOf(r, t)
               /\ r.game.phase = "voting" /\ Connected(r) # {} =>
                    \E p \in Connected(r) : ~HasVoted(r.game, p)
<1>1. CASE MayResolveVoting(r.game, Connected(r))
  <2>1. /\ VoteDone(r, t, FinishVoting(r.game).state) /\ r.game.phase = "voting"
        /\ VotingCanResolve(r.game, Connected(r)) /\ Inv(r.game)
    BY <1>1 DEF Evaluated, MayResolveVoting, Ready
  <2>2. SameMatch(r.game, r.game) /\ Keeps(r.game, r.game)
    BY DEF SameMatch, SameRound, Keeps
  <2> QED
    BY <2>1, <2>2, VerdictKind
<1>2. CASE ~MayResolveVoting(r.game, Connected(r))
  <2>1. Connected(r) \subseteq Roster(r.game)
    BY DEF Connected, Ready, SeatsAgree, SeatAgrees
  <2>2. r.game.phase = "voting" /\ Connected(r) # {} =>
          \E p \in Connected(r) : ~HasVoted(r.game, p)
    BY <1>2, <2>1, CanResolveLemma DEF MayResolveVoting, Ready
  <2> QED
    BY <1>2, <2>2 DEF Evaluated, Called, Ready, SameMatchOf
<1> QED
  BY <1>1, <1>2

LEMMA GuessKind ==
  ASSUME NEW r, Ready(r), NEW p \in PlayerID, NEW guess \in Guess,
         ClientSends(r.game, p, guess),
         NEW t, t = EvaluateGuessDeadline(
                      IF MayGuess(r.game, p) THEN Apply(r, ImpostorGuess(r.game, guess)) ELSE r)
  PROVE  Called(r, t) /\ Guessed(r, t) /\ (WebClientOnly => MatchStep(r.game, t.game))
<1> DEFINE s == ImpostorGuess(r.game, guess).state
           x == IF MayGuess(r.game, p) THEN Apply(r, ImpostorGuess(r.game, guess)) ELSE r
<1>1. Sane(r) /\ Inv(r.game) /\ r.game \in State
  BY DEF Ready, Inv
<1>2. CASE MayGuess(r.game, p)
  <2>1. /\ Inv(s) /\ s \in State /\ Keeps(r.game, s) /\ s.phase = r.game.phase
        /\ ImpostorGuess(r.game, guess) = Out(s, <<"RoundEnded">>)
        /\ WebClientOnly => MatchStep(r.game, s) /\ Settled(s)
    <3>1. Inv(s)
      BY <1>1, <1>2, GuessInv
    <3>2. s \in State /\ Keeps(r.game, s) /\ s.phase = r.game.phase
      BY <1>1, <1>2, ImpostorGuessLemma DEF MayGuess
    <3>3. ImpostorGuess(r.game, guess) = Out(s, <<"RoundEnded">>)
      BY GuessOut
    <3>4. WebClientOnly => MatchStep(r.game, s) /\ Settled(s)
      BY <1>1, <1>2, GuessAwaited, GuessStep
    <3> QED
      BY <3>1, <3>2, <3>3, <3>4
  <2> HIDE DEF s
  <2>2. x = Apply(r, Out(s, <<"RoundEnded">>))
    BY <1>2, <2>1
  <2>3. t = EvaluateGuessDeadline(x)
    OBVIOUS
  <2> HIDE DEF x
  <2>4. /\ Moved(r, x, s) /\ x.roundGen = r.roundGen /\ x.reveal
        /\ x.discussion = r.discussion /\ SameDraw(r, x) /\ SameGuess(r, x)
    BY <1>1, <2>1, <2>2, EndedEvents
  <2>5. /\ Sane(t) /\ GuessSet(x, t) /\ SameSeats(x, t) /\ SameDraw(x, t) /\ SameHold(x, t)
        /\ SameMatchOf(x, t)
    BY <2>3, <2>4, DeadlineLemma DEF Moved
  <2>6. /\ Sane(t) /\ SameSeats(r, t) /\ t.game = s /\ t.roundGen = r.roundGen /\ t.reveal
        /\ t.discussion = r.discussion /\ SameDraw(r, t)
    BY <2>4, <2>5 DEF Moved, SameSeats, SameDraw, SameHold, SameMatchOf
  <2>7. GuessSet(WithGame(r, s), t)
    <3>1. /\ WithGame(r, s).game = s /\ WithGame(r, s).roundGen = r.roundGen
          /\ WithGame(r, s).deadline = r.deadline
      BY <1>1, <2>1, WithGameLemma, ZenonT(60) DEF SameGuess
    <3> QED
      BY <2>4, <2>5, <3>1, ZenonT(60) DEF GuessSet, Moved, SameGuess
  <2> QED
    <3>1. WebClientOnly => AwaitingGuess(r.game)
      BY <1>1, <1>2, GuessAwaited
    <3> QED
      BY <1>1, <1>2, <2>1, <2>6, <2>7, <3>1 DEF Called, Guessed, Keeps, MayGuess
<1>3. CASE ~MayGuess(r.game, p)
  <2>1. WebClientOnly => ~AwaitingGuess(r.game) /\ MatchStep(r.game, r.game)
    <3>1. WebClientOnly => ~AwaitingGuess(r.game)
      BY <1>1, <1>3 DEF ClientSends, MayGuess, AwaitingGuess, GuessAlreadyResolved, Inv, NotStale
    <3>2. MatchStep(r.game, r.game)
      BY DEF MatchStep, SameMatch, SameRound
    <3> QED
      BY <3>1, <3>2
  <2>2. t = EvaluateGuessDeadline(r)
    BY <1>3
  <2>3. /\ Sane(t) /\ GuessSet(r, t) /\ SameSeats(r, t) /\ SameDraw(r, t) /\ SameHold(r, t)
        /\ SameMatchOf(r, t)
    BY <1>1, <2>2, DeadlineLemma
  <2>4. GuessSet(WithGame(r, r.game), t)
    <3>1. WithGame(r, r.game) = r
      BY <1>1 DEF WithGame, Sane, RoomRec
    <3> QED
      BY <2>3, <3>1
  <2> QED
    BY <1>1, <2>1, <2>3, <2>4 DEF Called, Guessed, SameHold, SameMatchOf
<1> QED
  BY <1>2, <1>3

LEMMA TimeoutKind ==
  ASSUME NEW r, Ready(r), MayTimeOutGuess(r.game),
         NEW t, t = Apply(r, ResolveImpostorTimeout(r.game))
  PROVE  Called(r, t) /\ TimedOut(r, t) /\ MatchStep(r.game, t.game)
<1> DEFINE s == ResolveImpostorTimeout(r.game).state
<1>1. /\ Inv(s) /\ MatchStep(r.game, s) /\ Keeps(r.game, s) /\ s.phase = "reveal"
      /\ Settled(s) /\ AwaitingGuess(r.game)
  BY TimeoutStep, TimeoutInv DEF Ready
<1>2. t = Apply(r, Out(s, <<"RoundEnded">>))
  BY DEF ResolveImpostorTimeout, Out
<1> HIDE DEF s
<1>3. /\ Moved(r, t, s) /\ t.roundGen = r.roundGen /\ t.reveal
      /\ t.discussion = r.discussion /\ SameDraw(r, t) /\ SameGuess(r, t)
  BY <1>1, <1>2, EndedEvents DEF Ready, Inv
<1> QED
  BY <1>1, <1>3 DEF Called, TimedOut, Moved, Keeps, AwaitingGuess

LEMMA AdvanceKind ==
  ASSUME NEW r, Ready(r), MayAdvance(r.game), NEW t, t = Apply(r, AdvanceRound(r.game))
  PROVE  /\ Called(r, t) /\ (Begun(r, t) \/ Ended(r, t))
         /\ Settled(r.game) => MatchStep(r.game, t.game)
<1> DEFINE s == AdvanceRound(r.game).state
<1>1. Sane(r) /\ Inv(r.game) /\ r.game.phase = "reveal"
  BY DEF Ready, MayAdvance
<1>2. Inv(s) /\ s \in State /\ (Settled(r.game) => MatchStep(r.game, s))
  BY <1>1, AdvanceRoundInv, AdvanceStep DEF Inv
<1>3. CASE r.game.round >= r.game.total
  <2>1. /\ s = [r.game EXCEPT !.phase = "game_over"]
        /\ AdvanceRound(r.game) = Out(s, <<"GameEnded">>)
    BY <1>3 DEF AdvanceRound, Out
  <2>2. s.phase = "game_over" /\ s.players = r.game.players /\ s.host = r.game.host
    BY <1>1, <2>1 DEF Inv, State
  <2> HIDE DEF s
  <2>3. /\ Moved(r, t, s) /\ t.roundGen = r.roundGen
        /\ SameDraw(r, t) /\ SameGuess(r, t) /\ SameHold(r, t)
    BY <1>1, <1>2, <2>1, ToldEvents
  <2> QED
    BY <1>1, <1>2, <2>2, <2>3 DEF Called, Ended, Moved
<1>4. CASE ~(r.game.round >= r.game.total)
  <2>1. /\ s = BeginRound(r.game, r.game.round + 1).state
        /\ AdvanceRound(r.game) = Out(s, <<"RoundStarted", "TurnChanged">>)
    BY <1>4 DEF AdvanceRound, BeginRound, Out
  <2>2. s.phase = "drawing" /\ s.players = r.game.players /\ s.host = r.game.host
    BY <1>1, <2>1, ZenonT(60) DEF BeginRound, Out, Inv, State
  <2> HIDE DEF s
  <2>3. /\ Moved(r, t, s) /\ DrawSet(t) /\ SameGuess(r, t) /\ SameHold(r, t)
        /\ t.roundGen = r.roundGen + 1
    BY <1>1, <1>2, <2>1, BeginEvents
  <2> QED
    BY <1>1, <1>2, <2>2, <2>3 DEF Called, Begun, Moved
<1> QED
  BY <1>3, <1>4

\* The turn of an absent drawer.
LEMMA SkipKind ==
  ASSUME NEW r, Ready(r), r.game.phase = "drawing",
         NEW t, t = EvaluateDrawTimer(Apply(r, SkipTurn(r.game)))
  PROVE  Called(r, t) /\ Turned(r, t) /\ MatchStep(r.game, t.game)
<1> DEFINE x == Apply(r, SkipTurn(r.game))
<1>1. Called(r, x) /\ Turned(r, x) /\ MatchStep(r.game, x.game)
  BY TurnKind
<1>2. t = EvaluateDrawTimer(x)
  OBVIOUS
<1> HIDE DEF x
<1>3. /\ Sane(t) /\ DrawSet(t)
      /\ SameSeats(x, t) /\ SameGuess(x, t) /\ SameHold(x, t) /\ SameMatchOf(x, t)
  BY <1>1, <1>2, DrawLemma DEF Called
<1> QED
  BY <1>1, <1>3 DEF Called, Turned, SameSeats, SameGuess, SameHold, SameMatchOf

-----------------------------------------------------------------------------
(* A handler's beginning and end.                                          *)

\* The room as a handler starts from it: nothing sent, perhaps no longer idle.
Fresh(r, u) == Sane(u) /\ SameButYoung(r, u) /\ u.young = r.young

LEMMA FreshLemma ==
  ASSUME Sane(room)
  PROVE  Fresh(room, Now) /\ Fresh(room, Touch(Now))
<1>1. <<>> \in Seq(Message) /\ Len(<<>>) = 0
  OBVIOUS
<1>2. Numbered(<<>>, 0)
  BY <1>1 DEF Numbered, Sequenced
<1> DEFINE wire == <<>>
<1>3. Now = [room EXCEPT !.bumps = 0, !.wire = wire]
  BY DEF Now
<1>4. wire \in Seq(Message) /\ Numbered(wire, 0)
  BY <1>1, <1>2
<1> HIDE DEF wire
<1>5. Fresh(room, Now)
  BY <1>3, <1>4 DEF Fresh, Sane, RoomRec, SameButYoung, SameHold, SameMatchOf
<1>6. Fresh(Now, Touch(Now))
  BY <1>5 DEF Fresh, Touch, Sane, RoomRec, SameButYoung, SameHold, SameMatchOf
<1> QED
  BY <1>5, <1>6 DEF Fresh, SameButYoung, SameHold, SameMatchOf

LEMMA FreshReady ==
  ASSUME NEW r, Ready(r), NEW u, Fresh(r, u)
  PROVE  Ready(u) /\ SameSeats(r, u)
  BY DEF Ready, Fresh, SameButYoung, SameMatchOf, SeatsAgree, SeatAgrees, Known, SameSeats

\* With every channel empty the timers armed meanwhile are no longer young.
LEMMA BecomesLemma ==
  ASSUME NEW t, Sane(t), NEW d, Becomes(t, d)
  PROVE  /\ chan' = d /\ Sane(room') /\ SameButYoung(t, room')
         /\ IF d = NoMessages THEN room'.young = {} ELSE room'.young = t.young
<1>1. CASE d = NoMessages
  BY <1>1 DEF Becomes, Sane, RoomRec, SameButYoung, SameHold, SameMatchOf
<1>2. CASE d # NoMessages
  BY <1>2 DEF Becomes, SameButYoung, SameHold, SameMatchOf
<1> QED
  BY <1>1, <1>2

LEMMA StopLemma ==
  ASSUME NEW r, Sane(r), NEW t, t = Stop(r)
  PROVE  /\ Sane(t) /\ ~t.running /\ SameMatchOf(r, t) /\ t.deadline = r.deadline
         /\ t.clients = r.clients /\ t.presence = r.presence /\ t.seats = r.seats
         /\ t.voice = r.voice /\ t.nextConn = r.nextConn
         /\ t.grace = [p \in PlayerID |-> 0] /\ t.drawSkip = NoTimer /\ t.guess = 0
         /\ ~t.discussion /\ ~t.reveal
  BY DEF Stop, Sane, RoomRec, SameMatchOf
=============================================================================
