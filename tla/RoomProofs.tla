----------------------------- MODULE RoomProofs -----------------------------
(***************************************************************************)
(* Theorems about a room (module Room), for every set of identities and    *)
(* all bounds. A step of the room is first brought into one of a few kinds *)
(* with the lemmas of RoomMethods; each part of the inductive invariant is *)
(* then shown to be kept by every kind:                                    *)
(*   - seats, sockets, presence, votes and messages, without any           *)
(*     assumption;                                                         *)
(*   - grace periods and the drawer's absence, when a timer armed by a     *)
(*     step fires only after the channels were drained;                    *)
(*   - the timers of the reveal, when guesses come from the web client.    *)
(***************************************************************************)
EXTENDS RoomMethods

-----------------------------------------------------------------------------
(* Sockets and channels.                                                   *)

\* A socket is the registered one, or superseded and no longer listened to.
SocketsAgree(r, S) ==
  /\ S \subseteq Socket
  /\ \A s \in S : s.conn < r.nextConn
  /\ r.running =>
       /\ \A s \in S : s.superseded <=> r.clients[s.player] # s.conn
       /\ \A p \in PlayerID :
            r.clients[p] # NoConn => \E s \in S : s.player = p /\ s.conn = r.clients[p]

RoomOK(r, S) == Ready(r) /\ HostOK(r) /\ SocketsAgree(r, S)

ChanOK(c) ==
  c \in Channels /\ Fits(c.grace, GraceCap) /\ Fits(c.draw, 1) /\ Fits(c.guess, 1)

\* The part of the invariant that needs no assumption.
Structure == RoomOK(room, sockets) /\ ChanOK(chan)

-----------------------------------------------------------------------------
(* The kinds of steps, from the room u a handler starts from to the room t *)
(* it leaves to Becomes.                                                   *)

Joined(u, t) ==
  \E id, x, m, v :
    /\ id \in PlayerID
    /\ u.running /\ u.nextConn <= MaxConns
    /\ Registered(u, x, id) /\ Arrived(x, m, id) /\ Evaluated(m, v) /\ Told(v, t)
    /\ sockets' = {[s EXCEPT !.superseded = @ \/ s.player = id] : s \in sockets}
                    \cup {[player |-> id, conn |-> u.nextConn, superseded |-> FALSE]}
    /\ UNCHANGED chan

Left(u, t) ==
  \E s, x, m :
    /\ s \in sockets
    /\ u.running /\ u.clients[s.player] = s.conn
    /\ Unregistered(u, x, s.player) /\ Departed(x, m, s.player) /\ Evaluated(m, t)
    /\ sockets' = sockets \ {s}
    /\ UNCHANGED chan

LeftLate(u, t) ==
  \E s \in sockets :
    /\ u.running /\ u.clients[s.player] # s.conn
    /\ t = u /\ sockets' = sockets \ {s}
    /\ UNCHANGED chan

LeftStopped ==
  /\ ~room.running /\ \E s \in sockets : sockets' = sockets \ {s}
  /\ UNCHANGED <<room, chan>>

Commanded(u, t) ==
  /\ u.running /\ Called(u, t)
  /\ \/ Begun(u, t) /\ u.game.phase # "reveal"
     \/ Turned(u, t) \/ Opened(u, t) \/ Voted(u, t) \/ Decided(u, t) \/ Guessed(u, t)
  /\ WebClientOnly => MatchStep(u.game, t.game)
  /\ UNCHANGED <<chan, sockets>>

Spoken(u, t) ==
  \E p \in Connected(u), present \in SUBSET PlayerID :
    /\ present \subseteq u.voice \cup {p}
    /\ t = [u EXCEPT !.voice = present]
    /\ UNCHANGED <<chan, sockets>>

Advanced(u, t) ==
  /\ u.running /\ chan.advance
  /\ \/ /\ Called(u, t) /\ (Begun(u, t) \/ Ended(u, t))
        /\ Settled(u.game) => MatchStep(u.game, t.game)
     \/ t = u /\ u.game.phase # "reveal"
  /\ chan' = [chan EXCEPT !.advance = FALSE]
  /\ UNCHANGED sockets

Closed(u, t) ==
  /\ u.running /\ chan.discussion
  /\ \/ Called(u, t) /\ Opened(u, t) /\ MatchStep(u.game, t.game)
     \/ t = u
  /\ chan' = [chan EXCEPT !.discussion = FALSE]
  /\ UNCHANGED sockets

GraceOver(u, t) ==
  \E m \in chan.grace :
    /\ u.running
    /\ IF StillAbsent(u, m) THEN Expired(u, t, m.player) ELSE t = u
    /\ chan' = [chan EXCEPT !.grace = @ \ {m}]
    /\ UNCHANGED sockets

Skipped(u, t) ==
  \E m \in chan.draw :
    /\ u.running
    /\ \/ Called(u, t) /\ Turned(u, t) /\ MatchStep(u.game, t.game)
       \/ t = u /\ ~(DrawerAbsent(u) /\ m = Skip(u))
    /\ chan' = [chan EXCEPT !.draw = @ \ {m}]
    /\ UNCHANGED sockets

GuessOver(u, t) ==
  \E m \in chan.guess :
    /\ u.running
    /\ \/ Called(u, t) /\ TimedOut(u, t) /\ MatchStep(u.game, t.game) /\ m = u.roundGen
       \/ t = u /\ ~(m = u.roundGen /\ AwaitingGuess(u.game))
    /\ chan' = [chan EXCEPT !.guess = @ \ {m}]
    /\ UNCHANGED sockets

\* Timers fire.
DrawFired(u, t) ==
  /\ u.drawSkip # NoTimer /\ "draw" \notin u.young
  /\ t = [u EXCEPT !.drawSkip = NoTimer]
  /\ chan' = [chan EXCEPT !.draw = Post(@, u.drawSkip, 1)]
  /\ UNCHANGED sockets

GuessFired(u, t) ==
  /\ u.guess # 0 /\ "guess" \notin u.young
  /\ t = [u EXCEPT !.guess = 0]
  /\ chan' = [chan EXCEPT !.guess = Post(@, u.guess, 1)]
  /\ UNCHANGED sockets

DiscussionFired(u, t) ==
  /\ u.discussion
  /\ t = [u EXCEPT !.discussion = FALSE]
  /\ chan' = [chan EXCEPT !.discussion = TRUE]
  /\ UNCHANGED sockets

RevealFired(u, t) ==
  /\ u.reveal
  /\ t = [u EXCEPT !.reveal = FALSE]
  /\ chan' = [chan EXCEPT !.advance = TRUE]
  /\ UNCHANGED sockets

GraceFired(u, t) ==
  \E p \in PlayerID :
    /\ u.grace[p] # 0 /\ p \notin u.young
    /\ t = [u EXCEPT !.grace[p] = 0]
    /\ chan' = [chan EXCEPT !.grace = Post(@, [player |-> p, gen |-> u.grace[p]], GraceCap)]
    /\ UNCHANGED sockets

Idled(u, t) ==
  /\ t = [u EXCEPT !.idle = TRUE]
  /\ UNCHANGED <<chan, sockets>>

Halted(u, t) ==
  /\ t = Stop(u)
  /\ UNCHANGED <<chan, sockets>>

Kind(u, t) ==
  \/ Joined(u, t) \/ Left(u, t) \/ LeftLate(u, t) \/ Commanded(u, t) \/ Spoken(u, t)
  \/ Advanced(u, t) \/ Closed(u, t) \/ GraceOver(u, t) \/ Skipped(u, t) \/ GuessOver(u, t)
  \/ DrawFired(u, t) \/ GuessFired(u, t) \/ DiscussionFired(u, t) \/ RevealFired(u, t)
  \/ GraceFired(u, t) \/ Idled(u, t) \/ Halted(u, t)

Handled == \E u, t : Fresh(room, u) /\ Sane(t) /\ Becomes(t, chan') /\ Kind(u, t)

-----------------------------------------------------------------------------
(* Every step is of one of these kinds.                                    *)

LEMMA CommandKind ==
  ASSUME Structure, NEW p \in PlayerID, NEW conn \in Conns,
         \/ StartCommand(p, conn) \/ NewGameCommand(p, conn) \/ StrokeCommand(p, conn)
         \/ EndDiscussionCommand(p, conn)
         \/ \E target \in PlayerID : VoteCommand(p, conn, target)
         \/ \E guess \in Guess : GuessCommand(p, conn, guess)
         \/ VoiceCommand(p, conn)
  PROVE  Handled
<1> DEFINE u == Touch(Now)
<1>1. Fresh(room, u) /\ Ready(u)
  BY FreshLemma, FreshReady DEF Structure, RoomOK, Ready
<1>2. u.game = room.game /\ Connected(u) = Connected(room) /\ u.running = room.running
      /\ u.voice = room.voice
  BY <1>1 DEF Fresh, SameButYoung, SameMatchOf, Connected
<1>3. conn \in Nat \ {0}
  BY RoomAssumption DEF Conns
<1>4. /\ room.running /\ UNCHANGED sockets
      /\ p \in Connected(room)
  BY <1>3 DEF StartCommand, NewGameCommand, StrokeCommand, EndDiscussionCommand, VoteCommand,
              GuessCommand, VoiceCommand, Listened, Connected, NoConn
<1>5. ASSUME NEW t, Called(u, t), Becomes(t, chan),
             \/ Begun(u, t) /\ u.game.phase # "reveal"
             \/ Turned(u, t) \/ Opened(u, t) \/ Voted(u, t) \/ Decided(u, t)
             \/ Guessed(u, t),
             WebClientOnly => MatchStep(u.game, t.game)
      PROVE  Handled
  <2>1. chan' = chan
    BY <1>5 DEF Becomes
  <2>2. Commanded(u, t) /\ Sane(t) /\ Becomes(t, chan')
    BY <1>2, <1>4, <1>5, <2>1 DEF Commanded, Called
  <2> QED
    BY <1>1, <2>2 DEF Handled, Kind
<1>6. CASE StartCommand(p, conn) \/ NewGameCommand(p, conn)
  <2>1. PICK perm \in Perms(Len(room.game.players)) :
          \/ MayStart(room.game, p) /\ Becomes(Apply(u, StartGame(room.game, perm)), chan)
          \/ MayRestart(room.game, p) /\ Becomes(Apply(u, Restart(room.game, perm)), chan)
    BY <1>6 DEF StartCommand, NewGameCommand, Do
  <2> HIDE DEF u
  <2>2. PICK t : /\ Becomes(t, chan)
                 /\ \/ MayStart(u.game, p) /\ t = Apply(u, StartGame(u.game, perm))
                    \/ MayRestart(u.game, p) /\ t = Apply(u, Restart(u.game, perm))
    BY <1>2, <2>1
  <2>3. /\ Called(u, t) /\ Begun(u, t) /\ MatchStep(u.game, t.game)
        /\ u.game.phase # "reveal"
    BY <1>1, <1>2, <1>4, <2>2, BeginKind DEF MayStart, MayRestart
  <2> QED
    BY <1>5, <2>2, <2>3
<1>7. CASE StrokeCommand(p, conn)
  <2>1. MayStroke(room.game, p) /\ Becomes(Apply(u, AddStroke(room.game)), chan)
    BY <1>7 DEF StrokeCommand, Do
  <2> HIDE DEF u
  <2>2. PICK t : Becomes(t, chan) /\ t = Apply(u, AddStroke(u.game))
    BY <1>2, <2>1
  <2>3. Called(u, t) /\ Turned(u, t) /\ MatchStep(u.game, t.game)
    BY <1>1, <1>2, <2>1, <2>2, TurnKind DEF MayStroke
  <2> QED
    BY <1>5, <2>2, <2>3
<1>8. CASE EndDiscussionCommand(p, conn)
  <2>1. /\ MayEndDiscussion(room.game, p)
        /\ Becomes(Apply(u, EndDiscussion(room.game)), chan)
    BY <1>8 DEF EndDiscussionCommand, Do
  <2> HIDE DEF u
  <2>2. PICK t : Becomes(t, chan) /\ t = Apply(u, EndDiscussion(u.game))
    BY <1>2, <2>1
  <2>3. Called(u, t) /\ Opened(u, t) /\ MatchStep(u.game, t.game)
    BY <1>1, <1>2, <2>1, <2>2, DiscussionKind DEF MayEndDiscussion
  <2> QED
    BY <1>5, <2>2, <2>3
<1>9. ASSUME NEW target \in PlayerID, VoteCommand(p, conn, target) PROVE Handled
  <2>1. /\ MayVote(room.game, p, target)
        /\ Becomes(Apply(u, CastVote(room.game, p, target, Connected(room))), chan)
    BY <1>9 DEF VoteCommand, Do
  <2> HIDE DEF u
  <2>2. PICK t : /\ Becomes(t, chan)
                 /\ t = Apply(u, CastVote(u.game, p, target, Connected(u)))
    BY <1>2, <2>1
  <2>3. Called(u, t) /\ (Voted(u, t) \/ Decided(u, t)) /\ MatchStep(u.game, t.game)
    BY <1>1, <1>2, <2>1, <2>2, VoteKind
  <2> QED
    BY <1>5, <2>2, <2>3
<1>10. ASSUME NEW guess \in Guess, GuessCommand(p, conn, guess) PROVE Handled
  <2>1. /\ ClientSends(room.game, p, guess)
        /\ Becomes(EvaluateGuessDeadline(
             IF MayGuess(u.game, p) THEN Apply(u, ImpostorGuess(u.game, guess)) ELSE u), chan)
    BY <1>10 DEF GuessCommand
  <2> HIDE DEF u
  <2>2. PICK t : /\ Becomes(t, chan)
                 /\ t = EvaluateGuessDeadline(
                      IF MayGuess(u.game, p) THEN Apply(u, ImpostorGuess(u.game, guess)) ELSE u)
    BY <2>1
  <2>3. Called(u, t) /\ Guessed(u, t) /\ (WebClientOnly => MatchStep(u.game, t.game))
    BY <1>1, <1>2, <2>1, <2>2, GuessKind
  <2> QED
    BY <1>5, <2>2, <2>3
<1>11. CASE VoiceCommand(p, conn)
  <2>1. PICK present \in {room.voice \cup {p}, room.voice \ {p}} :
          Becomes([u EXCEPT !.voice = present], chan)
    BY <1>11 DEF VoiceCommand
  <2> HIDE DEF u
  <2>2. PICK t : Becomes(t, chan) /\ t = [u EXCEPT !.voice = present]
    BY <2>1
  <2>3. chan' = chan
    BY <2>2 DEF Becomes
  <2>4. Sane(u) /\ present \subseteq PlayerID /\ present \subseteq u.voice \cup {p}
    BY <1>1, <1>2, <2>1 DEF Fresh, Sane, RoomRec
  <2>5. Sane(t)
    BY <2>2, <2>4 DEF Sane, RoomRec
  <2>6. Spoken(u, t)
    BY <1>2, <1>4, <2>2, <2>3, <2>4 DEF Spoken
  <2> QED
    BY <1>1, <2>2, <2>3, <2>5, <2>6 DEF Handled, Kind
<1> QED
  BY <1>6, <1>7, <1>8, <1>9, <1>10, <1>11

\* What a handler starts from, as far as the guards look at it.
LEMMA FreshRoom ==
  ASSUME Structure, NEW u, u = Now \/ u = Touch(Now)
  PROVE  /\ Fresh(room, u) /\ Ready(u) /\ HostOK(u) /\ SameButYoung(room, u)
         /\ u.young = room.young
<1>1. Fresh(room, u) /\ Ready(u) /\ SameSeats(room, u)
  BY FreshLemma, FreshReady DEF Structure, RoomOK, Ready
<1>2. HostOK(u)
  BY <1>1, HostKept DEF Structure, RoomOK, Fresh, SameButYoung, SameMatchOf
<1> QED
  BY <1>1, <1>2 DEF Fresh

LEMMA JoinKind ==
  ASSUME Structure, NEW p \in PlayerID, Join(p)
  PROVE  Handled
<1> DEFINE u == Now
<1>1. Fresh(room, u) /\ Ready(u) /\ SameButYoung(room, u)
  BY FreshRoom
<1>2. /\ room.running /\ room.nextConn <= MaxConns
      /\ MayReconnect(room, p) \/ MayJoin(room, p)
      /\ sockets' = {[s EXCEPT !.superseded = @ \/ s.player = p] : s \in sockets}
                      \cup {[player |-> p, conn |-> room.nextConn, superseded |-> FALSE]}
      /\ Becomes(ProcessJoin(u, p), chan)
  BY DEF Join
<1> HIDE DEF u
<1>3. /\ u.running /\ u.nextConn <= MaxConns /\ u.nextConn = room.nextConn
      /\ MayReconnect(u, p) \/ MayJoin(u, p)
  BY <1>1, <1>2 DEF SameButYoung, SameMatchOf, MayReconnect, MayJoin
<1>4. PICK t : Becomes(t, chan) /\ t = ProcessJoin(u, p)
  BY <1>2
<1>5. PICK x, m, v : /\ Registered(u, x, p) /\ Arrived(x, m, p) /\ Evaluated(m, v)
                     /\ Sane(t) /\ Told(v, t)
  BY <1>1, <1>3, <1>4, JoinLemma DEF Ready
<1>6. chan' = chan
  BY <1>4 DEF Becomes
<1>7. Joined(u, t)
  BY <1>2, <1>3, <1>5, <1>6 DEF Joined
<1> QED
  BY <1>1, <1>4, <1>5, <1>6, <1>7 DEF Handled, Kind

LEMMA LeaveKind ==
  ASSUME Structure, NEW s \in sockets, Leave(s)
  PROVE  Handled \/ LeftStopped
<1> DEFINE u == Now
<1>1. /\ Fresh(room, u) /\ Ready(u) /\ HostOK(u) /\ SameButYoung(room, u)
  BY FreshRoom
<1>2. sockets' = sockets \ {s} /\ s.player \in PlayerID /\ s.conn \in 1 .. MaxConns
  BY DEF Leave, Structure, RoomOK, SocketsAgree, Socket
<1>3. CASE ~room.running
  BY <1>2, <1>3 DEF Leave, LeftStopped
<1>4. CASE room.running
  <2>1. Becomes(ProcessLeave(u, s.player, s.conn), chan)
    BY <1>4 DEF Leave
  <2> HIDE DEF u
  <2>2. PICK t : Becomes(t, chan) /\ t = ProcessLeave(u, s.player, s.conn)
    BY <2>1
  <2>3. chan' = chan /\ u.running
    BY <1>1, <1>4, <2>2 DEF Becomes, SameButYoung
  <2>4. CASE u.clients[s.player] = s.conn
    <3>1. PICK x, m : /\ Unregistered(u, x, s.player) /\ Departed(x, m, s.player)
                      /\ Evaluated(m, t)
      BY <1>1, <1>2, <2>2, <2>4, LeaveLemma DEF Ready
    <3>2. Left(u, t) /\ Sane(t)
      BY <1>2, <2>3, <2>4, <3>1 DEF Left, Evaluated
    <3> QED
      BY <1>1, <2>2, <2>3, <3>2 DEF Handled, Kind
  <2>5. CASE u.clients[s.player] # s.conn
    <3>1. t = u
      BY <2>2, <2>5 DEF ProcessLeave
    <3>2. LeftLate(u, t) /\ Sane(t)
      BY <1>1, <1>2, <2>3, <2>5, <3>1 DEF LeftLate, Ready
    <3> QED
      BY <1>1, <2>2, <2>3, <3>2 DEF Handled, Kind
  <2> QED
    BY <2>4, <2>5
<1> QED
  BY <1>3, <1>4

LEMMA ReceiveKind ==
  ASSUME Structure, Receive
  PROVE  Handled
<1> DEFINE u == Now
<1>1. Fresh(room, u) /\ Ready(u) /\ SameButYoung(room, u)
  BY FreshRoom
<1>2. u.game = room.game /\ u.running = room.running
  BY <1>1 DEF SameButYoung, SameMatchOf
<1>3. room.running /\ UNCHANGED sockets
  BY DEF Receive, ReceiveAdvance, ReceiveDiscussionTimeout, ReceiveGraceExpired,
         ReceiveDrawSkip, ReceiveGuessTimeout
<1>4. chan \in Channels
  BY DEF Structure, ChanOK
<1>5. CASE ReceiveAdvance
  <2>1. /\ chan.advance
        /\ Becomes(IF MayAdvance(u.game) THEN Apply(u, AdvanceRound(u.game)) ELSE u,
                   [chan EXCEPT !.advance = FALSE])
    BY <1>2, <1>5 DEF ReceiveAdvance
  <2> HIDE DEF u
  <2>2. PICK t : /\ Becomes(t, [chan EXCEPT !.advance = FALSE])
                 /\ t = IF MayAdvance(u.game) THEN Apply(u, AdvanceRound(u.game)) ELSE u
    BY <2>1
  <2>3. chan' = [chan EXCEPT !.advance = FALSE]
    BY <2>2 DEF Becomes
  <2>4. CASE MayAdvance(u.game)
    <3>1. /\ Called(u, t) /\ (Begun(u, t) \/ Ended(u, t))
          /\ Settled(u.game) => MatchStep(u.game, t.game)
      BY <1>1, <2>2, <2>4, AdvanceKind
    <3>2. Advanced(u, t) /\ Sane(t)
      BY <1>2, <1>3, <2>1, <2>3, <3>1 DEF Advanced, Called
    <3> QED
      BY <1>1, <2>2, <2>3, <3>2 DEF Handled, Kind
  <2>5. CASE ~MayAdvance(u.game)
    <3>1. Advanced(u, t) /\ Sane(t)
      BY <1>1, <1>2, <1>3, <2>1, <2>2, <2>3, <2>5 DEF Advanced, MayAdvance, Ready
    <3> QED
      BY <1>1, <2>2, <2>3, <3>1 DEF Handled, Kind
  <2> QED
    BY <2>4, <2>5
<1>6. CASE ReceiveDiscussionTimeout
  <2>1. /\ chan.discussion
        /\ Becomes(IF MayEndDiscussion(u.game, u.game.host)
                   THEN Apply(u, EndDiscussion(u.game)) ELSE u,
                   [chan EXCEPT !.discussion = FALSE])
    BY <1>2, <1>6 DEF ReceiveDiscussionTimeout
  <2> HIDE DEF u
  <2>2. PICK t : /\ Becomes(t, [chan EXCEPT !.discussion = FALSE])
                 /\ t = IF MayEndDiscussion(u.game, u.game.host)
                        THEN Apply(u, EndDiscussion(u.game)) ELSE u
    BY <2>1
  <2>3. chan' = [chan EXCEPT !.discussion = FALSE]
    BY <2>2 DEF Becomes
  <2>4. CASE MayEndDiscussion(u.game, u.game.host)
    <3>1. Called(u, t) /\ Opened(u, t) /\ MatchStep(u.game, t.game)
      BY <1>1, <2>2, <2>4, DiscussionKind DEF MayEndDiscussion
    <3>2. Closed(u, t) /\ Sane(t)
      BY <1>2, <1>3, <2>1, <2>3, <3>1 DEF Closed, Called
    <3> QED
      BY <1>1, <2>2, <2>3, <3>2 DEF Handled, Kind
  <2>5. CASE ~MayEndDiscussion(u.game, u.game.host)
    <3>1. Closed(u, t) /\ Sane(t)
      BY <1>1, <1>2, <1>3, <2>1, <2>2, <2>3, <2>5 DEF Closed, Ready
    <3> QED
      BY <1>1, <2>2, <2>3, <3>1 DEF Handled, Kind
  <2> QED
    BY <2>4, <2>5
<1>7. CASE ReceiveGraceExpired
  <2>1. PICK m \in chan.grace :
          Becomes(HandleGraceExpired(u, m), [chan EXCEPT !.grace = @ \ {m}])
    BY <1>7 DEF ReceiveGraceExpired
  <2> HIDE DEF u
  <2>2. PICK t : /\ Becomes(t, [chan EXCEPT !.grace = @ \ {m}])
                 /\ t = HandleGraceExpired(u, m)
    BY <2>1
  <2>3. chan' = [chan EXCEPT !.grace = @ \ {m}]
    BY <2>2 DEF Becomes
  <2>4. m \in Absence
    BY <1>4 DEF Channels
  <2>5. CASE StillAbsent(u, m)
    <3>1. Expired(u, t, m.player)
      BY <1>1, <2>2, <2>4, <2>5, GraceLemma DEF Ready
    <3>2. GraceOver(u, t) /\ Sane(t)
      BY <1>2, <1>3, <2>3, <2>5, <3>1 DEF GraceOver, Expired
    <3> QED
      BY <1>1, <2>2, <2>3, <3>2 DEF Handled, Kind
  <2>6. CASE ~StillAbsent(u, m)
    <3>1. t = u
      BY <2>2, <2>6 DEF HandleGraceExpired
    <3>2. GraceOver(u, t) /\ Sane(t)
      BY <1>1, <1>2, <1>3, <2>3, <2>6, <3>1 DEF GraceOver, Ready
    <3> QED
      BY <1>1, <2>2, <2>3, <3>2 DEF Handled, Kind
  <2> QED
    BY <2>5, <2>6
<1>8. CASE ReceiveDrawSkip
  <2>1. PICK m \in chan.draw :
          Becomes(HandleDrawSkip(u, m), [chan EXCEPT !.draw = @ \ {m}])
    BY <1>8 DEF ReceiveDrawSkip
  <2> HIDE DEF u
  <2>2. PICK t : /\ Becomes(t, [chan EXCEPT !.draw = @ \ {m}])
                 /\ t = HandleDrawSkip(u, m)
    BY <2>1
  <2>3. chan' = [chan EXCEPT !.draw = @ \ {m}]
    BY <2>2 DEF Becomes
  <2>4. CASE /\ StillAbsent(u, m) /\ Connected(u) # {} /\ u.game.phase = "drawing"
             /\ u.game.turn < Len(u.game.players) /\ Drawer(u.game) = m.player
    <3>1. t = EvaluateDrawTimer(Apply(u, SkipTurn(u.game)))
      BY <2>2, <2>4 DEF HandleDrawSkip
    <3>2. Called(u, t) /\ Turned(u, t) /\ MatchStep(u.game, t.game)
      BY <1>1, <2>4, <3>1, SkipKind
    <3>3. Skipped(u, t) /\ Sane(t)
      BY <1>2, <1>3, <2>3, <3>2 DEF Skipped, Called
    <3> QED
      BY <1>1, <2>2, <2>3, <3>3 DEF Handled, Kind
  <2>5. CASE ~(/\ StillAbsent(u, m) /\ Connected(u) # {} /\ u.game.phase = "drawing"
               /\ u.game.turn < Len(u.game.players) /\ Drawer(u.game) = m.player)
    <3>1. t = u
      BY <2>2, <2>5 DEF HandleDrawSkip
    <3>2. ~(DrawerAbsent(u) /\ m = Skip(u))
      BY <2>5 DEF DrawerAbsent, Skip, StillAbsent
    <3>3. Skipped(u, t) /\ Sane(t)
      BY <1>1, <1>2, <1>3, <2>3, <3>1, <3>2 DEF Skipped, Ready
    <3> QED
      BY <1>1, <2>2, <2>3, <3>3 DEF Handled, Kind
  <2> QED
    BY <2>4, <2>5
<1>9. CASE ReceiveGuessTimeout
  <2>1. PICK m \in chan.guess :
          Becomes(HandleGuessTimeout(u, m), [chan EXCEPT !.guess = @ \ {m}])
    BY <1>9 DEF ReceiveGuessTimeout
  <2> HIDE DEF u
  <2>2. PICK t : /\ Becomes(t, [chan EXCEPT !.guess = @ \ {m}])
                 /\ t = HandleGuessTimeout(u, m)
    BY <2>1
  <2>3. chan' = [chan EXCEPT !.guess = @ \ {m}]
    BY <2>2 DEF Becomes
  <2>4. CASE m = u.roundGen /\ AwaitingGuess(u.game) /\ MayTimeOutGuess(u.game)
    <3>1. t = Apply(u, ResolveImpostorTimeout(u.game))
      BY <2>2, <2>4 DEF HandleGuessTimeout
    <3>2. Called(u, t) /\ TimedOut(u, t) /\ MatchStep(u.game, t.game)
      BY <1>1, <2>4, <3>1, TimeoutKind
    <3>3. GuessOver(u, t) /\ Sane(t)
      BY <1>2, <1>3, <2>3, <2>4, <3>2 DEF GuessOver, Called
    <3> QED
      BY <1>1, <2>2, <2>3, <3>3 DEF Handled, Kind
  <2>5. CASE ~(m = u.roundGen /\ AwaitingGuess(u.game) /\ MayTimeOutGuess(u.game))
    <3>1. t = u
      BY <2>2, <2>5 DEF HandleGuessTimeout
    <3>2. AwaitingGuess(u.game) => MayTimeOutGuess(u.game)
      BY <1>1 DEF Ready, Inv, NotStale, AwaitingGuess, MayTimeOutGuess, GuessAlreadyResolved
    <3>3. GuessOver(u, t) /\ Sane(t)
      BY <1>1, <1>2, <1>3, <2>3, <2>5, <3>1, <3>2 DEF GuessOver, Ready
    <3> QED
      BY <1>1, <2>2, <2>3, <3>3 DEF Handled, Kind
  <2> QED
    BY <2>4, <2>5
<1> QED
  BY <1>5, <1>6, <1>7, <1>8, <1>9 DEF Receive

LEMMA FireKind ==
  ASSUME Structure, Fire
  PROVE  Handled
<1> DEFINE u == Now
<1>1. Fresh(room, u) /\ Sane(u) /\ SameButYoung(room, u) /\ u.young = room.young
  BY FreshRoom DEF Ready
<1>2. u.drawSkip = room.drawSkip /\ u.guess = room.guess /\ u.grace = room.grace
      /\ u.discussion = room.discussion /\ u.reveal = room.reveal
  BY <1>1 DEF SameButYoung, SameHold
<1>3. UNCHANGED sockets
  BY DEF Fire, FireDraw, FireGuess, FireDiscussion, FireReveal, FireGrace
<1>4. CASE FireDraw
  <2>1. /\ u.drawSkip # NoTimer /\ "draw" \notin u.young
        /\ Becomes([u EXCEPT !.drawSkip = NoTimer],
                   [chan EXCEPT !.draw = Post(@, u.drawSkip, 1)])
    BY <1>1, <1>2, <1>4 DEF FireDraw
  <2> HIDE DEF u
  <2>2. PICK t : /\ Becomes(t, [chan EXCEPT !.draw = Post(@, u.drawSkip, 1)])
                 /\ t = [u EXCEPT !.drawSkip = NoTimer]
    BY <2>1
  <2>3. chan' = [chan EXCEPT !.draw = Post(@, u.drawSkip, 1)]
    BY <2>2 DEF Becomes
  <2>4. Sane(t)
    BY <1>1, <2>2 DEF Sane, RoomRec
  <2>5. DrawFired(u, t)
    BY <1>3, <2>1, <2>2, <2>3 DEF DrawFired
  <2> QED
    BY <1>1, <2>2, <2>3, <2>4, <2>5 DEF Handled, Kind
<1>5. CASE FireGuess
  <2>1. /\ u.guess # 0 /\ "guess" \notin u.young
        /\ Becomes([u EXCEPT !.guess = 0], [chan EXCEPT !.guess = Post(@, u.guess, 1)])
    BY <1>1, <1>2, <1>5 DEF FireGuess
  <2> HIDE DEF u
  <2>2. PICK t : /\ Becomes(t, [chan EXCEPT !.guess = Post(@, u.guess, 1)])
                 /\ t = [u EXCEPT !.guess = 0]
    BY <2>1
  <2>3. chan' = [chan EXCEPT !.guess = Post(@, u.guess, 1)]
    BY <2>2 DEF Becomes
  <2>4. Sane(t)
    BY <1>1, <2>2 DEF Sane, RoomRec
  <2>5. GuessFired(u, t)
    BY <1>3, <2>1, <2>2, <2>3 DEF GuessFired
  <2> QED
    BY <1>1, <2>2, <2>3, <2>4, <2>5 DEF Handled, Kind
<1>6. CASE FireDiscussion
  <2>1. /\ u.discussion
        /\ Becomes([u EXCEPT !.discussion = FALSE], [chan EXCEPT !.discussion = TRUE])
    BY <1>1, <1>2, <1>6 DEF FireDiscussion
  <2> HIDE DEF u
  <2>2. PICK t : /\ Becomes(t, [chan EXCEPT !.discussion = TRUE])
                 /\ t = [u EXCEPT !.discussion = FALSE]
    BY <2>1
  <2>3. chan' = [chan EXCEPT !.discussion = TRUE]
    BY <2>2 DEF Becomes
  <2>4. Sane(t)
    BY <1>1, <2>2 DEF Sane, RoomRec
  <2>5. DiscussionFired(u, t)
    BY <1>3, <2>1, <2>2, <2>3 DEF DiscussionFired
  <2> QED
    BY <1>1, <2>2, <2>3, <2>4, <2>5 DEF Handled, Kind
<1>7. CASE FireReveal
  <2>1. /\ u.reveal
        /\ Becomes([u EXCEPT !.reveal = FALSE], [chan EXCEPT !.advance = TRUE])
    BY <1>1, <1>2, <1>7 DEF FireReveal
  <2> HIDE DEF u
  <2>2. PICK t : /\ Becomes(t, [chan EXCEPT !.advance = TRUE])
                 /\ t = [u EXCEPT !.reveal = FALSE]
    BY <2>1
  <2>3. chan' = [chan EXCEPT !.advance = TRUE]
    BY <2>2 DEF Becomes
  <2>4. Sane(t)
    BY <1>1, <2>2 DEF Sane, RoomRec
  <2>5. RevealFired(u, t)
    BY <1>3, <2>1, <2>2, <2>3 DEF RevealFired
  <2> QED
    BY <1>1, <2>2, <2>3, <2>4, <2>5 DEF Handled, Kind
<1>8. ASSUME NEW p \in PlayerID, FireGrace(p) PROVE Handled
  <2> DEFINE m == [player |-> p, gen |-> u.grace[p]]
  <2>1. /\ u.grace[p] # 0 /\ p \notin u.young
        /\ Becomes([u EXCEPT !.grace[p] = 0],
                   [chan EXCEPT !.grace = Post(@, m, GraceCap)])
    BY <1>1, <1>2, <1>8 DEF FireGrace
  <2> HIDE DEF u
  <2>2. PICK t : /\ Becomes(t, [chan EXCEPT !.grace = Post(@, m, GraceCap)])
                 /\ t = [u EXCEPT !.grace[p] = 0]
    BY <2>1
  <2>3. chan' = [chan EXCEPT !.grace = Post(@, m, GraceCap)]
    BY <2>2 DEF Becomes
  <2>4. Sane(t)
    BY <1>1, <2>2 DEF Sane, RoomRec
  <2>5. GraceFired(u, t)
    BY <1>3, <2>1, <2>2, <2>3 DEF GraceFired
  <2> QED
    BY <1>1, <2>2, <2>3, <2>4, <2>5 DEF Handled, Kind
<1> QED
  BY <1>4, <1>5, <1>6, <1>7, <1>8 DEF Fire

LEMMA EndKind ==
  ASSUME Structure, IdlePasses \/ Expire \/ Shutdown
  PROVE  Handled
<1> DEFINE u == Now
<1>1. Fresh(room, u) /\ Sane(u)
  BY FreshRoom DEF Ready
<1>2. UNCHANGED sockets
  BY DEF IdlePasses, Expire, Shutdown
<1>3. Becomes([u EXCEPT !.idle = TRUE], chan) \/ Becomes(Stop(u), chan)
  BY DEF IdlePasses, Expire, Shutdown
<1> HIDE DEF u
<1>4. PICK t : Becomes(t, chan) /\ (t = [u EXCEPT !.idle = TRUE] \/ t = Stop(u))
  BY <1>3
<1>5. chan' = chan
  BY <1>4 DEF Becomes
<1>6. Sane(t)
  <2>1. CASE t = Stop(u)
    BY <1>1, <2>1, StopLemma
  <2>2. CASE t = [u EXCEPT !.idle = TRUE]
    BY <1>1, <2>2 DEF Sane, RoomRec
  <2> QED
    BY <1>4, <2>1, <2>2
<1>7. Idled(u, t) \/ Halted(u, t)
  BY <1>2, <1>4, <1>5 DEF Idled, Halted
<1> QED
  BY <1>1, <1>4, <1>5, <1>6, <1>7 DEF Handled, Kind

LEMMA StepKind ==
  ASSUME Structure, Next
  PROVE  Handled \/ LeftStopped
<1>1. CASE Command
  BY <1>1, CommandKind DEF Command
<1> QED
  BY <1>1, JoinKind, LeaveKind, FireKind, ReceiveKind, EndKind DEF Next

-----------------------------------------------------------------------------
(* Seats, sockets and channels are kept by every kind of step.             *)

LEMMA PostLemma ==
  ASSUME NEW cap \in Nat, NEW T, NEW channel \in SUBSET T, Fits(channel, cap), NEW m \in T
  PROVE  /\ Post(channel, m, cap) \in SUBSET T /\ Fits(Post(channel, m, cap), cap)
         /\ Post(channel, m, cap) = channel \/ Post(channel, m, cap) = channel \cup {m}
<1>1. CASE Cardinality(channel) < cap
  <2>1. /\ IsFiniteSet(channel \cup {m}) /\ Cardinality(channel) \in Nat
        /\ Cardinality(channel \cup {m}) = Cardinality(channel)
             \/ Cardinality(channel \cup {m}) = Cardinality(channel) + 1
    BY FS_AddElement, FS_CardinalityType DEF Fits
  <2> QED
    BY <1>1, <2>1 DEF Fits, Post
<1>2. CASE ~(Cardinality(channel) < cap)
  BY <1>2 DEF Post
<1> QED
  BY <1>1, <1>2

LEMMA TakeLemma ==
  ASSUME NEW cap \in Nat, NEW channel, Fits(channel, cap), NEW m
  PROVE  Fits(channel \ {m}, cap)
<1>1. /\ IsFiniteSet(channel \ {m}) /\ Cardinality(channel \ {m}) <= Cardinality(channel)
      /\ Cardinality(channel \ {m}) \in Nat /\ Cardinality(channel) \in Nat
  BY FS_Subset, FS_CardinalityType DEF Fits
<1> QED
  BY <1>1 DEF Fits

LEMMA KindChan ==
  ASSUME ChanOK(chan), NEW u, Sane(u), NEW t, Kind(u, t)
  PROVE  ChanOK(chan')
<1>1. /\ chan \in Channels /\ Fits(chan.grace, GraceCap) /\ Fits(chan.draw, 1)
      /\ Fits(chan.guess, 1)
      /\ chan.grace \in SUBSET Absence /\ chan.draw \in SUBSET Absence
      /\ chan.guess \in SUBSET Nat /\ GraceCap \in Nat
  BY RoomAssumption DEF ChanOK, Channels
<1>2. CASE UNCHANGED chan
  BY <1>1, <1>2 DEF ChanOK
<1>3. CASE Advanced(u, t) \/ Closed(u, t) \/ DiscussionFired(u, t) \/ RevealFired(u, t)
  <2>1. /\ chan' \in Channels /\ chan'.grace = chan.grace /\ chan'.draw = chan.draw
        /\ chan'.guess = chan.guess
    BY <1>1, <1>3 DEF Channels, Advanced, Closed, DiscussionFired, RevealFired
  <2> QED
    BY <1>1, <2>1 DEF ChanOK
<1>4. ASSUME NEW grace \in SUBSET Absence, Fits(grace, GraceCap),
             chan' = [chan EXCEPT !.grace = grace]
      PROVE  ChanOK(chan')
  <2>1. /\ chan' \in Channels /\ chan'.grace = grace /\ chan'.draw = chan.draw
        /\ chan'.guess = chan.guess
    BY <1>1, <1>4 DEF Channels
  <2> QED
    BY <1>1, <1>4, <2>1 DEF ChanOK
<1>5. ASSUME NEW draw \in SUBSET Absence, Fits(draw, 1), chan' = [chan EXCEPT !.draw = draw]
      PROVE  ChanOK(chan')
  <2>1. /\ chan' \in Channels /\ chan'.grace = chan.grace /\ chan'.draw = draw
        /\ chan'.guess = chan.guess
    BY <1>1, <1>5 DEF Channels
  <2> QED
    BY <1>1, <1>5, <2>1 DEF ChanOK
<1>6. ASSUME NEW guess \in SUBSET Nat, Fits(guess, 1), chan' = [chan EXCEPT !.guess = guess]
      PROVE  ChanOK(chan')
  <2>1. /\ chan' \in Channels /\ chan'.grace = chan.grace /\ chan'.draw = chan.draw
        /\ chan'.guess = guess
    BY <1>1, <1>6 DEF Channels
  <2> QED
    BY <1>1, <1>6, <2>1 DEF ChanOK
<1>7. CASE GraceOver(u, t)
  <2>1. PICK m \in chan.grace : chan' = [chan EXCEPT !.grace = @ \ {m}]
    BY <1>7 DEF GraceOver
  <2>2. Fits(chan.grace \ {m}, GraceCap) /\ chan.grace \ {m} \in SUBSET Absence
    BY <1>1, TakeLemma
  <2> QED
    BY <1>4, <2>1, <2>2
<1>8. CASE Skipped(u, t)
  <2>1. PICK m \in chan.draw : chan' = [chan EXCEPT !.draw = @ \ {m}]
    BY <1>8 DEF Skipped
  <2>2. Fits(chan.draw \ {m}, 1) /\ chan.draw \ {m} \in SUBSET Absence
    BY <1>1, TakeLemma
  <2> QED
    BY <1>5, <2>1, <2>2
<1>9. CASE GuessOver(u, t)
  <2>1. PICK m \in chan.guess : chan' = [chan EXCEPT !.guess = @ \ {m}]
    BY <1>9 DEF GuessOver
  <2>2. Fits(chan.guess \ {m}, 1) /\ chan.guess \ {m} \in SUBSET Nat
    BY <1>1, TakeLemma
  <2> QED
    BY <1>6, <2>1, <2>2
<1>10. CASE DrawFired(u, t)
  <2>1. chan' = [chan EXCEPT !.draw = Post(@, u.drawSkip, 1)] /\ u.drawSkip \in Absence
    BY <1>10 DEF DrawFired, Sane, RoomRec
  <2>2. Fits(Post(chan.draw, u.drawSkip, 1), 1)
        /\ Post(chan.draw, u.drawSkip, 1) \in SUBSET Absence
    BY <1>1, <2>1, PostLemma
  <2> QED
    BY <1>5, <2>1, <2>2
<1>11. CASE GuessFired(u, t)
  <2>1. chan' = [chan EXCEPT !.guess = Post(@, u.guess, 1)] /\ u.guess \in Nat
    BY <1>11 DEF GuessFired, Sane, RoomRec
  <2>2. Fits(Post(chan.guess, u.guess, 1), 1) /\ Post(chan.guess, u.guess, 1) \in SUBSET Nat
    BY <1>1, <2>1, PostLemma
  <2> QED
    BY <1>6, <2>1, <2>2
<1>12. CASE GraceFired(u, t)
  <2>1. PICK p \in PlayerID :
          chan' = [chan EXCEPT !.grace = Post(@, [player |-> p, gen |-> u.grace[p]], GraceCap)]
    BY <1>12 DEF GraceFired
  <2> DEFINE m == [player |-> p, gen |-> u.grace[p]]
  <2>2. m \in Absence
    BY DEF Sane, RoomRec, Absence
  <2> HIDE DEF m
  <2>3. Fits(Post(chan.grace, m, GraceCap), GraceCap)
        /\ Post(chan.grace, m, GraceCap) \in SUBSET Absence
    BY <1>1, <2>2, PostLemma
  <2> QED
    BY <1>4, <2>1, <2>3 DEF m
<1>13. CASE Joined(u, t) \/ Left(u, t) \/ LeftLate(u, t) \/ Commanded(u, t) \/ Spoken(u, t)
            \/ Idled(u, t) \/ Halted(u, t)
  BY <1>2, <1>13 DEF Joined, Left, LeftLate, Commanded, Spoken, Idled, Halted
<1> QED
  BY <1>3, <1>7, <1>8, <1>9, <1>10, <1>11, <1>12, <1>13 DEF Kind

LEMMA CalledKept ==
  ASSUME NEW r, Ready(r), HostOK(r), NEW t, Called(r, t)
  PROVE  Ready(t) /\ HostOK(t) /\ SameSeats(r, t)
<1>1. /\ Sane(t) /\ SameSeats(r, t) /\ Inv(t.game) /\ t.game.host = r.game.host
      /\ Roster(t.game) = Roster(r.game)
  BY DEF Called, Roster
<1>2. SeatsAgree(t)
  BY <1>1, SeatsKept DEF Called, Ready
<1>3. HostOK(t)
  BY <1>1, HostKept
<1> QED
  BY <1>1, <1>2, <1>3 DEF Ready

\* The sockets see the room only through the client table.
LEMMA SocketsKept ==
  ASSUME NEW r, NEW S, SocketsAgree(r, S), NEW t, t.clients = r.clients,
         t.nextConn = r.nextConn, t.running => r.running
  PROVE  SocketsAgree(t, S)
  BY DEF SocketsAgree

LEMMA RoomOKKept ==
  ASSUME NEW r, NEW S, RoomOK(r, S), NEW t, Sane(t), SameButYoung(r, t)
  PROVE  RoomOK(t, S)
<1>1. Inv(t.game) /\ SeatsAgree(t) /\ HostOK(t)
  BY DEF RoomOK, Ready, SameButYoung, SameMatchOf, SeatsAgree, SeatAgrees, Known, HostOK,
         HostLost, Connected
<1>2. SocketsAgree(t, S)
  BY SocketsKept DEF RoomOK, SameButYoung
<1> QED
  BY <1>1, <1>2 DEF RoomOK, Ready

\* What a join leads to: the composition of its methods.
LEMMA JoinedReady ==
  ASSUME NEW u, Ready(u), NEW id \in PlayerID, NEW x, NEW m, Registered(u, x, id),
         Arrived(x, m, id)
  PROVE  /\ Inv(x.game) /\ Ready(m) /\ HostOK(m)
         /\ SameMatch(x.game, m.game) /\ SameButHost(x.game, m.game)
<1>1. Inv(x.game)
  <2>1. CASE x.game = u.game
    BY <2>1 DEF Ready
  <2>2. CASE MayAdd(u.game, id) /\ x.game = AddPlayer(u.game, id)
    BY <2>2, AddPlayerInv DEF Ready
  <2> QED
    BY <2>1, <2>2 DEF Registered
<1>2. HostMoved(x.game, m.game)
  BY DEF Arrived
<1>3. Inv(m.game) /\ SameMatch(x.game, m.game) /\ SameButHost(x.game, m.game)
  BY <1>1, <1>2, HostMovedLemma
<1> QED
  BY <1>1, <1>3 DEF Arrived, Ready

LEMMA JoinedSockets ==
  ASSUME NEW u, Ready(u), u.running, SocketsAgree(u, sockets), u.nextConn <= MaxConns,
         NEW id \in PlayerID,
         sockets' = {[s EXCEPT !.superseded = @ \/ s.player = id] : s \in sockets}
                      \cup {[player |-> id, conn |-> u.nextConn, superseded |-> FALSE]},
         NEW t, t.clients = [u.clients EXCEPT ![id] = u.nextConn], t.nextConn = u.nextConn + 1
  PROVE  SocketsAgree(t, sockets')
<1>1. /\ u.clients \in [PlayerID -> 0 .. MaxConns] /\ u.nextConn \in Nat \ {0}
      /\ \A p \in PlayerID : u.clients[p] < u.nextConn
  BY DEF Ready, Sane, RoomRec, SeatsAgree, SeatAgrees
<1>2. /\ sockets \subseteq Socket /\ \A s \in sockets : s.conn < u.nextConn
      /\ \A s \in sockets : s.superseded <=> u.clients[s.player] # s.conn
      /\ \A p \in PlayerID :
           u.clients[p] # NoConn => \E s \in sockets : s.player = p /\ s.conn = u.clients[p]
  BY DEF SocketsAgree
<1> DEFINE Late(s) == [s EXCEPT !.superseded = @ \/ s.player = id]
           new     == [player |-> id, conn |-> u.nextConn, superseded |-> FALSE]
<1>3. \A s \in Socket : /\ Late(s) \in Socket
                        /\ Late(s).player = s.player /\ Late(s).conn = s.conn
                        /\ Late(s).superseded <=> s.superseded \/ s.player = id
  BY DEF Socket
<1>4. MaxConns \in Nat
  BY RoomAssumption
<1>5. new \in Socket /\ new.player = id /\ new.conn = u.nextConn /\ ~new.superseded
  BY <1>1, <1>4 DEF Socket
<1>6. sockets' = {Late(s) : s \in sockets} \cup {new}
  OBVIOUS
<1> HIDE DEF Late, new
<1>7. \A s \in sockets : s.player \in PlayerID /\ s.conn \in Nat
  BY <1>2 DEF Socket
<1>8. \A p \in PlayerID : t.clients[p] = IF p = id THEN u.nextConn ELSE u.clients[p]
  BY <1>1
<1>9. sockets' \subseteq Socket
  BY <1>2, <1>3, <1>5, <1>6
<1>10. \A s \in sockets' : s.conn < t.nextConn
  BY <1>1, <1>2, <1>3, <1>5, <1>6, <1>7
<1>11. \A s \in sockets' : s.superseded <=> t.clients[s.player] # s.conn
  <2>1. ASSUME NEW s \in sockets
        PROVE  Late(s).superseded <=> t.clients[Late(s).player] # Late(s).conn
    BY <1>1, <1>2, <1>3, <1>7, <1>8
  <2>2. t.clients[new.player] = new.conn
    BY <1>5, <1>8
  <2> QED
    BY <1>5, <1>6, <2>1, <2>2
<1>12. ASSUME NEW p \in PlayerID, t.clients[p] # NoConn
       PROVE  \E s \in sockets' : s.player = p /\ s.conn = t.clients[p]
  <2>1. CASE p = id
    BY <1>5, <1>6, <1>8, <2>1
  <2>2. CASE p # id
    <3>1. PICK s \in sockets : s.player = p /\ s.conn = u.clients[p]
      BY <1>2, <1>8, <1>12, <2>2
    <3>2. Late(s) \in sockets' /\ Late(s).player = p /\ Late(s).conn = t.clients[p]
      BY <1>2, <1>3, <1>6, <1>8, <2>2, <3>1
    <3> QED
      BY <3>2
  <2> QED
    BY <2>1, <2>2
<1> QED
  BY <1>9, <1>10, <1>11, <1>12 DEF SocketsAgree

LEMMA LeftSockets ==
  ASSUME NEW u, Ready(u), u.running, SocketsAgree(u, sockets), NEW s \in sockets,
         sockets' = sockets \ {s}, NEW t, t.nextConn = u.nextConn,
         \/ /\ u.clients[s.player] = s.conn
            /\ t.clients = [u.clients EXCEPT ![s.player] = NoConn]
         \/ /\ u.clients[s.player] # s.conn
            /\ t.clients = u.clients
  PROVE  SocketsAgree(t, sockets')
<1>1. u.clients \in [PlayerID -> 0 .. MaxConns]
  BY DEF Ready, Sane, RoomRec
<1>2. /\ sockets \subseteq Socket /\ \A x \in sockets : x.conn < u.nextConn
      /\ \A x \in sockets : x.superseded <=> u.clients[x.player] # x.conn
      /\ \A p \in PlayerID :
           u.clients[p] # NoConn => \E x \in sockets : x.player = p /\ x.conn = u.clients[p]
  BY DEF SocketsAgree
<1>3. \A x \in sockets : /\ x.player \in PlayerID /\ x.conn \in 1 .. MaxConns
                         /\ x.superseded \in BOOLEAN
  BY <1>2 DEF Socket
<1>4. \A x, y \in sockets :
        x.player = y.player /\ x.conn = y.conn => x = y
  <2> SUFFICES ASSUME NEW x \in sockets, NEW y \in sockets, x.player = y.player, x.conn = y.conn
               PROVE  x = y
    OBVIOUS
  <2>1. x.superseded = y.superseded
    BY <1>2, <1>3
  <2>2. x \in Socket /\ y \in Socket
    BY <1>2
  <2> QED
    BY <2>1, <2>2 DEF Socket
<1>5. \A p \in PlayerID : t.clients[p] = u.clients[p] \/ p = s.player
  BY <1>1, <1>3
<1>6. MaxConns \in Nat
  BY RoomAssumption
<1>7. ASSUME NEW x \in sockets' PROVE x.superseded <=> t.clients[x.player] # x.conn
  <2>1. x \in sockets /\ x # s
    OBVIOUS
  <2>2. CASE x.player # s.player
    BY <1>2, <1>3, <1>5, <2>1, <2>2
  <2>3. CASE x.player = s.player
    <3>1. x.conn # s.conn /\ x.conn # NoConn
      BY <1>3, <1>4, <1>6, <2>1, <2>3 DEF NoConn
    <3>2. CASE u.clients[s.player] = s.conn
      <4>1. t.clients[x.player] = NoConn
        BY <1>1, <1>3, <2>3, <3>2
      <4>2. u.clients[x.player] # x.conn
        BY <2>3, <3>1, <3>2
      <4> QED
        BY <1>2, <2>1, <3>1, <4>1, <4>2
    <3>3. CASE u.clients[s.player] # s.conn
      BY <1>2, <2>1, <3>3
    <3> QED
      BY <3>2, <3>3
  <2> QED
    BY <2>2, <2>3
<1>8. ASSUME NEW p \in PlayerID, t.clients[p] # NoConn
      PROVE  \E x \in sockets' : x.player = p /\ x.conn = t.clients[p]
  <2>1. t.clients[p] = u.clients[p]
    BY <1>1, <1>3, <1>5, <1>8
  <2>2. PICK x \in sockets : x.player = p /\ x.conn = u.clients[p]
    BY <1>2, <1>8, <2>1
  <2>3. x # s
    BY <1>1, <1>3, <1>8, <2>1, <2>2
  <2> QED
    BY <2>1, <2>2, <2>3
<1>9. sockets' \subseteq Socket /\ \A x \in sockets' : x.conn < t.nextConn
  BY <1>2
<1> QED
  BY <1>7, <1>8, <1>9 DEF SocketsAgree

LEMMA KindRoom ==
  ASSUME NEW u, RoomOK(u, sockets), NEW t, Sane(t), Kind(u, t)
  PROVE  RoomOK(t, sockets')
<1>1. Ready(u) /\ HostOK(u) /\ SocketsAgree(u, sockets) /\ Sane(u)
  BY DEF RoomOK, Ready
<1>2. CASE Called(u, t) /\ UNCHANGED sockets
  <2>1. Ready(t) /\ HostOK(t) /\ SameSeats(u, t)
    BY <1>1, <1>2, CalledKept
  <2>2. SocketsAgree(t, sockets)
    BY <1>1, <2>1, SocketsKept DEF SameSeats
  <2> QED
    BY <1>2, <2>1, <2>2 DEF RoomOK
<1>3. CASE t = u /\ UNCHANGED sockets
  BY <1>3
<1>4. ASSUME Inv(t.game), t.clients = u.clients, t.presence = u.presence, t.game = u.game,
             t.nextConn = u.nextConn, t.voice \subseteq Connected(u), t.running => u.running,
             UNCHANGED sockets
      PROVE  RoomOK(t, sockets')
  <2>1. SeatsAgree(t) /\ HostOK(t)
    BY <1>1, <1>4 DEF Ready, SeatsAgree, SeatAgrees, Known, HostOK, HostLost, Connected
  <2>2. SocketsAgree(t, sockets)
    BY <1>1, <1>4, SocketsKept
  <2> QED
    BY <1>4, <2>1, <2>2 DEF RoomOK, Ready
<1>5. u.voice \subseteq Connected(u) /\ Inv(u.game)
  BY <1>1 DEF Ready, SeatsAgree, SeatAgrees, Connected, Sane, RoomRec
<1>6. CASE Joined(u, t)
  <2>1. PICK id, x, m, v :
          /\ id \in PlayerID
          /\ u.running /\ u.nextConn <= MaxConns
          /\ Registered(u, x, id) /\ Arrived(x, m, id) /\ Evaluated(m, v) /\ Told(v, t)
          /\ sockets' = {[s EXCEPT !.superseded = @ \/ s.player = id] : s \in sockets}
                          \cup {[player |-> id, conn |-> u.nextConn, superseded |-> FALSE]}
    BY <1>6 DEF Joined
  <2>2. Ready(m) /\ HostOK(m)
    BY <1>1, <2>1, JoinedReady
  <2>3. Ready(v) /\ HostOK(v) /\ SameSeats(m, v)
    BY <2>1, <2>2, EvaluatedKind, CalledKept
  <2>4. Inv(t.game) /\ SeatsAgree(t) /\ HostOK(t) /\ SameSeats(v, t)
    BY <2>1, <2>3 DEF Told, SameMatchOf, SameSeats, Ready, SeatsAgree, SeatAgrees, Known,
                      HostOK, HostLost, Connected
  <2>5. /\ t.clients = [u.clients EXCEPT ![id] = u.nextConn]
        /\ t.nextConn = u.nextConn + 1
    BY <2>1, <2>3, <2>4 DEF SameSeats, Arrived, OthersSame, Registered
  <2>6. SocketsAgree(t, sockets')
    BY <1>1, <2>1, <2>5, JoinedSockets
  <2> QED
    BY <2>4, <2>6 DEF RoomOK, Ready
<1>7. CASE Left(u, t)
  <2>1. PICK s, x, m :
          /\ s \in sockets
          /\ u.running /\ u.clients[s.player] = s.conn
          /\ Unregistered(u, x, s.player) /\ Departed(x, m, s.player) /\ Evaluated(m, t)
          /\ sockets' = sockets \ {s}
    BY <1>7 DEF Left
  <2>2. Ready(m) /\ HostOK(m)
    BY <1>5, <2>1 DEF Departed, Unregistered, SameMatchOf, Ready
  <2>3. Ready(t) /\ HostOK(t) /\ SameSeats(m, t)
    BY <2>1, <2>2, EvaluatedKind, CalledKept
  <2>4. t.clients = [u.clients EXCEPT ![s.player] = NoConn] /\ t.nextConn = u.nextConn
    BY <2>1, <2>3 DEF SameSeats, Departed, OthersSame, Unregistered
  <2>5. SocketsAgree(t, sockets')
    BY <1>1, <2>1, <2>4, LeftSockets
  <2> QED
    BY <2>3, <2>5 DEF RoomOK
<1>8. CASE LeftLate(u, t)
  <2>1. SocketsAgree(t, sockets')
    BY <1>1, <1>8, LeftSockets DEF LeftLate
  <2> QED
    BY <1>1, <1>8, <2>1 DEF LeftLate, RoomOK
<1>9. CASE Commanded(u, t) \/ Advanced(u, t) \/ Closed(u, t) \/ Skipped(u, t) \/ GuessOver(u, t)
  BY <1>2, <1>3, <1>9 DEF Commanded, Advanced, Closed, Skipped, GuessOver
<1>10. CASE Spoken(u, t)
  <2>1. PICK p \in Connected(u), present \in SUBSET PlayerID :
          /\ present \subseteq u.voice \cup {p}
          /\ t = [u EXCEPT !.voice = present]
          /\ UNCHANGED sockets
    BY <1>10 DEF Spoken
  <2>2. /\ t.clients = u.clients /\ t.presence = u.presence /\ t.game = u.game
        /\ t.nextConn = u.nextConn /\ t.voice = present /\ t.running = u.running
    BY <1>1, <2>1 DEF Sane, RoomRec
  <2> QED
    BY <1>4, <1>5, <2>1, <2>2
<1>11. CASE GraceOver(u, t)
  <2>1. PICK m \in chan.grace : /\ IF StillAbsent(u, m) THEN Expired(u, t, m.player) ELSE t = u
                                /\ UNCHANGED sockets
    BY <1>11 DEF GraceOver
  <2>2. CASE StillAbsent(u, m)
    <3>1. PICK g : /\ g = u.game \/ (MayRemove(u.game, m.player)
                                       /\ g = RemovePlayer(u.game, m.player))
                   /\ HostMoved(g, t.game)
      BY <2>1, <2>2 DEF Expired
    <3>2. Inv(g)
      <4>1. CASE g = u.game
        BY <1>5, <4>1
      <4>2. CASE MayRemove(u.game, m.player) /\ g = RemovePlayer(u.game, m.player)
        <5>1. m.player \in PlayerID
          BY <1>5, <4>2, RosterType DEF MayRemove, Inv
        <5> QED
          BY <1>5, <4>2, <5>1, RemovePlayerInv
      <4> QED
        BY <3>1, <4>1, <4>2
    <3>3. Inv(t.game)
      BY <3>1, <3>2, HostMovedLemma
    <3>4. SocketsAgree(t, sockets)
      BY <1>1, <2>1, <2>2, SocketsKept DEF Expired
    <3> QED
      BY <2>1, <2>2, <3>3, <3>4 DEF Expired, RoomOK, Ready
  <2>3. CASE ~StillAbsent(u, m)
    BY <1>3, <2>1, <2>3
  <2> QED
    BY <2>2, <2>3
<1>12. CASE DrawFired(u, t) \/ GuessFired(u, t) \/ DiscussionFired(u, t) \/ RevealFired(u, t)
            \/ GraceFired(u, t) \/ Idled(u, t)
  <2>1. \/ t = [u EXCEPT !.drawSkip = NoTimer] \/ t = [u EXCEPT !.guess = 0]
        \/ t = [u EXCEPT !.discussion = FALSE] \/ t = [u EXCEPT !.reveal = FALSE]
        \/ t = [u EXCEPT !.idle = TRUE] \/ \E p \in PlayerID : t = [u EXCEPT !.grace[p] = 0]
    BY <1>12 DEF DrawFired, GuessFired, DiscussionFired, RevealFired, GraceFired, Idled
  <2>2. UNCHANGED sockets
    BY <1>12 DEF DrawFired, GuessFired, DiscussionFired, RevealFired, GraceFired, Idled
  <2> DEFINE Same == /\ t.clients = u.clients /\ t.presence = u.presence /\ t.game = u.game
                     /\ t.nextConn = u.nextConn /\ t.voice = u.voice
                     /\ t.running = u.running
  <2>3. ASSUME t = [u EXCEPT !.drawSkip = NoTimer] \/ t = [u EXCEPT !.guess = 0] PROVE Same
    BY <1>1, <2>3, SMTT(60) DEF Sane, RoomRec
  <2>4. ASSUME t = [u EXCEPT !.discussion = FALSE] \/ t = [u EXCEPT !.reveal = FALSE]
                 \/ t = [u EXCEPT !.idle = TRUE]
        PROVE  Same
    BY <1>1, <2>4 DEF Sane, RoomRec
  <2>5. ASSUME NEW p \in PlayerID, t = [u EXCEPT !.grace[p] = 0] PROVE Same
    BY <1>1, <2>5 DEF Sane, RoomRec
  <2>6. Same
    BY <2>1, <2>3, <2>4, <2>5
  <2> QED
    BY <1>4, <1>5, <2>2, <2>6
<1>13. CASE Halted(u, t)
  <2>1. UNCHANGED sockets /\ t = Stop(u)
    BY <1>13 DEF Halted
  <2>2. /\ t.clients = u.clients /\ t.presence = u.presence /\ t.game = u.game
        /\ t.nextConn = u.nextConn /\ t.voice = u.voice /\ ~t.running
    BY <1>1, <2>1, StopLemma DEF SameMatchOf
  <2> QED
    BY <1>4, <1>5, <2>1, <2>2
<1> QED
  BY <1>6, <1>7, <1>8, <1>9, <1>10, <1>11, <1>12, <1>13 DEF Kind

-----------------------------------------------------------------------------
(* Structure is an invariant.                                              *)

LEMMA InitStructure == Init => Structure
<1> SUFFICES ASSUME NEW host \in PlayerID, room = NewRoom(host), chan = NoMessages,
                    sockets = {}
             PROVE  Structure
  BY DEF Init
<1>1. Inv(room.game) /\ room.game = NewEngine(host)
  BY NewEngineInv DEF NewRoom
<1>2. /\ [p \in PlayerID |-> NoConn] \in [PlayerID -> 0 .. MaxConns]
      /\ [p \in PlayerID |-> NoPresence] \in [PlayerID -> Presence]
      /\ [p \in PlayerID |-> 0] \in [PlayerID -> Nat]
      /\ NoDeadline \in [gen : Nat, moved : BOOLEAN]
  BY RoomAssumption DEF NoConn, NoPresence, Presence, NoDeadline
<1>3. <<>> \in Seq(Message) /\ Numbered(<<>>, 0)
  BY DEF Numbered, Sequenced
<1>4. Sane(room)
  <2>1. NewEngine(host) \in State
    BY <1>1 DEF Inv
  <2>2. room \in RoomRec
    BY <1>2, <1>3, <2>1 DEF RoomRec, NewRoom
  <2>3. room.wire = <<>> /\ room.bumps = 0
    BY DEF NewRoom
  <2> QED
    BY <1>3, <2>2, <2>3 DEF Sane
<1>5. /\ \A p \in PlayerID : room.presence[p] = NoPresence /\ room.clients[p] = NoConn
      /\ room.voice = {} /\ room.nextConn = 1
  BY DEF NewRoom
<1>6. room.game.phase = "lobby" /\ room.game.host = host /\ Roster(room.game) = {host}
  <2>1. /\ NewEngine(host).phase = "lobby" /\ NewEngine(host).host = host
        /\ NewEngine(host).players = <<host>>
    BY DEF NewEngine
  <2>2. room.game.phase = "lobby" /\ room.game.host = host /\ room.game.players = <<host>>
    BY <1>1, <2>1
  <2> QED
    BY <2>2 DEF Roster
<1>7. SeatsAgree(room) /\ HostOK(room)
  BY <1>5, <1>6 DEF SeatsAgree, SeatAgrees, Known, NoPresence, NoConn, HostOK, Connected
<1>8. SocketsAgree(room, sockets)
  BY <1>5 DEF SocketsAgree
<1>9. ChanOK(chan)
  <2>1. IsFiniteSet({}) /\ Cardinality({}) = 0
    BY FS_EmptySet
  <2>2. /\ chan \in Channels /\ chan.grace = {} /\ chan.draw = {} /\ chan.guess = {}
    BY DEF NoMessages, Channels
  <2> QED
    BY <2>1, <2>2, RoomAssumption DEF ChanOK, Fits
<1> QED
  BY <1>1, <1>4, <1>7, <1>8, <1>9 DEF Structure, RoomOK, Ready

\* A step as the invariants see it: from u to t by its kind, and back into select.
Stepped(u, t) ==
  /\ RoomOK(u, sockets) /\ SameButYoung(room, u) /\ u.young = room.young
  /\ Sane(t) /\ RoomOK(t, sockets') /\ Kind(u, t) /\ ChanOK(chan')
  /\ Sane(room') /\ SameButYoung(t, room')
  /\ IF chan' = NoMessages THEN room'.young = {} ELSE room'.young = t.young

LEMMA HandledLemma ==
  ASSUME Structure, Handled
  PROVE  \E u, t : Stepped(u, t)
<1>1. PICK u, t : Fresh(room, u) /\ Sane(t) /\ Becomes(t, chan') /\ Kind(u, t)
  BY DEF Handled
<1>2. RoomOK(u, sockets) /\ Sane(u)
  BY <1>1, RoomOKKept DEF Structure, Fresh
<1>3. RoomOK(t, sockets')
  BY <1>1, <1>2, KindRoom
<1>4. ChanOK(chan')
  BY <1>1, <1>2, KindChan DEF Structure
<1>5. /\ Sane(room') /\ SameButYoung(t, room')
      /\ IF chan' = NoMessages THEN room'.young = {} ELSE room'.young = t.young
  BY <1>1, BecomesLemma
<1>6. Stepped(u, t)
  BY <1>1, <1>2, <1>3, <1>4, <1>5 DEF Stepped, Fresh
<1> QED
  BY <1>6

LEMMA NextStructure == Structure /\ [Next]_vars => Structure'
<1> SUFFICES ASSUME Structure, [Next]_vars PROVE Structure'
  OBVIOUS
<1>1. CASE Handled
  <2>1. PICK u, t : Stepped(u, t)
    BY <1>1, HandledLemma
  <2>2. RoomOK(room', sockets')
    BY <2>1, RoomOKKept DEF Stepped
  <2> QED
    BY <2>1, <2>2 DEF Structure, Stepped
<1>2. CASE LeftStopped
  <2>1. room' = room /\ chan' = chan /\ ~room.running /\ sockets' \subseteq sockets
    BY <1>2 DEF LeftStopped
  <2>2. SocketsAgree(room', sockets')
    BY <2>1 DEF Structure, RoomOK, SocketsAgree
  <2> QED
    BY <2>1, <2>2 DEF Structure, RoomOK
<1>3. CASE UNCHANGED vars
  BY <1>3 DEF Structure, vars
<1> QED
  BY <1>1, <1>2, <1>3, StepKind

\* The parts of the Room agree with one another and with the handlers of its connections:
\* clients, presence, roster and voice list seat by seat, each handler with the
\* client it registered, the host with who is connected, revisions with messages sent.
THEOREM StructureHolds == Spec => []Structure
  BY InitStructure, NextStructure, PTL DEF Spec

-----------------------------------------------------------------------------
(* Theorems about seats, sockets and messages.                             *)

\* The fields of the Room, its channels and the handlers of its connections always
\* have the values their types promise, and no channel holds more than it can.
THEOREM TypeCorrect == Spec => []TypeOK
<1>1. Structure => TypeOK
  <2> SUFFICES ASSUME Structure PROVE TypeOK
    OBVIOUS
  <2>1. room \in RoomRec /\ chan \in Channels /\ sockets \subseteq Socket
    BY DEF Structure, RoomOK, Ready, Sane, ChanOK, SocketsAgree
  <2>2. /\ Cardinality(chan.grace) <= GraceCap
        /\ Cardinality(chan.draw) <= 1 /\ Cardinality(chan.guess) <= 1
    BY DEF Structure, ChanOK, Fits
  <2>3. room.drawSkip \in [player : PlayerID \cup {Nobody}, gen : Nat]
    <3>1. room.drawSkip \in Absence \cup {NoTimer}
      BY <2>1 DEF RoomRec
    <3> QED
      BY <3>1 DEF Absence, NoTimer
  <2>4. /\ room.game \in State
        /\ room.clients \in [PlayerID -> 0 .. MaxConns]
        /\ room.presence \in [PlayerID -> Presence]
        /\ room.seats \subseteq PlayerID /\ room.voice \subseteq PlayerID
        /\ {room.nextConn, room.nextJoinSeq, room.roundGen, room.guess, room.bumps}
             \subseteq Nat
        /\ room.grace \in [PlayerID -> Nat]
        /\ room.deadline \in [gen : Nat, moved : BOOLEAN]
        /\ {room.discussion, room.reveal, room.idle, room.running} \subseteq BOOLEAN
        /\ room.young \subseteq Timer
        /\ room.wire \in Seq(Message)
    BY <2>1 DEF RoomRec
  <2>5. /\ chan.advance \in BOOLEAN /\ chan.discussion \in BOOLEAN
        /\ chan.grace \subseteq Absence /\ chan.draw \subseteq Absence
        /\ chan.guess \subseteq Nat
    BY <2>1 DEF Channels
  <2> QED
    BY <2>1, <2>2, <2>3, <2>4, <2>5 DEF TypeOK, Absence, Socket
<1> QED
  BY <1>1, StructureHolds, PTL

\* The sequenced messages of a step carry its revisions, each exactly one and in
\* order, and a snapshot carries that of the last one sent before it: a client that
\* applies revisions strictly in order (protocol.js) neither drops nor misses any.
THEOREM RevisionsAreSent == Spec => []OneRevisionEach
<1>1. Structure => OneRevisionEach
  BY DEF Structure, RoomOK, Ready, Sane, Numbered, OneRevisionEach
<1> QED
  BY <1>1, StructureHolds, PTL

\* The client table, the presence table and the engine's roster agree, although
\* processJoin, processLeave, the grace timer and the engine update them separately.
THEOREM PresenceStaysConsistent == Spec => []PresenceConsistent
<1>1. Structure => PresenceConsistent
  BY RosterType
  DEF Structure, RoomOK, Ready, Inv, SeatsAgree, SeatAgrees, Known, PresenceConsistent,
      Connected
<1> QED
  BY <1>1, StructureHolds, PTL

\* Whenever somebody is connected the host is on the roster and can act, or is
\* being waited for (maybeMigrateHost is called wherever that could cease to hold).
THEOREM HostStaysAlive == Spec => []HostAlive
<1>1. Structure => HostAlive
  <2> SUFFICES ASSUME Structure, Connected(room) # {}
               PROVE  /\ room.game.host \in Roster(room.game)
                      /\ room.presence[room.game.host].expired
                           => room.presence[room.game.host].connected
    BY DEF HostAlive
  <2>1. ~HostLost(room) /\ SeatsAgree(room) /\ room.game \in State
    BY DEF Structure, RoomOK, Ready, Inv, HostOK
  <2>2. room.game.host \in PlayerID
    BY <2>1 DEF State
  <2> QED
    BY <2>1, <2>2 DEF HostLost, SeatsAgree, SeatAgrees, Known
<1> QED
  BY <1>1, StructureHolds, PTL

\* A seat is registered to its latest connection for exactly as long as that
\* connection's handler runs (processJoin, processLeave's comparison of connIDs).
THEOREM SeatFollowsLatestSocket == Spec => []LatestSocketRegistered
<1>1. Structure => LatestSocketRegistered
  <2> SUFFICES ASSUME Structure, room.running, NEW p \in PlayerID
               PROVE  {s.conn : s \in {t \in sockets : t.player = p /\ ~t.superseded}}
                        = {room.clients[p]} \ {NoConn}
    BY DEF LatestSocketRegistered
  <2>1. /\ sockets \subseteq Socket
        /\ \A s \in sockets : s.superseded <=> room.clients[s.player] # s.conn
        /\ room.clients[p] # NoConn =>
             \E s \in sockets : s.player = p /\ s.conn = room.clients[p]
    BY DEF Structure, RoomOK, SocketsAgree
  <2>2. \A s \in sockets : s.conn # NoConn
    BY <2>1, RoomAssumption DEF Socket, NoConn
  <2> QED
    BY <2>1, <2>2
<1> QED
  BY <1>1, StructureHolds, PTL

\* Nobody is listed as a voice peer without a connection to signal over.
THEOREM VoicePeersStayConnected == Spec => []VoicePeersConnected
<1>1. Structure => VoicePeersConnected
  BY DEF Structure, RoomOK, Ready, Sane, RoomRec, SeatsAgree, SeatAgrees,
         VoicePeersConnected, Connected
<1> QED
  BY <1>1, StructureHolds, PTL

\* The room never expires under the handler of a seat's latest connection.
THEOREM NobodyStranded == Spec => ExpiryStrandsNobody
<1>1. Structure /\ [Next]_vars => [Expire => \A s \in sockets : s.superseded]_vars
  <2> SUFFICES ASSUME Structure, Expire, NEW s \in sockets PROVE s.superseded
    OBVIOUS
  <2>1. /\ room.running /\ Connected(room) = {} /\ s \in Socket
        /\ s.superseded <=> room.clients[s.player] # s.conn
    BY DEF Expire, HandleExpireCheck, Structure, RoomOK, SocketsAgree
  <2>2. s.player \in PlayerID /\ s.conn # NoConn
    BY <2>1, RoomAssumption DEF Socket, NoConn
  <2> QED
    BY <2>1, <2>2 DEF Connected
<1> QED
  BY <1>1, StructureHolds, PTL DEF Spec, ExpiryStrandsNobody

-----------------------------------------------------------------------------
(* Grace periods. At most one message per player waits in the channel, and *)
(* a player whose message waits has no timer that can fire before the      *)
(* channel is drained: so the channel, as large as the roster, never       *)
(* overflows.                                                              *)

Away(r, p) == Known(r, p) /\ ~r.presence[p].connected /\ ~r.presence[p].expired

Absent(r, p) == [player |-> p, gen |-> r.presence[p].gen]

GraceAgrees(r, messages) ==
  /\ Len(r.game.players) <= MaxPlayers
  /\ \A m \in messages : m.player \in Roster(r.game)
  /\ \A m, n \in messages : m.player = n.player => m = n
  /\ \A m \in messages : r.grace[m.player] # 0 => m.player \in r.young
  /\ \A p \in PlayerID : r.grace[p] # 0 => p \in Roster(r.game)
  /\ r.running => \A p \in PlayerID :
                    Away(r, p) => r.grace[p] = r.presence[p].gen \/ Absent(r, p) \in messages

\* What the grace periods see of a step that is not about them.
SameGrace(r, t) ==
  /\ t.grace = r.grace /\ t.presence = r.presence /\ (t.running => r.running)
  /\ \A p \in PlayerID : p \in t.young <=> p \in r.young
  /\ t.game.players = r.game.players

LEMMA GraceKept ==
  ASSUME NEW r, NEW M, M \subseteq Absence, GraceAgrees(r, M), NEW t, SameGrace(r, t)
  PROVE  GraceAgrees(t, M)
<1>1. \A m \in M : m.player \in PlayerID
  BY DEF Absence
<1>2. Roster(t.game) = Roster(r.game)
  BY DEF SameGrace, Roster
<1> QED
  BY <1>1, <1>2 DEF SameGrace, GraceAgrees, Away, Absent, Known

\* One player's message less than the roster leaves room for that player's.
LEMMA GraceRoom ==
  ASSUME MaxPlayers <= GraceCap, NEW r, Inv(r.game), NEW M, M \subseteq Absence,
         IsFiniteSet(M), GraceAgrees(r, M), NEW p \in Roster(r.game),
         \A m \in M : m.player # p
  PROVE  Cardinality(M) < GraceCap
<1> DEFINE R == Roster(r.game)
           f == [m \in M |-> m.player]
<1>1. IsFiniteSet(R) /\ Cardinality(R) = Len(r.game.players)
  BY RosterSize
<1>2. /\ IsFiniteSet(R \ {p}) /\ Cardinality(R \ {p}) = Cardinality(R) - 1
  BY <1>1, FS_RemoveElement
<1>3. f \in Injection(M, R \ {p})
  BY DEF GraceAgrees, Injection, IsInjective
<1>4. Cardinality(M) <= Cardinality(R \ {p})
  BY <1>2, <1>3, FS_Injection
<1>5. /\ Cardinality(M) \in Nat /\ Cardinality(R) \in Nat /\ Cardinality(R) <= MaxPlayers
      /\ MaxPlayers \in Nat /\ GraceCap \in Nat
  BY <1>1, FS_CardinalityType, BoundsAssumption, RoomAssumption DEF GraceAgrees
<1> QED
  BY <1>2, <1>4, <1>5

LEMMA GraceKind ==
  ASSUME Prompt, MaxPlayers <= GraceCap, ChanOK(chan), NEW u, RoomOK(u, sockets),
         GraceAgrees(u, chan.grace), NEW t, Sane(t), Kind(u, t)
  PROVE  GraceAgrees(t, chan'.grace)
<1> DEFINE M == chan.grace
<1>1. /\ M \subseteq Absence /\ IsFiniteSet(M) /\ Fits(M, GraceCap) /\ chan \in Channels
  BY DEF ChanOK, Channels, Fits
<1>2. \A m \in M : m.player \in PlayerID
  BY <1>1 DEF Absence
<1>3. /\ Ready(u) /\ Sane(u) /\ Inv(u.game) /\ SeatsAgree(u)
      /\ Roster(u.game) \subseteq PlayerID
  BY RosterType DEF RoomOK, Ready, Inv
<1>4. ASSUME chan'.grace = M, SameGrace(u, t) PROVE GraceAgrees(t, chan'.grace)
  BY <1>1, <1>4, GraceKept
<1>5. /\ chan' = chan => chan'.grace = M
      /\ (\E b : chan' = [chan EXCEPT !.advance = b] \/ chan' = [chan EXCEPT !.discussion = b]
                   \/ chan' = [chan EXCEPT !.draw = b] \/ chan' = [chan EXCEPT !.guess = b])
           => chan'.grace = M
  BY <1>1 DEF Channels
<1>6. CASE Joined(u, t)
  <2>1. PICK id, x, m, v :
          /\ id \in PlayerID
          /\ Registered(u, x, id) /\ Arrived(x, m, id) /\ Evaluated(m, v) /\ Told(v, t)
          /\ UNCHANGED chan
    BY <1>6 DEF Joined
  <2>2. /\ Inv(x.game) /\ Ready(m) /\ SameButHost(x.game, m.game)
    BY <1>3, <2>1, JoinedReady
  <2>3. Called(m, v)
    BY <2>1, <2>2, EvaluatedKind
  <2>4. SameGrace(m, v) /\ SameGrace(v, t)
    BY <2>1, <2>3 DEF Called, Told, SameMatchOf, SameSeats, SameGrace
  <2>5. /\ Roster(u.game) \subseteq Roster(x.game)
        /\ Len(x.game.players) <= MaxPlayers /\ id \in Roster(x.game)
    <3>1. CASE x.game = u.game
      BY <2>1, <3>1 DEF GraceAgrees, Registered, Arriving
    <3>2. CASE MayAdd(u.game, id) /\ x.game = AddPlayer(u.game, id)
      <4>1. Roster(x.game) = Roster(u.game) \cup {id}
            /\ Len(x.game.players) = Len(u.game.players) + 1
        <5>1. id \in PlayerID
          BY <2>1
        <5> QED
          BY <1>3, <3>2, <5>1, AddPlayerInv
      <4>2. Len(u.game.players) < MaxPlayers /\ Len(u.game.players) \in Nat
            /\ MaxPlayers \in Nat
        BY <1>3, <3>2, BoundsAssumption DEF MayAdd, Inv, State
      <4> QED
        BY <4>1, <4>2
    <3> QED
      BY <2>1, <3>1, <3>2 DEF Registered
  <2>6. /\ m.game.players = x.game.players /\ Roster(m.game) = Roster(x.game)
    BY <2>2 DEF SameButHost
  <2>7. /\ \A p \in PlayerID \ {id} : /\ m.presence[p] = u.presence[p]
                                      /\ m.grace[p] = u.grace[p]
                                      /\ p \in m.young <=> p \in u.young
        /\ m.running = u.running /\ m.grace[id] = 0 /\ m.presence[id].connected
    BY <2>1 DEF Registered, Arrived, OthersSame, Present1
  <2>8. GraceAgrees(m, M)
    BY <1>2, <2>5, <2>6, <2>7 DEF GraceAgrees, Away, Absent, Known
  <2>9. GraceAgrees(v, M)
    BY <1>1, <2>4, <2>8, GraceKept
  <2>10. GraceAgrees(t, M)
    BY <1>1, <2>4, <2>9, GraceKept
  <2> QED
    BY <2>1, <2>10
<1>7. CASE Left(u, t)
  <2>1. PICK s, x, m :
          /\ s \in sockets
          /\ Unregistered(u, x, s.player) /\ Departed(x, m, s.player) /\ Evaluated(m, t)
          /\ UNCHANGED chan
    BY <1>7 DEF Left
  <2>2. Ready(m)
    BY <1>3, <2>1 DEF Departed, Unregistered, SameMatchOf, Ready
  <2>3. SameGrace(m, t)
    BY <2>1, <2>2, EvaluatedKind DEF Called, SameSeats, SameGrace
  <2>4. /\ \A p \in PlayerID \ {s.player} : /\ m.presence[p] = u.presence[p]
                                            /\ m.grace[p] = u.grace[p]
                                            /\ p \in m.young <=> p \in u.young
        /\ m.running = u.running /\ m.game = u.game
        /\ m.grace[s.player] = m.presence[s.player].gen /\ s.player \in m.young
        /\ s.player \in Roster(m.game)
    BY <2>1 DEF Unregistered, Departed, Departing, OthersSame, Absent1, SameMatchOf
  <2>5. GraceAgrees(m, M)
    BY <1>2, <2>4 DEF GraceAgrees, Away, Absent, Known
  <2> QED
    BY <1>1, <2>1, <2>3, <2>5, GraceKept
<1>8. Called(u, t) \/ t = u => SameGrace(u, t)
  BY DEF Called, SameSeats, SameGrace
<1>9. CASE LeftLate(u, t) \/ Commanded(u, t) \/ Advanced(u, t) \/ Closed(u, t)
           \/ Skipped(u, t) \/ GuessOver(u, t)
  <2>1. chan'.grace = M
    BY <1>5, <1>9 DEF LeftLate, Commanded, Advanced, Closed, Skipped, GuessOver
  <2>2. Called(u, t) \/ t = u
    BY <1>9 DEF LeftLate, Commanded, Advanced, Closed, Skipped, GuessOver
  <2> QED
    BY <1>4, <1>8, <2>1, <2>2
<1>10. CASE Spoken(u, t) \/ Idled(u, t) \/ DrawFired(u, t) \/ GuessFired(u, t)
            \/ DiscussionFired(u, t) \/ RevealFired(u, t)
  <2>1. chan'.grace = M
    BY <1>5, <1>10 DEF Spoken, Idled, DrawFired, GuessFired, DiscussionFired, RevealFired
  <2>2. ASSUME NEW b, t = [u EXCEPT !.voice = b] \/ t = [u EXCEPT !.idle = b]
        PROVE  SameGrace(u, t)
    BY <1>3, <2>2, ZenonT(60) DEF Sane, RoomRec, SameGrace
  <2>4. ASSUME NEW b, t = [u EXCEPT !.drawSkip = b] \/ t = [u EXCEPT !.guess = b]
        PROVE  SameGrace(u, t)
    BY <1>3, <2>4, ZenonT(60) DEF Sane, RoomRec, SameGrace
  <2>5. ASSUME NEW b, t = [u EXCEPT !.discussion = b] \/ t = [u EXCEPT !.reveal = b]
        PROVE  SameGrace(u, t)
    BY <1>3, <2>5, ZenonT(60) DEF Sane, RoomRec, SameGrace
  <2>3. SameGrace(u, t)
    BY <1>10, <2>2, <2>4, <2>5 DEF Spoken, Idled, DrawFired, GuessFired, DiscussionFired, RevealFired
  <2> QED
    BY <1>4, <2>1, <2>3
<1>11. CASE GraceOver(u, t)
  <2>1. PICK m \in M : /\ IF StillAbsent(u, m) THEN Expired(u, t, m.player) ELSE t = u
                       /\ chan' = [chan EXCEPT !.grace = @ \ {m}]
    BY <1>11 DEF GraceOver
  <2>2. chan'.grace = M \ {m} /\ m.player \in PlayerID /\ m \in Absence
    BY <1>1, <1>2, <2>1 DEF Channels
  <2>3. CASE ~StillAbsent(u, m)
    <3>1. \A p \in PlayerID : Away(u, p) => m # Absent(u, p)
      BY <2>3 DEF Away, Known, Absent, StillAbsent
    <3> QED
      BY <2>1, <2>2, <2>3, <3>1 DEF GraceAgrees
  <2>4. CASE StillAbsent(u, m)
    <3>1. /\ t.grace = [u.grace EXCEPT ![m.player] = 0] /\ t.running = u.running
          /\ \A p \in PlayerID : p \in t.young <=> p \in u.young
          /\ \A p \in PlayerID \ {m.player} : t.presence[p] = u.presence[p]
          /\ t.presence[m.player] = NoPresence
               \/ t.presence[m.player] = [u.presence[m.player] EXCEPT !.expired = TRUE]
      BY <2>1, <2>4 DEF Expired
    <3>2. ~Away(t, m.player)
      <4>1. u.presence[m.player] \in Presence
        BY <1>3, <2>2 DEF Sane, RoomRec
      <4> QED
        BY <3>1, <4>1 DEF Away, Known, NoPresence, Presence
    <3>3. PICK g : /\ g = u.game \/ (MayRemove(u.game, m.player)
                                       /\ g = RemovePlayer(u.game, m.player))
                   /\ HostMoved(g, t.game)
      BY <2>1, <2>4 DEF Expired
    <3>4. /\ Inv(g) /\ Roster(u.game) \ {m.player} \subseteq Roster(g)
          /\ Len(g.players) <= MaxPlayers
      <4>1. CASE g = u.game
        BY <1>3, <4>1 DEF GraceAgrees
      <4>2. CASE MayRemove(u.game, m.player) /\ g = RemovePlayer(u.game, m.player)
        <5>1. /\ Inv(g) /\ Roster(g) = Roster(u.game) \ {m.player}
              /\ Len(g.players) = Len(u.game.players) - 1
          BY <1>3, <2>2, <4>2, RemovePlayerInv
        <5>2. Len(u.game.players) <= MaxPlayers /\ Len(u.game.players) \in Nat
              /\ MaxPlayers \in Nat
          BY <1>3, BoundsAssumption DEF GraceAgrees, Inv, State
        <5> QED
          BY <5>1, <5>2
      <4> QED
        BY <3>3, <4>1, <4>2
    <3>5. t.game.players = g.players /\ Roster(t.game) = Roster(g)
      BY <3>3, <3>4, HostMovedLemma DEF SameButHost
    <3>6. u.grace \in [PlayerID -> Nat]
      BY <1>3 DEF Sane, RoomRec
    <3>7. \A n \in M \ {m} : n.player # m.player
      BY <2>1 DEF GraceAgrees
    <3>8. \A p \in PlayerID : t.grace[p] = IF p = m.player THEN 0 ELSE u.grace[p]
      BY <2>2, <3>1, <3>6
    <3>9. ASSUME NEW p \in PlayerID, t.running, Away(t, p)
          PROVE  t.grace[p] = t.presence[p].gen \/ Absent(t, p) \in M \ {m}
      <4>1. p # m.player
        BY <3>2, <3>9
      <4>2. t.presence[p] = u.presence[p] /\ t.grace[p] = u.grace[p] /\ u.running
        BY <3>1, <3>8, <3>9, <4>1
      <4>3. Away(u, p) /\ Absent(t, p) = Absent(u, p) /\ Absent(u, p).player # m.player
        BY <3>9, <4>1, <4>2 DEF Away, Known, Absent
      <4> QED
        BY <4>2, <4>3 DEF GraceAgrees
    <3>10. /\ Len(t.game.players) <= MaxPlayers
           /\ \A n \in M \ {m} : n.player \in Roster(t.game)
           /\ \A p \in PlayerID : t.grace[p] # 0 => p \in Roster(t.game)
      BY <3>4, <3>5, <3>7, <3>8 DEF GraceAgrees
    <3>11. \A n \in M \ {m} : t.grace[n.player] # 0 => n.player \in t.young
      BY <1>2, <3>1, <3>7, <3>8 DEF GraceAgrees
    <3>12. \A k, n \in M \ {m} : k.player = n.player => k = n
      BY DEF GraceAgrees
    <3> QED
      BY <2>2, <3>9, <3>10, <3>11, <3>12 DEF GraceAgrees
  <2> QED
    BY <2>3, <2>4
<1>12. CASE GraceFired(u, t)
  <2>1. PICK p \in PlayerID :
          /\ u.grace[p] # 0 /\ p \notin u.young
          /\ t = [u EXCEPT !.grace[p] = 0]
          /\ chan' = [chan EXCEPT !.grace = Post(@, [player |-> p, gen |-> u.grace[p]],
                                                GraceCap)]
    BY <1>12 DEF GraceFired
  <2> DEFINE m == [player |-> p, gen |-> u.grace[p]]
  <2>2. p \in Roster(u.game) /\ \A n \in M : n.player # p
    BY <2>1 DEF GraceAgrees
  <2>3. Cardinality(M) < GraceCap
    BY <1>1, <1>3, <2>2, GraceRoom
  <2>4. m.player = p /\ m.gen = u.grace[p]
    OBVIOUS
  <2>5. chan'.grace = M \cup {m}
    BY <1>1, <2>1, <2>3 DEF Post, Channels
  <2> HIDE DEF m
  <2>6. /\ t.presence = u.presence /\ t.running = u.running /\ t.young = u.young
        /\ t.game = u.game
        /\ \A q \in PlayerID : t.grace[q] = IF q = p THEN 0 ELSE u.grace[q]
    BY <1>3, <2>1 DEF Sane, RoomRec
  <2>7. ASSUME NEW q \in PlayerID, t.running, Away(t, q)
        PROVE  t.grace[q] = t.presence[q].gen \/ Absent(t, q) \in M \cup {m}
    <3>1. Away(u, q) /\ Absent(t, q) = Absent(u, q)
      BY <2>6, <2>7 DEF Away, Known, Absent
    <3>2. u.grace[q] = u.presence[q].gen \/ Absent(u, q) \in M
      BY <2>6, <2>7, <3>1 DEF GraceAgrees
    <3>3. CASE q # p
      BY <2>6, <3>1, <3>2, <3>3
    <3>4. CASE q = p
      <4>1. Absent(u, q) \notin M
        BY <2>2, <3>4 DEF Absent
      <4>2. Absent(u, q) = m
        BY <3>2, <3>4, <4>1 DEF Absent, m
      <4> QED
        BY <3>1, <4>2
    <3> QED
      BY <3>3, <3>4
  <2>8. /\ \A n \in M \cup {m} : n.player \in Roster(t.game)
        /\ \A k, n \in M \cup {m} : k.player = n.player => k = n
        /\ \A n \in M \cup {m} : t.grace[n.player] # 0 => n.player \in t.young
    BY <1>2, <2>2, <2>4, <2>6 DEF GraceAgrees
  <2> QED
    BY <2>5, <2>6, <2>7, <2>8 DEF GraceAgrees
<1>13. CASE Halted(u, t)
  <2>1. t = Stop(u) /\ chan'.grace = M
    BY <1>13 DEF Halted
  <2>2. /\ ~t.running /\ t.game = u.game
        /\ \A p \in PlayerID : t.grace[p] = 0
    BY <1>3, <2>1, StopLemma DEF SameMatchOf
  <2> QED
    BY <1>2, <2>1, <2>2 DEF GraceAgrees
<1> QED
  BY <1>6, <1>7, <1>9, <1>10, <1>11, <1>12, <1>13 DEF Kind

LEMMA GraceInit ==
  ASSUME Init, MaxPlayers # 0
  PROVE  GraceAgrees(room, chan.grace)
<1>1. PICK host \in PlayerID : room = NewRoom(host) /\ chan = NoMessages
  BY DEF Init
<1>2. NewEngine(host).players = <<host>>
  BY DEF NewEngine
<1>3. /\ \A p \in PlayerID : room.presence[p] = NoPresence /\ room.grace[p] = 0
      /\ room.game = NewEngine(host) /\ chan.grace = {}
  BY <1>1 DEF NewRoom, NoMessages
<1>4. Len(room.game.players) <= MaxPlayers
  <2>1. Len(<<host>>) = 1
    OBVIOUS
  <2>2. room.game.players = <<host>>
    BY <1>2, <1>3
  <2> QED
    BY <2>1, <2>2, BoundsAssumption
<1> QED
  BY <1>3, <1>4 DEF GraceAgrees, Away, Known, NoPresence

LEMMA GraceNext ==
  ASSUME Prompt, MaxPlayers <= GraceCap, Structure, GraceAgrees(room, chan.grace), [Next]_vars
  PROVE  GraceAgrees(room', chan'.grace)
<1>1. chan.grace \subseteq Absence
  BY DEF Structure, ChanOK, Channels
<1>2. CASE Handled
  <2>1. PICK u, t : Stepped(u, t)
    BY <1>2, HandledLemma
  <2>2. SameGrace(room, u)
    BY <2>1 DEF Stepped, SameButYoung, SameMatchOf, SameGrace
  <2>3. GraceAgrees(u, chan.grace)
    BY <1>1, <2>2, GraceKept
  <2>4. GraceAgrees(t, chan'.grace)
    BY <2>1, <2>3, GraceKind DEF Stepped, Structure
  <2>5. /\ room'.grace = t.grace /\ room'.presence = t.presence /\ room'.running = t.running
        /\ room'.game = t.game /\ chan'.grace \subseteq Absence
        /\ chan'.grace = {} \/ room'.young = t.young
    BY <2>1 DEF Stepped, SameButYoung, SameMatchOf, ChanOK, Channels, NoMessages
  <2> QED
    BY <2>4, <2>5 DEF GraceAgrees, Away, Absent, Known
<1>3. CASE LeftStopped \/ UNCHANGED vars
  BY <1>3 DEF LeftStopped, vars
<1> QED
  BY <1>2, <1>3, StepKind

\* A disconnect is never forgotten (markDisconnected, the grace channel of room.go):
\* its timer or its message is under way until its grace period is declared over,
\* however often the player came back meanwhile. The channel's non-blocking send
\* drops none as long as it is as large as the roster and the loop drains it before
\* a timer armed meanwhile can fire.
THEOREM DisconnectsAreRemembered ==
  ASSUME Prompt, MaxPlayers \in 1 .. GraceCap
  PROVE  Spec => []GraceCovered
<1>1. Init => GraceAgrees(room, chan.grace)
  BY GraceInit
<1>2. Structure /\ GraceAgrees(room, chan.grace) /\ [Next]_vars
        => GraceAgrees(room, chan.grace)'
  BY GraceNext
<1>3. Structure /\ GraceAgrees(room, chan.grace) => GraceCovered
  BY DEF GraceAgrees, Away, Absent, Known, GraceCovered
<1> QED
  BY <1>1, <1>2, <1>3, StructureHolds, PTL DEF Spec

-----------------------------------------------------------------------------
(* The timers of the phases and the votes: what the parts of a step do to  *)
(* them.                                                                   *)

\* The skip timer waits for this drawer; while somebody watches and the drawer is
\* away, its skip is armed or on its way. messages: what waits in the channel.
DrawAgrees(r, messages) ==
  /\ r.drawSkip # NoTimer =>
       r.game.phase = "drawing" /\ Drawer(r.game) = r.drawSkip.player
  /\ Prompt /\ r.drawSkip # NoTimer /\ messages # {} => "draw" \in r.young
  /\ Prompt /\ r.running /\ r.game.phase = "drawing" /\ Connected(r) # {} =>
       \/ r.presence[Drawer(r.game)].connected
       \/ r.drawSkip = Skip(r)
       \/ Skip(r) \in messages

\* The guess timer and the deadline are those of the running round, and a message
\* of this round waits only when its timer has gone off.
GuessAgrees(r, messages) ==
  /\ r.game.phase # "lobby" => r.roundGen # 0
  /\ r.guess # 0 => AwaitingGuess(r.game) /\ r.guess = r.roundGen
  /\ \A g \in messages : g <= r.roundGen
  /\ r.roundGen \in messages => r.game.phase \in {"reveal", "game_over"} /\ r.guess = 0
  /\ Prompt /\ r.guess # 0 /\ messages # {} => "guess" \in r.young
  /\ Prompt /\ r.running /\ AwaitingGuess(r.game) =>
       r.guess = r.roundGen \/ r.roundGen \in messages
  /\ r.deadline.gen <= r.roundGen
  /\ r.deadline.gen = r.roundGen /\ r.roundGen # 0 => r.game.phase \in {"reveal", "game_over"}
  /\ AwaitingGuess(r.game) => ~r.deadline.moved

\* The discussion's timer and the hold that leads to the next round. advance: a
\* message of the hold waits.
HoldAgrees(r, advance) ==
  /\ r.discussion => r.game.phase = "discussion"
  /\ r.reveal \/ advance => Settled(r.game)
  /\ ~(r.reveal /\ advance)
  /\ r.running /\ Settled(r.game) => r.reveal \/ advance

VotesAgree(r) ==
  r.running /\ r.game.phase = "voting" /\ Connected(r) # {} =>
    \E p \in Connected(r) : ~HasVoted(r.game, p)

\* A step the phases do not see.
Quiet(r, t) ==
  /\ SameDraw(r, t) /\ SameGuess(r, t) /\ SameHold(r, t) /\ SameMatchOf(r, t)
  /\ t.clients = r.clients /\ t.presence = r.presence /\ t.running = r.running

LEMMA QuietKept ==
  ASSUME NEW r, NEW t, Quiet(r, t)
  PROVE  /\ \A M : DrawAgrees(r, M) => DrawAgrees(t, M)
         /\ \A M : GuessAgrees(r, M) => GuessAgrees(t, M)
         /\ \A a : HoldAgrees(r, a) => HoldAgrees(t, a)
         /\ VotesAgree(r) => VotesAgree(t)
<1> USE DEF Quiet, SameMatchOf
<1>1. \A M : DrawAgrees(r, M) => DrawAgrees(t, M)
  BY DEF SameDraw, DrawAgrees, Skip, Connected
<1>2. \A M : GuessAgrees(r, M) => GuessAgrees(t, M)
  BY DEF SameGuess, GuessAgrees
<1>3. \A a : HoldAgrees(r, a) => HoldAgrees(t, a)
  BY DEF SameHold, HoldAgrees
<1>4. VotesAgree(r) => VotesAgree(t)
  BY DEF VotesAgree, Connected
<1> QED
  BY <1>1, <1>2, <1>3, <1>4

\* Somebody comes, goes or is given up: the match goes on, perhaps with another host.
Reseated(r, t) ==
  /\ Ready(t) /\ t.running = r.running /\ t.roundGen = r.roundGen
  /\ SameGuess(r, t) /\ SameHold(r, t) /\ t.game.phase = r.game.phase
  /\ \/ r.game.phase = "lobby" /\ MatchStep(r.game, t.game)
     \/ SameMatch(r.game, t.game) /\ SameButHost(r.game, t.game)

LEMMA ReseatedKept ==
  ASSUME NEW r, NEW t, Reseated(r, t)
  PROVE  /\ \A M : GuessAgrees(r, M) => GuessAgrees(t, M)
         /\ \A a : HoldAgrees(r, a) => HoldAgrees(t, a)
         /\ MatchStep(r.game, t.game)
<1>1. /\ AwaitingGuess(t.game) <=> AwaitingGuess(r.game)
      /\ Settled(t.game) <=> Settled(r.game)
  <2>1. CASE r.game.phase = "lobby"
    BY <2>1 DEF Reseated, AwaitingGuess, Settled
  <2>2. CASE SameButHost(r.game, t.game)
    BY <2>2 DEF SameButHost
  <2> QED
    BY <2>1, <2>2 DEF Reseated
<1>2. \A M : GuessAgrees(r, M) => GuessAgrees(t, M)
  BY <1>1 DEF Reseated, SameGuess, GuessAgrees
<1>3. \A a : HoldAgrees(r, a) => HoldAgrees(t, a)
  BY <1>1 DEF Reseated, SameHold, HoldAgrees
<1>4. MatchStep(r.game, t.game)
  BY DEF Reseated, MatchStep
<1> QED
  BY <1>2, <1>3, <1>4

\* The skip timer was just evaluated.
LEMMA DrawSetAgrees ==
  ASSUME NEW t, Ready(t), DrawSet(t)
  PROVE  \A M : DrawAgrees(t, M)
<1>1. ASSUME DrawerAbsent(t)
      PROVE  t.drawSkip = Skip(t) /\ (Prompt => "draw" \in t.young)
             /\ t.game.phase = "drawing" /\ Skip(t).player = Drawer(t.game)
  BY <1>1 DEF DrawSet, DrawerAbsent, Skip
<1>2. ASSUME ~DrawerAbsent(t) PROVE t.drawSkip = NoTimer
  BY <1>2 DEF DrawSet
<1>3. ASSUME t.game.phase = "drawing", Connected(t) # {}
      PROVE  t.presence[Drawer(t.game)].connected \/ DrawerAbsent(t)
  <2>1. t.game.turn < Len(t.game.players) /\ t.game.players \in Seq(PlayerID)
        /\ t.game.turn \in Nat
    BY <1>3 DEF Ready, Inv, TurnValid, State
  <2>2. Drawer(t.game) \in Roster(t.game) /\ Drawer(t.game) \in PlayerID
    BY <2>1 DEF Drawer, Roster
  <2>3. Known(t, Drawer(t.game))
    BY <1>3, <2>2 DEF Ready, SeatsAgree, SeatAgrees
  <2> QED
    BY <1>3, <2>1, <2>3 DEF DrawerAbsent, Known
<1> QED
  BY <1>1, <1>2, <1>3 DEF DrawAgrees

\* The vote after somebody came or went: it waits, or is decided.
Counted(r, t) ==
  /\ Called(r, t) /\ Ready(t)
  /\ \/ Decided(r, t) /\ MatchStep(r.game, t.game)
     \/ Quiet(r, t) /\ VotesAgree(t)

\* A join or a leave, in its parts: the seat, the vote, the messages.
SeatMoved(u, t) ==
  \E m, v : Reseated(u, m) /\ DrawSet(m) /\ Counted(m, v) /\ Quiet(v, t) /\ Ready(t)

LEMMA EvaluatedCounted ==
  ASSUME NEW r, Ready(r), HostOK(r), NEW t, Evaluated(r, t)
  PROVE  Counted(r, t)
<1>1. /\ Called(r, t)
      /\ \/ Decided(r, t) /\ MatchStep(r.game, t.game)
         \/ /\ SameDraw(r, t) /\ SameGuess(r, t) /\ SameHold(r, t) /\ SameMatchOf(r, t)
            /\ r.game.phase = "voting" /\ Connected(r) # {} =>
                 \E p \in Connected(r) : ~HasVoted(r.game, p)
  BY EvaluatedKind
<1>2. Ready(t) /\ SameSeats(r, t)
  BY <1>1, CalledKept
<1> QED
  BY <1>1, <1>2 DEF Counted, Quiet, VotesAgree, SameSeats, SameMatchOf, Connected

LEMMA JoinedMoved ==
  ASSUME NEW u, RoomOK(u, sockets), NEW t, Sane(t), Joined(u, t)
  PROVE  SeatMoved(u, t)
<1>1. PICK id, x, m, v :
        id \in PlayerID /\ Registered(u, x, id) /\ Arrived(x, m, id) /\ Evaluated(m, v) /\ Told(v, t)
  BY DEF Joined
<1>2. Ready(u) /\ Inv(u.game)
  BY DEF RoomOK, Ready
<1>3. /\ Inv(x.game) /\ Ready(m) /\ HostOK(m)
      /\ SameMatch(x.game, m.game) /\ SameButHost(x.game, m.game)
  BY <1>1, <1>2, JoinedReady
<1>4. Counted(m, v)
  BY <1>1, <1>3, EvaluatedCounted
<1>5. Quiet(v, t) /\ Ready(t)
  BY <1>1, <1>4 DEF Told, SameSeats, SameMatchOf, Quiet, Counted, Ready, SeatsAgree,
                    SeatAgrees, Known
<1>6. /\ m.running = u.running /\ m.roundGen = u.roundGen
      /\ SameGuess(u, m) /\ SameHold(u, m) /\ DrawSet(m)
  BY <1>1 DEF Registered, Arrived, OthersSame, SameGuess, SameHold
<1>7. CASE x.game = u.game
  BY <1>3, <1>4, <1>5, <1>6, <1>7 DEF SeatMoved, Reseated, SameButHost
<1>8. CASE MayAdd(u.game, id) /\ x.game = AddPlayer(u.game, id)
  <2>1. /\ u.game.phase = "lobby" /\ x.game.phase = u.game.phase
        /\ x.game.impostor = u.game.impostor
    <3>1. id \in PlayerID
      BY <1>1
    <3> QED
      BY <1>2, <1>8, <3>1, AddPlayerInv DEF MayAdd
  <2>2. MatchStep(u.game, x.game)
    BY <1>2, <1>3, <2>1, RosterStep DEF MatchStep
  <2>3. MatchStep(u.game, m.game) /\ m.game.phase = u.game.phase
    BY <1>3, <2>1, <2>2, StutterAfter DEF SameButHost
  <2> QED
    BY <1>3, <1>4, <1>5, <1>6, <2>1, <2>3 DEF SeatMoved, Reseated
<1> QED
  BY <1>1, <1>7, <1>8 DEF Registered

LEMMA LeftMoved ==
  ASSUME NEW u, RoomOK(u, sockets), NEW t, Left(u, t)
  PROVE  SeatMoved(u, t)
<1>1. PICK id, x, m : Unregistered(u, x, id) /\ Departed(x, m, id) /\ Evaluated(m, t)
  BY DEF Left
<1>2. /\ m.running = u.running /\ m.roundGen = u.roundGen /\ m.game = u.game
      /\ SameGuess(u, m) /\ SameHold(u, m) /\ DrawSet(m)
  BY <1>1 DEF Unregistered, Departed, OthersSame, SameGuess, SameHold, SameMatchOf
<1>3. Ready(m) /\ HostOK(m)
  BY <1>1, <1>2 DEF Departed, RoomOK, Ready
<1>4. Counted(m, t)
  BY <1>1, <1>3, EvaluatedCounted
<1>5. Quiet(t, t)
  BY DEF Quiet, SameDraw, SameGuess, SameHold, SameMatchOf
<1>6. SameMatch(u.game, m.game) /\ SameButHost(u.game, m.game)
  BY <1>2 DEF SameMatch, SameRound, SameButHost
<1>7. Reseated(u, m)
  BY <1>2, <1>3, <1>6 DEF Reseated
<1> QED
  BY <1>2, <1>4, <1>5, <1>7 DEF SeatMoved, Counted

\* An absence is given up: the match goes on, and whoever stays is seen as before.
LEMMA ExpiredMoved ==
  ASSUME NEW u, RoomOK(u, sockets), NEW m \in Absence, NEW t, Expired(u, t, m.player)
  PROVE  /\ Reseated(u, t) /\ SameDraw(u, t) /\ t.clients = u.clients
         /\ u.game.phase # "lobby" =>
              /\ SameButHost(u.game, t.game)
              /\ \A p \in Roster(t.game) : /\ t.presence[p].gen = u.presence[p].gen
                                           /\ t.presence[p].connected <=> u.presence[p].connected
<1> DEFINE id == m.player
<1>1. id \in PlayerID /\ Ready(u) /\ Inv(u.game) /\ Sane(u)
  BY DEF Absence, RoomOK, Ready
<1>2. /\ Sane(t) /\ SeatsAgree(t)
      /\ t.clients = u.clients /\ t.running = u.running
      /\ \A p \in PlayerID \ {id} : t.presence[p] = u.presence[p]
      /\ t.presence[id] = NoPresence \/ t.presence[id] = [u.presence[id] EXCEPT !.expired = TRUE]
      /\ SameDraw(u, t) /\ SameGuess(u, t) /\ SameHold(u, t) /\ t.roundGen = u.roundGen
  BY DEF Expired
<1>3. PICK g : /\ g = u.game \/ (MayRemove(u.game, id) /\ g = RemovePlayer(u.game, id))
               /\ HostMoved(g, t.game)
  BY DEF Expired
<1> HIDE DEF id
<1>4. CASE g = u.game
  <2>1. Inv(t.game) /\ SameMatch(u.game, t.game) /\ SameButHost(u.game, t.game)
    BY <1>1, <1>3, <1>4, HostMovedLemma
  <2>2. Reseated(u, t)
    BY <1>2, <2>1 DEF Reseated, SameButHost, Ready
  <2>3. ASSUME u.game.phase # "lobby", NEW p \in Roster(t.game)
        PROVE  /\ t.presence[p].gen = u.presence[p].gen
               /\ t.presence[p].connected <=> u.presence[p].connected
    <3>1. p \in PlayerID /\ Known(t, p)
      <4>1. t.game.phase # "lobby" /\ p \in PlayerID
        BY <2>1, <2>3, RosterType DEF SameButHost, Inv
      <4> QED
        BY <1>2, <2>3, <4>1 DEF SeatsAgree, SeatAgrees
    <3>2. u.presence[p] \in Presence
      BY <1>1, <3>1 DEF Sane, RoomRec
    <3>3. t.presence[p] = u.presence[p] \/ t.presence[p] = [u.presence[p] EXCEPT !.expired = TRUE]
      <4>1. CASE p = id
        <5>1. t.presence[p] # NoPresence
          BY <3>1 DEF Known, NoPresence
        <5> QED
          BY <1>2, <4>1, <5>1
      <4>2. CASE p # id
        BY <1>2, <3>1, <4>2
      <4> QED
        BY <4>1, <4>2
    <3> QED
      BY <3>2, <3>3 DEF Presence
  <2> QED
    BY <1>2, <2>1, <2>2, <2>3
<1>5. CASE MayRemove(u.game, id) /\ g = RemovePlayer(u.game, id)
  <2>1. /\ Inv(g) /\ u.game.phase = "lobby" /\ g.phase = u.game.phase
        /\ g.impostor = u.game.impostor
    BY <1>1, <1>5, RemovePlayerInv DEF MayRemove
  <2>2. MatchStep(u.game, g)
    BY <1>1, <2>1, RosterStep DEF MatchStep
  <2>3. Inv(t.game) /\ SameMatch(g, t.game) /\ SameButHost(g, t.game)
    BY <1>3, <2>1, HostMovedLemma
  <2>4. MatchStep(u.game, t.game) /\ t.game.phase = u.game.phase
    BY <2>1, <2>2, <2>3, StutterAfter DEF SameButHost
  <2> QED
    BY <1>2, <2>1, <2>3, <2>4 DEF Reseated, Ready
<1> QED
  BY <1>3, <1>4, <1>5

\* The engine's calls.
Played(r, t) ==
  /\ Called(r, t) /\ Ready(t)
  /\ \/ Begun(r, t) \/ Turned(r, t) \/ Opened(r, t) \/ Voted(r, t) \/ Decided(r, t)
     \/ Guessed(r, t) \/ TimedOut(r, t) \/ Ended(r, t)

LEMMA PlayedDraw ==
  ASSUME NEW r, Ready(r), NEW t, Played(r, t)
  PROVE  \A M : DrawAgrees(r, M) => DrawAgrees(t, M)
<1>1. Ready(t) /\ t.presence = r.presence /\ t.clients = r.clients /\ t.running = r.running
  BY DEF Played, Called, SameSeats
<1>2. CASE Begun(r, t) \/ Turned(r, t) \/ Opened(r, t) \/ Decided(r, t)
  BY <1>1, <1>2, DrawSetAgrees DEF Begun, Turned, Opened, Decided
<1>3. ASSUME SameDraw(r, t), r.game.phase # "drawing", t.game.phase # "drawing"
      PROVE  \A M : DrawAgrees(r, M) => DrawAgrees(t, M)
  BY <1>3 DEF SameDraw, DrawAgrees
<1>4. CASE Voted(r, t) \/ TimedOut(r, t) \/ Ended(r, t)
  BY <1>3, <1>4 DEF Voted, TimedOut, Ended, AwaitingGuess, Settled
<1>5. CASE Guessed(r, t)
  <2>1. CASE r.game.phase = "reveal"
    BY <1>3, <1>5, <2>1 DEF Guessed
  <2>2. CASE r.game.phase # "reveal"
    BY <1>1, <1>5, <2>2 DEF Guessed, SameDraw, DrawAgrees, Skip, Connected
  <2> QED
    BY <2>1, <2>2
<1> QED
  BY <1>2, <1>4, <1>5 DEF Played

LEMMA PlayedVotes ==
  ASSUME NEW r, Ready(r), NEW t, Played(r, t), VotesAgree(r)
  PROVE  VotesAgree(t)
<1>1. Connected(t) = Connected(r) /\ t.running = r.running
  BY DEF Played, Called, SameSeats, Connected
<1>2. CASE Begun(r, t) \/ Turned(r, t) \/ Decided(r, t) \/ TimedOut(r, t) \/ Ended(r, t)
  BY <1>2 DEF Begun, Turned, Decided, TimedOut, Ended, VotesAgree, Settled
<1>3. CASE Opened(r, t)
  BY <1>3 DEF Opened, VotesAgree, HasVoted, NoVotes, Connected
<1>4. CASE Voted(r, t)
  BY <1>1, <1>4 DEF Voted, VotesAgree
<1>5. CASE Guessed(r, t)
  BY <1>1, <1>5 DEF Guessed, VotesAgree
<1> QED
  BY <1>2, <1>3, <1>4, <1>5 DEF Played

\* The hold, under every call that does not leave a reveal.
LEMMA PlayedHold ==
  ASSUME WebClientOnly, NEW r, NEW t, Played(r, t), NEW a \in BOOLEAN, HoldAgrees(r, a),
         ~Ended(r, t), Begun(r, t) => r.game.phase # "reveal"
  PROVE  HoldAgrees(t, a)
<1>1. Sane(t) /\ t.running = r.running
  BY DEF Played, Called, SameSeats
<1> USE DEF Settled, AwaitingGuess
<1>2. CASE Begun(r, t)
  BY <1>1, <1>2 DEF Begun, HoldAgrees, SameHold
<1>3. CASE Turned(r, t) \/ Opened(r, t)
  BY <1>1, <1>3 DEF Turned, Opened, HoldAgrees
<1>4. CASE Voted(r, t)
  BY <1>1, <1>4 DEF Voted, HoldAgrees, SameHold
<1>5. CASE Decided(r, t)
  BY <1>1, <1>5 DEF Decided, HoldAgrees
<1>6. CASE Guessed(r, t)
  <2>1. t.discussion = r.discussion /\ t.game.phase = r.game.phase
    BY <1>6 DEF Guessed
  <2>2. CASE AwaitingGuess(r.game) /\ Settled(t.game) /\ t.reveal
    <3>1. ~Settled(r.game)
      BY <2>2
    <3>2. ~a
      BY <3>1 DEF HoldAgrees
    <3> HIDE DEF Settled, AwaitingGuess
    <3>3. t.discussion => t.game.phase = "discussion"
      BY <2>1 DEF HoldAgrees
    <3> QED
      BY <2>2, <3>2, <3>3 DEF HoldAgrees
  <2>3. CASE t.game = r.game /\ t.reveal = r.reveal
    <3>1. Settled(t.game) <=> Settled(r.game)
      BY <2>3
    <3> HIDE DEF Settled, AwaitingGuess
    <3> QED
      BY <1>1, <2>1, <2>3, <3>1 DEF HoldAgrees
  <2> QED
    BY <1>6, <2>2, <2>3 DEF Guessed
<1>7. CASE TimedOut(r, t)
  BY <1>1, <1>7 DEF TimedOut, HoldAgrees
<1> QED
  BY <1>2, <1>3, <1>4, <1>5, <1>6, <1>7 DEF Played

LEMMA PlayedGuess ==
  ASSUME WebClientOnly, NEW r, Ready(r), NEW t, Played(r, t), NEW M, M \subseteq Nat,
         GuessAgrees(r, M),
         Ended(r, t) \/ (Begun(r, t) /\ r.game.phase = "reveal") => Settled(r.game),
         TimedOut(r, t) => Guessed(r, t) \/ r.roundGen \in M
  PROVE  GuessAgrees(t, M)
<1>1. /\ r.roundGen \in Nat /\ t.roundGen \in Nat /\ t.running = r.running
      /\ r.guess \in Nat /\ r.deadline \in [gen : Nat, moved : BOOLEAN]
  BY DEF Played, Called, SameSeats, Ready, Sane, RoomRec
<1>2. /\ AwaitingGuess(r.game) => r.game.phase = "reveal"
      /\ AwaitingGuess(t.game) => t.game.phase = "reveal"
      /\ Settled(r.game) => r.game.phase = "reveal" /\ ~AwaitingGuess(r.game)
      /\ Settled(t.game) => t.game.phase = "reveal" /\ ~AwaitingGuess(t.game)
  BY DEF AwaitingGuess, Settled
<1>3. CASE Begun(r, t)
  <2>1. r.guess = 0 /\ ~AwaitingGuess(t.game) /\ t.roundGen = r.roundGen + 1
        /\ t.guess = r.guess /\ t.deadline = r.deadline
    BY <1>2, <1>3 DEF Begun, GuessAgrees, SameGuess
  <2>2. \A g \in M : g <= r.roundGen /\ g \in Nat
    BY DEF GuessAgrees
  <2> QED
    BY <1>1, <2>1, <2>2 DEF GuessAgrees
<1>4. CASE Turned(r, t) \/ Opened(r, t) \/ Voted(r, t)
  BY <1>1, <1>2, <1>4 DEF Turned, Opened, Voted, SameGuess, GuessAgrees
<1>5. CASE Ended(r, t)
  BY <1>1, <1>2, <1>5 DEF Ended, SameGuess, GuessAgrees
<1>6. CASE TimedOut(r, t) /\ ~Guessed(r, t)
  BY <1>1, <1>2, <1>6 DEF TimedOut, SameGuess, GuessAgrees
<1>7. ASSUME GuessSet(WithGame(r, t.game), t)
      PROVE  /\ t.guess = IF AwaitingGuess(t.game) THEN r.roundGen ELSE 0
             /\ t.deadline = IF AwaitingGuess(t.game)
                             THEN [gen |-> r.roundGen, moved |-> r.deadline.gen = r.roundGen]
                             ELSE NoDeadline
             /\ Prompt /\ AwaitingGuess(t.game) => "guess" \in t.young
  <2>1. Sane(r) /\ t.game \in State
    BY DEF Ready, Played, Called, Inv
  <2>2. /\ WithGame(r, t.game).game = t.game /\ WithGame(r, t.game).roundGen = r.roundGen
        /\ WithGame(r, t.game).deadline = r.deadline
    BY <2>1, WithGameLemma DEF SameGuess
  <2> QED
    BY <1>7, <2>2 DEF GuessSet
<1>8. CASE Decided(r, t)
  <2>1. /\ r.game.phase = "voting" /\ t.game.phase = "reveal" /\ t.roundGen = r.roundGen
        /\ r.roundGen # 0 /\ r.roundGen \notin M /\ r.deadline.gen # r.roundGen
    BY <1>8 DEF Decided, GuessAgrees
  <2>2. ASSUME AwaitingGuess(t.game)
        PROVE  t.deadline.gen = r.roundGen /\ ~t.deadline.moved
    <3>1. (r.deadline.gen = r.roundGen) = FALSE
      BY <2>1
    <3>2. t.deadline = [gen |-> r.roundGen, moved |-> r.deadline.gen = r.roundGen]
      BY <1>7, <1>8, <2>2 DEF Decided
    <3>3. t.deadline = [gen |-> r.roundGen, moved |-> FALSE]
      BY <3>1, <3>2
    <3> QED
      BY <3>3
  <2>3. ~AwaitingGuess(t.game) => t.deadline.gen = 0
    BY <1>7, <1>8 DEF Decided, NoDeadline
  <2> QED
    BY <1>1, <1>7, <1>8, <2>1, <2>2, <2>3 DEF Decided, GuessAgrees
<1>9. CASE Guessed(r, t)
  <2>1. ~AwaitingGuess(t.game) /\ t.game.phase = r.game.phase /\ t.roundGen = r.roundGen
    BY <1>2, <1>9 DEF Guessed
  <2>2. t.guess = 0 /\ t.deadline.gen = 0
    BY <1>7, <1>9, <2>1 DEF Guessed, NoDeadline
  <2> QED
    BY <1>1, <2>1, <2>2 DEF GuessAgrees
<1> QED
  BY <1>3, <1>4, <1>5, <1>6, <1>8, <1>9 DEF Played

\* A message is taken that nothing waits for any longer.
LEMMA DrawTaken ==
  ASSUME NEW r, Ready(r), NEW M, DrawAgrees(r, M), NEW m, ~(DrawerAbsent(r) /\ m = Skip(r))
  PROVE  DrawAgrees(r, M \ {m})
<1>1. ASSUME r.game.phase = "drawing", Connected(r) # {}, m = Skip(r)
      PROVE  r.presence[Drawer(r.game)].connected
  <2>1. r.game.turn < Len(r.game.players) /\ r.game.players \in Seq(PlayerID)
        /\ r.game.turn \in Nat
    BY <1>1 DEF Ready, Inv, TurnValid, State
  <2>2. Drawer(r.game) \in Roster(r.game) /\ Drawer(r.game) \in PlayerID
    BY <2>1 DEF Drawer, Roster
  <2>3. Known(r, Drawer(r.game))
    BY <1>1, <2>2 DEF Ready, SeatsAgree, SeatAgrees
  <2> QED
    BY <1>1, <2>1, <2>3 DEF DrawerAbsent, Known
<1> QED
  BY <1>1 DEF DrawAgrees

LEMMA GuessTaken ==
  ASSUME NEW r, NEW M, GuessAgrees(r, M), NEW m, ~(AwaitingGuess(r.game) /\ m = r.roundGen)
  PROVE  GuessAgrees(r, M \ {m})
  BY DEF GuessAgrees

-----------------------------------------------------------------------------
(* The timers of the phases and the votes: what the kinds of steps do to   *)
(* them.                                                                   *)

Unheard == chan'.draw = chan.draw /\ chan'.guess = chan.guess /\ chan'.advance = chan.advance

\* A command, or the end of the discussion.
Ordered(u, t) ==
  /\ Played(u, t) /\ ~Ended(u, t)
  /\ Begun(u, t) => u.game.phase # "reveal"
  /\ TimedOut(u, t) => Guessed(u, t)
  /\ WebClientOnly => MatchStep(u.game, t.game)
  /\ Unheard

\* An absence is given up.
GivenUp(u, t) ==
  /\ Reseated(u, t) /\ SameDraw(u, t) /\ t.clients = u.clients
  /\ u.game.phase # "lobby" =>
       /\ SameButHost(u.game, t.game)
       /\ \A p \in Roster(t.game) : /\ t.presence[p].gen = u.presence[p].gen
                                    /\ t.presence[p].connected <=> u.presence[p].connected
  /\ Unheard

Shape(u, t) ==
  \/ SeatMoved(u, t) /\ Unheard
  \/ Quiet(u, t) /\ Unheard
  \/ Ordered(u, t) \/ GivenUp(u, t)
  \/ Advanced(u, t) \/ Skipped(u, t) \/ GuessOver(u, t)
  \/ DrawFired(u, t) \/ GuessFired(u, t) \/ DiscussionFired(u, t) \/ RevealFired(u, t)
  \/ Halted(u, t)

LEMMA KindShape ==
  ASSUME ChanOK(chan), NEW u, RoomOK(u, sockets), NEW t, RoomOK(t, sockets'), Kind(u, t)
  PROVE  Shape(u, t)
<1>1. chan \in Channels /\ chan.grace \subseteq Absence
  BY DEF ChanOK, Channels
<1>2. /\ chan' = chan => Unheard
      /\ (\E b : chan' = [chan EXCEPT !.discussion = b] \/ chan' = [chan EXCEPT !.grace = b])
           => Unheard
  BY <1>1 DEF Channels, Unheard
<1>3. Ready(u) /\ Sane(u) /\ Ready(t) /\ Sane(t)
  BY DEF RoomOK, Ready
<1>4. t = u => Quiet(u, t)
  BY DEF Quiet, SameDraw, SameGuess, SameHold, SameMatchOf
<1>5. CASE Joined(u, t)
  <2>1. SeatMoved(u, t)
    BY <1>3, <1>5, JoinedMoved
  <2> QED
    BY <1>2, <1>5, <2>1 DEF Joined, Shape
<1>6. CASE Left(u, t)
  <2>1. SeatMoved(u, t)
    BY <1>6, LeftMoved
  <2> QED
    BY <1>2, <1>6, <2>1 DEF Left, Shape
<1>7. CASE LeftLate(u, t)
  BY <1>2, <1>4, <1>7 DEF LeftLate, Shape
<1>8. CASE Commanded(u, t)
  <2>1. Played(u, t) /\ Unheard /\ (WebClientOnly => MatchStep(u.game, t.game))
    BY <1>2, <1>3, <1>8 DEF Commanded, Played
  <2>2. ~Ended(u, t) /\ (Begun(u, t) => u.game.phase # "reveal")
    BY <1>8 DEF Commanded, Begun, Turned, Opened, Voted, Decided, Guessed, Ended
  <2>3. TimedOut(u, t) => Guessed(u, t)
    BY <1>8 DEF Commanded, Begun, Turned, Opened, Voted, Decided, TimedOut, AwaitingGuess,
                Settled
  <2> QED
    BY <2>1, <2>2, <2>3 DEF Ordered, Shape
<1>9. CASE Spoken(u, t) \/ Idled(u, t) \/ GraceFired(u, t)
  <2>1. ASSUME NEW b, t = [u EXCEPT !.voice = b] \/ t = [u EXCEPT !.idle = b]
        PROVE  Quiet(u, t)
    BY <1>3, <2>1, ZenonT(60) DEF Sane, RoomRec, Quiet, SameDraw, SameGuess, SameHold, SameMatchOf
  <2>2. ASSUME NEW p \in PlayerID, t = [u EXCEPT !.grace[p] = 0]
        PROVE  Quiet(u, t)
    BY <1>3, <2>2 DEF Sane, RoomRec, Quiet, SameDraw, SameGuess, SameHold, SameMatchOf
  <2>3. Quiet(u, t)
    BY <1>9, <2>1, <2>2 DEF Spoken, Idled, GraceFired
  <2>4. Unheard
    BY <1>2, <1>9 DEF Spoken, Idled, GraceFired
  <2> QED
    BY <2>3, <2>4 DEF Shape
<1>10. CASE Closed(u, t)
  <2>1. Unheard
    BY <1>2, <1>10 DEF Closed
  <2>2. CASE t = u
    BY <1>4, <2>1, <2>2 DEF Shape
  <2>3. CASE Called(u, t) /\ Opened(u, t) /\ MatchStep(u.game, t.game)
    <3>1. Played(u, t)
      BY <1>3, <2>3 DEF Played
    <3>2. ~Ended(u, t) /\ ~Begun(u, t) /\ ~TimedOut(u, t)
      BY <2>3 DEF Opened, Ended, Begun, TimedOut, AwaitingGuess
    <3> QED
      BY <2>1, <2>3, <3>1, <3>2 DEF Ordered, Shape
  <2> QED
    BY <1>10, <2>2, <2>3 DEF Closed
<1>11. CASE GraceOver(u, t)
  <2>1. Unheard
    BY <1>2, <1>11 DEF GraceOver
  <2>2. PICK m \in chan.grace : IF StillAbsent(u, m) THEN Expired(u, t, m.player) ELSE t = u
    BY <1>11 DEF GraceOver
  <2>3. CASE ~StillAbsent(u, m)
    BY <1>4, <2>1, <2>2, <2>3 DEF Shape
  <2>4. CASE StillAbsent(u, m)
    <3>1. m \in Absence /\ Expired(u, t, m.player)
      BY <1>1, <2>2, <2>4
    <3>2. GivenUp(u, t)
      BY <2>1, <3>1, ExpiredMoved DEF GivenUp
    <3> QED
      BY <3>2 DEF Shape
  <2> QED
    BY <2>3, <2>4
<1> QED
  BY <1>5, <1>6, <1>7, <1>8, <1>9, <1>10, <1>11 DEF Kind, Shape

\* What the four timers of the phases see of their own going off and of the stop.
LEMMA FiredLemma ==
  ASSUME ChanOK(chan), NEW u, Ready(u), NEW t
  PROVE  /\ DrawFired(u, t) =>
              /\ t.drawSkip = NoTimer /\ SameGuess(u, t) /\ SameHold(u, t)
              /\ chan'.draw = Post(chan.draw, u.drawSkip, 1)
              /\ chan'.guess = chan.guess /\ chan'.advance = chan.advance
         /\ GuessFired(u, t) =>
              /\ SameDraw(u, t) /\ SameHold(u, t)
              /\ t.guess = 0 /\ t.deadline = u.deadline /\ chan'.draw = chan.draw
              /\ chan'.guess = Post(chan.guess, u.guess, 1) /\ chan'.advance = chan.advance
         /\ DiscussionFired(u, t) =>
              /\ SameDraw(u, t) /\ SameGuess(u, t) /\ ~t.discussion /\ t.reveal = u.reveal
              /\ Unheard
         /\ RevealFired(u, t) =>
              /\ SameDraw(u, t) /\ SameGuess(u, t) /\ t.discussion = u.discussion
              /\ ~t.reveal /\ chan'.draw = chan.draw /\ chan'.guess = chan.guess
              /\ chan'.advance
         /\ DrawFired(u, t) \/ GuessFired(u, t) \/ DiscussionFired(u, t) \/ RevealFired(u, t) =>
              /\ SameMatchOf(u, t) /\ t.clients = u.clients /\ t.presence = u.presence
              /\ t.running = u.running
<1>1. Sane(u) /\ chan \in Channels
  BY DEF ChanOK, Ready
<1> USE DEF SameDraw, SameGuess, SameHold, SameMatchOf, Unheard
<1>2. ASSUME DrawFired(u, t)
      PROVE  /\ t.drawSkip = NoTimer /\ SameGuess(u, t) /\ SameHold(u, t)
             /\ chan'.draw = Post(chan.draw, u.drawSkip, 1)
             /\ chan'.guess = chan.guess /\ chan'.advance = chan.advance
             /\ SameMatchOf(u, t) /\ t.clients = u.clients /\ t.presence = u.presence
             /\ t.running = u.running
  <2>1. /\ t = [u EXCEPT !.drawSkip = NoTimer]
        /\ chan' = [chan EXCEPT !.draw = Post(chan.draw, u.drawSkip, 1)]
    BY <1>1, <1>2 DEF DrawFired, Channels
  <2> QED
    BY <1>1, <2>1 DEF Sane, RoomRec, Channels
<1>3. ASSUME GuessFired(u, t)
      PROVE  /\ SameDraw(u, t) /\ SameHold(u, t)
             /\ t.guess = 0 /\ t.deadline = u.deadline /\ chan'.draw = chan.draw
             /\ chan'.guess = Post(chan.guess, u.guess, 1) /\ chan'.advance = chan.advance
             /\ SameMatchOf(u, t) /\ t.clients = u.clients /\ t.presence = u.presence
             /\ t.running = u.running
  <2>1. /\ t = [u EXCEPT !.guess = 0]
        /\ chan' = [chan EXCEPT !.guess = Post(chan.guess, u.guess, 1)]
    BY <1>1, <1>3 DEF GuessFired, Channels
  <2> QED
    BY <1>1, <2>1 DEF Sane, RoomRec, Channels
<1>4. ASSUME DiscussionFired(u, t)
      PROVE  /\ SameDraw(u, t) /\ SameGuess(u, t) /\ ~t.discussion /\ t.reveal = u.reveal
             /\ Unheard
             /\ SameMatchOf(u, t) /\ t.clients = u.clients /\ t.presence = u.presence
             /\ t.running = u.running
  BY <1>1, <1>4 DEF DiscussionFired, Sane, RoomRec, Channels
<1>5. ASSUME RevealFired(u, t)
      PROVE  /\ SameDraw(u, t) /\ SameGuess(u, t) /\ t.discussion = u.discussion
             /\ ~t.reveal /\ chan'.draw = chan.draw /\ chan'.guess = chan.guess
             /\ chan'.advance
             /\ SameMatchOf(u, t) /\ t.clients = u.clients /\ t.presence = u.presence
             /\ t.running = u.running
  BY <1>1, <1>5 DEF RevealFired, Sane, RoomRec, Channels
<1> QED
  BY <1>2, <1>3, <1>4, <1>5

LEMMA DrawKind ==
  ASSUME ChanOK(chan), NEW u, RoomOK(u, sockets), NEW t, RoomOK(t, sockets'), Kind(u, t),
         DrawAgrees(u, chan.draw)
  PROVE  DrawAgrees(t, chan'.draw)
<1>1. Ready(u) /\ Ready(t) /\ chan \in Channels
  BY DEF RoomOK, ChanOK
<1>2. Shape(u, t)
  BY KindShape
<1>3. CASE SeatMoved(u, t) /\ Unheard
  <2>1. PICK m, v : Reseated(u, m) /\ DrawSet(m) /\ Counted(m, v) /\ Quiet(v, t)
    BY <1>3 DEF SeatMoved
  <2>2. DrawAgrees(m, chan.draw)
    BY <2>1, DrawSetAgrees DEF Reseated
  <2>3. DrawAgrees(v, chan.draw)
    <3>1. CASE Decided(m, v)
      BY <2>1, <3>1, DrawSetAgrees DEF Counted, Decided
    <3>2. CASE Quiet(m, v)
      BY <2>2, <3>2, QuietKept
    <3> QED
      BY <2>1, <3>1, <3>2 DEF Counted
  <2> QED
    BY <1>3, <2>1, <2>3, QuietKept DEF Unheard
<1>4. CASE Quiet(u, t) /\ Unheard
  BY <1>4, QuietKept DEF Unheard
<1>5. CASE Ordered(u, t)
  BY <1>1, <1>5, PlayedDraw DEF Ordered, Unheard
<1>6. CASE GivenUp(u, t)
  <2>1. CASE u.game.phase = "lobby"
    BY <1>6, <2>1 DEF GivenUp, Reseated, SameDraw, DrawAgrees
  <2>2. CASE u.game.phase # "lobby"
    <3>1. /\ SameButHost(u.game, t.game) /\ Connected(t) = Connected(u)
          /\ Drawer(t.game) = Drawer(u.game) /\ t.running = u.running
      BY <1>6, <2>2 DEF GivenUp, SameButHost, Reseated, Connected, Drawer
    <3>2. ASSUME t.game.phase = "drawing"
          PROVE  /\ Skip(t) = Skip(u)
                 /\ t.presence[Drawer(t.game)].connected
                      <=> u.presence[Drawer(u.game)].connected
      <4>1. t.game.turn < Len(t.game.players) /\ t.game.players \in Seq(PlayerID)
            /\ t.game.turn \in Nat
        BY <1>1, <3>2 DEF Ready, Inv, TurnValid, State
      <4>2. Drawer(t.game) \in Roster(t.game)
        BY <4>1 DEF Drawer, Roster
      <4> QED
        BY <1>6, <2>2, <3>1, <4>2 DEF GivenUp, Skip
    <3> QED
      BY <1>6, <3>1, <3>2 DEF GivenUp, SameButHost, SameDraw, DrawAgrees, Unheard
  <2> QED
    BY <2>1, <2>2
<1>7. CASE Advanced(u, t)
  <2>1. chan'.draw = chan.draw
    BY <1>1, <1>7 DEF Advanced, Channels
  <2>2. t = u \/ Played(u, t)
    BY <1>1, <1>7 DEF Advanced, Played
  <2> QED
    BY <1>1, <2>1, <2>2, PlayedDraw
<1>8. CASE Skipped(u, t)
  <2>1. PICK m \in chan.draw :
          /\ \/ Called(u, t) /\ Turned(u, t)
             \/ t = u /\ ~(DrawerAbsent(u) /\ m = Skip(u))
          /\ chan' = [chan EXCEPT !.draw = @ \ {m}]
    BY <1>8 DEF Skipped
  <2>2. chan'.draw = chan.draw \ {m}
    BY <1>1, <2>1 DEF Channels
  <2>3. CASE Called(u, t) /\ Turned(u, t)
    BY <1>1, <2>3, DrawSetAgrees DEF Turned
  <2>4. CASE t = u /\ ~(DrawerAbsent(u) /\ m = Skip(u))
    BY <1>1, <2>2, <2>4, DrawTaken
  <2> QED
    BY <2>1, <2>3, <2>4
<1>9. CASE GuessOver(u, t)
  <2>1. chan'.draw = chan.draw
    BY <1>1, <1>9 DEF GuessOver, Channels
  <2>2. t = u \/ Played(u, t)
    BY <1>1, <1>9 DEF GuessOver, Played
  <2> QED
    BY <1>1, <2>1, <2>2, PlayedDraw
<1>10. CASE DrawFired(u, t)
  <2>1. /\ t.drawSkip = NoTimer /\ chan'.draw = Post(chan.draw, u.drawSkip, 1)
        /\ t.game = u.game /\ t.clients = u.clients /\ t.presence = u.presence
        /\ t.running = u.running
    BY <1>1, <1>10, FiredLemma DEF SameMatchOf
  <2>2. ASSUME Prompt PROVE chan'.draw = {u.drawSkip}
    <3>1. chan.draw = {}
      BY <1>10, <2>2 DEF DrawFired, DrawAgrees
    <3>2. Cardinality({}) = 0
      BY FS_EmptySet
    <3> QED
      BY <2>1, <3>1, <3>2 DEF Post
  <2>3. ASSUME Prompt, t.running, t.game.phase = "drawing", Connected(t) # {},
               ~t.presence[Drawer(t.game)].connected
        PROVE  Skip(t) \in chan'.draw
    <3>1. chan.draw = {}
      BY <1>10, <2>3 DEF DrawFired, DrawAgrees
    <3>2. u.drawSkip = Skip(u) /\ Skip(t) = Skip(u)
      BY <2>1, <2>3, <3>1 DEF DrawAgrees, Connected, Skip
    <3> QED
      BY <2>2, <2>3, <3>2
  <2> QED
    BY <2>1, <2>3 DEF DrawAgrees
<1>11. CASE GuessFired(u, t) \/ DiscussionFired(u, t) \/ RevealFired(u, t)
  <2>1. SameDraw(u, t) /\ chan'.draw = chan.draw /\ t.game = u.game
        /\ t.clients = u.clients /\ t.presence = u.presence /\ t.running = u.running
    BY <1>1, <1>11, FiredLemma DEF SameMatchOf, Unheard
  <2> QED
    BY <2>1 DEF SameDraw, DrawAgrees, Skip, Connected
<1>12. CASE Halted(u, t)
  <2>1. t.drawSkip = NoTimer /\ ~t.running
    BY <1>1, <1>12, StopLemma DEF Halted, Ready
  <2> QED
    BY <2>1 DEF DrawAgrees
<1> QED
  BY <1>2, <1>3, <1>4, <1>5, <1>6, <1>7, <1>8, <1>9, <1>10, <1>11, <1>12 DEF Shape

LEMMA VotesKind ==
  ASSUME ChanOK(chan), NEW u, RoomOK(u, sockets), NEW t, RoomOK(t, sockets'), Kind(u, t),
         VotesAgree(u)
  PROVE  VotesAgree(t)
<1>1. Ready(u) /\ Ready(t)
  BY DEF RoomOK
<1>2. Shape(u, t)
  BY KindShape
<1>3. CASE SeatMoved(u, t)
  <2>1. PICK m, v : Counted(m, v) /\ Quiet(v, t)
    BY <1>3 DEF SeatMoved
  <2>2. VotesAgree(v)
    BY <2>1 DEF Counted, Decided, VotesAgree
  <2> QED
    BY <2>1, <2>2, QuietKept
<1>4. CASE Quiet(u, t)
  BY <1>4, QuietKept
<1>5. CASE Ordered(u, t) \/ Advanced(u, t) \/ Skipped(u, t) \/ GuessOver(u, t)
  <2>1. t = u \/ Played(u, t)
    BY <1>1, <1>5 DEF Ordered, Advanced, Skipped, GuessOver, Played
  <2> QED
    BY <1>1, <2>1, PlayedVotes
<1>6. CASE GivenUp(u, t)
  <2>1. CASE u.game.phase = "lobby"
    BY <1>6, <2>1 DEF GivenUp, Reseated, VotesAgree
  <2>2. CASE u.game.phase # "lobby"
    BY <1>6, <2>2 DEF GivenUp, Reseated, SameButHost, VotesAgree, HasVoted, Connected
  <2> QED
    BY <2>1, <2>2
<1>7. CASE DrawFired(u, t) \/ GuessFired(u, t) \/ DiscussionFired(u, t) \/ RevealFired(u, t)
  BY <1>1, <1>7, FiredLemma DEF SameMatchOf, VotesAgree, Connected
<1>8. CASE Halted(u, t)
  BY <1>1, <1>8, StopLemma DEF Halted, Ready, VotesAgree
<1> QED
  BY <1>2, <1>3, <1>4, <1>5, <1>6, <1>7, <1>8 DEF Shape

LEMMA HoldKind ==
  ASSUME WebClientOnly, ChanOK(chan), NEW u, RoomOK(u, sockets), NEW t,
         RoomOK(t, sockets'), Kind(u, t), HoldAgrees(u, chan.advance)
  PROVE  HoldAgrees(t, chan'.advance)
<1>1. Ready(u) /\ Ready(t) /\ chan \in Channels /\ chan.advance \in BOOLEAN
  BY DEF RoomOK, ChanOK, Channels
<1>2. Shape(u, t)
  BY KindShape
<1>3. ASSUME NEW r, NEW s, Played(r, s), ~Ended(r, s), Begun(r, s) => r.game.phase # "reveal",
             HoldAgrees(r, chan.advance)
      PROVE  HoldAgrees(s, chan.advance)
  BY <1>1, <1>3, PlayedHold
<1>4. CASE SeatMoved(u, t) /\ Unheard
  <2>1. PICK m, v : Reseated(u, m) /\ Counted(m, v) /\ Quiet(v, t)
    BY <1>4 DEF SeatMoved
  <2>2. HoldAgrees(m, chan.advance) /\ Ready(m)
    BY <2>1, ReseatedKept DEF Reseated
  <2>3. HoldAgrees(v, chan.advance)
    <3>1. CASE Decided(m, v)
      <4>1. Played(m, v) /\ ~Ended(m, v) /\ ~Begun(m, v)
        BY <2>1, <3>1 DEF Counted, Played, Decided, Ended, Begun
      <4> QED
        BY <1>3, <2>2, <4>1
    <3>2. CASE Quiet(m, v)
      BY <2>2, <3>2, QuietKept
    <3> QED
      BY <2>1, <3>1, <3>2 DEF Counted
  <2> QED
    BY <1>4, <2>1, <2>3, QuietKept DEF Unheard
<1>5. CASE Quiet(u, t) /\ Unheard
  BY <1>5, QuietKept DEF Unheard
<1>6. CASE Ordered(u, t)
  BY <1>3, <1>6 DEF Ordered, Unheard
<1>7. CASE GivenUp(u, t)
  BY <1>7, ReseatedKept DEF GivenUp, Unheard
<1>8. CASE Advanced(u, t)
  <2>1. chan.advance /\ chan'.advance = FALSE /\ Settled(u.game)
    BY <1>1, <1>8 DEF Advanced, Channels, HoldAgrees
  <2>2. Played(u, t) /\ (Ended(u, t) \/ Begun(u, t)) /\ u.game.phase = "reveal"
    BY <1>1, <1>8, <2>1 DEF Advanced, Played, Settled
  <2>3. /\ t.running = u.running /\ SameHold(u, t) /\ t.game.phase \in {"drawing", "game_over"}
        /\ ~u.reveal /\ ~u.discussion
    BY <2>1, <2>2 DEF Played, Called, SameSeats, Begun, Ended, HoldAgrees
  <2> QED
    BY <2>1, <2>3 DEF HoldAgrees, SameHold, Settled
<1>9. CASE Skipped(u, t) \/ GuessOver(u, t)
  <2>1. chan'.advance = chan.advance
    BY <1>1, <1>9 DEF Skipped, GuessOver, Channels
  <2>2. t = u \/ (Played(u, t) /\ (Turned(u, t) \/ TimedOut(u, t)))
    BY <1>1, <1>9 DEF Skipped, GuessOver, Played
  <2>3. Turned(u, t) \/ TimedOut(u, t) => ~Ended(u, t) /\ ~Begun(u, t)
    BY DEF Turned, TimedOut, Ended, Begun, Settled
  <2> QED
    BY <1>3, <2>1, <2>2, <2>3
<1>10. CASE DrawFired(u, t) \/ GuessFired(u, t) \/ DiscussionFired(u, t)
  <2>1. /\ chan'.advance = chan.advance /\ t.game = u.game /\ t.running = u.running
        /\ t.reveal = u.reveal /\ (t.discussion => u.discussion)
    BY <1>1, <1>10, FiredLemma DEF SameMatchOf, SameHold, Unheard
  <2> QED
    BY <2>1 DEF HoldAgrees
<1>11. CASE RevealFired(u, t)
  <2>1. /\ chan'.advance /\ t.game = u.game /\ t.running = u.running
        /\ ~t.reveal /\ t.discussion = u.discussion
    BY <1>1, <1>11, FiredLemma DEF SameMatchOf
  <2>2. u.reveal
    BY <1>11 DEF RevealFired
  <2> QED
    BY <2>1, <2>2 DEF HoldAgrees
<1>12. CASE Halted(u, t)
  <2>1. ~t.reveal /\ ~t.discussion /\ ~t.running /\ t.game = u.game
    BY <1>1, <1>12, StopLemma DEF Halted, Ready, SameMatchOf
  <2>2. chan'.advance = chan.advance
    BY <1>12 DEF Halted
  <2> QED
    BY <2>1, <2>2 DEF HoldAgrees
<1> QED
  BY <1>2, <1>4, <1>5, <1>6, <1>7, <1>8, <1>9, <1>10, <1>11, <1>12 DEF Shape

LEMMA DeadlineKind ==
  ASSUME WebClientOnly, ChanOK(chan), NEW u, RoomOK(u, sockets), NEW t,
         RoomOK(t, sockets'), Kind(u, t), HoldAgrees(u, chan.advance),
         GuessAgrees(u, chan.guess)
  PROVE  GuessAgrees(t, chan'.guess)
<1> DEFINE M == chan.guess
<1>1. Ready(u) /\ Ready(t) /\ chan \in Channels /\ M \subseteq Nat
  BY DEF RoomOK, ChanOK, Channels
<1>2. Shape(u, t)
  BY KindShape
<1>3. ASSUME NEW r, NEW s, Ready(r), Played(r, s), GuessAgrees(r, M), ~Ended(r, s),
             Begun(r, s) => r.game.phase # "reveal", TimedOut(r, s) => Guessed(r, s)
      PROVE  GuessAgrees(s, M)
  BY <1>1, <1>3, PlayedGuess
<1>4. CASE SeatMoved(u, t) /\ Unheard
  <2>1. PICK m, v : Reseated(u, m) /\ Counted(m, v) /\ Quiet(v, t)
    BY <1>4 DEF SeatMoved
  <2>2. GuessAgrees(m, M) /\ Ready(m)
    BY <2>1, ReseatedKept DEF Reseated
  <2>3. GuessAgrees(v, M)
    <3>1. CASE Decided(m, v)
      <4>1. Played(m, v) /\ ~Ended(m, v) /\ ~Begun(m, v) /\ ~TimedOut(m, v)
        BY <2>1, <3>1 DEF Counted, Played, Decided, Ended, Begun, TimedOut, AwaitingGuess
      <4> QED
        BY <1>3, <2>2, <4>1
    <3>2. CASE Quiet(m, v)
      BY <2>2, <3>2, QuietKept
    <3> QED
      BY <2>1, <3>1, <3>2 DEF Counted
  <2> QED
    BY <1>4, <2>1, <2>3, QuietKept DEF Unheard
<1>5. CASE Quiet(u, t) /\ Unheard
  BY <1>5, QuietKept DEF Unheard
<1>6. CASE Ordered(u, t)
  BY <1>1, <1>3, <1>6 DEF Ordered, Unheard
<1>7. CASE GivenUp(u, t)
  BY <1>7, ReseatedKept DEF GivenUp, Unheard
<1>8. CASE Advanced(u, t)
  <2>1. chan'.guess = M /\ Settled(u.game)
    BY <1>1, <1>8 DEF Advanced, Channels, HoldAgrees
  <2>2. Played(u, t) /\ (Ended(u, t) \/ Begun(u, t)) /\ u.game.phase = "reveal"
    BY <1>1, <1>8, <2>1 DEF Advanced, Played, Settled
  <2>3. ~TimedOut(u, t)
    BY <2>2 DEF Ended, Begun, TimedOut, Settled
  <2> QED
    BY <1>1, <2>1, <2>2, <2>3, PlayedGuess
<1>9. CASE Skipped(u, t)
  <2>1. chan'.guess = M
    BY <1>1, <1>9 DEF Skipped, Channels
  <2>2. t = u \/ (Played(u, t) /\ Turned(u, t))
    BY <1>1, <1>9 DEF Skipped, Played
  <2>3. Turned(u, t) => ~Ended(u, t) /\ ~Begun(u, t) /\ ~TimedOut(u, t)
    BY DEF Turned, Ended, Begun, TimedOut, AwaitingGuess
  <2> QED
    BY <1>1, <1>3, <2>1, <2>2, <2>3
<1>10. CASE GuessOver(u, t)
  <2>1. PICK g \in M :
          /\ \/ Called(u, t) /\ TimedOut(u, t) /\ g = u.roundGen
             \/ t = u /\ ~(g = u.roundGen /\ AwaitingGuess(u.game))
          /\ chan' = [chan EXCEPT !.guess = @ \ {g}]
    BY <1>10 DEF GuessOver
  <2>2. chan'.guess = M \ {g}
    BY <1>1, <2>1 DEF Channels
  <2>3. CASE Called(u, t) /\ TimedOut(u, t) /\ g = u.roundGen
    <3>1. Played(u, t) /\ ~Ended(u, t) /\ ~Begun(u, t)
      BY <1>1, <2>3 DEF Played, TimedOut, Ended, Begun, Settled
    <3>2. GuessAgrees(t, M)
      BY <1>1, <2>3, <3>1, PlayedGuess
    <3>3. ~AwaitingGuess(t.game)
      BY <2>3 DEF TimedOut, Settled
    <3> QED
      BY <2>2, <3>2, <3>3, GuessTaken
  <2>4. CASE t = u /\ ~(g = u.roundGen /\ AwaitingGuess(u.game))
    BY <2>2, <2>4, GuessTaken
  <2> QED
    BY <2>1, <2>3, <2>4
<1>11. CASE DrawFired(u, t) \/ DiscussionFired(u, t) \/ RevealFired(u, t)
  <2>1. SameGuess(u, t) /\ chan'.guess = M /\ SameMatchOf(u, t) /\ t.running = u.running
    BY <1>1, <1>11, FiredLemma DEF Unheard
  <2> QED
    BY <2>1 DEF SameGuess, SameMatchOf, GuessAgrees
<1>12. CASE GuessFired(u, t)
  <2>1. /\ t.guess = 0 /\ t.deadline = u.deadline /\ chan'.guess = Post(M, u.guess, 1)
        /\ t.game = u.game /\ t.roundGen = u.roundGen /\ t.running = u.running
    BY <1>1, <1>12, FiredLemma DEF SameMatchOf
  <2>2. /\ u.guess # 0 /\ u.guess = u.roundGen /\ AwaitingGuess(u.game)
        /\ u.game.phase = "reveal" /\ u.roundGen \in Nat
    BY <1>1, <1>12 DEF GuessFired, GuessAgrees, AwaitingGuess, Ready, Sane, RoomRec
  <2>3. chan'.guess \subseteq M \cup {u.roundGen}
    BY <2>1, <2>2 DEF Post
  <2>4. ASSUME Prompt PROVE u.roundGen \in chan'.guess
    <3>1. M = {}
      BY <1>12, <2>4 DEF GuessFired, GuessAgrees
    <3>2. Cardinality({}) = 0
      BY FS_EmptySet
    <3> QED
      BY <2>1, <2>2, <3>1, <3>2 DEF Post
  <2>5. \A g \in chan'.guess : g <= u.roundGen
    BY <1>1, <2>2, <2>3 DEF GuessAgrees
  <2> QED
    BY <2>1, <2>2, <2>4, <2>5 DEF GuessAgrees
<1>13. CASE Halted(u, t)
  <2>1. t.guess = 0 /\ t.deadline = u.deadline /\ ~t.running /\ SameMatchOf(u, t)
    BY <1>1, <1>13, StopLemma DEF Halted, Ready
  <2>2. chan'.guess = M
    BY <1>13 DEF Halted
  <2> QED
    BY <2>1, <2>2 DEF GuessAgrees, SameMatchOf
<1> QED
  BY <1>2, <1>4, <1>5, <1>6, <1>7, <1>8, <1>9, <1>10, <1>11, <1>12, <1>13 DEF Shape

\* Every step of the room is a step of the abstract match, and leaves a reveal only
\* once it was settled.
LEMMA MatchKind ==
  ASSUME WebClientOnly, ChanOK(chan), NEW u, RoomOK(u, sockets), NEW t,
         RoomOK(t, sockets'), Kind(u, t), HoldAgrees(u, chan.advance)
  PROVE  /\ MatchStep(u.game, t.game)
         /\ u.game.phase = "reveal" /\ t.game.phase # "reveal" => Settled(u.game)
<1>1. Ready(u) /\ Ready(t)
  BY DEF RoomOK
<1>2. Shape(u, t)
  BY KindShape
<1>3. ASSUME t.game = u.game
      PROVE  MatchStep(u.game, t.game)
  BY <1>3 DEF MatchStep, SameMatch, SameRound
<1>4. CASE SeatMoved(u, t)
  <2>1. PICK m, v : Reseated(u, m) /\ Counted(m, v) /\ Quiet(v, t)
    BY <1>4 DEF SeatMoved
  <2>2. MatchStep(u.game, m.game) /\ m.game.phase = u.game.phase /\ t.game = v.game
    BY <2>1, ReseatedKept DEF Reseated, Quiet, SameMatchOf
  <2>3. CASE Decided(m, v) /\ MatchStep(m.game, v.game)
    <3>1. SameMatch(u.game, m.game)
      BY <2>1, <2>3 DEF Decided, Reseated
    <3> QED
      BY <2>2, <2>3, <3>1, StutterBefore DEF Decided
  <2>4. CASE Quiet(m, v)
    BY <2>2, <2>4 DEF Quiet, SameMatchOf
  <2> QED
    BY <2>1, <2>3, <2>4 DEF Counted
<1>5. CASE Quiet(u, t) \/ Halted(u, t)
  <2>1. t.game = u.game
    BY <1>1, <1>5, StopLemma DEF Quiet, SameMatchOf, Halted, Ready
  <2> QED
    BY <1>3, <2>1
<1>6. CASE Ordered(u, t)
  BY <1>6 DEF Ordered, Played, Begun, Turned, Opened, Voted, Decided, Guessed, TimedOut, Settled
<1>7. CASE GivenUp(u, t)
  BY <1>7, ReseatedKept DEF GivenUp, Reseated
<1>8. CASE Advanced(u, t)
  BY <1>8 DEF Advanced, HoldAgrees, Settled
<1>9. CASE Skipped(u, t) \/ GuessOver(u, t)
  BY <1>3, <1>9 DEF Skipped, GuessOver, Turned, TimedOut, Settled
<1>10. CASE DrawFired(u, t) \/ GuessFired(u, t) \/ DiscussionFired(u, t) \/ RevealFired(u, t)
  <2>1. t.game = u.game
    BY <1>1, <1>10, FiredLemma DEF SameMatchOf
  <2> QED
    BY <1>3, <2>1
<1> QED
  BY <1>2, <1>4, <1>5, <1>6, <1>7, <1>8, <1>9, <1>10 DEF Shape

\* A vote is closed by its verdict, when nobody who is connected is left to vote.
LEMMA CloseKind ==
  ASSUME ChanOK(chan), NEW u, RoomOK(u, sockets), NEW t, RoomOK(t, sockets'), Kind(u, t),
         u.game.phase = "voting", t.game.phase # "voting"
  PROVE  Connected(t) # {} /\ \A p \in Connected(t) : HasVoted(t.game, p)
<1>1. Ready(u) /\ Ready(t)
  BY DEF RoomOK
<1>2. Shape(u, t)
  BY KindShape
<1>3. CASE SeatMoved(u, t)
  <2>1. PICK m, v : Reseated(u, m) /\ Counted(m, v) /\ Quiet(v, t)
    BY <1>3 DEF SeatMoved
  <2>2. Decided(m, v)
    BY <2>1 DEF Reseated, Counted, Quiet, SameMatchOf
  <2>3. Connected(t) = Connected(m) /\ t.game = v.game
    BY <2>1 DEF Counted, Called, SameSeats, Quiet, SameMatchOf, Connected
  <2> QED
    BY <2>2, <2>3 DEF Decided
<1>4. t.game.phase = u.game.phase => FALSE
  OBVIOUS
<1>5. CASE Played(u, t)
  <2>1. Decided(u, t) /\ Connected(t) = Connected(u)
    BY <1>5 DEF Played, Begun, Turned, Opened, Voted, Guessed, TimedOut, Ended, AwaitingGuess,
                Called, SameSeats, Connected
  <2> QED
    BY <2>1 DEF Decided
<1>6. CASE Ordered(u, t) \/ Advanced(u, t) \/ Skipped(u, t) \/ GuessOver(u, t)
  BY <1>1, <1>5, <1>6 DEF Ordered, Advanced, Skipped, GuessOver, Played
<1>7. CASE Quiet(u, t) \/ GivenUp(u, t)
  BY <1>7 DEF Quiet, SameMatchOf, GivenUp, Reseated
<1>8. CASE DrawFired(u, t) \/ GuessFired(u, t) \/ DiscussionFired(u, t) \/ RevealFired(u, t)
  BY <1>1, <1>8, FiredLemma DEF SameMatchOf
<1>9. CASE Halted(u, t)
  BY <1>1, <1>9, StopLemma DEF Halted, Ready, SameMatchOf
<1> QED
  BY <1>2, <1>3, <1>6, <1>7, <1>8, <1>9 DEF Shape

-----------------------------------------------------------------------------
(* The timers of the phases and the votes as invariants.                   *)

LEMMA PhaseInit ==
  ASSUME Init
  PROVE  /\ DrawAgrees(room, chan.draw) /\ GuessAgrees(room, chan.guess)
         /\ HoldAgrees(room, chan.advance) /\ VotesAgree(room)
<1>1. PICK host \in PlayerID : room = NewRoom(host) /\ chan = NoMessages
  BY DEF Init
<1>2. NewEngine(host).phase = "lobby"
  BY DEF NewEngine
<1>3. /\ room.game.phase = "lobby" /\ room.drawSkip = NoTimer /\ room.guess = 0
      /\ room.roundGen = 0 /\ room.deadline = NoDeadline /\ ~room.discussion /\ ~room.reveal
      /\ chan.draw = {} /\ chan.guess = {} /\ chan.advance = FALSE
  BY <1>1, <1>2 DEF NewRoom, NoMessages
<1>4. NoDeadline.gen = 0
  BY DEF NoDeadline
<1> QED
  BY <1>3, <1>4 DEF DrawAgrees, GuessAgrees, HoldAgrees, VotesAgree, AwaitingGuess, Settled

\* The room a handler starts from, and the one the loop comes back to select with,
\* agree with the messages as those before and after the handler do.
LEMMA SteppedEnds ==
  ASSUME NEW u, NEW t, Stepped(u, t)
  PROVE  /\ Quiet(room, u)
         /\ DrawAgrees(t, chan'.draw) => DrawAgrees(room', chan'.draw)
         /\ GuessAgrees(t, chan'.guess) => GuessAgrees(room', chan'.guess)
         /\ HoldAgrees(t, chan'.advance) => HoldAgrees(room', chan'.advance)
         /\ VotesAgree(t) => VotesAgree(room')
         /\ room'.game = t.game /\ Connected(room') = Connected(t) /\ u.game = room.game
<1>1. Quiet(room, u) /\ u.game = room.game
  BY DEF Stepped, SameButYoung, SameMatchOf, SameHold, SameDraw, SameGuess, Quiet
<1>2. /\ SameButYoung(t, room') /\ SameHold(t, room') /\ SameMatchOf(t, room')
      /\ Connected(room') = Connected(t)
  BY DEF Stepped, SameButYoung, Connected
<1>3. \/ chan'.draw = {} /\ chan'.guess = {}
      \/ room'.young = t.young
  BY DEF Stepped, NoMessages
<1>4. DrawAgrees(t, chan'.draw) => DrawAgrees(room', chan'.draw)
  BY <1>2, <1>3 DEF SameButYoung, SameMatchOf, DrawAgrees, Skip
<1>5. GuessAgrees(t, chan'.guess) => GuessAgrees(room', chan'.guess)
  BY <1>2, <1>3 DEF SameButYoung, SameMatchOf, GuessAgrees
<1>6. HoldAgrees(t, chan'.advance) => HoldAgrees(room', chan'.advance)
  BY <1>2 DEF SameButYoung, SameHold, SameMatchOf, HoldAgrees
<1>7. VotesAgree(t) => VotesAgree(room')
  BY <1>2 DEF SameButYoung, SameMatchOf, VotesAgree
<1> QED
  BY <1>1, <1>2, <1>4, <1>5, <1>6, <1>7 DEF SameMatchOf

\* A step that is not a handler's leaves the room and its messages alone.
LEMMA StepLemma ==
  ASSUME Structure, [Next]_vars
  PROVE  (room' = room /\ chan' = chan) \/ \E u, t : Stepped(u, t)
  BY StepKind, HandledLemma DEF LeftStopped, vars

LEMMA DrawNext ==
  ASSUME Structure, DrawAgrees(room, chan.draw), [Next]_vars
  PROVE  DrawAgrees(room', chan'.draw)
<1>1. CASE room' = room /\ chan' = chan
  BY <1>1
<1>2. ASSUME NEW u, NEW t, Stepped(u, t)
      PROVE  DrawAgrees(room', chan'.draw)
  <2>1. DrawAgrees(u, chan.draw)
    BY <1>2, SteppedEnds, QuietKept
  <2>2. DrawAgrees(t, chan'.draw)
    BY <1>2, <2>1, DrawKind DEF Stepped, Structure
  <2> QED
    BY <1>2, <2>2, SteppedEnds
<1> QED
  BY <1>1, <1>2, StepLemma

LEMMA VotesNext ==
  ASSUME Structure, VotesAgree(room), [Next]_vars
  PROVE  VotesAgree(room')
<1>1. CASE room' = room /\ chan' = chan
  BY <1>1
<1>2. ASSUME NEW u, NEW t, Stepped(u, t)
      PROVE  VotesAgree(room')
  <2>1. VotesAgree(u)
    BY <1>2, SteppedEnds, QuietKept
  <2>2. VotesAgree(t)
    BY <1>2, <2>1, VotesKind DEF Stepped, Structure
  <2> QED
    BY <1>2, <2>2, SteppedEnds
<1> QED
  BY <1>1, <1>2, StepLemma

\* The hold and the guess timer, which depend on each other: the hold must not end
\* a round whose guess is awaited.
HoldsAgree == HoldAgrees(room, chan.advance) /\ GuessAgrees(room, chan.guess)

LEMMA HoldsNext ==
  ASSUME WebClientOnly, Structure, HoldsAgree, [Next]_vars
  PROVE  /\ HoldsAgree'
         /\ MatchStep(room.game, room'.game)
         /\ room.game.phase = "reveal" /\ room'.game.phase # "reveal" => Settled(room.game)
<1>1. CASE room' = room /\ chan' = chan
  BY <1>1 DEF HoldsAgree, MatchStep, SameMatch, SameRound
<1>2. ASSUME NEW u, NEW t, Stepped(u, t)
      PROVE  /\ HoldsAgree'
             /\ MatchStep(room.game, room'.game)
             /\ room.game.phase = "reveal" /\ room'.game.phase # "reveal" => Settled(room.game)
  <2>1. HoldAgrees(u, chan.advance) /\ GuessAgrees(u, chan.guess)
    BY <1>2, SteppedEnds, QuietKept DEF HoldsAgree
  <2>2. RoomOK(u, sockets) /\ RoomOK(t, sockets') /\ Kind(u, t) /\ ChanOK(chan)
    BY <1>2 DEF Stepped, Structure
  <2>3. HoldAgrees(t, chan'.advance) /\ GuessAgrees(t, chan'.guess)
    BY <2>1, <2>2, HoldKind, DeadlineKind
  <2>4. /\ MatchStep(u.game, t.game)
        /\ u.game.phase = "reveal" /\ t.game.phase # "reveal" => Settled(u.game)
    BY <2>1, <2>2, MatchKind
  <2>5. HoldAgrees(room', chan'.advance) /\ GuessAgrees(room', chan'.guess)
    BY <1>2, <2>3, SteppedEnds
  <2> QED
    BY <1>2, <2>4, <2>5, SteppedEnds DEF HoldsAgree
<1> QED
  BY <1>1, <1>2, StepLemma

-----------------------------------------------------------------------------
(* Theorems about the phases.                                              *)

\* A turn whose drawer is away is always about to be skipped (evaluateDrawTimer):
\* each way a drawer gets or stays absent arms the timer, and its one-place channel
\* drops no skip as long as the loop drains it before a timer armed meanwhile fires.
THEOREM AbsentDrawerIsCovered ==
  ASSUME Prompt
  PROVE  Spec => []DrawerCovered
<1>1. Init => DrawAgrees(room, chan.draw)
  BY PhaseInit
<1>2. Structure /\ DrawAgrees(room, chan.draw) /\ [Next]_vars => DrawAgrees(room, chan.draw)'
  BY DrawNext
<1>3. DrawAgrees(room, chan.draw) => DrawerCovered
  BY DEF DrawAgrees, Skip, DrawerCovered
<1> QED
  BY <1>1, <1>2, <1>3, StructureHolds, PTL DEF Spec

\* A vote never waits for nobody (evaluateVoting): whoever leaves, comes back or
\* votes last, a vote nobody connected still owes is decided in that same step.
THEOREM VotesAreAwaited == Spec => []VotingCovered
<1>1. Init => VotesAgree(room)
  BY PhaseInit
<1>2. Structure /\ VotesAgree(room) /\ [Next]_vars => VotesAgree(room)'
  BY VotesNext
<1>3. VotesAgree(room) => VotingCovered
  BY DEF VotesAgree, VotingCovered
<1> QED
  BY <1>1, <1>2, <1>3, StructureHolds, PTL DEF Spec

\* Nothing else closes a vote: not the players who are connected having voted for
\* somebody since removed, nor a guess, a timer or a host's command.
THEOREM VotesCloseComplete == Spec => ClosesComplete
<1> DEFINE Closes == room.game.phase = "voting" /\ room'.game.phase # "voting" =>
                       /\ Connected(room') # {}
                       /\ \A p \in Connected(room') : HasVoted(room'.game, p)
<1>1. Structure /\ [Next]_vars => Closes
  <2> SUFFICES ASSUME Structure, [Next]_vars PROVE Closes
    OBVIOUS
  <2>1. CASE room' = room /\ chan' = chan
    BY <2>1
  <2>2. ASSUME NEW u, NEW t, Stepped(u, t), room.game.phase = "voting",
               room'.game.phase # "voting"
        PROVE  /\ Connected(room') # {}
               /\ \A p \in Connected(room') : HasVoted(room'.game, p)
    <3>1. /\ room'.game = t.game /\ Connected(room') = Connected(t) /\ u.game = room.game
      BY <2>2, SteppedEnds
    <3>2. Connected(t) # {} /\ \A p \in Connected(t) : HasVoted(t.game, p)
      BY <2>2, <3>1, CloseKind DEF Stepped, Structure
    <3> QED
      BY <3>1, <3>2
  <2> QED
    BY <2>1, <2>2, StepLemma
<1> QED
  BY <1>1, StructureHolds, PTL DEF Spec, ClosesComplete

LEMMA HoldsHold ==
  ASSUME WebClientOnly
  PROVE  Spec => []HoldsAgree
<1>1. Init => HoldsAgree
  BY PhaseInit DEF HoldsAgree
<1>2. Structure /\ HoldsAgree /\ [Next]_vars => HoldsAgree'
  BY HoldsNext
<1> QED
  BY <1>1, <1>2, StructureHolds, PTL DEF Spec

\* A timer is armed only in its own phase, for its own round or turn: what onPhase-
\* Change, evaluateGuessDeadline, evaluateDrawTimer and the hold leave behind never
\* acts on a later phase, whatever comes between.
THEOREM TimersStayInPhase ==
  ASSUME WebClientOnly
  PROVE  Spec => []TimersMatchPhase
<1>1. Init => DrawAgrees(room, chan.draw)
  BY PhaseInit
<1>2. Structure /\ DrawAgrees(room, chan.draw) /\ [Next]_vars => DrawAgrees(room, chan.draw)'
  BY DrawNext
<1>3. DrawAgrees(room, chan.draw) /\ HoldsAgree => TimersMatchPhase
  BY DEF DrawAgrees, HoldsAgree, HoldAgrees, GuessAgrees, TimersMatchPhase
<1> QED
  BY <1>1, <1>2, <1>3, StructureHolds, HoldsHold, PTL DEF Spec

\* A reveal always waits for something: for the deadline of its own round's guess
\* while that is awaited, and else for the hold that leads on; never for both.
THEOREM RevealsAreCovered ==
  ASSUME Prompt, WebClientOnly
  PROVE  Spec => []RevealCovered
<1>1. HoldsAgree => RevealCovered
  BY DEF HoldsAgree, HoldAgrees, GuessAgrees, RevealCovered, Settled
<1> QED
  BY <1>1, HoldsHold, PTL

\* The deadline the players were told when the guess opened is never moved while it
\* runs, as guesses come from the web client.
THEOREM DeadlinesStand ==
  ASSUME WebClientOnly
  PROVE  Spec => []DeadlineStands
<1>1. HoldsAgree => DeadlineStands
  BY DEF HoldsAgree, GuessAgrees, DeadlineStands
<1> QED
  BY <1>1, HoldsHold, PTL

\* No stale hold, late message or command takes a round from the players before its
\* points are given.
THEOREM RoundsAreSettled ==
  ASSUME WebClientOnly
  PROVE  Spec => LeavesSettled
<1>1. Structure /\ HoldsAgree /\ [Next]_vars
        => [room.game.phase = "reveal" /\ room'.game.phase # "reveal" => Settled(room.game)]_vars
  BY HoldsNext
<1> QED
  BY <1>1, StructureHolds, HoldsHold, PTL DEF Spec, LeavesSettled

-----------------------------------------------------------------------------
(* A room implements the match.                                            *)

LEMMA RoomCounting ==
  ASSUME NEW S
  PROVE  G!M!IsFiniteSet(S) = IsFiniteSet(S) /\ G!M!Cardinality(S) = Cardinality(S)
  BY DEF G!M!IsFiniteSet, IsFiniteSet, G!M!Cardinality, Cardinality

\* G has copies of the views of a match, too.
LEMMA RoomViews ==
  /\ \A s : G!Roster(s) = Roster(s) /\ G!StageOf(s) = StageOf(s)
  /\ \A s : G!PastImpostors(s) = PastImpostors(s)
<1>1. \A s : G!Roster(s) = Roster(s)
  BY DEF G!Roster, Roster
<1>2. \A s : G!AwaitingGuess(s) = AwaitingGuess(s)
  BY DEF G!AwaitingGuess, AwaitingGuess
<1>3. \A s : G!StageOf(s) = StageOf(s)
  BY <1>2 DEF G!StageOf, StageOf
<1>4. \A s, k : G!ImpostorOf(s, k) = ImpostorOf(s, k)
  BY DEF G!ImpostorOf, ImpostorOf
<1>5. \A s : G!PastImpostors(s) = PastImpostors(s)
  BY <1>4 DEF G!PastImpostors, PastImpostors
<1> QED
  BY <1>1, <1>3, <1>5

LEMMA RoomInitRefines == Init => G!M!Init
<1> SUFFICES ASSUME NEW host \in PlayerID, room = NewRoom(host) PROVE G!M!Init
  BY DEF Init
<1>1. /\ NewEngine(host).phase = "lobby" /\ NewEngine(host).players = <<host>>
      /\ NewEngine(host).round = 0 /\ NewEngine(host).impostor = Nobody
      /\ NewEngine(host).score = ZeroScore
  BY DEF NewEngine
<1>2. /\ room.game.phase = "lobby" /\ room.game.players = <<host>> /\ room.game.round = 0
      /\ room.game.impostor = Nobody /\ room.game.score = ZeroScore
  BY <1>1 DEF NewRoom
<1>3. Roster(room.game) = {host}
  BY <1>2 DEF Roster
<1>4. StageOf(room.game) = "lobby" /\ PastImpostors(room.game) = {}
  BY <1>2 DEF StageOf, PastImpostors
<1> QED
  BY <1>2, <1>3, <1>4, RoomViews DEF G!M!Init, G!M!Zero, ZeroScore

LEMMA RoomStepRefines ==
  ASSUME MatchStep(room.game, room'.game)
  PROVE  [G!M!Next]_(G!M!vars)
<1> USE RoomViews DEF SameRound, G!M!vars, G!M!Next, G!M!Award, Awarded
<1>1. CASE SameMatch(room.game, room'.game)
  BY <1>1 DEF SameMatch
<1>2. CASE RosterChanges(room.game, room'.game)
  BY <1>2, RoomCounting DEF RosterChanges, G!M!ChangeRoster
<1>3. CASE MatchBegins(room.game, room'.game)
  BY <1>3 DEF MatchBegins, G!M!Begin, G!M!Zero, ZeroScore
<1>4. CASE Passes(room.game, room'.game)
  BY <1>4 DEF Passes, G!M!Discuss, G!M!Vote, G!M!Catch
<1>5. CASE Pays(room.game, room'.game)
  BY <1>5 DEF Pays, G!M!Evade, G!M!Resolve
<1>6. CASE RoundFollows(room.game, room'.game)
  BY <1>6, RoomCounting DEF RoundFollows, G!M!NextRound
<1>7. CASE MatchEnds(room.game, room'.game)
  BY <1>7, RoomCounting DEF MatchEnds, G!M!GameOver
<1> QED
  BY <1>1, <1>2, <1>3, <1>4, <1>5, <1>6, <1>7 DEF MatchStep

\* A room is a match as Match promises it, whatever its handlers interleave: a join,
\* a leave or an expiry that adds, removes, promotes and decides in one step, a timer
\* or a command of a phase that is over. Each handler is one step of the rules or
\* leaves the match alone.
THEOREM RoomImplementsMatch ==
  ASSUME WebClientOnly
  PROVE  Spec => ImplementsMatch
<1>1. Structure /\ HoldsAgree /\ [Next]_vars => [G!M!Next]_(G!M!vars)
  BY HoldsNext, RoomStepRefines
<1> QED
  BY <1>1, RoomInitRefines, StructureHolds, HoldsHold, PTL
  DEF Spec, ImplementsMatch, G!ImplementsMatch, G!M!Spec

=============================================================================
