-------------------------------- MODULE Room --------------------------------
(***************************************************************************)
(* One room (internal/room): the actor goroutine that owns a match, with   *)
(* the connections and the timers it reacts to. Each method of the Go Room *)
(* is an operator from room record to room record; each case of the select *)
(* in Run is an action that applies one of them.                           *)
(*                                                                         *)
(* What lives outside the actor is the environment: sockets open, close    *)
(* and are superseded, timers fire on goroutines of their own and post     *)
(* into channels that drop what does not fit.                              *)
(*                                                                         *)
(* An operator whose name starts with Bug is the one after it with a       *)
(* plausible defect; nothing uses it.                                      *)
(***************************************************************************)
EXTENDS Engine

CONSTANTS
  Commands,        \* the client commands sent in this instance
  Prompt,          \* TRUE: the loop drains its channels before a timer armed
                   \* meanwhile can fire (the shortest duration is seconds)
  TrackWire,       \* TRUE: record the messages each step broadcasts
  GraceCap,        \* capacity of the grace channel (8 in the code, like MaxPlayers)
  MaxConns,        \* bound: connections accepted over the room's life
  MaxRounds        \* bound: rounds begun over the room's life

AllCommands == {"start_game", "stroke", "end_discussion", "new_game", "cast_vote",
                "impostor_guess", "voice", "expire", "shutdown"}

ASSUME RoomAssumption == /\ Commands \subseteq AllCommands
                         /\ {Prompt, TrackWire} \subseteq BOOLEAN
                         /\ GraceCap \in Nat
                         /\ MaxConns \in Nat
                         /\ MaxRounds \in Nat

\* In the code the four timers of a room are fields of their own.
ASSUME TimerAssumption == PlayerID \cap {"draw", "guess", "discussion", "reveal"} = {}

VARIABLES
  room,      \* the fields of the Go Room; only the Run goroutine changes them
  chan,      \* timer messages waiting in the room's channels
  sockets    \* connections whose handler still runs; superseded: the seat has
             \* accepted a later one

vars == <<room, chan, sockets>>

Timer == {"draw", "guess", "discussion", "reveal"} \cup PlayerID  \* a player's: grace

NoConn     == 0
NoTimer    == [player |-> Nobody, gen |-> 0]
NoDeadline == [gen |-> 0, moved |-> FALSE]
NoPresence == [known |-> FALSE, connected |-> FALSE, gen |-> 0, joinSeq |-> 0,
               expired |-> FALSE]
NoMessages == [advance |-> FALSE, discussion |-> FALSE, grace |-> {}, draw |-> {},
               guess |-> {}]

NewRoom(host) ==
  [game |-> NewEngine(host),
   clients |-> [p \in PlayerID |-> NoConn],    \* the live connID of a seat
   presence |-> [p \in PlayerID |-> NoPresence],
   seats |-> {host},                           \* seats with a reconnect credential
   voice |-> {},                               \* voicePresent
   nextConn |-> 1,
   nextJoinSeq |-> 1,
   roundGen |-> 0,
   grace |-> [p \in PlayerID |-> 0],           \* generation of the armed timer, 0 if none
   drawSkip |-> NoTimer,
   guess |-> 0,                                \* round of the armed guess timer, 0 if none
   deadline |-> NoDeadline,                    \* guessDeadline; moved: set again in its round
   discussion |-> FALSE,                       \* discussion timer armed
   reveal |-> FALSE,                           \* reveal timer armed
   young |-> {},                               \* timers armed since the loop last idled
   idle |-> FALSE,                             \* the TTL has passed since lastActivity
   running |-> TRUE,
   bumps |-> 0,                                \* revision, relative to the step's start
   wire |-> <<>>]                              \* what the step broadcast, if TrackWire

Connected(r)    == {p \in PlayerID : r.clients[p] # NoConn}
Arm(r, t)       == [r EXCEPT !.young = IF Prompt THEN @ \cup {t} ELSE @]
Disarm(r, t)    == [r EXCEPT !.young = @ \ {t}]
Touch(r)        == [r EXCEPT !.idle = FALSE]

-----------------------------------------------------------------------------
(* What a step sends. Every envelope is stamped with the revision.         *)

Stamped(r, type) == [type |-> type, seq |-> r.bumps]

Send(r, type) ==
  IF TrackWire THEN [r EXCEPT !.wire = Append(@, Stamped(r, type))] ELSE r

Bump(r) == IF TrackWire THEN [r EXCEPT !.bumps = @ + 1] ELSE r

BroadcastSequenced(r, type) == Send(Bump(r), type)

-----------------------------------------------------------------------------
(* Timers.                                                                 *)

EvaluateDrawTimer(r) ==
  LET drawer == Drawer(r.game)
      absent == /\ Connected(r) # {}
                /\ r.game.phase = "drawing"
                /\ r.game.turn < Len(r.game.players)
                /\ r.presence[drawer].known
                /\ ~r.presence[drawer].connected
  IN  IF absent
      THEN Arm([r EXCEPT !.drawSkip = [player |-> drawer, gen |-> r.presence[drawer].gen]],
               "draw")
      ELSE Disarm([r EXCEPT !.drawSkip = NoTimer], "draw")

EvaluateGuessDeadline(r) ==
  IF AwaitingGuess(r.game)
  THEN Arm([r EXCEPT !.guess = r.roundGen,
                     !.deadline = [gen |-> r.roundGen, moved |-> @.gen = r.roundGen]],
           "guess")
  ELSE Disarm([r EXCEPT !.guess = 0, !.deadline = NoDeadline], "guess")

StartRevealTimer(r) == Arm([r EXCEPT !.reveal = TRUE], "reveal")

BugOnPhaseChangeNoStop(r) ==
  IF r.game.phase = "discussion"
  THEN Arm([r EXCEPT !.discussion = TRUE], "discussion") ELSE r

BugOnPhaseChangeLate(r) ==
  IF r.game.phase = "voting"
  THEN Arm([r EXCEPT !.discussion = TRUE], "discussion")
  ELSE Disarm([r EXCEPT !.discussion = FALSE], "discussion")

OnPhaseChange(r) ==
  IF r.game.phase = "discussion"
  THEN Arm([r EXCEPT !.discussion = TRUE], "discussion")
  ELSE Disarm([r EXCEPT !.discussion = FALSE], "discussion")

-----------------------------------------------------------------------------
(* apply and broadcastEvent: one revision per event, in order, and one more *)
(* for the result that announces a caught impostor.                         *)

RoundStarted(r) ==
  EvaluateDrawTimer(Send([Bump(r) EXCEPT !.roundGen = @ + 1], "round_started"))

BugTurnChangedUnwatched(r) == BroadcastSequenced(r, "turn_changed")

TurnChanged(r) == EvaluateDrawTimer(BroadcastSequenced(r, "turn_changed"))

BugAnnounceCaughtSameSeq(r) ==
  IF r.game.result.caught THEN Send(r, "round_result") ELSE r

BugAnnounceCaughtAsEnd(r) ==
  IF r.game.result.caught THEN StartRevealTimer(BroadcastSequenced(r, "round_result")) ELSE r

AnnounceCaught(r) ==
  IF r.game.result.caught THEN BroadcastSequenced(r, "round_result") ELSE r

PhaseChanged(r) ==
  LET sent == BroadcastSequenced(r, "phase_changed")
  IN  EvaluateDrawTimer(OnPhaseChange(
        IF r.game.phase = "reveal" THEN AnnounceCaught(EvaluateGuessDeadline(sent)) ELSE sent))

BugRoundEndedNoHold(r) == BroadcastSequenced(r, "round_result")

RoundEnded(r) == StartRevealTimer(BroadcastSequenced(r, "round_result"))

BroadcastEvent(r, event) ==
  CASE event = "RoundStarted" -> RoundStarted(r)
    [] event = "TurnChanged"  -> TurnChanged(r)
    [] event = "StrokeAdded"  -> BroadcastSequenced(r, "stroke_broadcast")
    [] event = "PhaseChanged" -> PhaseChanged(r)
    [] event = "VoteRecorded" -> BroadcastSequenced(r, "vote_update")
    [] event = "RoundEnded"   -> RoundEnded(r)
    [] event = "GameEnded"    -> BroadcastSequenced(r, "game_over")

\* No command cascades into more than three events.
Apply(r, out) ==
  LET r0 == [r EXCEPT !.game = out.state]
      n  == Len(out.events)
      r1 == IF n >= 1 THEN BroadcastEvent(r0, out.events[1]) ELSE r0
      r2 == IF n >= 2 THEN BroadcastEvent(r1, out.events[2]) ELSE r1
  IN  IF n >= 3 THEN BroadcastEvent(r2, out.events[3]) ELSE r2

-----------------------------------------------------------------------------
(* Presence and host migration.                                            *)

BugHostLostByAbsence(r) ==
  /\ r.presence[r.game.host].known
  /\ ~r.presence[r.game.host].connected
  /\ r.presence[r.game.host].expired

HostLost(r) ==
  LET host == r.game.host
  IN  \/ host \notin Roster(r.game)
      \/ /\ r.presence[host].known
         /\ ~r.presence[host].connected
         /\ r.presence[host].expired

Present(r) == {p \in PlayerID : r.presence[p].connected}

Candidate(r) ==
  CHOOSE p \in Present(r) :
    \A q \in Present(r) : r.presence[p].joinSeq <= r.presence[q].joinSeq

MaybeMigrateHost(r) ==
  IF /\ HostLost(r)
     /\ Present(r) # {}
     /\ Candidate(r) # r.game.host
     /\ MaySetHost(r.game, Candidate(r))
  THEN BroadcastSequenced([r EXCEPT !.game = SetHostID(@, Candidate(r))], "host_changed")
  ELSE r

BugEvaluateVotingTellOnly(r) ==
  IF r.game.phase = "voting" THEN BroadcastSequenced(r, "vote_update") ELSE r

BugEvaluateVotingAndDeadline(r) ==
  IF r.game.phase = "voting" /\ MayResolveVoting(r.game, Connected(r))
  THEN Apply(r, FinishVoting(r.game)) ELSE EvaluateGuessDeadline(r)

EvaluateVoting(r) ==
  LET told == BroadcastSequenced(r, "vote_update")
  IN  IF r.game.phase # "voting" THEN r
      ELSE IF MayResolveVoting(r.game, Connected(r)) THEN Apply(told, FinishVoting(r.game))
                                                     ELSE told

MarkConnected(r, id) ==
  LET pres   == r.presence[id]
      marked == [Disarm(r, id) EXCEPT
                   !.presence[id] = [known |-> TRUE, connected |-> TRUE, gen |-> pres.gen + 1,
                                     joinSeq |-> IF pres.known THEN pres.joinSeq
                                                               ELSE r.nextJoinSeq,
                                     expired |-> FALSE],
                   !.nextJoinSeq = IF pres.known THEN @ ELSE @ + 1,
                   !.grace[id] = 0]
      told   == IF pres.known /\ ~pres.connected
                THEN BroadcastSequenced(marked, "player_presence_changed")
                ELSE marked
  IN  EvaluateVoting(EvaluateDrawTimer(MaybeMigrateHost(told)))

MarkDisconnected(r, id) ==
  LET gen    == r.presence[id].gen + 1
      marked == Arm([r EXCEPT !.presence[id].connected = FALSE,
                              !.presence[id].gen = gen,
                              !.grace[id] = gen], id)
  IN  IF r.presence[id].connected
      THEN EvaluateVoting(EvaluateDrawTimer(
             BroadcastSequenced(marked, "player_presence_changed")))
      ELSE r

-----------------------------------------------------------------------------
(* Joins and leaves.                                                       *)

\* A credential opens its seat only while the roster still has the player.
MayReconnect(r, id) == id \in r.seats /\ id \in Roster(r.game)

\* A new seat gets an identity never used before.
MayJoin(r, id) == id \notin r.seats /\ MayAdd(r.game, id)

Seated(r, id) == [r EXCEPT !.game = AddPlayer(@, id), !.seats = @ \cup {id}]

\* processJoin from the new connection on. The join_accepted of a new seat is the one
\* envelope that is not stamped and has no place among the revisions.
Attach(r, id) ==
  LET marked == MarkConnected(Touch([r EXCEPT !.clients[id] = r.nextConn,
                                              !.nextConn = @ + 1]), id)
  IN  BroadcastSequenced(Send(marked, "state_snapshot"), "lobby_update")

ProcessJoin(r, id) ==
  Attach(IF MayReconnect(r, id) THEN r ELSE Seated(r, id), id)

BugProcessLeaveAny(r, id, conn) ==
  MarkDisconnected(Touch([r EXCEPT !.clients[id] = NoConn, !.voice = @ \ {id}]), id)

BugProcessLeaveKeepingVoice(r, id, conn) ==
  IF r.clients[id] = conn
  THEN MarkDisconnected(Touch([r EXCEPT !.clients[id] = NoConn]), id) ELSE r

ProcessLeave(r, id, conn) ==
  IF r.clients[id] = conn
  THEN MarkDisconnected(Touch([r EXCEPT !.clients[id] = NoConn, !.voice = @ \ {id}]), id)
  ELSE r

BugStillAbsentUnchecked(r, m) == r.presence[m.player].known

\* The absence the message's timer was armed for still lasts.
StillAbsent(r, m) ==
  /\ r.presence[m.player].known
  /\ r.presence[m.player].gen = m.gen
  /\ ~r.presence[m.player].connected

HandleGraceExpired(r, m) ==
  LET id      == m.player
      expired == [r EXCEPT !.presence[id].expired = TRUE, !.grace[id] = 0]
      removed == IF MayRemove(r.game, id)
                 THEN BroadcastSequenced([expired EXCEPT !.game = RemovePlayer(@, id),
                                                         !.presence[id] = NoPresence],
                                         "player_left")
                 ELSE expired
  IN  IF StillAbsent(r, m)
      THEN BroadcastSequenced(MaybeMigrateHost(removed), "lobby_update")
      ELSE r

HandleDrawSkip(r, m) ==
  IF /\ StillAbsent(r, m)
     /\ Connected(r) # {}
     /\ r.game.phase = "drawing"
     /\ r.game.turn < Len(r.game.players)
     /\ Drawer(r.game) = m.player
  THEN EvaluateDrawTimer(Apply(r, SkipTurn(r.game)))
  ELSE r

HandleGuessTimeout(r, roundGen) ==
  IF roundGen = r.roundGen /\ AwaitingGuess(r.game) /\ MayTimeOutGuess(r.game)
  THEN Apply(r, ResolveImpostorTimeout(r.game))
  ELSE r

BugHandleExpireIdle(r) == r.idle

HandleExpireCheck(r) == Connected(r) = {} /\ r.idle

\* Run returns: its deferred calls stop every timer and close every client.
Stop(r) ==
  [r EXCEPT !.running = FALSE, !.drawSkip = NoTimer, !.guess = 0, !.discussion = FALSE,
            !.reveal = FALSE, !.grace = [p \in PlayerID |-> 0], !.young = {}]

-----------------------------------------------------------------------------
(* The environment and the loop.                                           *)

Init ==
  /\ \E host \in PlayerID : room = NewRoom(host)
  /\ chan = NoMessages
  /\ sockets = {}

\* The record a handler starts from: nothing sent yet.
Now == [room EXCEPT !.bumps = 0, !.wire = <<>>]

\* The loop is back in select. With every channel empty it blocks, and only
\* then does enough time pass for a timer armed meanwhile to be due.
Becomes(r, messages) ==
  /\ chan' = messages
  /\ room' = IF messages = NoMessages THEN [r EXCEPT !.young = {}] ELSE r

Join(p) ==
  /\ room.running
  /\ room.nextConn <= MaxConns
  /\ MayReconnect(room, p) \/ MayJoin(room, p)
  /\ sockets' = {[s EXCEPT !.superseded = @ \/ s.player = p] : s \in sockets}
                  \cup {[player |-> p, conn |-> room.nextConn, superseded |-> FALSE]}
  /\ Becomes(ProcessJoin(Now, p), chan)

\* A connection's handler ends, for whatever reason, and calls Leave.
Leave(s) ==
  /\ sockets' = sockets \ {s}
  /\ IF room.running THEN Becomes(ProcessLeave(Now, s.player, s.conn), chan)
                      ELSE UNCHANGED <<room, chan>>

\* A message from the inbox: only the seat's current connection is listened to.
Listened(p, conn, command) ==
  /\ room.running
  /\ command \in Commands
  /\ room.clients[p] = conn
  /\ UNCHANGED sockets

RoundsLeft == room.roundGen < MaxRounds   \* the bound, not the code

Do(out) == Becomes(Apply(Touch(Now), out), chan)

StartCommand(p, conn) ==
  /\ Listened(p, conn, "start_game")
  /\ MayStart(room.game, p)
  /\ RoundsLeft
  /\ \E perm \in Perms(Len(room.game.players)) : Do(StartGame(room.game, perm))

NewGameCommand(p, conn) ==
  /\ Listened(p, conn, "new_game")
  /\ MayRestart(room.game, p)
  /\ RoundsLeft
  /\ \E perm \in Perms(Len(room.game.players)) : Do(Restart(room.game, perm))

StrokeCommand(p, conn) ==
  /\ Listened(p, conn, "stroke")
  /\ MayStroke(room.game, p)
  /\ Do(AddStroke(room.game))

EndDiscussionCommand(p, conn) ==
  /\ Listened(p, conn, "end_discussion")
  /\ MayEndDiscussion(room.game, p)
  /\ Do(EndDiscussion(room.game))

VoteCommand(p, conn, target) ==
  /\ Listened(p, conn, "cast_vote")
  /\ MayVote(room.game, p, target)
  /\ Do(CastVote(room.game, p, target, Connected(room)))

\* The deadline is evaluated again whether or not the engine took the guess.
GuessCommand(p, conn, guess) ==
  /\ Listened(p, conn, "impostor_guess")
  /\ ClientSends(room.game, p, guess)
  /\ LET r == Touch(Now)
     IN  Becomes(EvaluateGuessDeadline(
           IF MayGuess(r.game, p) THEN Apply(r, ImpostorGuess(r.game, guess)) ELSE r), chan)

VoiceCommand(p, conn) ==
  /\ Listened(p, conn, "voice")
  /\ \E present \in {room.voice \cup {p}, room.voice \ {p}} :
       Becomes([Touch(Now) EXCEPT !.voice = present], chan)

BugPostIfEmpty(channel, m, cap) == IF channel = {} THEN {m} ELSE channel

\* A non-blocking send: what does not fit is lost.
Post(channel, m, cap) == IF Cardinality(channel) < cap THEN channel \cup {m} ELSE channel

\* A timer's goroutine posts its message, or drops it if the channel is full.
FireDraw ==
  /\ room.drawSkip # NoTimer /\ "draw" \notin room.young
  /\ Becomes([Now EXCEPT !.drawSkip = NoTimer],
             [chan EXCEPT !.draw = Post(@, room.drawSkip, 1)])
  /\ UNCHANGED sockets

FireGuess ==
  /\ room.guess # 0 /\ "guess" \notin room.young
  /\ Becomes([Now EXCEPT !.guess = 0],
             [chan EXCEPT !.guess = Post(@, room.guess, 1)])
  /\ UNCHANGED sockets

FireDiscussion ==
  /\ room.discussion /\ "discussion" \notin room.young
  /\ Becomes([Now EXCEPT !.discussion = FALSE], [chan EXCEPT !.discussion = TRUE])
  /\ UNCHANGED sockets

FireReveal ==
  /\ room.reveal /\ "reveal" \notin room.young
  /\ Becomes([Now EXCEPT !.reveal = FALSE], [chan EXCEPT !.advance = TRUE])
  /\ UNCHANGED sockets

FireGrace(p) ==
  /\ room.grace[p] # 0 /\ p \notin room.young
  /\ Becomes([Now EXCEPT !.grace[p] = 0],
             [chan EXCEPT !.grace = Post(@, [player |-> p, gen |-> room.grace[p]], GraceCap)])
  /\ UNCHANGED sockets

\* The loop takes one message from a channel.
ReceiveAdvance ==
  /\ room.running /\ chan.advance
  /\ MayAdvance(room.game) /\ room.game.round < room.game.total => RoundsLeft
  /\ Becomes(IF MayAdvance(room.game) THEN Apply(Now, AdvanceRound(room.game)) ELSE Now,
             [chan EXCEPT !.advance = FALSE])
  /\ UNCHANGED sockets

ReceiveDiscussionTimeout ==
  /\ room.running /\ chan.discussion
  /\ Becomes(IF MayEndDiscussion(room.game, room.game.host)
             THEN Apply(Now, EndDiscussion(room.game)) ELSE Now,
             [chan EXCEPT !.discussion = FALSE])
  /\ UNCHANGED sockets

ReceiveGraceExpired ==
  /\ room.running
  /\ \E m \in chan.grace :
       Becomes(HandleGraceExpired(Now, m), [chan EXCEPT !.grace = @ \ {m}])
  /\ UNCHANGED sockets

ReceiveDrawSkip ==
  /\ room.running
  /\ \E m \in chan.draw : Becomes(HandleDrawSkip(Now, m), [chan EXCEPT !.draw = @ \ {m}])
  /\ UNCHANGED sockets

ReceiveGuessTimeout ==
  /\ room.running
  /\ \E m \in chan.guess :
       Becomes(HandleGuessTimeout(Now, m), [chan EXCEPT !.guess = @ \ {m}])
  /\ UNCHANGED sockets

\* The TTL passes without activity; the sweeper asks; the process shuts down.
IdlePasses ==
  /\ room.running /\ "expire" \in Commands /\ ~room.idle
  /\ Becomes([Now EXCEPT !.idle = TRUE], chan)
  /\ UNCHANGED sockets

Expire ==
  /\ room.running /\ "expire" \in Commands
  /\ HandleExpireCheck(room)
  /\ Becomes(Stop(Now), chan)
  /\ UNCHANGED sockets

Shutdown ==
  /\ room.running /\ "shutdown" \in Commands
  /\ Becomes(Stop(Now), chan)
  /\ UNCHANGED sockets

Conns == 1 .. MaxConns

Command ==
  \E p \in PlayerID, conn \in Conns :
    \/ StartCommand(p, conn)
    \/ NewGameCommand(p, conn)
    \/ StrokeCommand(p, conn)
    \/ EndDiscussionCommand(p, conn)
    \/ \E target \in PlayerID : VoteCommand(p, conn, target)
    \/ \E guess \in Guess : GuessCommand(p, conn, guess)
    \/ VoiceCommand(p, conn)

Fire == FireDraw \/ FireGuess \/ FireDiscussion \/ FireReveal \/ \E p \in PlayerID : FireGrace(p)

Receive ==
  \/ ReceiveAdvance \/ ReceiveDiscussionTimeout \/ ReceiveGraceExpired
  \/ ReceiveDrawSkip \/ ReceiveGuessTimeout

Next ==
  \/ \E p \in PlayerID : Join(p)
  \/ \E s \in sockets : Leave(s)
  \/ Command \/ Fire \/ Receive
  \/ IdlePasses \/ Expire \/ Shutdown

Spec == Init /\ [][Next]_vars

\* Timers are run by the Go runtime and the loop takes whatever is ready, so a
\* due timer fires and a queued message is taken. Players owe nothing, and no
\* phase needs a grace timer to fire.
Fairness ==
  /\ WF_vars(FireDraw) /\ WF_vars(FireGuess)
  /\ WF_vars(FireDiscussion) /\ WF_vars(FireReveal)
  /\ WF_vars(ReceiveAdvance) /\ WF_vars(ReceiveDiscussionTimeout)
  /\ WF_vars(ReceiveGraceExpired) /\ WF_vars(ReceiveDrawSkip)
  /\ WF_vars(ReceiveGuessTimeout)

FairSpec == Spec /\ Fairness

=============================================================================
