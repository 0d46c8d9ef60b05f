--------------------------- MODULE RoomProperties ---------------------------
(***************************************************************************)
(* What must hold of a room whatever its players, their connections and    *)
(* its timers do.                                                          *)
(***************************************************************************)
EXTENDS Room

Presence == [known : BOOLEAN, connected : BOOLEAN, gen : Nat, joinSeq : Nat,
             expired : BOOLEAN]

\* What the room sends, by whether sending it uses a revision.
BumpedType  == {"round_started", "turn_changed", "stroke_broadcast", "phase_changed",
                "vote_update", "round_result", "game_over", "host_changed",
                "player_presence_changed", "player_left", "lobby_update"}
Unsequenced == {"state_snapshot"}

Message == [type : BumpedType \cup Unsequenced, seq : Nat]

TypeOK ==
  /\ room.game \in State
  /\ room.clients \in [PlayerID -> 0 .. MaxConns]
  /\ room.presence \in [PlayerID -> Presence]
  /\ room.seats \subseteq PlayerID /\ room.voice \subseteq PlayerID
  /\ {room.nextConn, room.nextJoinSeq, room.roundGen, room.guess, room.bumps} \subseteq Nat
  /\ room.grace \in [PlayerID -> Nat]
  /\ room.drawSkip \in [player : PlayerID \cup {Nobody}, gen : Nat]
  /\ room.deadline \in [gen : Nat, moved : BOOLEAN]
  /\ {room.discussion, room.reveal, room.idle, room.running} \subseteq BOOLEAN
  /\ room.young \subseteq Timer
  /\ room.wire \in Seq(Message)
  /\ chan.advance \in BOOLEAN /\ chan.discussion \in BOOLEAN
  /\ chan.grace \subseteq [player : PlayerID, gen : Nat]
  /\ chan.draw \subseteq [player : PlayerID, gen : Nat]
  /\ chan.guess \subseteq Nat
  /\ Cardinality(chan.grace) <= GraceCap
  /\ Cardinality(chan.draw) <= 1 /\ Cardinality(chan.guess) <= 1
  /\ sockets \subseteq [player : PlayerID, conn : 1 .. MaxConns, superseded : BOOLEAN]

-----------------------------------------------------------------------------
(* Seats, presence and the host.                                           *)

\* The registered clients, the presence table and the roster, which processJoin,
\* processLeave, the grace timer and the engine update separately, agree: grace
\* expiry never removes somebody who came back while its message was on its way,
\* and the skip timer and host migration of a match see every player (a host that
\* never connected has no presence entry, but nobody else can start the match).
PresenceConsistent ==
  /\ \A p \in PlayerID : room.presence[p].connected <=> room.clients[p] # NoConn
  /\ Connected(room) \subseteq Roster(room.game)
  /\ room.game.phase # "lobby" => \A p \in Roster(room.game) : room.presence[p].known

\* Whenever somebody is connected the host can still act or is being waited
\* for: it is on the roster and either connected, within its grace period, or
\* yet to connect for the first time.
HostAlive ==
  room.running /\ Connected(room) # {} =>
    /\ room.game.host \in Roster(room.game)
    /\ room.presence[room.game.host].expired => room.presence[room.game.host].connected

\* A disconnect is never forgotten: until its grace period is declared over, a
\* timer or a message of this very disconnect is under way.
GraceCovered ==
  room.running =>
    \A p \in PlayerID :
      LET pres == room.presence[p]
      IN  pres.known /\ ~pres.connected /\ ~pres.expired =>
            room.grace[p] = pres.gen \/ [player |-> p, gen |-> pres.gen] \in chan.grace

\* The seat is registered to the latest connection it accepted for exactly as
\* long as that connection's handler runs: a reconnect takes the seat over at
\* once, and the late Leave of the connection it replaced evicts nobody.
LatestSocketRegistered ==
  room.running =>
    \A p \in PlayerID :
      {s.conn : s \in {t \in sockets : t.player = p /\ ~t.superseded}}
        = {room.clients[p]} \ {NoConn}

\* Nobody is listed as a voice peer without a connection to signal over.
VoicePeersConnected == room.voice \subseteq Connected(room)

-----------------------------------------------------------------------------
(* No phase waits for nothing.                                             *)

\* While somebody is connected and the drawer is not, a skip for this drawer
\* and this absence is armed or on its way.
DrawerCovered ==
  room.running /\ room.game.phase = "drawing" /\ Connected(room) # {} =>
    LET d    == Drawer(room.game)
        skip == [player |-> d, gen |-> room.presence[d].gen]
    IN  room.presence[d].connected \/ room.drawSkip = skip \/ skip \in chan.draw

\* A vote that still runs waits for somebody who is connected and has not
\* voted, or for anybody to connect.
VotingCovered ==
  room.running /\ room.game.phase = "voting" =>
    \/ Connected(room) = {}
    \/ \E p \in Connected(room) : ~HasVoted(room.game, p)

\* A reveal waits for the guess deadline of its own round, or for the hold that
\* leads to the next round, and never for both or for an earlier round's.
RevealCovered ==
  room.running /\ room.game.phase = "reveal" =>
    IF AwaitingGuess(room.game)
    THEN /\ room.guess = room.roundGen \/ room.roundGen \in chan.guess
         /\ ~room.reveal /\ ~chan.advance
    ELSE room.reveal \/ chan.advance

\* A timer is armed only in the phase it was armed for: none is left behind to
\* act on a later round or a later match.
TimersMatchPhase ==
  /\ room.discussion => room.game.phase = "discussion"
  /\ room.reveal => Settled(room.game)
  /\ room.guess # 0 => AwaitingGuess(room.game) /\ room.guess = room.roundGen
  /\ room.drawSkip # NoTimer =>
       room.game.phase = "drawing" /\ Drawer(room.game) = room.drawSkip.player

\* The deadline announced to the players when the guess was opened is the one
\* that counts: nothing sets it again while it runs, as long as guesses come from
\* the web client. (A blank one, which that never sends, does set it again.)
DeadlineStands == AwaitingGuess(room.game) => ~room.deadline.moved

-----------------------------------------------------------------------------
(* The match the room runs.                                                *)

G == INSTANCE Game WITH game <- room.game

\* Whatever handlers interleave, the players see a match as Match promises it:
\* composite handlers that add, remove, promote and resolve in one step too.
ImplementsMatch == G!ImplementsMatch

\* A round is left only after it was settled.
LeavesSettled ==
  [][room.game.phase = "reveal" /\ room'.game.phase # "reveal" => Settled(room.game)]_vars

\* A vote is closed only by a step after which every connected player of the
\* roster has voted, and somebody is connected.
ClosesComplete ==
  [][room.game.phase = "voting" /\ room'.game.phase # "voting" =>
       /\ Connected(room') # {}
       /\ \A p \in Connected(room') : HasVoted(room'.game, p)]_vars

-----------------------------------------------------------------------------
(* Revisions.                                                              *)

Sequenced(wire) == {i \in 1 .. Len(wire) : wire[i].type \notin Unsequenced}

\* The sequenced messages of a step carry the revisions the step used, each
\* exactly one: none shared (the client would drop the second as a duplicate),
\* none skipped (it would see a gap and resync). A snapshot carries the revision
\* of the last sequenced message sent before it.
OneRevisionEach ==
  LET wire == room.wire
  IN  /\ {wire[i].seq : i \in Sequenced(wire)} = 1 .. room.bumps
      /\ \A i, j \in Sequenced(wire) : i < j => wire[i].seq < wire[j].seq
      /\ \A i \in 1 .. Len(wire) :
           wire[i].type = "state_snapshot" =>
             /\ wire[i].seq <= room.bumps
             /\ \A j \in Sequenced(wire) : j < i <=> wire[j].seq <= wire[i].seq

-----------------------------------------------------------------------------
(* Stopping.                                                               *)

\* An idle room never expires under the handler of a seat's latest connection: the
\* sweeper's question, joins and the last Leave are ordered by the loop, not by
\* their callers.
ExpiryStrandsNobody == [][Expire => \A s \in sockets : s.superseded]_vars

-----------------------------------------------------------------------------
(* Liveness: no player has to be there for the room to move on.            *)

\* A drawing that somebody watches and whose drawer is away.
DrawerAway ==
  room.game.phase = "drawing" /\ Connected(room) # {}
    /\ ~room.presence[Drawer(room.game)].connected

DiscussionEnds == room.game.phase = "discussion" ~> room.game.phase # "discussion"

RevealEnds == room.game.phase = "reveal" ~> room.game.phase # "reveal"

AbsentDrawerSkipped == DrawerAway ~> ~DrawerAway

=============================================================================
