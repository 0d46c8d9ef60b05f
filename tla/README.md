# Fauxtist in TLA+

A verification project for Fauxtist, a drawing game with a hidden impostor: a Go
server with one goroutine per room, and a React client that talks to it over one
WebSocket per player. The modules model the rules engine, the room actor with its
timers and connections, the process around the rooms (requests, hub, sweepers,
shutdown), the client's connection with its sequencer, the screen its reducer makes of
the messages, and its voice mesh. TLC checks them on small instances; TLAPS proves every
safety property that a passing run checks, for every value of the constants: those of the
engine and of the room around it, both with their refinement of an abstract match, of a
player's screen, of the hub and the requests, and of the connection. Liveness is
model-checked only.

Paths are relative to the repository root (`src/` here); `internal/game` stands for
`src/internal/game`, and so on.

- [The system](#the-system)
- [Modules](#modules)
- [How the models correspond to the code](#how-the-models-correspond-to-the-code)
- [Runs](#runs)
- [Fairness](#fairness)
- [Proofs](#proofs)
- [Where code and documentation disagree](#where-code-and-documentation-disagree)
- [Not modelled](#not-modelled)
- [Plan](#plan)

## The system

| Component | State it keeps | Operations | Talks to |
|---|---|---|---|
| **Game engine** `internal/game` | phase, players, host, impostor order, round, turn, lap, votes, scores, last result, guess | `UpsertPlayer`, `RemovePlayer`, `SetHostID`, `StartGame`, `Restart`, `AddStroke`, `SkipTurn`, `EndDiscussion`, `CastVote`, `CheckVotingResolution`, `ImpostorGuess`, `ResolveImpostorTimeout`, `AdvanceRound`; pure, returns events | called by the room only; word bank for a word |
| **Room actor** `internal/room` | the engine, clients by seat, presence, seat credentials, voice list, four timers and one grace timer per seat, revision, last activity | `Run`'s select loop: joins, leaves, inbox, timer channels, expiry question, snapshot | connections (channels), hub (expiry, shutdown), clients (send channels), Go timers |
| **Room client** `internal/room/client.go` | a 32-message send channel, rate limiters | `trySend` (drops when full), `writeLoop`, `close` | room, socket |
| **Rate limits** `internal/room/ratelimit.go` | five token buckets and an abuse counter per connection | `allow` | room |
| **Validation** `internal/room/validate.go`, `internal/wsproto` | none | checks of names, strokes, text, envelopes | room, server |
| **Hub** `internal/hub` | rooms by code, under a mutex; sweeper | `CreateRoom`, `Get`, `Sweep`, `removeRoom`, `Close`; code generation | rooms, server, main |
| **Server** `internal/server` | readiness; TURN and origin settings | `createRoom`, `joinRoom` with its read loop, health, heartbeat, headers, ICE credentials | hub, rooms, sockets |
| **Heartbeat** `internal/server/heartbeat.go` | none over time | ping at an interval, close on the first ping that gets no pong in time | socket |
| **Room-creation limiter** `internal/server/roomcreatelimit.go` | token bucket per address, eviction | `allow` | server |
| **Word bank** `internal/wordbank` | categories and words | `Pick` avoiding used words | engine |
| **Identity** `internal/identity` | none | random identifiers, token hashes | hub, room |
| **Configuration, process, embedded UI** `internal/envconfig`, `cmd/fauxtist`, `internal/webui` | none over time | start-up checks, shutdown order | all |
| **Client connection** `web/src/roomConnection.js`, `sequencing.js` | current socket, retry timer, credentials, last applied revision, resyncing, fatal, stopped | `connect`, socket handlers, `scheduleRetry`, `onOnline`, `stop`, `decideSequence` | room over the socket, reducer |
| **Client reducer** `web/src/reducer.js` | the UI state | one case per message | connection, components |
| **Client voice** `web/src/useVoice.js` | WebRTC peers, generation of the call | join, leave, signal handling | room's relay, browser |
| **Components** `web/src/App.jsx`, `web/src/components` | local form state | render, send commands | reducer, connection |

What is hard, and what the properties are about:

- **Timers against the loop.** Timers run on goroutines of their own and post into
  channels that drop what does not fit. A message may be taken after the phase it was
  armed for is over, or after the player it is about came back. Generations and round
  numbers must tell stale messages from live ones, and every transition must leave the
  room with something that will move it on.
- **Presence against rules.** Who must vote, whose turn is skipped and who is host
  depend on who is connected; a disconnect may itself complete a vote.
- **Connections against seats.** A reconnect supersedes a connection whose `Leave` is
  still on its way; a grace timer fires during a reconnect; the sweeper asks whether
  the room is empty while somebody joins.
- **Rooms against the map.** A room ends on its own goroutine while a sweeper waits for
  its answer, a second sweep visits a copy of the map, and its code is given to a newer
  room; `Close` races requests that create rooms; a join may be processed by a room
  whose end its handler has already seen.
- **Two ways to a screen.** A tab that saw every message and one that got a snapshot must
  show the same; and neither way may tell an impostor the word.
- **Scores across paths.** A round is decided by evasion, a guess, or a timeout, from
  three callers; a match of rounds, and a rematch of a match, must add up.
- **Delivery.** The room drops messages for a slow client; the client has to notice
  from revisions alone, across reconnects, and never run two sockets for one seat.

What makes each component correct: *engine*: one outcome per round, everybody impostor
once, indices that stay in range. *Room*: no phase waits for nothing, presence agrees
with connections, there is a host who can act, votes close exactly when they may, each
revision belongs to one message. *Client connection*: it shows the room as it was at
one revision, never goes back, reconnects once per loss, keeps its seat. *Hub*: a code
leads to one live room, no room outlives `Close`, a deserted room goes. *Reducer*: events
lead to what a snapshot would. *Voice*: a new call starts from nothing. The hazards of `PROJECT.json` name the lines where each can go wrong.

## Modules

| Module | What it is |
|---|---|
| `Engine` | The engine's methods as pure operators: a guard `May...` for the early returns and an operator from state to `[state, events]`. No variables. |
| `Game` | The engine as a state machine: any order of the calls the room may make, with any connected set. Safety properties; the refinement mapping to `Match`. |
| `Match` | The abstract specification: a match is a sequence of rounds, each drawn, discussed, voted on and settled once with one of three outcomes; roles rotate; scores add up. It knows no turns, votes, guesses or connections. |
| `Room` | The room actor. Each method of the Go `Room` is an operator from room record to room record; each case of the select loop is an action. Sockets and timers are the environment. |
| `RoomProperties` | What must hold of a room. `Game`, and through it `Match`, is instantiated on the room's engine, so that the room is checked to run a match. |
| `View` | `Game` composed with who is connected, the content of the room's messages and snapshots, the reducer of one player's tab and what the components render. |
| `Server` | The process: request handlers, the channels between them and the rooms, the lives of the rooms, the hub's map, the sweepers, `main`. |
| `Connection` | One browser tab and its seat: sockets, retries, the sequencer, the room's send channel, resync limit, join and leave. |
| `Voice` | The room's voice list and relay, and the peer connections of the tabs that call each other. |
| `MCGame`, `MCRoom`, `MCView`, `MCServer`, `MCConnection`, `MCVoice` | Instances for TLC: symmetry, the sets of commands, bounds that are functions. |
| `EngineProofs` | Lemmas about the engine's operators: what each call keeps of a state (the inductive invariant `Inv` of the engine), and which step of the match it is. |
| `GameProofs` | The engine's theorems; `Game` implements `Match` and inherits what is proved of it. |
| `MatchProofs` | The abstract match's inductive invariant and theorems. |
| `RoomMethods` | Lemmas about the room's operators: what each method does to the record it is applied to. |
| `RoomProofs` | The room's inductive invariant and the theorems about it, its refinement of `Match` among them. |
| `ViewProofs` | The inductive invariant of a player's seat and screen, the theorems about what it shows, and the match under it. |
| `ServerProofs` | The inductive invariants of hub, sweepers and rooms, and the theorems about them. |
| `ConnectionProofs` | The inductive invariant of a tab, its sockets and its queues, and the theorems about it. |

`Room` EXTENDS `Engine` and applies its operators where the Go room calls its engine, so
a room's step is the whole handler: the engine call, the cascade of its events with the
timers they stop and arm, and the trailing re-evaluations. `View` EXTENDS `Game` and calls
the same operators, so that the engine's properties are checked in it on the way.
`Server` keeps of a room what `Room` leaves out, its channels and the goroutines at their
other end, and nothing of what `Room` has. `Connection` stands on the
result `OneRevisionEach` of `RoomProperties`: of the room it keeps the revision counter
and the seat, and each value of the counter belongs to one sequenced message.

An operator named `Bug...` is a plausible defect of the definition after it. Nothing
uses it; each property is checked to fail when one of them takes its neighbour's place.

## How the models correspond to the code

**Engine.** `State` has the fields of `game.State` that rules read. Strokes are left out
but for the turn they end; words are a correct and a wrong one, with `""` for none, since
the code takes the empty guess for "no guess yet" (`Guess`). Score and vote maps are
functions on `PlayerID`. Random choices (impostor order) are existentially
quantified. An error return is a false guard: the room sends an error and the state
stays. `AdvanceTurn`, `FinishVoting`, `BeginRound` are the internal helpers of the same
name. `EventType` keeps the events that the room reacts to, in the order it gets them.

**Game** adds two assumptions about the caller: `AdvanceRound` is called on a settled
round only (in the code its only caller is the reveal timer, armed by `RoundEnded`;
`RoomProperties!LeavesSettled` says so of the room), and, if `WebClientOnly`, guesses
come from the repository's client, which shows its form to a caught impostor and ignores
blank input (`Engine!ClientSends`, `web/src/components/Reveal.jsx`). The form stays open until
the answer comes, so that a guess may be the second one, or reach the room after the deadline
or after the round; the engine refuses it, and the room evaluates the deadline once more. Only
a guess that travels until a later round's reveal is excluded (see item 3 below for what it
would do). `MCGameFinal` drops the
second assumption and shows what the server lets through without it. `View` plays the
matches of `Game` that connections allow. The theorems of `GameProofs` are about any order of
calls, those of `ViewProofs` and `RoomProofs` about the calls that handlers make.

**Room.** `room` is the Go struct, `chan` the timer channels, `sockets` the connections
whose HTTP handler still runs. `Join` is a handler's `Room.Join` with the loop's
`processJoin`; `Leave` ends a handler, possibly long after it was superseded. The
capacities of the `joins`, `leaves` and `inbox` channels only make callers wait, and the
loop picks among its channels at random, so putting a request in a channel and taking it
out is one step. Timer channels are kept: their senders do not wait, so their capacities
decide what is lost. `young` names the timers armed since the loop last had its channels
empty; with `Prompt` they cannot fire before it has (see below). `wire` records what
a step broadcasts and `bumps` how often the revision advanced, relative to the step's
start, which is what makes the revision checkable without being a counter in the state.
`deadline.moved` is history: the guess deadline was set again in its round.

Abstractions: a rejected command is no step, except `impostor_guess`, whose rejection
re-evaluates the deadline (it also calls `touch`, but a connected player keeps the room
from expiring and its disconnect touches again). Chat, voice signals, voice state, resync
and error replies change nothing here and are left out. Rate limiting only refuses
commands. The grace channel is a set: taking its messages in any order covers the
channel's. Identifiers are those of `PlayerID`: a new join takes an unused one, and a
removed seat's is not reused by a client that still holds its credential (the code
refuses it). `connID` and `joinSeq` count from 1.

**Connection.** `tab` holds the variables `createRoomConnection` closes over; `shown`,
what the tab displays, is the set of revisions it reflects: an event adds its own, a
snapshot replaces the set by all up to its own. `sock` holds for each socket the join
frame and resync requests on their way to the room and the messages on their way back,
the send channel and the wire in one queue. `timer` distinguishes no timer, a pending
one and a spent one, because the code tests the variable, which keeps a fired timer's
handle. Every handler's `stopped || ws !== socket` is `Listens`. A socket may close at any
time for any reason; then what is in its queue is lost, but a join frame may still reach
the room, after a later socket's. The 60 s give-up is `GraceElapses`; backoff delays are
abstracted: a pending retry may fire at any time. Messages are `event` (the sequenced
types), `snapshot`, `other` (chat, voice, error: numbered but not sequenced), `accepted`
and `refused`. What `join` answers for reasons of other players (room full, match
started) is the choice to refuse. What the room broadcasts while it takes a connection in is up to five
events: presence, host, a vote's new requirement, its end and its result; they fit the code's
queue of 32 whatever `QueueCap` is. `leapt` is history: a message that changes nothing has
raised the last applied revision.

**View.** `seat` is what one viewer's screen depends on besides the match: who is connected
and who is marked away, the number of strokes, a vote on its way, and `ui`, the reducer's
state. `Snapshot` is `buildSnapshot` as `snapshotToState` takes it; `Reduce` has an operator
for each message of the match; `Rendered` is what the component of the phase reads.
A handler is one step, as in `Room`, and its messages arrive at once and in order: what loss
and delay do is `Connection`'s question, and after either a snapshot replaces the state
whole. The screen a lost connection leaves is therefore forgotten. Which connected player
becomes host is left open (`Room` determines it). The viewer's own vote travels: `send`
marks it as cast, and the room counts it later, or drops it when its connection has been
superseded (`stale`). A ballot over the limit of its connection, which would leave the mark
standing without a vote, needs 40 messages at once and is left out. Final scores are a Boolean, since they come whole with the message
that says so; words and results keep whether the viewer is told. Four divergences between
messages and snapshots are known (below, items 9 and 10). One, the error banner, is not in
the model; `Leniently` leaves out the other three, so that `ScreenFollows` compares the rest
and `ScreenIsCurrent` everything the model has.

**Server.** `handler` holds the goroutines of `joinRoom` with the ends of their connections,
`rooms` every room ever created with its channels, `registry` the hub's map, `sweeper` the
goroutines in `Sweep`, `main` the stages of `run`. The two selects of `Join` and of
`MaybeExpire` are two steps each, and where both cases may be ready either is taken.
`Hub.Get` and `Accept` are one step, as are reading the join frame and posting it: nothing
looks between them. A handler blocked on a full inbox or leaves channel has not taken the
step yet. `removeRoom` holds the lock while it takes the entry off the map; `cancel` and
`Shutdown`, which follow outside it and only signal, are in the same step. Limits, payload
checks and a full hub are a free choice to refuse (`RefusePost`); what a room answers to a join for
reasons of `Room` is a choice too. A background sweeper whose ticker is due when `Close` stops it may sweep once more, as its select
may take either case. `idle` says that `EmptyRoomTTL` has passed
since `lastActivity`. The exit of the process stops everything.

**Voice.** `tab` holds the refs of the hook for each player, `up` and `down` the messages on
their way on the tab's open socket, `client` and `present` the room's registered
connections and `voicePresent`. A peer connection is the number of the object; `remotes` are the
objects of the other tab whose descriptions it has taken. Turning voice on (microphone,
ICE configuration, `voice_join`) is one step. ICE candidates, mute and speaking are left
out: they travel like signals and decide nothing about who is connected to whom.

## Runs

| Run | Module | Instance | Question |
|---|---|---|---|
| `MCView` | View | 3 players, 2 laps, unbounded rematches | Does a tab show what a snapshot would, whichever way it came there? Does an impostor ever learn its word? Is the engine safe, and does it implement `Match`? |
| `MCRoomPlay` | RoomProperties | 2 players, 3 connections, 2 rounds, prompt loop, messages recorded | In a whole match with disconnects: are drawing and reveal always covered by a timer or message, does the announced deadline stand, do votes close exactly when complete, does each message have its revision? |
| `MCRoomSlow` | RoomProperties | 2 players, 3 connections, 3 rounds, rematches, slow loop | With timers firing behind the loop's back and stale messages piling up, into a rematch: does a vote wait for nobody, does any timer outlive its phase, is no reveal left unsettled, is it still a match? |
| `MCRoomChurn` | RoomProperties | 3 players, 4 connections, lobby, start, voice, expiry, shutdown | Joins, leaves, superseding reconnects, grace and the room's end: do presence, clients, seats, voice list and host agree? Does expiry strand anybody? |
| `MCRoomLive` | RoomProperties | 2 players, fair | Do discussion, reveal and an absent drawer's turn end without anybody's help? |
| `MCConnection` | Connection | 3 sockets, 6 revisions, queue of 3, 1 resync token | Does the tab show one revision, never go back, race no retry, take one seat, stay away when told to? |
| `MCServer` | Server | 1 code, 2 rooms in turn, 1 connection, 2 sweepers, fair | Does the code lead to live rooms only, and never lose a newer one? Has every client a handler? Does a clean exit forget no room? Is a deserted room reaped? |
| `MCGameFinal` | Game | guesses from any client | Violated: a round's points are final. |
| `MCConnectionOnline` | Connection | as `MCConnection` | Violated: an online event keeps a connection that is up. |
| `MCConnectionTalk` | Connection | as `MCConnection` | Violated: nothing is applied across a gap. |
| `MCViewRounds` | View | as `MCView` | Violated: messages lead to the whole screen a snapshot gives. |
| `MCVoice` | Voice | 2 players, 2 connections and 2 objects each | Violated: whoever joins a call anew finds no leftovers of the last one. |

**Bounds.** *Players:* the code has 4 to 8; the minimum is a constant that no rule but
`start_game` reads, so smaller matches obey the same rules. Rules that tell roles apart (votes, plurality,
impostor rotation, host migration between two others) are checked with three, in `MCView`
with nobody away in a match of three and anybody away in a match of two; the room's
timers and channels concern one drawer, one impostor and one grace timer per player, so
with two players every pair of roles occurs, and the lobby run has three. The
proofs about the engine have no bound on players. *Laps:* the code has 2, and so has
`MCView`; room runs use 1, as `MCView` and the proofs cover laps. *Connections:* three for two players lets
each one connect and one be superseded or return; four for three, likewise; the first
connection of a seat may outlive the second's acceptance. *Rounds:* two make a match of
two players, so the third is a rematch's (`MCRoomSlow`). *Capacities:* draw and guess channels hold
one message as in the code; the grace channel holds as many as there are players, the
code's relation (8 and 8). *Connection:* three sockets let a replaced socket
and a failed one precede the current one; a queue of 3 overflows while a resync is
on its way (the code's 32 needs a longer burst of the same kind); one token
makes the limiter refuse the second resync (the code's 5). *Server:* one code makes the
second room take over the first's; two sweepers are what it takes for a removal to come
late; a deserted room needs one connection. What needs two connections, a superseded one
and one that joins while the other leaves, is covered by the proofs, whose bounds are
arbitrary, and was checked once with two (9.9 million states without liveness; 65 thousand with it, for one
room and one sweeper). *Voice:* the counterexample needs two connections of one tab.
Runs turn deadlock checking off
where the bounds or a stopped room leave nothing to do; `MCView` does not need to.

**Prompt.** The draw and guess channels hold one message, and a timer that finds its
channel full loses its message: if the loop did not come round between one timer's message
and the expiry of a timer armed later, a turn could wait for good. The shortest timer runs for
seconds and the loop never blocks, so `DrawerCovered`, `RevealCovered` and the liveness
properties are claimed of a loop that drains its channels before a timer armed meanwhile
fires (`Prompt = TRUE`). Everything in `MCRoomSlow` is claimed without.

**Mutants.** Every property of a passing run is violated, in the same instance, when a
named definition is replaced by its `Bug...` neighbour (`PROJECT.json`, "mutants").

## Fairness

`Room!FairSpec` assumes weak fairness of the timers that drive phases and of the loop's
receives: an armed timer fires because the Go runtime runs it, and a queued message is
taken because the loop blocks on nothing and select picks among ready cases at random.
Nothing is assumed of players, of connections, or of grace timers. Voting has no timeout
in the code, so a vote is not claimed to end.

`Server!FairSpec` assumes weak fairness of every goroutine that can go on: handlers that
wait in `Join` or have to leave, the heartbeat of a connection whose peer is gone, the closing
handshake (which the library bounds in time), each case of a room's select, the idle clock, the
background sweeper's ticker, a sweep under way, and the steps of the shutdown. Nothing is
assumed of players, requests, signals or other callers of `Sweep`. A handler that cannot get rid
of its `Leave` because the room has stopped is not claimed to return.

`Connection` claims no liveness: after a
lost resync request the tab recovers only when the room's next event shows the gap again,
and nothing makes the room have one.

## Proofs

The proofs hold for every value of the constants that satisfies the assumptions named in the
modules: in `Engine` a player and a lap at least and `Nobody` no player, in `Room`
that timers are not players. Three hypotheses are stated where they are needed and nowhere else:

- `WebClientOnly`, by what speaks of outcomes and of the timers of a reveal, because of the first
  three disagreements below. It allows guesses that come too late or twice.
- `Prompt`, by three theorems about the room, as by the runs (see [Runs](#runs)).
- `MaxPlayers \in 1 .. GraceCap`, by `DisconnectsAreRemembered`: the grace channel has
  room for a message of every player (8 and 8 in the code).

**The engine** (`EngineProofs`, `GameProofs`). The properties are not inductive by themselves. That the
turn names a seat needs a roster that nobody changes once a match has started, hence
distinct seats and the assigned roles; that a round is settled with one of three outcomes
needs to know where the guess stands when the reveal begins and during it. The inductive
invariant `Inv` is the conjunction of the type, distinct seats (`SeatsDistinct`), assigned
roles (`RolesAssigned`), a turn in range (`TurnValid`), votes of seats only and none before the
vote is open (`VotesValid`), the strengthening `NotStale` (no
round and no points in the lobby, no guess before its reveal, the recorded guess is that of
the round on show) and, if `WebClientOnly`, the verdict on the recorded points.
`EngineProofs` has one lemma per engine operation, about states and not about variables, so that
`Room` and `View`, which apply the same operators, rest on them too. `InvIsInvariant` combines
them for `Game`; the named properties follow:

- `TypeCorrect`: `TypeOK`. `SeatsStayDistinct`: nobody holds two seats.
- `RolesStayFixed`: the impostor order is a permutation of the roster and the impostor
  is the one it names. `TurnStaysInRange`: the drawer exists.
- `SettledOnce`: a round's points are those of exactly one outcome.

**The abstract match** (`MatchProofs`). `IInvIsInvariant`; from it `RolesAreOnce` (each
round has an impostor who was none before), `ScoresAreBounded` (scores are explained by
the decided rounds) and `EverybodyWasImpostor` (a match ends only when all were).

**Refinement** (`GameProofs`). `EngineImplementsMatch`: under the mapping of
`StageOf` and `PastImpostors`, the engine's initial states are initial and each of
its steps is a step of `Match` or a stutter (`MatchStep` of two states). `EngineScoreBound` and
`EngineEverybodyWasImpostor` are inherited: the theorems of `MatchProofs`
hold of the engine because it implements `Match`.

**The room** (`RoomMethods`, `RoomProofs`), for any number of players, connections and rounds and
any capacity. A handler composes methods; `RoomMethods` says of each method which parts of
the record it changes and to what, and `RoomProofs` composes that into seventeen kinds
of steps (`Kind`), each from the room `u` a handler starts with to the room `t` it leaves.
The invariant has five parts, each kept by every kind:

- `Structure`: the type; each seat's client, presence, roster entry, voice entry and generation
  agree; a host is there for whoever is connected; each seat's client is the connection of the
  one handler that is not superseded; the messages of a step have its revisions (`Numbered`);
  channels hold what they can. It rests on nothing, and gives `TypeCorrect`, `RevisionsAreSent`,
  `PresenceStaysConsistent`, `HostStaysAlive`, `SeatFollowsLatestSocket`,
  `VoicePeersStayConnected` and the action property `NobodyStranded`. That a host exists needs
  the whole order of a join: the engine's roster, the client, presence, migration.
- `GraceAgrees` adds what is in the grace channel: at most one message per player, of a seat that
  exists, and none beside an armed timer but one armed since the channel was last drained. Without
  that a message could meet a full channel and be lost. It gives `DisconnectsAreRemembered`.
- `DrawAgrees`: a skip timer waits for the running drawer; with `Prompt`, a message beside an
  armed timer means that the timer is young, so that what it will send fits. It gives
  `AbsentDrawerIsCovered`, and its part of `TimersStayInPhase`.
- `VotesAgree`: the re-evaluation after every vote and every change of presence leaves open
  only a vote that waits for somebody. It gives `VotesAreAwaited` and, with the step,
  `VotesCloseComplete`.
- `HoldsAgree`, of the reveal's two timers: the hold runs, or its message waits, only in a
  settled round; the guess timer runs only while its round's guess is awaited; a message of this round
  waits only after its timer went off; round numbers grow. Each half needs the other: the
  hold must not end a round whose guess is awaited, and a deadline must not be set for a round
  that is over. It gives `TimersStayInPhase`, `DeadlinesStand`, `RoundsAreSettled` and, with
  `Prompt`, `RevealsAreCovered`.

The same lemmas say which step of the match a step of the room is: `RoomImplementsMatch`.
`RoundsAreSettled` discharges what `Game` assumes of its caller, so the theorems of `Game`
are about the calls this room makes.

**The screen** (`ViewProofs`), for any number of players, laps and rematches. `ViewSound` proves the
inductive invariant `VInv` of match, seat and screen. A
screen does not follow from the match alone, but from the messages since the last snapshot;
`Follows` says what it owes at every moment: the lists of players, absences and host (`Lists`),
phase, round, role, turn, strokes, result and end (`Plays`), counts that are current or
not told yet (`Counts`), and the viewer's own mark (`Marks`), which is the room's or that of a vote
on its way. That vote is why the invariant must look ahead (`Pending`): it will be counted because
the phase cannot end without it. In the middle of a handler less holds: while a change
of presence is being told, the lists of the lobby and the counts lag behind (`Fits`), and the
lemmas say which of its messages puts each right. One lemma per message, one per
call with its cascade of messages (`ApplyOne` to `ApplyThree`), one per handler.

- `ScreensFollow`, `ImpostorsAreNotTold`, from `VInv`, without assumptions.
- `ViewKeepsRules`, `ViewSettlesOnce`: the engine's properties under connections that come and go.
- `ViewImplementsMatch`: each handler is one step of `Match` or none; `ViewScoresAddUp` is
  inherited from it.

**The hub** (`ServerProofs`), for any sets of codes, seats, handlers and sweepers and all
capacities (`ServerAssumption`: the background sweeper is one, capacities are positive).
Neither `NoDeadEntry` nor `NewerRoomKept` is inductive. That a room on the map runs unless
a sweeper knows better (`Listed`) needs to know where its answer goes: whoever is in
the question channel waits for it and has none yet (`Asked`), and the one who waits or
removes has an answer that is true (`Answered`). That a removal takes the right room needs that a
room has one code, also in the copies that sweeps go through (`OneCode`), and that what `Close` is
stopping is off the map (`Doomed`). `IInv` is their conjunction with the type `Typed`;
`HubSound` proves it with one lemma per action or group of actions that leave it alone. On
top of it:

- `NoDeadEntryHolds` and `NewerRoomKeptHolds`, from `IInv`.
- `CleanExitHolds`, from `Accounted`: a room that goes on is on the map or among those
  `Close` goes through, and once the requests are drained none appears.
- `ClientsWillLeaveHolds`, from `Attended`: whoever is in the joins channel waits there,
  and whoever is registered reads, has been accepted, or has posted its `Leave`.
- `ServerTyped`: that no channel holds more than its capacity needs to know who is in it: the
  posts of handlers (`InPosts`), the rooms' channels (`InRooms`) and where each handler is (`Placed`).

**The connection** (`ConnectionProofs`), for any number of sockets and revisions, any length of
the send channel and any burst of resyncs (`ConnectionAssumption`: all are positive).
`ShowsOneRevision` and `NeverBack` speak of the tab, but what a delivery does to it depends on
what is in the queue, and what is there on what the room had sent when the socket was
accepted. `IInv` therefore relates the two ends: the numbers in a queue do not decrease, none is
newer than the room, and none of the current socket's is older than what the tab has applied
(`Delivered`); the next socket is one that nothing has been sent on (`Fresh`); a retry is
pending only for a closed socket and never after a final answer or a stop (`Retrying`); all seats
are one (`Seated`). With the type `Typed` and `ShowsOneRevision` itself that is inductive: `ConnectionSound`,
with lemmas about queues first, then one for each action. On top of it:

- `ConnectionTyped`, `OneAttemptHolds`, `OneSeatHolds` and `ShowsOneRevisionHolds`, from `IInv`.
- `NeverBackHolds`: a delivery is no older than what was applied, by `Delivered`; no other
  step touches what was applied.
- `FatalIsFinalHolds`: by `Retrying` neither a retry nor an online event can open a socket.

**Only model-checked:** liveness, which the prover cannot do (`DiscussionEnds`, `RevealEnds` and
`AbsentDrawerSkipped` of the room, `DesertedIsReaped` of the hub), and the counterexamples of
the five runs that expect one; the voice mesh has no theorem.

## Where code and documentation disagree

A run shows those that name one.

1. `Engine.ImpostorGuess` (`internal/game/engine.go:415`) does not ask whether the
   impostor was caught. An uncaught impostor may guess during the reveal hold and is scored
   again, although engine.go:341-342 calls the result final. The web client never sends such a
   guess. (`MCGameFinal`)
2. `guessAlreadyResolved` (engine.go:464) takes an empty guess for none. A
   blank guess is scored as wrong (as validate.go:136-139 wants) and leaves the guess
   open to another guess or the timeout. The web client never sends a blank one. (`PointsAreFinal`
   of `MCGameFinal` fails for it as well.)
3. `evaluateGuessDeadline` runs after every `impostor_guess`, also a rejected one, from
   anybody (`internal/room/room.go:261`), and arms a full deadline again while a guess is
   awaited. With guesses from the web client alone it never does, late and repeated ones
   included: `DeadlineStands` in `MCRoomPlay`.
4. `onOnline` (`web/src/roomConnection.js:195`) tests `timer`, which keeps the handle of a
   timer that fired. After one retry every online event replaces a connection that is
   up. (`MCConnectionOnline`)
5. `roomConnection.js:174` takes over the revision of every message, chat, voice and error
   messages included, while docs/protocol.md has only sequenced ones take part. One
   that follows a dropped event hides the gap; `GapsNotApplied` fails. That this is the
   only way is `ShowsOneRevision`, which holds of tabs that have not leapt. (`MCConnectionTalk`)
6. docs/protocol.md:92-98 says the revision advances exactly once per accepted change,
   however many messages it cascades into. The code advances it once per sequenced
   message (`broadcastSequenced`), and its comments say why; so does `OneRevisionEach`.
7. docs/protocol.md has a gap drop further *sequenced* messages; `roomConnection.js:173`
   drops chat and voice messages too until the snapshot comes.
8. `join.go:165` expects no credential without a player; `timers.go:41` leaves
   one behind when it removes a player. The reconnect is refused, as it should be.
9. `round_started` has no number of rounds (`internal/room/broadcast.go:97-102`), and the
   snapshot of a lobby has the 1 the engine was made with (`internal/room/room.go:91`), since
   only `StartGame` counts the players: who saw the first match begin reads "Round n/1"
   (`web/src/components/GameBoard.jsx:11`) until the next snapshot, although
   reducer.js:11-13 wants no screen to mix two snapshots. (`MCViewRounds`)
10. `Reveal.jsx:10` counts down to the deadline in the result, which `round_result` has and
   a snapshot's last result has not: after a reconnect the caught impostor sees no countdown.
   Until the first `vote_update` after the phase changed, the counts of a vote read 0 of 0.
   (Both are left out of `ScreenFollows`; `ScreenIsCurrent` has them.) An error shown during a
   match (`App.jsx:93`) is cleared by a snapshot and by nothing else (reducer.js:81-82 and
   136-137): who got one keeps it until then, who reconnects loses it.
11. `processJoin` (`internal/room/join.go:118`) leaves the voice list alone when a
   reconnect supersedes a connection, and the late `Leave` returns early, so that nobody is told
   `voice_peer_left`; `web/src/useVoice.js:138-139` relies on that. The tab joins the call anew
   while its peers keep the connection object of the earlier one. (`MCVoice`)
12. `lifecycle.go:61-64` says that the channel of `Stopped` is closed once the actor has fully
   stopped, for the hub to wait on in a shutdown. `Shutdown` closes it from outside before the actor
   has seen anything, and `Hub.Close` waits for no room: `main` may exit before the rooms
   have closed their clients. `CleanExit` therefore says "ended or told to".

## Not modelled

- **Room-creation limiter, token buckets, backoff**: rates over time. In the models they
  are the choice to refuse a request (`Server!RefusePost`), the resync bucket of `Connection`
  that refills at any time, a flooding connection that is closed (`Server!Handle`), a retry that may
  fire at any time. Eviction of the limiter's entries has no effect but on memory.
- **Validation**: the checks of names, emoji, strokes, chat and guesses are pure, and a payload
  they reject is no step. `validateVoiceSignal`, which reads the room's state, is in `Voice`.
- **Wire format, identity, configuration, word bank**: encoding and decoding, random
  identifiers and hashes, start-up checks, a choice among words. No state that a rule
  reads; fresh identifiers, exact token matches and a word for each round are assumed.
- **HTTP headers, origins, TURN credentials, health, embedded files**: input and output without state.
- **Chat, canvas, countdowns, layout, sound**: relays and rendering of what `View` has. Of the
  components `View` keeps which fields a phase's screen reads and when it offers a command.
- **ICE candidates, microphone, mute and speaking**: see `Voice` above. The browser's WebRTC is
  modelled by how `useVoice.js` uses it.

## Plan

Done: the engine, its abstract match, the room actor, the connection, the
process and the screen, each with proofs of all the safety properties its runs check; the voice
mesh. What is left, in this order:

1. Of the voice mesh, an invariant of what does hold of it besides the leftovers its run shows.
2. The quantitative parts as functions against reference definitions: token buckets with
   refill and eviction, code generation.
