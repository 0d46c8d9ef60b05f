------------------------------ MODULE Connection ------------------------------
(***************************************************************************)
(* One browser tab and its room (web/src/roomConnection.js,                *)
(* web/src/sequencing.js): sockets that open, fail and are replaced, the   *)
(* retry timer, the online event, the messages the room queues for the     *)
(* seat's registered connection and the sequencer that decides which of    *)
(* them to apply.                                                          *)
(*                                                                         *)
(* The room is what RoomProperties!OneRevisionEach makes of it: a counter, *)
(* each of whose values one sequenced message carries. What the tab shows  *)
(* is the set of revisions it reflects; a snapshot replaces the set. Chat, *)
(* voice and error messages ("other") carry the revision current when they *)
(* are sent, as every message does (Room.stamp), but change nothing.       *)
(*                                                                         *)
(* An operator whose name starts with Bug is the one after it with a       *)
(* plausible defect; nothing uses it.                                      *)
(***************************************************************************)
EXTENDS Naturals, Sequences, FiniteSets

CONSTANTS
  QueueCap,      \* messages a connection's send channel holds (32 in the code)
  ResyncBurst,   \* resync requests a connection may make at once (5 in the code)
  MaxSockets,    \* bound: sockets the tab opens
  MaxRevision    \* bound: revisions of the room

ASSUME ConnectionAssumption ==
  {QueueCap, ResyncBurst, MaxSockets, MaxRevision} \subseteq Nat \ {0}

VARIABLES
  tab,    \* the variables createRoomConnection closes over, and what is shown
  sock,   \* the sockets opened so far, by number; ws is one of them
  room    \* the room, as far as this player's seat goes

vars == <<tab, sock, room>>

Socket == 1 .. MaxSockets
Stage  == {"unused", "connecting", "open", "closed"}
Status == {"connecting", "reconnecting", "resyncing", "connected", "failed"}

ByName == 0   \* what creds hold before a seat was learned

\* A socket: its stage for the tab, the join frame and resync requests on their
\* way to the room, the messages on their way back, the resync tokens left.
Unused == [stage |-> "unused", join |-> {}, resyncs |-> 0, down |-> <<>>,
           tokens |-> ResyncBurst]

Types == {"event", "snapshot", "other", "accepted", "refused"}

Message(type, n) == [type |-> type, seq |-> n]   \* n of an accepted: its seat

Push(s, m) ==
  IF s.stage = "open" /\ Len(s.down) < QueueCap THEN [s EXCEPT !.down = Append(@, m)] ELSE s

-----------------------------------------------------------------------------
(* Sockets and retries.                                                    *)

MayConnect(t) == t.opened < MaxSockets   \* the bound, not the code

BugListens(n) == ~tab.stopped

\* Every handler of a socket first asks whether it is still the one that counts.
Listens(n) == tab.ws = n /\ ~tab.stopped

\* connect(): a new socket becomes the one whose events count.
Connect(t) ==
  /\ MayConnect(t)
  /\ tab' = [t EXCEPT !.opened = @ + 1, !.ws = t.opened + 1]

Connecting(s, n) == [s EXCEPT ![n].stage = "connecting"]

\* scheduleRetry: gives up once the grace period since the first failure is over.
ScheduleRetry(t) ==
  IF t.late THEN [t EXCEPT !.failing = TRUE, !.status = "failed"]
  ELSE [t EXCEPT !.failing = TRUE, !.timer = "pending",
                 !.status = IF t.everConnected THEN "reconnecting" ELSE "connecting"]

BugOnCloseRetrying(t) == ScheduleRetry(t)

OnClose(t) == IF t.fatal THEN [t EXCEPT !.status = "failed"] ELSE ScheduleRetry(t)

Init ==
  /\ \E creds \in {ByName, 1} :
       /\ tab = [ws |-> 1, opened |-> 1, timer |-> "none", fatal |-> FALSE,
                 stopped |-> FALSE, leapt |-> FALSE,
                 everConnected |-> FALSE, failing |-> FALSE, late |-> FALSE,
                 creds |-> creds, status |-> "connecting", seen |-> FALSE, last |-> 0,
                 resyncing |-> FALSE, shown |-> {}]
       /\ room = [open |-> TRUE, revision |-> 0, seats |-> {creds} \ {ByName},
                  issued |-> creds, conn |-> 0]
  /\ sock = Connecting([n \in Socket |-> Unused], 1)

\* The retry timer fires. The variable keeps the spent timer.
Retry ==
  /\ tab.timer = "pending"
  /\ Connect([tab EXCEPT !.timer = "spent"])
  /\ sock' = Connecting(sock, tab'.ws)
  /\ UNCHANGED room

BugOnOnlineKeepingTimer(t) == t

\* What onOnline does to the timer before it connects.
OnOnline(t) == [t EXCEPT !.timer = "none"]

Online ==
  /\ ~tab.fatal /\ ~tab.stopped /\ tab.timer # "none"
  /\ Connect(OnOnline(tab))
  /\ sock' = Connecting(sock, tab'.ws)
  /\ UNCHANGED room

\* Only the current socket's onopen sends a join frame.
Open(n) ==
  /\ sock[n].stage = "connecting" /\ room.open
  /\ sock' = [sock EXCEPT ![n].stage = "open",
                          ![n].join = IF Listens(n) THEN {tab.creds} ELSE {}]
  /\ UNCHANGED <<tab, room>>

Closed(s, n) == [s EXCEPT ![n] = [Unused EXCEPT !.stage = "closed", !.join = s[n].join]]

\* A socket fails to open, breaks or is closed by the room: what was on its way
\* to the tab is lost, a join frame may still reach the room. A room that closes
\* its connections does so with a code that tells the tab not to come back.
Close(n, code) ==
  /\ sock[n].stage \in {"connecting", "open"}
  /\ code = "fatal" => ~room.open /\ sock[n].stage = "open"
  /\ sock' = Closed(sock, n)
  /\ tab' = IF Listens(n) THEN OnClose([tab EXCEPT !.fatal = @ \/ code = "fatal"]) ELSE tab
  /\ UNCHANGED room

\* The page is left, or another room entered.
Stop ==
  /\ ~tab.stopped
  /\ tab' = [tab EXCEPT !.stopped = TRUE, !.timer = IF @ = "pending" THEN "spent" ELSE @]
  /\ sock' = Closed(sock, tab.ws)
  /\ UNCHANGED room

\* More than the grace period has passed since the first failure.
GraceElapses ==
  /\ tab.failing /\ ~tab.late
  /\ tab' = [tab EXCEPT !.late = TRUE]
  /\ UNCHANGED <<sock, room>>

-----------------------------------------------------------------------------
(* Messages that reach the tab.                                            *)

BugDecideSequenceTrusting(t, m) ==
  CASE m.type = "snapshot" -> "apply-snapshot"
    [] m.type = "event" /\ t.seen /\ m.seq <= t.last -> "duplicate-or-old"
    [] OTHER -> "apply"

DecideSequence(t, m) ==
  CASE m.type = "snapshot" ->
         IF t.seen /\ m.seq < t.last THEN "stale-snapshot" ELSE "apply-snapshot"
    [] m.type = "event" /\ t.seen /\ m.seq <= t.last -> "duplicate-or-old"
    [] m.type = "event" /\ t.seen /\ m.seq > t.last + 1 -> "gap"
    [] OTHER -> "apply"

\* A snapshot ends a resync and makes the connection count as stable.
ApplySnapshot(t, m) ==
  [t EXCEPT !.last = m.seq, !.seen = TRUE, !.resyncing = FALSE, !.everConnected = TRUE,
            !.failing = FALSE, !.late = FALSE, !.leapt = FALSE, !.shown = 1 .. m.seq,
            !.status = "connected"]

OnGap(t) == [t EXCEPT !.resyncing = TRUE, !.status = "resyncing"]

\* Dropped mid-resync until the fresh snapshot lands. The revision of any message
\* is taken over; leapt says that one which changes nothing has raised it.
ApplyMessage(t, m) ==
  IF t.resyncing THEN t
  ELSE [t EXCEPT !.last = m.seq, !.seen = TRUE,
                 !.shown = IF m.type = "event" THEN @ \cup {m.seq} ELSE @,
                 !.leapt = @ \/ (m.type = "other" /\ m.seq > t.last)]

OnMessage(t, m) ==
  CASE m.type = "accepted" -> [t EXCEPT !.creds = m.seq]
    [] m.type = "refused"  -> [t EXCEPT !.fatal = TRUE]
    [] m.type \in {"snapshot", "event", "other"} ->
         CASE DecideSequence(t, m) = "apply-snapshot" -> ApplySnapshot(t, m)
           [] DecideSequence(t, m) = "gap"            -> OnGap(t)
           [] DecideSequence(t, m) = "apply"          -> ApplyMessage(t, m)
           [] OTHER                                   -> t

AsksResync(t, m) == m.type = "event" /\ DecideSequence(t, m) = "gap"

Deliver(n) ==
  /\ sock[n].stage = "open" /\ sock[n].down # <<>>
  /\ LET m == Head(sock[n].down)
     IN  /\ tab' = IF Listens(n) THEN OnMessage(tab, m) ELSE tab
         /\ sock' = [sock EXCEPT ![n].down = Tail(@),
                                 ![n].resyncs = IF Listens(n) /\ AsksResync(tab, m)
                                                THEN @ + 1 ELSE @]
  /\ UNCHANGED room

-----------------------------------------------------------------------------
(* The room.                                                               *)

RevisionsLeft(n) == room.revision + n <= MaxRevision   \* the bound, not the code

\* Every change bumps the revision and is sent to whoever is registered.
Broadcast ==
  /\ room.open /\ RevisionsLeft(1)
  /\ room' = [room EXCEPT !.revision = @ + 1]
  /\ sock' = IF room.conn = 0 THEN sock
             ELSE [sock EXCEPT ![room.conn] = Push(@, Message("event", room.revision + 1))]
  /\ UNCHANGED tab

\* Chat, voice and error messages.
Say ==
  /\ room.open /\ room.conn # 0
  /\ sock' = [sock EXCEPT ![room.conn] = Push(@, Message("other", room.revision))]
  /\ UNCHANGED <<tab, room>>

BugMayTakeSeat(creds) == creds = ByName

\* A name is refused while a seat has it; later joins may be refused anyway.
MayTakeSeat(creds) == creds = ByName /\ room.seats = {}

MayReclaim(creds) == creds # ByName /\ creds \in room.seats

Attach(n, first, seats, issued) ==
  \E early \in 0 .. 5 :   \* presence, host, vote, its phase and its result come first
    LET rev    == room.revision + early
        events == [i \in 1 .. early |-> Message("event", room.revision + i)]
        sent   == events \o first \o <<Message("snapshot", rev), Message("event", rev + 1)>>
    IN  /\ RevisionsLeft(early + 1)
        /\ room' = [room EXCEPT !.revision = rev + 1, !.conn = n, !.seats = seats,
                                !.issued = issued]
        /\ sock' = [sock EXCEPT ![n].join = {},
                                ![n].down = IF sock[n].stage = "open" THEN sent ELSE @]

ProcessJoin(n) ==
  /\ room.open
  /\ \E creds \in sock[n].join :
       \/ /\ MayTakeSeat(creds)
          /\ LET seat == room.issued + 1
             IN  Attach(n, <<Message("accepted", seat)>>, room.seats \cup {seat}, seat)
       \/ /\ MayReclaim(creds)
          /\ Attach(n, <<>>, room.seats, room.issued)
       \/ /\ ~MayReclaim(creds)
          /\ sock' = [sock EXCEPT ![n] = Push([@ EXCEPT !.join = {}], Message("refused", 0))]
          /\ UNCHANGED room
  /\ UNCHANGED tab

BugProcessResync(n) ==
  /\ sock[n].stage = "open" /\ sock[n].resyncs > 0 /\ room.open /\ room.conn = n
  /\ sock' = [sock EXCEPT ![n] =
       Push([@ EXCEPT !.resyncs = @ - 1, !.tokens = @ - 1], Message("snapshot", room.revision))]
  /\ UNCHANGED <<tab, room>>

\* A resync request that finds no token is answered with an error.
ProcessResync(n) ==
  /\ sock[n].stage = "open" /\ sock[n].resyncs > 0 /\ room.open /\ room.conn = n
  /\ LET s == [sock[n] EXCEPT !.resyncs = @ - 1]
     IN  sock' = [sock EXCEPT ![n] =
           IF s.tokens = 0 THEN Push(s, Message("other", room.revision))
           ELSE Push([s EXCEPT !.tokens = @ - 1], Message("snapshot", room.revision))]
  /\ UNCHANGED <<tab, room>>

Refill(n) ==
  /\ sock[n].stage = "open" /\ sock[n].tokens < ResyncBurst
  /\ sock' = [sock EXCEPT ![n].tokens = @ + 1]
  /\ UNCHANGED <<tab, room>>

\* The registered connection's handler has ended.
ProcessLeave ==
  /\ room.open /\ room.conn # 0 /\ RevisionsLeft(1)
  /\ sock[room.conn].stage = "closed"
  /\ room' = [room EXCEPT !.conn = 0, !.revision = @ + 1]
  /\ UNCHANGED <<tab, sock>>

\* Grace expiry in the lobby: player_left and lobby_update.
SeatExpires ==
  /\ room.open /\ room.conn = 0 /\ RevisionsLeft(2)
  /\ \E seat \in room.seats : room' = [room EXCEPT !.seats = @ \ {seat},
                                                  !.revision = @ + 2]
  /\ UNCHANGED <<tab, sock>>

RoomCloses ==
  /\ room.open
  /\ room' = [room EXCEPT !.open = FALSE]
  /\ UNCHANGED <<tab, sock>>

Next ==
  \/ Retry \/ Online \/ GraceElapses
  \/ \E n \in Socket : Open(n) \/ Close(n, "fatal") \/ Close(n, "other") \/ Deliver(n)
  \/ Stop \/ Broadcast \/ Say \/ ProcessLeave \/ SeatExpires \/ RoomCloses
  \/ \E n \in Socket : ProcessJoin(n) \/ ProcessResync(n) \/ Refill(n)

Spec == Init /\ [][Next]_vars

-----------------------------------------------------------------------------
TypeOK ==
  /\ tab \in [ws : Socket, opened : Socket, timer : {"none", "pending", "spent"},
              fatal : BOOLEAN, stopped : BOOLEAN, leapt : BOOLEAN, everConnected : BOOLEAN, failing : BOOLEAN, late : BOOLEAN,
              creds : Nat, status : Status, seen : BOOLEAN, last : 0 .. MaxRevision,
              resyncing : BOOLEAN, shown : SUBSET (1 .. MaxRevision)]
  /\ room \in [open : BOOLEAN, revision : 0 .. MaxRevision, seats : SUBSET Nat,
               issued : Nat, conn : Socket \cup {0}]
  /\ \A n \in Socket :
       /\ sock[n].stage \in Stage /\ sock[n].join \in SUBSET Nat
       /\ sock[n].resyncs \in Nat /\ sock[n].tokens \in 0 .. ResyncBurst
       /\ sock[n].down \in Seq([type : Types, seq : Nat])

\* Whatever is dropped, lost or replaced, the events and snapshots leave a tab
\* that was ever in sync with the room as it was at one revision, no change
\* without those before it. Only a leap past them can make it skip one.
ShowsOneRevision == tab.everConnected /\ ~tab.leapt => tab.shown = 1 .. tab.last

\* docs/protocol.md: a message past a gap is "*not* applied", and "only sequenced
\* message types participate": no change is shown without those before it.
GapsNotApplied == tab.everConnected => \A n \in tab.shown : 1 .. n \subseteq tab.shown

\* What is shown never goes back, across reconnects and late snapshots.
NeverBack == [][tab.seen => tab'.seen /\ tab'.last >= tab.last]_vars

\* A retry is pending only while the tab has no connection and no attempt: the
\* timer and the online event never both reconnect for one loss.
OneAttempt == tab.timer = "pending" => sock[tab.ws].stage = "closed"

\* After an answer that makes retrying pointless, and after a stop, whatever was
\* pending, the tab opens no socket.
FatalIsFinal == [][tab.fatal \/ tab.stopped => tab'.ws = tab.ws]_vars

\* docs/protocol.md: "A dropped socket never creates a new player", also when
\* the answer that names the seat is lost and the join is repeated.
OneSeat == Cardinality(room.seats) <= 1

\* The online event is an immediate retry that bypasses "whatever backoff delay
\* is currently pending" (docs/protocol.md): a connection that is up is kept.
ConnectionKept ==
  [][sock[tab.ws].stage = "open" /\ sock'[tab.ws].stage = "open" => tab'.ws = tab.ws]_vars

=============================================================================
