------------------------------- MODULE Server -------------------------------
(***************************************************************************)
(* The process around the rooms: HTTP handlers (internal/server), the hub  *)
(* and its sweepers (internal/hub), main and its shutdown (cmd/fauxtist).  *)
(* Of a room (internal/room) it keeps the goroutine's life, its channels   *)
(* and who is registered: everything else is module Room's.                *)
(*                                                                         *)
(* What Room takes as one step is here what it is in the code: a handler   *)
(* posts a request and waits, the loop takes it, the answer travels back,  *)
(* and every wait also ends when the room does.                            *)
(*                                                                         *)
(* An operator whose name starts with Bug is the one after it with a       *)
(* plausible defect; nothing uses it.                                      *)
(***************************************************************************)
EXTENDS Integers, Sequences, FiniteSets

CONSTANTS
  Code,        \* room codes
  Seat,        \* seats of a room, any room's
  Handler,     \* bound: WebSocket requests over the process's life
  Sweeper,     \* callers of Sweep: the hub's own goroutine and direct ones
  Background,  \* the hub's own goroutine, which Close stops
  None,        \* no room, no sweeper
  MaxRooms,    \* hub capacity (500 in the code)
  JoinCap,     \* capacity of joins (8)
  LeaveCap,    \* capacity of leaves (8)
  InboxCap,    \* capacity of inbox (64)
  MaxCreated,  \* bound: rooms created over the process's life
  MaxPosts     \* bound: POST /api/rooms in flight at once

ASSUME ServerAssumption == /\ Background \in Sweeper
                           /\ {MaxRooms, JoinCap, LeaveCap, InboxCap, MaxPosts} \subseteq Nat \ {0}
                           /\ MaxCreated \in Nat
                           /\ None \notin Nat

VARIABLES
  posts,     \* room-creation requests whose handler has not called CreateRoom
  rooms,     \* every room ever created, in order
  registry,  \* Hub.rooms
  handler,   \* the goroutines of joinRoom
  killed,    \* handlers whose connection the server is closing (Client.close)
  sweeper,
  main

vars == <<posts, rooms, registry, handler, killed, sweeper, main>>

RoomID == 1 .. Len(rooms)

\* loop: Run selects. returning: it has answered "expired". over: it returned.
NewRoom == [run |-> "loop", cancelled |-> FALSE, done |-> FALSE, idle |-> FALSE,
            clients |-> {}, joins |-> {}, leaves |-> {}, inbox |-> <<>>, ask |-> {}]

\* peer: up; gone: lost without a word; closed: reads and writes fail.
NewHandler == [stage |-> "none", room |-> 0, peer |-> "up", seat |-> None, answer |-> "none"]

\* entry: what removeRoom is about, the code and the room found under it.
NoEntry    == [code |-> None, room |-> 0]
NewSweeper == [stage |-> "resting", todo |-> {}, entry |-> NoEntry, answer |-> "none"]

Init ==
  /\ posts = 0
  /\ rooms = <<>>
  /\ registry = [c \in Code |-> None]
  /\ handler = [h \in Handler |-> NewHandler]
  /\ killed = {}
  /\ sweeper = [w \in Sweeper |-> NewSweeper]
  /\ main = [stage |-> "serving", status |-> 0, todo |-> {}]

Registered(r) == \E c \in Code : registry[c] = r
Alive == main.stage # "exited"

At(h, stage) == Alive /\ handler[h].stage = stage
Goes(h, stage) == handler' = [handler EXCEPT ![h].stage = stage]

\* The handler returns and its connection is closed. Its seat is kept: the room may
\* not have heard of its end.
Ends(h) ==
  /\ handler' = [handler EXCEPT ![h] = [NewHandler EXCEPT !.stage = "ended", !.peer = "closed",
                                                         !.seat = handler[h].seat]]
  /\ killed' = killed \ {h}

-----------------------------------------------------------------------------
(* POST /api/rooms.                                                        *)

BeginPost ==
  /\ main.stage = "serving" /\ posts < MaxPosts
  /\ posts' = posts + 1
  /\ UNCHANGED <<rooms, registry, handler, killed, sweeper, main>>

\* Rate-limited, malformed, a bad name, or the hub is full.
RefusePost ==
  /\ Alive /\ posts > 0
  /\ posts' = posts - 1
  /\ UNCHANGED <<rooms, registry, handler, killed, sweeper, main>>

\* Under the hub's mutex. Any code that is not taken may come out.
CreateRoom ==
  /\ Alive /\ posts > 0
  /\ Len(rooms) < MaxCreated
  /\ Cardinality({c \in Code : registry[c] # None}) < MaxRooms
  /\ \E c \in Code : /\ registry[c] = None
                     /\ registry' = [registry EXCEPT ![c] = Len(rooms) + 1]
  /\ rooms' = Append(rooms, NewRoom)
  /\ posts' = posts - 1
  /\ UNCHANGED <<handler, killed, sweeper, main>>

-----------------------------------------------------------------------------
(* joinRoom: one goroutine per WebSocket.                                  *)

\* The code leads to a room, which may end before anything else happens; Accept
\* hijacks the connection, and http.Server no longer waits for it.
Accept(h) ==
  /\ main.stage = "serving" /\ handler[h].stage = "none"
  /\ \E c \in Code :
       /\ registry[c] # None
       /\ handler' = [handler EXCEPT ![h].stage = "framing", ![h].room = registry[c]]
  /\ UNCHANGED <<posts, rooms, registry, killed, sweeper, main>>

\* No valid join frame comes.
RejectJoinFrame(h) ==
  /\ At(h, "framing") /\ handler[h].peer # "gone"
  /\ Ends(h)
  /\ UNCHANGED <<posts, rooms, registry, sweeper, main>>

\* A join frame has come, perhaps before its peer was lost: the first select of Join.
PostJoin(h) ==
  LET r == handler[h].room
  IN  /\ At(h, "framing")
      /\ \/ /\ Cardinality(rooms[r].joins) < JoinCap
            /\ rooms' = [rooms EXCEPT ![r].joins = @ \cup {h}]
            /\ \E s \in Seat : handler' = [handler EXCEPT ![h].stage = "awaiting", ![h].seat = s]
            /\ UNCHANGED killed
         \/ rooms[r].done /\ Ends(h) /\ UNCHANGED rooms
      /\ UNCHANGED <<posts, registry, sweeper, main>>

BugJoinClosed(h) == rooms[handler[h].room].done \/ handler[h].peer = "closed"

\* Join stops waiting without an answer.
JoinClosed(h) == rooms[handler[h].room].done

\* The second select: both cases may be ready, and then either is taken. An
\* accepted connection starts its pumps and its heartbeat; any other is closed.
AwaitJoin(h) ==
  /\ At(h, "awaiting")
  /\ \/ handler[h].answer = "accepted" /\ Goes(h, "reading") /\ UNCHANGED killed
     \/ handler[h].answer = "refused" /\ Ends(h)
     \/ JoinClosed(h) /\ Ends(h)
  /\ UNCHANGED <<posts, rooms, registry, sweeper, main>>

\* readLoop: a frame for the room. The send is a plain one, so that a handler that
\* finds the inbox full stands still; it is as if it had not read the frame yet.
Submit(h) ==
  LET r == handler[h].room
  IN  /\ At(h, "reading") /\ handler[h].peer = "up"
      /\ Len(rooms[r].inbox) < InboxCap
      /\ rooms' = [rooms EXCEPT ![r].inbox = Append(@, h)]
      /\ UNCHANGED <<posts, registry, handler, killed, sweeper, main>>

\* The read fails. Leave is a plain send too.
Leave(h) ==
  LET r == handler[h].room
  IN  /\ At(h, "reading") /\ handler[h].peer = "closed"
      /\ Cardinality(rooms[r].leaves) < LeaveCap
      /\ rooms' = [rooms EXCEPT ![r].leaves = @ \cup {h}]
      /\ Ends(h)
      /\ UNCHANGED <<posts, registry, sweeper, main>>

-----------------------------------------------------------------------------
(* The network and the connection's own goroutines.                        *)

Hijacked(h) == handler[h].stage \in {"framing", "awaiting", "reading"}

PeerLost(h) ==
  /\ Alive /\ Hijacked(h) /\ handler[h].peer = "up"
  /\ \E p \in {"gone", "closed"} : handler' = [handler EXCEPT ![h].peer = p]
  /\ UNCHANGED <<posts, rooms, registry, killed, sweeper, main>>

BugPinged(peer) == peer

\* A ping that goes unanswered closes the connection, and its reads fail.
Pinged(peer) == IF peer = "gone" THEN "closed" ELSE peer

\* The heartbeat starts once Join has returned and ends with the handler.
Heartbeat(h) ==
  /\ At(h, "reading") /\ handler[h].peer = "gone"
  /\ handler' = [handler EXCEPT ![h].peer = Pinged(@)]
  /\ UNCHANGED <<posts, rooms, registry, killed, sweeper, main>>

\* The closing handshake, in a goroutine of its own, is over or given up.
ClientClosed(h) ==
  /\ Alive /\ h \in killed
  /\ killed' = killed \ {h}
  /\ handler' = [handler EXCEPT ![h].peer = "closed"]
  /\ UNCHANGED <<posts, rooms, registry, sweeper, main>>

-----------------------------------------------------------------------------
(* Run: the cases of its select, in any order.                             *)

\* Closing a connection whose handler has ended does nothing.
Open(hs) == {h \in hs : Hijacked(h)}

Looping(r) == Alive /\ rooms[r].run = "loop"

\* The seat's earlier connection is closed; a join counts as activity.
ProcessJoin(r) ==
  /\ Looping(r)
  /\ \E h \in rooms[r].joins :
       \/ /\ rooms' = [rooms EXCEPT ![r].joins = @ \ {h}]
          /\ handler' = [handler EXCEPT ![h].answer = "refused"]
          /\ UNCHANGED killed
       \/ LET old == {k \in rooms[r].clients : handler[k].seat = handler[h].seat}
          IN  /\ rooms' = [rooms EXCEPT ![r].joins = @ \ {h}, ![r].idle = FALSE,
                                        ![r].clients = (@ \ old) \cup {h}]
              /\ handler' = [handler EXCEPT ![h].answer = "accepted"]
              /\ killed' = killed \cup Open(old)
  /\ UNCHANGED <<posts, registry, sweeper, main>>

\* Only the seat's current connection is unregistered.
ProcessLeave(r) ==
  /\ Looping(r)
  /\ \E h \in rooms[r].leaves :
       rooms' = [rooms EXCEPT ![r].leaves = @ \ {h}, ![r].clients = @ \ {h},
                              ![r].idle = @ /\ h \notin rooms[r].clients]
  /\ UNCHANGED <<posts, registry, handler, killed, sweeper, main>>

\* A message of the current connection; one that floods is closed.
Handle(r) ==
  /\ Looping(r) /\ rooms[r].inbox # <<>>
  /\ LET h == Head(rooms[r].inbox)
     IN  \/ /\ rooms' = [rooms EXCEPT ![r].inbox = Tail(@),
                                      ![r].idle = @ /\ h \notin rooms[r].clients]
            /\ UNCHANGED killed
         \/ /\ h \in rooms[r].clients
            /\ rooms' = [rooms EXCEPT ![r].inbox = Tail(@)]
            /\ killed' = killed \cup Open({h})
  /\ UNCHANGED <<posts, registry, handler, sweeper, main>>

Expired(r) == rooms[r].clients = {} /\ rooms[r].idle

Awaits(w, r) == sweeper[w].stage = "waiting" /\ sweeper[w].entry.room = r

\* Each question has a channel for its answer; a sweeper that went on reads it no more.
HandleExpireCheck(r) ==
  /\ Looping(r)
  /\ \E w \in rooms[r].ask :
       /\ sweeper' = [sweeper EXCEPT ![w].answer =
                        IF ~Awaits(w, r) THEN @ ELSE IF Expired(r) THEN "yes" ELSE "no"]
       /\ rooms' = [rooms EXCEPT ![r].ask = @ \ {w},
                                 ![r].run = IF Expired(r) THEN "returning" ELSE @]
  /\ UNCHANGED <<posts, registry, handler, killed, main>>

\* The deferred calls: every client is closed, the timers stop, done is closed. Who
\* was registered matters no more.
RunReturns(r) ==
  /\ Alive
  /\ \/ rooms[r].run = "returning"
     \/ rooms[r].run = "loop" /\ (rooms[r].cancelled \/ rooms[r].done)
  /\ rooms' = [rooms EXCEPT ![r].run = "over", ![r].done = TRUE, ![r].clients = {}]
  /\ killed' = killed \cup Open(rooms[r].clients)
  /\ UNCHANGED <<posts, registry, handler, sweeper, main>>

\* EmptyRoomTTL passes without activity. A room with clients is not looked at.
TTLPasses(r) ==
  /\ Looping(r) /\ rooms[r].clients = {} /\ ~rooms[r].idle
  /\ rooms' = [rooms EXCEPT ![r].idle = TRUE]
  /\ UNCHANGED <<posts, registry, handler, killed, sweeper, main>>

-----------------------------------------------------------------------------
(* Sweep, in every goroutine that calls it.                                *)

\* removeRoom's and Close's last two calls: they only signal.
Stopped(s, r) == [s EXCEPT ![r].cancelled = TRUE, ![r].done = TRUE]

\* The entries are copied under the lock and visited without it. The background
\* sweeper looks at sweepStop between two sweeps only, and when its ticker is due as well
\* its select may take either.
BeginSweep(w) ==
  /\ Alive /\ sweeper[w].stage = "resting"
  /\ w = Background => main.stage \in {"serving", "draining", "closing"}
  /\ \E c \in Code : registry[c] # None
  /\ sweeper' = [sweeper EXCEPT ![w].stage = "visiting",
       ![w].todo = {[code |-> c, room |-> registry[c]] : c \in {d \in Code : registry[d] # None}}]
  /\ UNCHANGED <<posts, rooms, registry, handler, killed, main>>

\* On to the next entry, or back to where the sweeper waits for its ticker.
Visited(w, e) ==
  LET left == sweeper[w].todo \ {e}
  IN  [sweeper EXCEPT ![w] = [NewSweeper EXCEPT !.todo = left,
                                                !.stage = IF left = {} THEN "resting" ELSE "visiting"]]

BugMayAsk(r) == TRUE

\* expireCh holds one question.
MayAsk(r) == rooms[r].ask = {}

\* MaybeExpire's first select: the room has stopped by some other path, or the
\* question fits in its channel.
AskExpire(w) ==
  /\ Alive /\ sweeper[w].stage = "visiting"
  /\ \E e \in sweeper[w].todo :
       \/ /\ rooms[e.room].done
          /\ sweeper' = Visited(w, e)
          /\ UNCHANGED rooms
       \/ /\ MayAsk(e.room)
          /\ rooms' = [rooms EXCEPT ![e.room].ask = @ \cup {w}]
          /\ sweeper' = [sweeper EXCEPT ![w].stage = "waiting", ![w].entry = e]
  /\ UNCHANGED <<posts, registry, handler, killed, main>>

Answers(w) == {sweeper[w].answer} \ {"none"}

BugMaybeExpire(w) ==
  Answers(w) \cup IF rooms[sweeper[w].entry.room].done THEN {"no"} ELSE {}

\* What MaybeExpire's second select may return: the answer, or "yes" if the room ended
\* while the question was under way, whatever answer may be waiting beside it.
MaybeExpire(w) ==
  Answers(w) \cup IF rooms[sweeper[w].entry.room].done THEN {"yes"} ELSE {}

AwaitExpire(w) ==
  /\ Alive /\ sweeper[w].stage = "waiting"
  /\ \E expired \in MaybeExpire(w) :
       sweeper' = IF expired = "yes" THEN [sweeper EXCEPT ![w].stage = "removing"]
                                     ELSE Visited(w, sweeper[w].entry)
  /\ UNCHANGED <<posts, rooms, registry, handler, killed, main>>

BugStillThere(e) == registry[e.code] # None

\* The code still leads to the room that expired, not to a newer one.
StillThere(e) == registry[e.code] = e.room

\* removeRoom: off the map under the lock, then told to stop, which changes nothing
\* for a room that has.
RemoveRoom(w) ==
  /\ Alive /\ sweeper[w].stage = "removing"
  /\ LET e == sweeper[w].entry
     IN  /\ sweeper' = Visited(w, e)
         /\ IF StillThere(e)
            THEN /\ registry' = [registry EXCEPT ![e.code] = None]
                 /\ rooms' = Stopped(rooms, registry[e.code])
            ELSE UNCHANGED <<registry, rooms>>
  /\ UNCHANGED <<posts, handler, killed, main>>

-----------------------------------------------------------------------------
(* main, from the signal to the exit, and Hub.Close.                       *)

BugDrained == TRUE

\* What http.Server.Shutdown waits for: requests whose connection is not hijacked.
Drained == posts = 0

\* The listener fails; or a signal comes.
ServeEnds ==
  /\ main.stage = "serving"
  /\ \/ main' = [main EXCEPT !.stage = "closing", !.status = 1]
     \/ main' = [main EXCEPT !.stage = "draining"]
  /\ UNCHANGED <<posts, rooms, registry, handler, killed, sweeper>>

\* Shutdown returns, with an error if its context ended first. Either way Close
\* follows, called or deferred.
ShutdownReturns ==
  /\ main.stage = "draining"
  /\ \/ Drained /\ main' = [main EXCEPT !.stage = "closing"]
     \/ main' = [main EXCEPT !.stage = "closing", !.status = 1]
  /\ UNCHANGED <<posts, rooms, registry, handler, killed, sweeper>>

\* Close has waited for the sweeper, and swaps the map under the lock.
CloseTakesRooms ==
  /\ main.stage = "closing" /\ sweeper[Background].stage = "resting"
  /\ main' = [main EXCEPT !.stage = "stopping",
                          !.todo = {registry[c] : c \in Code} \ {None}]
  /\ registry' = [c \in Code |-> None]
  /\ UNCHANGED <<posts, rooms, handler, killed, sweeper>>

CloseStopsRoom ==
  /\ main.stage = "stopping"
  /\ \E r \in main.todo : /\ rooms' = Stopped(rooms, r)
                          /\ main' = [main EXCEPT !.todo = @ \ {r}]
  /\ UNCHANGED <<posts, registry, handler, killed, sweeper>>

\* The process ends, with every goroutine that has not.
Exit ==
  /\ main.stage = "stopping" /\ main.todo = {}
  /\ main' = [main EXCEPT !.stage = "exited"]
  /\ UNCHANGED <<posts, rooms, registry, handler, killed, sweeper>>

-----------------------------------------------------------------------------
HandlerStep(h) == PostJoin(h) \/ AwaitJoin(h) \/ Leave(h)
SweeperStep(w) == AskExpire(w) \/ AwaitExpire(w) \/ RemoveRoom(w)

Next ==
  \/ BeginPost \/ RefusePost \/ CreateRoom
  \/ \E h \in Handler : \/ Accept(h) \/ RejectJoinFrame(h) \/ HandlerStep(h) \/ Submit(h)
                        \/ PeerLost(h) \/ Heartbeat(h) \/ ClientClosed(h)
  \/ \E r \in RoomID : \/ ProcessJoin(r) \/ ProcessLeave(r) \/ Handle(r)
                       \/ HandleExpireCheck(r) \/ RunReturns(r) \/ TTLPasses(r)
  \/ \E w \in Sweeper : BeginSweep(w) \/ SweeperStep(w)
  \/ ServeEnds \/ ShutdownReturns \/ CloseTakesRooms \/ CloseStopsRoom \/ Exit

Spec == Init /\ [][Next]_vars

\* Goroutines that can run do, timers and tickers fire, and a select that finds a
\* case ready takes it sooner or later (the runtime picks among the ready ones at
\* random). Players, requests and signals owe nothing, and only the background
\* sweeper is certain to sweep.
Fairness ==
  /\ \A h \in Handler : WF_vars(HandlerStep(h)) /\ WF_vars(Heartbeat(h)) /\ WF_vars(ClientClosed(h))
  /\ \A r \in 1 .. MaxCreated :
       /\ WF_vars(r \in RoomID /\ ProcessJoin(r)) /\ WF_vars(r \in RoomID /\ ProcessLeave(r))
       /\ WF_vars(r \in RoomID /\ Handle(r))      /\ WF_vars(r \in RoomID /\ HandleExpireCheck(r))
       /\ WF_vars(r \in RoomID /\ RunReturns(r))  /\ WF_vars(r \in RoomID /\ TTLPasses(r))
  /\ WF_vars(BeginSweep(Background))
  /\ \A w \in Sweeper : WF_vars(SweeperStep(w))
  /\ WF_vars(ShutdownReturns) /\ WF_vars(CloseTakesRooms)
  /\ WF_vars(CloseStopsRoom) /\ WF_vars(Exit)

FairSpec == Spec /\ Fairness

-----------------------------------------------------------------------------
(* What must hold.                                                         *)

\* The types of the process's state.
TypeOK ==
  /\ posts \in 0 .. MaxPosts
  /\ \A r \in RoomID :
       /\ rooms[r].run \in {"loop", "returning", "over"}
       /\ rooms[r].clients \cup rooms[r].joins \cup rooms[r].leaves \subseteq Handler
       /\ rooms[r].inbox \in Seq(Handler) /\ Len(rooms[r].inbox) <= InboxCap
       /\ rooms[r].ask \subseteq Sweeper /\ Cardinality(rooms[r].ask) <= 1
  /\ registry \in [Code -> RoomID \cup {None}]
  /\ \A h \in Handler : handler[h].room \in RoomID \cup {0}
  /\ killed \subseteq Handler

\* A code never leads to a room that has ended, except while a sweeper is about to
\* take it off the map: hub.Sweep, Room.MaybeExpire (lifecycle.go:40-52), where the
\* answer and the end of the room arrive together and either may be seen first.
NoDeadEntry ==
  \A c \in Code : (registry[c] # None /\ rooms[registry[c]].run # "loop") =>
    \E w \in Sweeper : /\ sweeper[w].stage \in {"waiting", "removing"}
                       /\ sweeper[w].entry = [code |-> c, room |-> registry[c]]

\* Until the hub closes, only a room that has decided to end loses its code, even
\* when two sweeps meet and the code has been given to a newer room between them:
\* hub.removeRoom's comparison (hub.go:163-168).
NewerRoomKept ==
  [][main'.stage # "stopping" =>
       \A c \in Code : (registry[c] # None /\ registry'[c] = None) =>
                         rooms[registry[c]].run # "loop"]_vars

\* Whoever is registered with a room that has not been told to stop has a handler
\* that will call Leave: Join (join.go:89-103) may take the room's end for an answer,
\* and a client registered by then would occupy its seat for ever.
ClientsWillLeave ==
  \A r \in RoomID : ~rooms[r].done =>
    \A h \in rooms[r].clients :
      \/ h \in rooms[r].leaves
      \/ handler[h].stage = "reading"
      \/ handler[h].stage = "awaiting" /\ handler[h].answer = "accepted"

\* When the process exits with status 0, every room it ever created has ended by
\* itself or been told to: Close comes after Shutdown (main.go:102-116), so that no
\* CreateRoom follows it.
CleanExit ==
  (main.stage = "exited" /\ main.status = 0) =>
    \A r \in RoomID : rooms[r].done \/ rooms[r].run # "loop"

Deserted(r) == \A h \in Handler : (handler[h].room = r /\ Hijacked(h)) => handler[h].peer # "up"

\* A room nobody is connected to any more does not stay on the map for ever: lost
\* peers are noticed by the heartbeat, their handlers leave, the idle clock runs, the
\* sweeper asks (heartbeat.go:67-84, room.go:145-169, lifecycle.go:40-58, hub.go:138-153).
DesertedIsReaped ==
  \A r \in 1 .. MaxCreated :
    []<>(main.stage = "exited" \/ r \notin RoomID \/ ~Registered(r) \/ ~Deserted(r))

=============================================================================
