---------------------------- MODULE ServerProofs ----------------------------
(***************************************************************************)
(* Theorems about the process (module Server): the hub's map leads to live *)
(* rooms, and only to those it should; a clean exit forgets no room; who   *)
(* is registered with a room has a handler. They hold for any number of    *)
(* codes, requests, sweepers and rooms and for every capacity.             *)
(***************************************************************************)
EXTENDS Server, SequenceTheorems, FiniteSetTheorems, TLAPS

-----------------------------------------------------------------------------
(* The inductive invariant.                                                *)

RoomRec ==
  [run : {"loop", "returning", "over"}, cancelled : BOOLEAN, done : BOOLEAN, idle : BOOLEAN,
   clients : SUBSET Handler, joins : SUBSET Handler, leaves : SUBSET Handler,
   inbox : Seq(Handler), ask : SUBSET Sweeper]

HandlerRec ==
  [stage : {"none", "framing", "awaiting", "reading", "ended"}, room : Nat,
   peer : {"up", "gone", "closed"}, seat : Seat \cup {None},
   answer : {"none", "accepted", "refused"}]

Entry == [code : Code, room : RoomID]

SweeperRec ==
  [stage : {"resting", "visiting", "waiting", "removing"}, todo : SUBSET [code : Code, room : Nat],
   entry : [code : Code \cup {None}, room : Nat], answer : {"none", "yes", "no"}]

MainRec ==
  [stage : {"serving", "draining", "closing", "stopping", "exited"}, status : {0, 1},
   todo : SUBSET Nat]

\* Every room number in use is that of a room.
Typed ==
  /\ rooms \in Seq(RoomRec)
  /\ registry \in [Code -> RoomID \cup {None}]
  /\ handler \in [Handler -> HandlerRec]
  /\ \A h \in Handler : Hijacked(h) => handler[h].room \in RoomID
  /\ killed \subseteq Handler
  /\ sweeper \in [Sweeper -> SweeperRec]
  /\ \A w \in Sweeper : /\ sweeper[w].todo \subseteq Entry
                        /\ sweeper[w].stage \in {"waiting", "removing"} => sweeper[w].entry \in Entry
  /\ main \in MainRec /\ main.todo \subseteq RoomID

\* The sweeper that was told, or that holds the answer.
Knows(w, c, r) ==
  /\ sweeper[w].entry = [code |-> c, room |-> r]
  /\ \/ sweeper[w].stage = "removing"
     \/ sweeper[w].stage = "waiting" /\ sweeper[w].answer = "yes"

Untouched(r) == rooms[r].run = "loop" /\ ~rooms[r].cancelled /\ ~rooms[r].done

\* A room on the map runs and has not been told to stop, or a sweeper knows better.
Listed ==
  \A c \in Code : registry[c] # None =>
    \/ Untouched(registry[c])
    \/ rooms[registry[c]].run # "loop" /\ \E w \in Sweeper : Knows(w, c, registry[c])

\* A question in the channel of a room that goes on has its sweeper waiting.
Asked ==
  \A r \in RoomID : \A w \in rooms[r].ask :
    rooms[r].done \/ (Awaits(w, r) /\ sweeper[w].answer = "none")

\* A room is on the map once, and nobody holds it under another code.
OneCode ==
  /\ \A c, d \in Code : registry[c] = registry[d] /\ registry[c] # None => c = d
  /\ \A w \in Sweeper, c \in Code :
       registry[c] # None =>
         /\ \A e \in sweeper[w].todo : e.room = registry[c] => e.code = c
         /\ sweeper[w].stage \in {"waiting", "removing"} /\ sweeper[w].entry.room = registry[c] =>
              sweeper[w].entry.code = c

\* Answers are read by the one who waits, and "yes" is the end of a room.
Answered ==
  \A w \in Sweeper :
    LET r == sweeper[w].entry.room
    IN  /\ sweeper[w].stage \in {"resting", "visiting"} => sweeper[w].answer = "none"
        /\ sweeper[w].stage = "waiting" /\ sweeper[w].answer = "yes" => rooms[r].run # "loop"
        /\ sweeper[w].stage = "removing" => rooms[r].run # "loop" \/ rooms[r].done

\* What Close is stopping is off the map.
Doomed == None \notin main.todo /\ \A c \in Code : registry[c] \notin main.todo

Safe == Listed /\ Asked /\ OneCode /\ Answered /\ Doomed
IInv == Typed /\ Safe

-----------------------------------------------------------------------------
(* What a step of one room does to the others, and what changes nothing here. *)

\* A step of room r leaves the number of rooms, and every other room, as they were.
LEMMA RoomStep ==
  ASSUME rooms \in Seq(RoomRec), NEW r \in RoomID, NEW v \in RoomRec,
         rooms' = [rooms EXCEPT ![r] = v]
  PROVE  /\ rooms' \in Seq(RoomRec)
         /\ RoomID' = RoomID
         /\ \A q \in RoomID : rooms'[q] = IF q = r THEN v ELSE rooms[q]
  BY ExceptSeq DEF RoomID

\* A room number names a room record.
LEMMA RoomTyped ==
  ASSUME rooms \in Seq(RoomRec), NEW r \in RoomID
  PROVE  rooms[r] \in RoomRec
  BY ElementOfSeq DEF RoomID

\* Whoever waits in a room's question channel is a sweeper.
LEMMA AskersSweep ==
  ASSUME rooms \in Seq(RoomRec)
  PROVE  \A r \in RoomID : rooms[r].ask \subseteq Sweeper
  BY RoomTyped DEF RoomRec

\* What the sweepers and the map depend on.
Vital(s) == <<s.run, s.cancelled, s.done, s.ask>>

\* A step that changes nothing the sweepers and the map depend on keeps the invariant.
LEMMA Quiet ==
  ASSUME Typed, Safe, RoomID' = RoomID,
         \A q \in RoomID : Vital(rooms'[q]) = Vital(rooms[q]),
         UNCHANGED <<registry, sweeper>>, main'.todo = main.todo
  PROVE  Safe'
<1>0. \A q \in RoomID : /\ rooms'[q].run = rooms[q].run
                        /\ rooms'[q].cancelled = rooms[q].cancelled
                        /\ rooms'[q].done = rooms[q].done
                        /\ rooms'[q].ask = rooms[q].ask
  BY DEF Vital
<1>1. Listed'
  BY <1>0 DEF Typed, Safe, Listed, Untouched, Knows
<1>2. Asked'
  BY <1>0 DEF Typed, Safe, Asked, Awaits
<1>3. OneCode'
  BY DEF Safe, OneCode
<1>4. Answered'
  BY <1>0 DEF Typed, Safe, Answered, Entry
<1>5. Doomed'
  BY DEF Safe, Doomed
<1> QED
  BY <1>1, <1>2, <1>3, <1>4, <1>5 DEF Safe

\* The handlers, the peers and main, where they leave every room alone.
LEMMA RoomsAlone ==
  ASSUME IInv, UNCHANGED <<rooms, registry, sweeper>>, main' \in MainRec, main'.todo = main.todo,
         handler' \in [Handler -> HandlerRec], killed' \subseteq Handler,
         \A h \in Handler : Hijacked(h)' => handler'[h].room \in RoomID
  PROVE  IInv'
<1>1. RoomID' = RoomID
  BY DEF RoomID
<1>2. Typed'
  BY <1>1 DEF IInv, Typed, Entry
<1>3. Safe'
  BY <1>1, Quiet DEF IInv
<1> QED
  BY <1>2, <1>3 DEF IInv

-----------------------------------------------------------------------------
(* Requests, handlers and peers.                                           *)

\* In the initial state there are no rooms, no entries and no questions.
LEMMA InitInv == Init => IInv
<1> SUFFICES ASSUME Init PROVE IInv
  OBVIOUS
<1> USE DEF Init, NewHandler, NewSweeper, NoEntry
<1>1. rooms \in Seq(RoomRec) /\ RoomID = {}
  BY EmptySeq DEF RoomID
<1>2. handler \in [Handler -> HandlerRec] /\ \A h \in Handler : ~Hijacked(h)
  BY DEF HandlerRec, Hijacked
<1>3. sweeper \in [Sweeper -> SweeperRec]
  BY DEF SweeperRec
<1>4. Typed
  BY <1>1, <1>2, <1>3 DEF Typed, MainRec
<1>5. Safe
  BY <1>1 DEF Safe, Listed, Asked, OneCode, Answered, Doomed
<1> QED
  BY <1>4, <1>5 DEF IInv

\* What one handler becomes, when its room number stays that of a room.
LEMMA HandlerGoes ==
  ASSUME Typed, NEW h \in Handler, NEW v \in HandlerRec, handler' = [handler EXCEPT ![h] = v],
         v.stage \in {"framing", "awaiting", "reading"} => v.room \in RoomID
  PROVE  /\ handler' \in [Handler -> HandlerRec]
         /\ \A k \in Handler : Hijacked(k)' => handler'[k].room \in RoomID
<1>1. handler' \in [Handler -> HandlerRec]
  BY DEF Typed
<1>2. ASSUME NEW k \in Handler, Hijacked(k)'
      PROVE  handler'[k].room \in RoomID
  <2>1. CASE k = h
    BY <1>2, <2>1 DEF Typed, Hijacked
  <2>2. CASE k # h
    BY <1>2, <2>2 DEF Typed, Hijacked
  <2> QED
    BY <2>1, <2>2
<1> QED
  BY <1>1, <1>2

\* A handler that ends.
LEMMA HandlerEnds ==
  ASSUME Typed, NEW h \in Handler, Ends(h)
  PROVE  /\ handler' \in [Handler -> HandlerRec]
         /\ \A k \in Handler : Hijacked(k)' => handler'[k].room \in RoomID
         /\ killed' \subseteq Handler
<1> DEFINE v == [NewHandler EXCEPT !.stage = "ended", !.peer = "closed", !.seat = handler[h].seat]
<1>1. handler[h] \in HandlerRec
  BY DEF Typed
<1>2. v \in HandlerRec /\ v.stage = "ended"
  BY <1>1 DEF HandlerRec, NewHandler
<1>3. handler' = [handler EXCEPT ![h] = v] /\ killed' \subseteq Handler
  BY DEF Ends, Typed
<1> HIDE DEF v
<1> QED
  BY <1>2, <1>3, HandlerGoes

\* Actions of one handler that leave the rooms alone.
LEMMA HandlerAlone ==
  ASSUME IInv, NEW h \in Handler,
         Accept(h) \/ RejectJoinFrame(h) \/ AwaitJoin(h) \/ PeerLost(h) \/ Heartbeat(h)
           \/ ClientClosed(h)
  PROVE  IInv'
<1>0. /\ Typed /\ handler[h] \in HandlerRec /\ killed \subseteq Handler
      /\ main \in MainRec
  BY DEF IInv, Typed
<1>1. CASE Accept(h)
  <2>1. PICK c \in Code : /\ registry[c] # None
                          /\ handler' = [handler EXCEPT ![h].stage = "framing", ![h].room = registry[c]]
    BY <1>1 DEF Accept
  <2> DEFINE v == [handler[h] EXCEPT !.stage = "framing", !.room = registry[c]]
  <2>2. registry[c] \in RoomID /\ registry[c] \in Nat
    BY <1>0, <2>1 DEF Typed, RoomID
  <2>3. v \in HandlerRec /\ v.room \in RoomID
    BY <1>0, <2>2 DEF HandlerRec
  <2>4. handler' = [handler EXCEPT ![h] = v]
    BY <2>1
  <2> HIDE DEF v
  <2> QED
    BY <1>0, <1>1, <2>3, <2>4, HandlerGoes, RoomsAlone DEF Accept
<1>2. CASE RejectJoinFrame(h)
  BY <1>0, <1>2, HandlerEnds, RoomsAlone DEF RejectJoinFrame
<1>3. CASE AwaitJoin(h)
  <2>1. CASE Ends(h)
    BY <1>0, <1>3, <2>1, HandlerEnds, RoomsAlone DEF AwaitJoin
  <2>2. CASE Goes(h, "reading") /\ UNCHANGED killed
    <3> DEFINE v == [handler[h] EXCEPT !.stage = "reading"]
    <3>1. v \in HandlerRec /\ handler' = [handler EXCEPT ![h] = v]
      BY <1>0, <2>2 DEF HandlerRec, Goes
    <3>2. v.room \in RoomID
      BY <1>0, <1>3 DEF AwaitJoin, At, Hijacked, Typed, HandlerRec
    <3> HIDE DEF v
    <3> QED
      BY <1>0, <1>3, <2>2, <3>1, <3>2, HandlerGoes, RoomsAlone DEF AwaitJoin
  <2> QED
    BY <1>3, <2>1, <2>2 DEF AwaitJoin
<1>4. ASSUME NEW p \in {"up", "gone", "closed"}, handler' = [handler EXCEPT ![h].peer = p],
             UNCHANGED <<rooms, registry, sweeper, main>>, killed' \subseteq Handler
      PROVE  IInv'
  <2> DEFINE v == [handler[h] EXCEPT !.peer = p]
  <2>1. v \in HandlerRec /\ handler' = [handler EXCEPT ![h] = v]
    BY <1>0, <1>4 DEF HandlerRec
  <2>2. v.stage \in {"framing", "awaiting", "reading"} => v.room \in RoomID
    BY <1>0 DEF Typed, Hijacked, HandlerRec
  <2> HIDE DEF v
  <2> QED
    BY <1>0, <1>4, <2>1, <2>2, HandlerGoes, RoomsAlone
<1>5. CASE PeerLost(h)
  BY <1>0, <1>4, <1>5 DEF PeerLost
<1>6. CASE Heartbeat(h)
  <2>1. handler' = [handler EXCEPT ![h].peer = "closed"]
    BY <1>6 DEF Heartbeat, Pinged
  <2> QED
    BY <1>0, <1>4, <1>6, <2>1 DEF Heartbeat
<1>7. CASE ClientClosed(h)
  BY <1>0, <1>4, <1>7 DEF ClientClosed
<1> QED
  BY <1>1, <1>2, <1>3, <1>5, <1>6, <1>7

\* Requests and main, where they only come and go.
LEMMA ProcessAlone ==
  ASSUME IInv, BeginPost \/ RefusePost \/ ServeEnds \/ ShutdownReturns \/ Exit \/ UNCHANGED vars
  PROVE  IInv'
<1>1. UNCHANGED <<rooms, registry, handler, killed, sweeper>>
  BY DEF BeginPost, RefusePost, ServeEnds, ShutdownReturns, Exit, vars
<1>2. main \in MainRec
  BY DEF IInv, Typed
<1>3. main' \in MainRec /\ main'.todo = main.todo
  BY <1>2 DEF BeginPost, RefusePost, ServeEnds, ShutdownReturns, Exit, vars, MainRec
<1> QED
  BY <1>1, <1>3, RoomsAlone DEF IInv, Typed, Hijacked

\* A step of one room that changes what is registered or queued there.
LEMMA RoomBusy ==
  ASSUME IInv, NEW r \in RoomID, NEW v \in RoomRec, rooms' = [rooms EXCEPT ![r] = v],
         Vital(v) = Vital(rooms[r]), UNCHANGED <<registry, sweeper, main>>,
         handler' \in [Handler -> HandlerRec], killed' \subseteq Handler,
         \A h \in Handler : Hijacked(h)' => handler'[h].room \in RoomID
  PROVE  IInv'
<1>1. /\ rooms' \in Seq(RoomRec) /\ RoomID' = RoomID
      /\ \A q \in RoomID : rooms'[q] = IF q = r THEN v ELSE rooms[q]
  BY RoomStep DEF IInv, Typed
<1>2. Typed'
  BY <1>1 DEF IInv, Typed, Entry
<1>3. Safe'
  <2>1. \A q \in RoomID : Vital(rooms'[q]) = Vital(rooms[q])
    BY <1>1
  <2> QED
    BY <2>1, <1>1, Quiet DEF IInv
<1> QED
  BY <1>2, <1>3 DEF IInv

\* PostJoin, Submit and Leave: a handler posts into a channel of its room.
LEMMA HandlerPosts ==
  ASSUME IInv, NEW h \in Handler, PostJoin(h) \/ Submit(h) \/ Leave(h)
  PROVE  IInv'
<1> DEFINE r == handler[h].room
<1>0. /\ Typed /\ handler[h] \in HandlerRec /\ killed \subseteq Handler
      /\ main \in MainRec
  BY DEF IInv, Typed
<1>1. r \in RoomID /\ rooms[r] \in RoomRec
  <2>1. Hijacked(h)
    BY DEF PostJoin, Submit, Leave, At, Hijacked
  <2> QED
    BY <2>1, RoomTyped DEF IInv, Typed
<1>2. CASE PostJoin(h)
  <2>1. CASE Ends(h) /\ UNCHANGED rooms
    BY <1>0, <1>2, <2>1, HandlerEnds, RoomsAlone DEF PostJoin
  <2>2. CASE /\ rooms' = [rooms EXCEPT ![r].joins = @ \cup {h}]
             /\ \E s \in Seat : handler' = [handler EXCEPT ![h].stage = "awaiting", ![h].seat = s]
             /\ UNCHANGED killed
    <3>1. PICK s \in Seat : handler' = [handler EXCEPT ![h].stage = "awaiting", ![h].seat = s]
      BY <2>2
    <3> DEFINE u == [handler[h] EXCEPT !.stage = "awaiting", !.seat = s]
               v == [rooms[r] EXCEPT !.joins = @ \cup {h}]
    <3>2. u \in HandlerRec /\ u.room \in RoomID /\ handler' = [handler EXCEPT ![h] = u]
      BY <1>0, <1>1, <3>1 DEF HandlerRec
    <3>3. v \in RoomRec /\ Vital(v) = Vital(rooms[r]) /\ rooms' = [rooms EXCEPT ![r] = v]
      BY <1>1, <2>2 DEF RoomRec, Vital
    <3>4. /\ handler' \in [Handler -> HandlerRec]
          /\ \A k \in Handler : Hijacked(k)' => handler'[k].room \in RoomID
      <4> HIDE DEF u
      <4> QED
        BY <1>0, <3>2, HandlerGoes
    <3> HIDE DEF u, v
    <3> QED
      BY <1>0, <1>1, <1>2, <2>2, <3>3, <3>4, RoomBusy DEF PostJoin
  <2> QED
    BY <1>2, <2>1, <2>2 DEF PostJoin
<1>3. CASE Submit(h)
  <2> DEFINE v == [rooms[r] EXCEPT !.inbox = Append(@, h)]
  <2>1. Append(rooms[r].inbox, h) \in Seq(Handler)
    BY <1>1, AppendProperties DEF RoomRec
  <2>2. v \in RoomRec /\ Vital(v) = Vital(rooms[r]) /\ rooms' = [rooms EXCEPT ![r] = v]
    BY <1>1, <1>3, <2>1 DEF RoomRec, Vital, Submit
  <2>3. UNCHANGED <<handler, killed>>
    BY <1>3 DEF Submit
  <2>4. /\ handler' \in [Handler -> HandlerRec]
        /\ \A k \in Handler : Hijacked(k)' => handler'[k].room \in RoomID
    BY <1>0, <2>3 DEF Typed, Hijacked
  <2> HIDE DEF v
  <2> QED
    BY <1>0, <1>1, <1>3, <2>2, <2>3, <2>4, RoomBusy DEF Submit
<1>4. CASE Leave(h)
  <2> DEFINE v == [rooms[r] EXCEPT !.leaves = @ \cup {h}]
  <2>1. v \in RoomRec /\ Vital(v) = Vital(rooms[r]) /\ rooms' = [rooms EXCEPT ![r] = v]
    BY <1>1, <1>4 DEF RoomRec, Vital, Leave
  <2>2. Ends(h)
    BY <1>4 DEF Leave
  <2> HIDE DEF v
  <2> QED
    BY <1>0, <1>1, <1>4, <2>1, <2>2, HandlerEnds, RoomBusy DEF Leave
<1> QED
  BY <1>2, <1>3, <1>4

-----------------------------------------------------------------------------
(* A room's loop.                                                          *)

\* The cases of the select that leave the hub nothing to see.
LEMMA RoomMoves ==
  ASSUME Typed, NEW r \in RoomID,
         ProcessJoin(r) \/ ProcessLeave(r) \/ Handle(r) \/ TTLPasses(r)
  PROVE  \E v \in RoomRec : rooms' = [rooms EXCEPT ![r] = v] /\ Vital(v) = Vital(rooms[r])
<1>0. rooms[r] \in RoomRec
  BY RoomTyped DEF Typed
<1>1. CASE ProcessJoin(r)
  <2>1. CASE \E h \in rooms[r].joins : rooms' = [rooms EXCEPT ![r].joins = @ \ {h}]
    <3>1. PICK h \in rooms[r].joins : rooms' = [rooms EXCEPT ![r].joins = @ \ {h}]
      BY <2>1
    <3> DEFINE v == [rooms[r] EXCEPT !.joins = @ \ {h}]
    <3>2. v \in RoomRec /\ Vital(v) = Vital(rooms[r]) /\ rooms' = [rooms EXCEPT ![r] = v]
      BY <1>0, <3>1 DEF RoomRec, Vital
    <3> QED
      BY <3>2
  <2>2. CASE \E h \in rooms[r].joins, old \in SUBSET rooms[r].clients :
               rooms' = [rooms EXCEPT ![r].joins = @ \ {h}, ![r].idle = FALSE,
                                      ![r].clients = (@ \ old) \cup {h}]
    <3>1. PICK h \in rooms[r].joins, old \in SUBSET rooms[r].clients :
               rooms' = [rooms EXCEPT ![r].joins = @ \ {h}, ![r].idle = FALSE,
                                      ![r].clients = (@ \ old) \cup {h}]
      BY <2>2
    <3> DEFINE v == [rooms[r] EXCEPT !.joins = @ \ {h}, !.idle = FALSE, !.clients = (@ \ old) \cup {h}]
    <3>2. v \in RoomRec /\ Vital(v) = Vital(rooms[r]) /\ rooms' = [rooms EXCEPT ![r] = v]
      BY <1>0, <3>1 DEF RoomRec, Vital
    <3> QED
      BY <3>2
  <2>3. ASSUME NEW h \in rooms[r].joins
        PROVE  {k \in rooms[r].clients : handler[k].seat = handler[h].seat} \in SUBSET rooms[r].clients
    OBVIOUS
  <2> QED
    BY <1>1, <2>1, <2>2, <2>3 DEF ProcessJoin
<1>2. CASE ProcessLeave(r)
  <2>1. PICK h \in rooms[r].leaves :
          rooms' = [rooms EXCEPT ![r].leaves = @ \ {h}, ![r].clients = @ \ {h},
                                 ![r].idle = @ /\ h \notin rooms[r].clients]
    BY <1>2 DEF ProcessLeave
  <2> DEFINE v == [rooms[r] EXCEPT !.leaves = @ \ {h}, !.clients = @ \ {h},
                                   !.idle = @ /\ h \notin rooms[r].clients]
  <2>2. v \in RoomRec /\ Vital(v) = Vital(rooms[r]) /\ rooms' = [rooms EXCEPT ![r] = v]
    BY <1>0, <2>1 DEF RoomRec, Vital
  <2> QED
    BY <2>2
<1>3. CASE Handle(r)
  <2>1. rooms[r].inbox # <<>> /\ rooms[r].inbox \in Seq(Handler)
    BY <1>0, <1>3 DEF Handle, RoomRec
  <2>2. Tail(rooms[r].inbox) \in Seq(Handler)
    BY <2>1, HeadTailProperties
  <2>3. PICK i \in BOOLEAN : rooms' = [rooms EXCEPT ![r].inbox = Tail(@), ![r].idle = i]
    <3>1. CASE rooms' = [rooms EXCEPT ![r].inbox = Tail(@)]
      <4>1. rooms' = [rooms EXCEPT ![r].inbox = Tail(@), ![r].idle = rooms[r].idle]
        BY <1>0, <3>1 DEF RoomRec
      <4> QED
        BY <1>0, <4>1 DEF RoomRec
    <3>2. CASE \E k \in BOOLEAN : rooms' = [rooms EXCEPT ![r].inbox = Tail(@), ![r].idle = @ /\ k]
      BY <1>0, <3>2 DEF RoomRec
    <3> QED
      BY <1>3, <3>1, <3>2 DEF Handle
  <2> DEFINE v == [rooms[r] EXCEPT !.inbox = Tail(@), !.idle = i]
  <2>4. v \in RoomRec /\ Vital(v) = Vital(rooms[r]) /\ rooms' = [rooms EXCEPT ![r] = v]
    BY <1>0, <2>2, <2>3 DEF RoomRec, Vital
  <2> QED
    BY <2>4
<1>4. CASE TTLPasses(r)
  <2> DEFINE v == [rooms[r] EXCEPT !.idle = TRUE]
  <2>1. v \in RoomRec /\ Vital(v) = Vital(rooms[r]) /\ rooms' = [rooms EXCEPT ![r] = v]
    BY <1>0, <1>4 DEF RoomRec, Vital, TTLPasses
  <2> QED
    BY <2>1
<1> QED
  BY <1>1, <1>2, <1>3, <1>4

\* A join, a leave or a message is served, or the room grows idle: the hub sees nothing.
LEMMA RoomWorks ==
  ASSUME IInv, NEW r \in RoomID,
         ProcessJoin(r) \/ ProcessLeave(r) \/ Handle(r) \/ TTLPasses(r)
  PROVE  IInv'
<1>0. /\ Typed /\ rooms[r] \in RoomRec /\ killed \subseteq Handler
      /\ handler \in [Handler -> HandlerRec]
      /\ \A h \in Handler : Hijacked(h) => handler[h].room \in RoomID
  BY RoomTyped DEF IInv, Typed
<1>1. PICK v \in RoomRec : rooms' = [rooms EXCEPT ![r] = v] /\ Vital(v) = Vital(rooms[r])
  BY <1>0, RoomMoves
<1>2. UNCHANGED <<registry, sweeper, main>>
  BY DEF ProcessJoin, ProcessLeave, Handle, TTLPasses
<1>3. killed' \subseteq Handler
  BY <1>0 DEF ProcessJoin, ProcessLeave, Handle, TTLPasses, Open, RoomRec
<1>4. CASE UNCHANGED handler
  <2>1. \A h \in Handler : Hijacked(h)' => handler'[h].room \in RoomID
    BY <1>0, <1>4 DEF Hijacked
  <2> QED
    BY <1>0, <1>1, <1>2, <1>3, <1>4, <2>1, RoomBusy
<1>5. ASSUME NEW h \in rooms[r].joins, NEW a \in {"accepted", "refused"},
             handler' = [handler EXCEPT ![h].answer = a]
      PROVE  IInv'
  <2> DEFINE u == [handler[h] EXCEPT !.answer = a]
  <2>1. h \in Handler /\ handler[h] \in HandlerRec
    BY <1>0 DEF RoomRec
  <2>2. u \in HandlerRec /\ handler' = [handler EXCEPT ![h] = u]
    BY <1>0, <1>5, <2>1 DEF HandlerRec
  <2>3. u.stage \in {"framing", "awaiting", "reading"} => u.room \in RoomID
    BY <1>0, <2>1 DEF HandlerRec, Hijacked
  <2> HIDE DEF u
  <2>4. /\ handler' \in [Handler -> HandlerRec]
        /\ \A k \in Handler : Hijacked(k)' => handler'[k].room \in RoomID
    BY <1>0, <2>1, <2>2, <2>3, HandlerGoes
  <2> QED
    BY <1>0, <1>1, <1>2, <1>3, <2>4, RoomBusy
<1> QED
  BY <1>4, <1>5 DEF ProcessJoin, ProcessLeave, Handle, TTLPasses

-----------------------------------------------------------------------------
(* Where rooms are put on the map, end and are taken off it.               *)

\* What the invariant says of the types once a room and a sweeper have changed.
LEMMA StepTyped ==
  ASSUME Typed, rooms' \in Seq(RoomRec), RoomID' = RoomID, UNCHANGED handler,
         killed' \subseteq Handler, registry' \in [Code -> RoomID \cup {None}],
         main' \in MainRec, main'.todo \subseteq RoomID,
         \/ UNCHANGED sweeper
         \/ \E w \in Sweeper, v \in SweeperRec :
              /\ sweeper' = [sweeper EXCEPT ![w] = v]
              /\ v.todo \subseteq Entry
              /\ v.stage \in {"waiting", "removing"} => v.entry \in Entry
  PROVE  Typed'
<1>1. Entry' = Entry
  BY DEF Entry
<1>2. /\ sweeper' \in [Sweeper -> SweeperRec]
      /\ \A w \in Sweeper : /\ sweeper'[w].todo \subseteq Entry
                            /\ sweeper'[w].stage \in {"waiting", "removing"} => sweeper'[w].entry \in Entry
  <2>1. CASE UNCHANGED sweeper
    BY <2>1 DEF Typed
  <2>2. ASSUME NEW w \in Sweeper, NEW v \in SweeperRec, sweeper' = [sweeper EXCEPT ![w] = v],
               v.todo \subseteq Entry, v.stage \in {"waiting", "removing"} => v.entry \in Entry
        PROVE  <1>2!:
    BY <2>2 DEF Typed
  <2> QED
    BY <2>1, <2>2
<1>3. \A h \in Handler : Hijacked(h)' => handler'[h].room \in RoomID
  BY DEF Typed, Hijacked
<1> QED
  BY <1>1, <1>2, <1>3 DEF Typed

\* CreateRoom: the new room is on the map under a code that led nowhere.
LEMMA CreateRoomInv == IInv /\ CreateRoom => IInv'
<1> SUFFICES ASSUME IInv, CreateRoom PROVE IInv'
  OBVIOUS
<1>2. /\ Typed /\ rooms \in Seq(RoomRec) /\ Len(rooms) \in Nat /\ NewRoom \in RoomRec
  BY EmptySeq DEF IInv, Typed, NewRoom, RoomRec
<1>0. PICK n \in Nat : n = Len(rooms) + 1
  BY <1>2
<1>1. PICK c \in Code : registry[c] = None /\ registry' = [registry EXCEPT ![c] = n]
  BY <1>0 DEF CreateRoom
<1>3. /\ rooms' \in Seq(RoomRec) /\ RoomID' = RoomID \cup {n} /\ n \notin RoomID /\ n \in Nat
      /\ \A q \in RoomID : rooms'[q] = rooms[q]
      /\ rooms'[n] = NewRoom
  BY <1>0, <1>2, AppendProperties DEF CreateRoom, RoomID
<1>4. UNCHANGED <<handler, killed, sweeper, main>>
  BY DEF CreateRoom
<1>5. /\ registry' \in [Code -> RoomID' \cup {None}]
      /\ \A d \in Code : registry'[d] = IF d = c THEN n ELSE registry[d]
  BY <1>1, <1>2, <1>3 DEF Typed
<1>6. \A e : e \in Entry => e \in Entry' /\ e.room \in RoomID
  BY <1>3 DEF Entry
<1>7. Typed'
  <2>1. \A h \in Handler : Hijacked(h)' => handler'[h].room \in RoomID'
    BY <1>2, <1>3, <1>4 DEF Typed, Hijacked
  <2>2. \A w \in Sweeper :
          /\ sweeper'[w].todo \subseteq Entry'
          /\ sweeper'[w].stage \in {"waiting", "removing"} => sweeper'[w].entry \in Entry'
    BY <1>2, <1>4, <1>6 DEF Typed
  <2> QED
    BY <1>2, <1>3, <1>4, <1>5, <2>1, <2>2 DEF Typed
<1>8. Listed'
  <2>1. Untouched(n)'
    BY <1>3 DEF Untouched, NewRoom
  <2>2. ASSUME NEW d \in Code, d # c, registry'[d] # None
        PROVE  \/ Untouched(registry[d])'
               \/ rooms'[registry'[d]].run # "loop" /\ \E w \in Sweeper : Knows(w, d, registry[d])'
    BY <1>2, <1>3, <1>4, <1>5, <2>2 DEF IInv, Safe, Listed, Untouched, Knows, Typed
  <2> QED
    BY <1>5, <2>1, <2>2 DEF Listed
<1>9. Asked'
  BY <1>3, <1>4 DEF IInv, Safe, Asked, Awaits, NewRoom
<1>10. OneCode'
  <2>1. \A w \in Sweeper :
          /\ \A e \in sweeper[w].todo : e.room \in RoomID
          /\ sweeper[w].stage \in {"waiting", "removing"} => sweeper[w].entry.room \in RoomID
    BY <1>2, <1>6 DEF Typed
  <2>2. \A d \in Code : registry[d] # None => registry[d] \in RoomID
    BY <1>2 DEF Typed
  <2> QED
    BY <1>3, <1>4, <1>5, <2>1, <2>2 DEF IInv, Safe, OneCode
<1>11. Answered'
  <2>1. \A w \in Sweeper : sweeper[w].stage \in {"waiting", "removing"} => sweeper[w].entry.room \in RoomID
    BY <1>2, <1>6 DEF Typed
  <2> QED
    BY <1>3, <1>4, <2>1 DEF IInv, Safe, Answered
<1>12. Doomed'
  BY <1>2, <1>3, <1>4, <1>5 DEF IInv, Safe, Doomed, Typed
<1> QED
  BY <1>7, <1>8, <1>9, <1>10, <1>11, <1>12 DEF IInv, Safe

\* A room that has been told to stop, or has returned, and was not on the map.
LEMMA RoomEnds ==
  ASSUME Typed, Safe, NEW r \in RoomID, NEW v \in RoomRec, rooms' = [rooms EXCEPT ![r] = v],
         v.done, v.run = rooms[r].run \/ v.run # "loop",
         \A c \in Code : registry[c] = r /\ registry[c] # None => rooms[r].run # "loop",
         UNCHANGED <<registry, sweeper>>, main'.todo \subseteq main.todo
  PROVE  Safe'
<1>1. /\ RoomID' = RoomID
      /\ \A q \in RoomID : rooms'[q] = IF q = r THEN v ELSE rooms[q]
  BY RoomStep DEF Typed
<1>2. \A c \in Code : registry[c] # None => registry[c] \in RoomID
  BY DEF Typed
<1>3. \A w \in Sweeper : sweeper[w].stage \in {"waiting", "removing"} => sweeper[w].entry.room \in RoomID
  BY DEF Typed, Entry
<1>4. \A q \in RoomID : rooms[q].run # "loop" => rooms'[q].run # "loop"
  BY <1>1
<1>5. Listed'
  BY <1>1, <1>2, <1>4 DEF Safe, Listed, Untouched, Knows
<1>6. Asked'
  BY <1>1 DEF Safe, Asked, Awaits
<1>7. OneCode'
  BY DEF Safe, OneCode
<1>8. Answered'
  BY <1>1, <1>3, <1>4 DEF Safe, Answered
<1>9. Doomed'
  BY DEF Safe, Doomed
<1> QED
  BY <1>5, <1>6, <1>7, <1>8, <1>9 DEF Safe

\* The end of a room's goroutine.
LEMMA RunReturnsInv ==
  ASSUME IInv, NEW r \in RoomID, RunReturns(r)
  PROVE  IInv'
<1> DEFINE v == [rooms[r] EXCEPT !.run = "over", !.done = TRUE, !.clients = {}]
<1>1. Typed /\ Safe /\ rooms[r] \in RoomRec /\ killed \subseteq Handler /\ main \in MainRec
  BY RoomTyped DEF IInv, Typed
<1>2. v \in RoomRec /\ rooms' = [rooms EXCEPT ![r] = v] /\ v.done /\ v.run # "loop"
  BY <1>1 DEF RoomRec, RunReturns
<1>3. \A c \in Code : registry[c] = r /\ registry[c] # None => rooms[r].run # "loop"
  BY <1>1 DEF Safe, Listed, Untouched, RunReturns
<1>4. killed' \subseteq Handler
  BY <1>1 DEF RunReturns, Open, RoomRec
<1>5. UNCHANGED <<registry, handler, sweeper, main>>
  BY DEF RunReturns
<1> HIDE DEF v
<1>6. Typed'
  <2>1. rooms' \in Seq(RoomRec) /\ RoomID' = RoomID
    BY <1>1, <1>2, RoomStep DEF Typed
  <2> QED
    BY <1>1, <1>4, <1>5, <2>1, StepTyped DEF Typed
<1>7. Safe'
  BY <1>1, <1>2, <1>3, <1>5, RoomEnds
<1> QED
  BY <1>6, <1>7 DEF IInv

\* The loop's answer: a room that ends tells the only sweeper that may be asking.
LEMMA HandleExpireCheckInv ==
  ASSUME IInv, NEW r \in RoomID, HandleExpireCheck(r)
  PROVE  IInv'
<1>1. PICK w \in rooms[r].ask :
        /\ sweeper' = [sweeper EXCEPT ![w].answer =
                         IF ~Awaits(w, r) THEN @ ELSE IF Expired(r) THEN "yes" ELSE "no"]
        /\ rooms' = [rooms EXCEPT ![r].ask = @ \ {w},
                                  ![r].run = IF Expired(r) THEN "returning" ELSE @]
  BY DEF HandleExpireCheck
<1>2. /\ Typed /\ Safe /\ rooms[r] \in RoomRec /\ rooms[r].run = "loop" /\ main \in MainRec
      /\ w \in Sweeper /\ sweeper[w] \in SweeperRec
      /\ UNCHANGED <<registry, handler, killed, main>>
  BY RoomTyped DEF IInv, Typed, HandleExpireCheck, Looping, RoomRec
<1> DEFINE v == [rooms[r] EXCEPT !.ask = @ \ {w}, !.run = IF Expired(r) THEN "returning" ELSE @]
           u == [sweeper[w] EXCEPT !.answer =
                   IF ~Awaits(w, r) THEN @ ELSE IF Expired(r) THEN "yes" ELSE "no"]
<1>3. /\ v \in RoomRec /\ rooms' = [rooms EXCEPT ![r] = v]
      /\ v.ask = rooms[r].ask \ {w} /\ v.cancelled = rooms[r].cancelled /\ v.done = rooms[r].done
      /\ v.run = IF Expired(r) THEN "returning" ELSE "loop"
  BY <1>1, <1>2 DEF RoomRec
<1>4. /\ u \in SweeperRec /\ sweeper' = [sweeper EXCEPT ![w] = u]
      /\ u.stage = sweeper[w].stage /\ u.entry = sweeper[w].entry /\ u.todo = sweeper[w].todo
      /\ u.answer = IF ~Awaits(w, r) THEN sweeper[w].answer ELSE IF Expired(r) THEN "yes" ELSE "no"
  BY <1>1, <1>2 DEF SweeperRec
<1> HIDE DEF u, v
<1>5. /\ rooms' \in Seq(RoomRec) /\ RoomID' = RoomID
      /\ \A q \in RoomID : rooms'[q] = IF q = r THEN v ELSE rooms[q]
  BY <1>2, <1>3, RoomStep DEF Typed
<1>6. \A x \in Sweeper : /\ sweeper'[x].stage = sweeper[x].stage
                         /\ sweeper'[x].entry = sweeper[x].entry
                         /\ sweeper'[x].todo = sweeper[x].todo
                         /\ ~Awaits(x, r) => sweeper'[x].answer = sweeper[x].answer
                         /\ x # w => sweeper'[x].answer = sweeper[x].answer
  BY <1>2, <1>4 DEF Typed
<1>7. Typed'
  <2>1. /\ u.todo \subseteq Entry
        /\ u.stage \in {"waiting", "removing"} => u.entry \in Entry
    BY <1>2, <1>4 DEF Typed
  <2> QED
    BY <1>2, <1>4, <1>5, <2>1, StepTyped DEF Typed
<1>8. Listed'
  <2> SUFFICES ASSUME NEW c \in Code, registry[c] # None
               PROVE  \/ Untouched(registry[c])'
                      \/ rooms'[registry[c]].run # "loop" /\ \E x \in Sweeper : Knows(x, c, registry[c])'
    BY <1>2 DEF Listed
  <2>0. registry[c] \in RoomID
    BY <1>2 DEF Typed
  <2>1. CASE registry[c] # r
    <3>1. \A x \in Sweeper : Knows(x, c, registry[c]) => Knows(x, c, registry[c])'
      BY <1>2, <1>6, <2>1 DEF Knows, Awaits
    <3>2. \/ Untouched(registry[c])
          \/ rooms[registry[c]].run # "loop" /\ \E x \in Sweeper : Knows(x, c, registry[c])
      BY <1>2 DEF Safe, Listed
    <3> QED
      BY <1>2, <1>5, <2>0, <2>1, <3>1, <3>2 DEF Untouched
  <2>2. CASE registry[c] = r
    <3>1. Untouched(r)
      BY <1>2, <2>2 DEF Safe, Listed
    <3>2. CASE ~Expired(r)
      BY <1>2, <1>3, <1>5, <2>2, <3>1, <3>2 DEF Untouched
    <3>3. CASE Expired(r)
      <4>1. Awaits(w, r)
        BY <1>2, <3>1 DEF Safe, Asked, Untouched
      <4>2. sweeper[w].entry = [code |-> c, room |-> r]
        <5>1. sweeper[w].entry \in Entry /\ sweeper[w].entry.room = r
          BY <1>2, <4>1 DEF Typed, Awaits
        <5>2. sweeper[w].entry.code = c
          BY <1>2, <2>2, <4>1, <5>1 DEF Safe, OneCode, Awaits
        <5> QED
          BY <5>1, <5>2 DEF Entry
      <4>3. sweeper'[w].answer = "yes" /\ sweeper'[w].stage = "waiting" /\ sweeper'[w].entry = [code |-> c, room |-> r]
        BY <1>2, <1>4, <1>6, <3>3, <4>1, <4>2 DEF Awaits, Typed
      <4> QED
        BY <1>2, <1>3, <1>5, <2>2, <3>3, <4>3 DEF Knows
    <3> QED
      BY <3>2, <3>3
  <2> QED
    BY <2>1, <2>2
<1>9. Asked'
  <2> SUFFICES ASSUME NEW q \in RoomID, NEW x \in rooms'[q].ask
               PROVE  rooms'[q].done \/ (Awaits(x, q)' /\ sweeper'[x].answer = "none")
    BY <1>5 DEF Asked
  <2>1. /\ x \in rooms[q].ask /\ x \in Sweeper /\ rooms'[q].done = rooms[q].done
        /\ q = r => x # w
    BY <1>2, <1>3, <1>5, RoomTyped DEF Typed, RoomRec
  <2>2. rooms[q].done \/ (Awaits(x, q) /\ sweeper[x].answer = "none")
    BY <1>2, <2>1 DEF Safe, Asked
  <2> QED
    BY <1>6, <2>1, <2>2 DEF Awaits
<1>10. OneCode'
  BY <1>2, <1>6 DEF Safe, OneCode
<1>11. Answered'
  <2> SUFFICES ASSUME NEW x \in Sweeper
               PROVE  /\ sweeper'[x].stage \in {"resting", "visiting"} => sweeper'[x].answer = "none"
                      /\ sweeper'[x].stage = "waiting" /\ sweeper'[x].answer = "yes" =>
                           rooms'[sweeper'[x].entry.room].run # "loop"
                      /\ sweeper'[x].stage = "removing" =>
                           rooms'[sweeper'[x].entry.room].run # "loop" \/ rooms'[sweeper'[x].entry.room].done
    BY DEF Answered
  <2>1. sweeper[x].stage \in {"waiting", "removing"} => sweeper[x].entry.room \in RoomID
    BY <1>2 DEF Typed, Entry
  <2>2. sweeper'[x].stage \in {"resting", "visiting"} => sweeper'[x].answer = "none"
    BY <1>2, <1>6 DEF Safe, Answered, Awaits
  <2>3. sweeper'[x].stage = "removing" =>
          rooms'[sweeper'[x].entry.room].run # "loop" \/ rooms'[sweeper'[x].entry.room].done
    BY <1>2, <1>3, <1>5, <1>6, <2>1 DEF Safe, Answered
  <2>4. ASSUME sweeper'[x].stage = "waiting", sweeper'[x].answer = "yes"
        PROVE  rooms'[sweeper'[x].entry.room].run # "loop"
    <3>1. CASE x = w /\ Awaits(w, r)
      <4>1. sweeper'[w] = u
        BY <1>2, <1>4 DEF Typed
      <4> QED
        BY <1>3, <1>4, <1>5, <2>4, <3>1, <4>1 DEF Awaits
    <3>2. CASE ~(x = w /\ Awaits(w, r))
      <4>1. sweeper[x].answer = "yes" /\ sweeper[x].stage = "waiting"
        BY <1>6, <2>4, <3>2
      <4>2. rooms[sweeper[x].entry.room].run # "loop"
        BY <1>2, <4>1 DEF Safe, Answered
      <4> QED
        BY <1>2, <1>5, <1>6, <2>1, <4>1, <4>2
    <3> QED
      BY <3>1, <3>2
  <2> QED
    BY <2>2, <2>3, <2>4
<1>12. Doomed'
  BY <1>2 DEF Safe, Doomed
<1> QED
  BY <1>7, <1>8, <1>9, <1>10, <1>11, <1>12 DEF IInv, Safe

-----------------------------------------------------------------------------
(* A sweeper.                                                              *)

\* Entries that are still to be visited, as OneCode wants them.
Matches(todo) == \A c \in Code : registry[c] # None => \A e \in todo : e.room = registry[c] => e.code = c

\* A sweeper that goes on to another entry, or to rest, and knew nothing.
LEMMA SweeperSettles ==
  ASSUME IInv, NEW w \in Sweeper, NEW v \in SweeperRec, sweeper' = [sweeper EXCEPT ![w] = v],
         v.stage \in {"resting", "visiting"}, v.answer = "none", v.todo \subseteq Entry,
         Matches(v.todo),
         \A c \in Code : registry[c] # None => ~Knows(w, c, registry[c]),
         \A q \in RoomID : Awaits(w, q) /\ sweeper[w].answer = "none" => rooms[q].done,
         UNCHANGED <<rooms, registry, handler, killed, main>>
  PROVE  IInv'
<1>1. RoomID' = RoomID /\ Typed /\ Safe
  BY DEF RoomID, IInv
<1>2. \A x \in Sweeper : sweeper'[x] = IF x = w THEN v ELSE sweeper[x]
  BY <1>1 DEF Typed
<1>3. Typed'
  BY <1>1, StepTyped DEF Typed
<1>4. Listed'
  BY <1>1, <1>2 DEF Safe, Listed, Untouched, Knows
<1>5. Asked'
  BY <1>1, <1>2 DEF Safe, Asked, Awaits
<1>6. OneCode'
  BY <1>1, <1>2 DEF Safe, OneCode, Matches
<1>7. Answered'
  BY <1>1, <1>2 DEF Safe, Answered
<1>8. Doomed'
  BY <1>1 DEF Safe, Doomed
<1> QED
  BY <1>3, <1>4, <1>5, <1>6, <1>7, <1>8 DEF IInv, Safe

\* What Visited makes of the sweeper, and of no other.
LEMMA VisitedIs ==
  ASSUME Typed, Safe, NEW w \in Sweeper, NEW e
  PROVE  \E v \in SweeperRec : /\ Visited(w, e) = [sweeper EXCEPT ![w] = v]
                               /\ v.stage \in {"resting", "visiting"} /\ v.answer = "none"
                               /\ v.todo \subseteq Entry /\ Matches(v.todo)
<1> DEFINE left == sweeper[w].todo \ {e}
           v == [NewSweeper EXCEPT !.todo = left, !.stage = IF left = {} THEN "resting" ELSE "visiting"]
<1>1. sweeper[w] \in SweeperRec /\ sweeper[w].todo \subseteq Entry
  BY DEF Typed
<1>2. v \in SweeperRec /\ v.stage \in {"resting", "visiting"} /\ v.answer = "none" /\ v.todo = left
  BY <1>1 DEF SweeperRec, NewSweeper, NoEntry
<1>3. Matches(left)
  BY DEF Safe, OneCode, Matches
<1>4. Visited(w, e) = [sweeper EXCEPT ![w] = v]
  BY DEF Visited
<1> HIDE DEF v
<1> QED
  BY <1>1, <1>2, <1>3, <1>4

\* A sweep begins: every entry to be visited is on the map.
LEMMA BeginSweepInv ==
  ASSUME IInv, NEW w \in Sweeper, BeginSweep(w)
  PROVE  IInv'
<1> DEFINE todo == {[code |-> c, room |-> registry[c]] : c \in {d \in Code : registry[d] # None}}
           v == [sweeper[w] EXCEPT !.stage = "visiting", !.todo = todo]
<1>1. Typed /\ Safe /\ sweeper[w] \in SweeperRec /\ sweeper[w].stage = "resting"
  BY DEF IInv, Typed, BeginSweep
<1>2. todo \subseteq Entry /\ todo \subseteq [code : Code, room : Nat]
  BY <1>1 DEF Typed, Entry, RoomID
<1>3. sweeper[w].answer = "none"
  BY <1>1 DEF Safe, Answered
<1>4. Matches(todo)
  BY <1>1 DEF Safe, OneCode, Matches
<1>5. v \in SweeperRec /\ v.stage = "visiting" /\ v.answer = "none" /\ v.todo = todo
  BY <1>1, <1>2, <1>3 DEF SweeperRec
<1>6. /\ sweeper' = [sweeper EXCEPT ![w] = v]
      /\ UNCHANGED <<rooms, registry, handler, killed, main>>
  BY DEF BeginSweep
<1>7. /\ \A c \in Code : registry[c] # None => ~Knows(w, c, registry[c])
      /\ \A q \in RoomID : ~Awaits(w, q)
  BY <1>1 DEF Knows, Awaits
<1> HIDE DEF v, todo
<1> QED
  BY <1>2, <1>4, <1>5, <1>6, <1>7, SweeperSettles

\* MaybeExpire's first select: the question is posted, or the room was stopped.
LEMMA AskExpireInv ==
  ASSUME IInv, NEW w \in Sweeper, AskExpire(w)
  PROVE  IInv'
<1>1. PICK e \in sweeper[w].todo :
        \/ /\ rooms[e.room].done
           /\ sweeper' = Visited(w, e)
           /\ UNCHANGED rooms
        \/ /\ MayAsk(e.room)
           /\ rooms' = [rooms EXCEPT ![e.room].ask = @ \cup {w}]
           /\ sweeper' = [sweeper EXCEPT ![w].stage = "waiting", ![w].entry = e]
  BY DEF AskExpire
<1>2. /\ Typed /\ Safe /\ sweeper[w] \in SweeperRec /\ sweeper[w].stage = "visiting"
      /\ e \in Entry /\ e \in [code : Code, room : Nat] /\ main \in MainRec
      /\ UNCHANGED <<registry, handler, killed, main>>
  BY DEF IInv, Typed, AskExpire, SweeperRec
<1>3. /\ \A c \in Code : registry[c] # None => ~Knows(w, c, registry[c])
      /\ \A q \in RoomID : ~Awaits(w, q)
  BY <1>2 DEF Knows, Awaits
<1>4. CASE sweeper' = Visited(w, e) /\ UNCHANGED rooms
  BY <1>2, <1>3, <1>4, VisitedIs, SweeperSettles
<1>5. CASE /\ MayAsk(e.room)
           /\ rooms' = [rooms EXCEPT ![e.room].ask = @ \cup {w}]
           /\ sweeper' = [sweeper EXCEPT ![w].stage = "waiting", ![w].entry = e]
  <2> DEFINE r == e.room
             u == [rooms[r] EXCEPT !.ask = @ \cup {w}]
             v == [sweeper[w] EXCEPT !.stage = "waiting", !.entry = e]
  <2>1. r \in RoomID /\ rooms[r] \in RoomRec /\ rooms[r].ask = {}
    BY <1>2, <1>5, RoomTyped DEF Typed, Entry, MayAsk
  <2>2. sweeper[w].answer = "none"
    BY <1>2 DEF Safe, Answered
  <2>3. /\ u \in RoomRec /\ rooms' = [rooms EXCEPT ![r] = u] /\ u.ask = {w}
        /\ u.run = rooms[r].run /\ u.done = rooms[r].done /\ u.cancelled = rooms[r].cancelled
    BY <1>5, <2>1 DEF RoomRec
  <2>4. /\ v \in SweeperRec /\ sweeper' = [sweeper EXCEPT ![w] = v]
        /\ v.stage = "waiting" /\ v.entry = e /\ v.answer = "none" /\ v.todo = sweeper[w].todo
    BY <1>2, <1>5, <2>2 DEF SweeperRec
  <2> HIDE DEF u, v
  <2>5. /\ rooms' \in Seq(RoomRec) /\ RoomID' = RoomID
        /\ \A q \in RoomID : rooms'[q] = IF q = r THEN u ELSE rooms[q]
    BY <1>2, <2>1, <2>3, RoomStep DEF Typed
  <2>6. \A x \in Sweeper : sweeper'[x] = IF x = w THEN v ELSE sweeper[x]
    BY <1>2, <2>4 DEF Typed
  <2>7. Typed'
    BY <1>2, <2>4, <2>5, StepTyped DEF Typed
  <2>8. \A q \in RoomID : /\ rooms'[q].run = rooms[q].run
                          /\ rooms'[q].done = rooms[q].done
                          /\ rooms'[q].cancelled = rooms[q].cancelled
    BY <2>3, <2>5
  <2>9. Listed'
    BY <1>2, <1>3, <2>6, <2>8 DEF Safe, Listed, Untouched, Knows, Typed
  <2>10. Asked'
    <3> SUFFICES ASSUME NEW q \in RoomID, NEW x \in rooms'[q].ask
                 PROVE  rooms'[q].done \/ (Awaits(x, q)' /\ sweeper'[x].answer = "none")
      BY <2>5 DEF Asked
    <3>1. CASE q = r
      BY <2>3, <2>4, <2>5, <2>6, <3>1 DEF Awaits
    <3>2. CASE q # r
      <4>1. x \in rooms[q].ask /\ x \in Sweeper
        BY <1>2, <2>5, <3>2, RoomTyped DEF Typed, RoomRec
      <4>2. rooms[q].done \/ (Awaits(x, q) /\ sweeper[x].answer = "none")
        BY <1>2, <4>1 DEF Safe, Asked
      <4> QED
        BY <1>3, <2>6, <2>8, <4>1, <4>2 DEF Awaits
    <3> QED
      BY <3>1, <3>2
  <2>11. OneCode'
    BY <1>2, <2>4, <2>6 DEF Safe, OneCode
  <2>12. Answered'
    <3>1. \A x \in Sweeper : sweeper[x].stage \in {"waiting", "removing"} => sweeper[x].entry.room \in RoomID
      BY <1>2 DEF Typed, Entry
    <3> QED
      BY <1>2, <2>4, <2>6, <2>8, <3>1 DEF Safe, Answered
  <2>13. Doomed'
    BY <1>2 DEF Safe, Doomed
  <2> QED
    BY <2>7, <2>9, <2>10, <2>11, <2>12, <2>13 DEF IInv, Safe
<1> QED
  BY <1>1, <1>4, <1>5

\* MaybeExpire's second select: yes only for a room that is ending.
LEMMA AwaitExpireInv ==
  ASSUME IInv, NEW w \in Sweeper, AwaitExpire(w)
  PROVE  IInv'
<1>1. PICK expired \in MaybeExpire(w) :
        sweeper' = IF expired = "yes" THEN [sweeper EXCEPT ![w].stage = "removing"]
                                      ELSE Visited(w, sweeper[w].entry)
  BY DEF AwaitExpire
<1>2. /\ Typed /\ Safe /\ sweeper[w] \in SweeperRec /\ sweeper[w].stage = "waiting"
      /\ sweeper[w].entry \in Entry /\ sweeper[w].entry.room \in RoomID /\ main \in MainRec
      /\ UNCHANGED <<rooms, registry, handler, killed, main>>
  BY DEF IInv, Typed, AwaitExpire, Entry
<1>3. RoomID' = RoomID
  BY <1>2 DEF RoomID
<1>4. \A q \in RoomID : Awaits(w, q) /\ sweeper[w].answer = "none" => rooms[q].done
  BY <1>1 DEF Awaits, MaybeExpire, Answers
<1>5. CASE expired # "yes"
  <2>1. sweeper[w].answer # "yes"
    BY <1>1, <1>5 DEF MaybeExpire, Answers
  <2>2. \A c \in Code : registry[c] # None => ~Knows(w, c, registry[c])
    BY <1>2, <2>1 DEF Knows
  <2>3. sweeper' = Visited(w, sweeper[w].entry)
    BY <1>1, <1>5
  <2> QED
    BY <1>2, <1>4, <2>2, <2>3, VisitedIs, SweeperSettles
<1>6. CASE expired = "yes"
  <2> DEFINE v == [sweeper[w] EXCEPT !.stage = "removing"]
  <2>1. /\ v \in SweeperRec /\ sweeper' = [sweeper EXCEPT ![w] = v]
        /\ v.stage = "removing" /\ v.entry = sweeper[w].entry /\ v.todo = sweeper[w].todo
    BY <1>1, <1>2, <1>6 DEF SweeperRec
  <2> HIDE DEF v
  <2>2. \A x \in Sweeper : sweeper'[x] = IF x = w THEN v ELSE sweeper[x]
    BY <1>2, <2>1 DEF Typed
  <2>3. rooms[v.entry.room].run # "loop" \/ rooms[v.entry.room].done
    BY <1>1, <1>2, <1>6, <2>1 DEF MaybeExpire, Answers, Safe, Answered
  <2>4. Typed'
    <3>1. v.todo \subseteq Entry
      BY <1>2, <2>1 DEF Typed
    <3> QED
      BY <1>2, <1>3, <2>1, <3>1, StepTyped DEF Typed
  <2>5. Listed'
    <3>1. \A x \in Sweeper, c \in Code : Knows(x, c, registry[c]) => Knows(x, c, registry[c])'
      BY <1>2, <2>1, <2>2 DEF Knows
    <3> QED
      BY <1>2, <3>1 DEF Safe, Listed, Untouched
  <2>6. Asked'
    <3>1. \A q \in RoomID : rooms[q].ask \subseteq Sweeper
      BY <1>2, AskersSweep DEF Typed
    <3> QED
      BY <1>2, <1>3, <1>4, <2>2, <3>1 DEF Safe, Asked, Awaits
  <2>7. OneCode'
    BY <1>2, <2>1, <2>2 DEF Safe, OneCode
  <2>8. Answered'
    BY <1>2, <2>1, <2>2, <2>3 DEF Safe, Answered
  <2>9. Doomed'
    BY <1>2 DEF Safe, Doomed
  <2> QED
    BY <2>4, <2>5, <2>6, <2>7, <2>8, <2>9 DEF IInv, Safe
<1> QED
  BY <1>5, <1>6

\* What Stopped makes of one room, and of no other.
LEMMA StoppedIs ==
  ASSUME Typed, NEW r \in RoomID
  PROVE  \E v \in RoomRec : /\ Stopped(rooms, r) = [rooms EXCEPT ![r] = v]
                            /\ v.done /\ v.run = rooms[r].run
<1> DEFINE v == [rooms[r] EXCEPT !.cancelled = TRUE, !.done = TRUE]
<1>1. rooms[r] \in RoomRec
  BY RoomTyped DEF Typed
<1>2. v \in RoomRec /\ v.done /\ v.run = rooms[r].run
  BY <1>1 DEF RoomRec
<1>3. Stopped(rooms, r) = [rooms EXCEPT ![r] = v]
  BY DEF Stopped
<1> HIDE DEF v
<1> QED
  BY <1>2, <1>3

\* Off the map and told to stop: the entry's code is the room's only one.
LEMMA RemoveRoomInv ==
  ASSUME IInv, NEW w \in Sweeper, RemoveRoom(w)
  PROVE  IInv'
<1> DEFINE e == sweeper[w].entry
<1>1. /\ Typed /\ Safe /\ sweeper[w].stage = "removing" /\ main \in MainRec
      /\ e \in Entry /\ e.room \in RoomID /\ e.code \in Code /\ e = [code |-> e.code, room |-> e.room]
      /\ UNCHANGED <<handler, killed, main>>
      /\ sweeper' = Visited(w, e)
  BY DEF IInv, Typed, RemoveRoom, Entry
<1>2. PICK v \in SweeperRec : /\ sweeper' = [sweeper EXCEPT ![w] = v]
                             /\ v.stage \in {"resting", "visiting"} /\ v.answer = "none"
                             /\ v.todo \subseteq Entry /\ Matches(v.todo)
  BY <1>1, VisitedIs
<1>3. \A q \in RoomID : ~Awaits(w, q)
  BY <1>1 DEF Awaits
<1>4. CASE ~StillThere(e)
  <2>1. UNCHANGED <<rooms, registry>>
    BY <1>4 DEF RemoveRoom
  <2>2. \A c \in Code : registry[c] # None => ~Knows(w, c, registry[c])
    BY <1>4 DEF Knows, StillThere
  <2> QED
    BY <1>1, <1>2, <1>3, <2>1, <2>2, SweeperSettles
<1>5. CASE StillThere(e)
  <2>1. registry' = [registry EXCEPT ![e.code] = None] /\ rooms' = Stopped(rooms, e.room)
    BY <1>5 DEF RemoveRoom, StillThere
  <2>2. PICK u \in RoomRec : rooms' = [rooms EXCEPT ![e.room] = u] /\ u.done /\ u.run = rooms[e.room].run
    BY <1>1, <2>1, StoppedIs
  <2>3. /\ rooms' \in Seq(RoomRec) /\ RoomID' = RoomID
        /\ \A q \in RoomID : rooms'[q] = IF q = e.room THEN u ELSE rooms[q]
    BY <1>1, <2>2, RoomStep DEF Typed
  <2>4. \A x \in Sweeper : sweeper'[x] = IF x = w THEN v ELSE sweeper[x]
    BY <1>1, <1>2 DEF Typed
  <2>5. \A c \in Code : registry'[c] = IF c = e.code THEN None ELSE registry[c]
    BY <1>1, <2>1 DEF Typed
  <2>6. Typed'
    <3>1. registry' \in [Code -> RoomID \cup {None}]
      BY <1>1, <2>1 DEF Typed
    <3> QED
      BY <1>1, <1>2, <2>3, <3>1, StepTyped DEF Typed
  <2>7. Listed'
    <3> SUFFICES ASSUME NEW c \in Code, registry'[c] # None
                 PROVE  \/ Untouched(registry[c])'
                        \/ rooms'[registry'[c]].run # "loop" /\ \E x \in Sweeper : Knows(x, c, registry[c])'
      BY DEF Listed
    <3>1. c # e.code /\ registry'[c] = registry[c] /\ registry[c] \in RoomID /\ registry[c] # None
      BY <1>1, <2>5 DEF Typed
    <3>2. registry[c] # e.room
      BY <1>1, <1>5, <3>1 DEF Safe, OneCode, StillThere
    <3>3. \A x \in Sweeper : Knows(x, c, registry[c]) => x # w
      BY <1>1, <3>1 DEF Knows
    <3>4. \/ Untouched(registry[c])
          \/ rooms[registry[c]].run # "loop" /\ \E x \in Sweeper : Knows(x, c, registry[c])
      BY <1>1, <3>1 DEF Safe, Listed
    <3> QED
      BY <2>3, <2>4, <3>1, <3>2, <3>3, <3>4 DEF Untouched, Knows
  <2>8. Asked'
    <3>1. /\ \A q \in RoomID : rooms[q].ask \subseteq Sweeper
          /\ rooms[e.room].ask \subseteq Sweeper
      BY <1>1, AskersSweep DEF Typed
    <3> SUFFICES ASSUME NEW q \in RoomID, q # e.room, NEW x \in rooms[q].ask
                 PROVE  rooms'[q].done \/ (Awaits(x, q)' /\ sweeper'[x].answer = "none")
      BY <2>2, <2>3 DEF Asked
    <3>2. x \in Sweeper /\ rooms'[q] = rooms[q]
      BY <2>3, <3>1
    <3>3. rooms[q].done \/ (Awaits(x, q) /\ sweeper[x].answer = "none")
      BY <1>1 DEF Safe, Asked
    <3> QED
      BY <1>3, <2>4, <3>2, <3>3 DEF Awaits
  <2>9. OneCode'
    BY <1>1, <1>2, <2>4, <2>5 DEF Safe, OneCode, Matches
  <2>10. Answered'
    <3>1. \A x \in Sweeper : sweeper[x].stage \in {"waiting", "removing"} => sweeper[x].entry.room \in RoomID
      BY <1>1 DEF Typed, Entry
    <3> QED
      BY <1>1, <1>2, <2>2, <2>3, <2>4, <3>1 DEF Safe, Answered
  <2>11. Doomed'
    BY <1>1, <2>5 DEF Safe, Doomed
  <2> QED
    BY <2>6, <2>7, <2>8, <2>9, <2>10, <2>11 DEF IInv, Safe
<1> QED
  BY <1>4, <1>5

-----------------------------------------------------------------------------
(* Close.                                                                  *)

\* The two steps of Close.
LEMMA CloseInv ==
  ASSUME IInv, CloseTakesRooms \/ CloseStopsRoom
  PROVE  IInv'
<1>1. Typed /\ Safe /\ main \in MainRec
  BY DEF IInv, Typed
<1>2. CASE CloseTakesRooms
  <2>1. /\ main' = [main EXCEPT !.stage = "stopping", !.todo = {registry[c] : c \in Code} \ {None}]
        /\ registry' = [c \in Code |-> None]
        /\ UNCHANGED <<rooms, handler, killed, sweeper>>
    BY <1>2 DEF CloseTakesRooms
  <2>2. RoomID' = RoomID
    BY <2>1 DEF RoomID
  <2>3. main' \in MainRec /\ main'.todo \subseteq RoomID /\ None \notin main'.todo
    <3> DEFINE todo == {registry[c] : c \in Code} \ {None}
    <3>1. \A n \in todo : n \in RoomID /\ n \in Nat
      BY <1>1 DEF Typed, RoomID
    <3>2. todo \subseteq RoomID /\ todo \in SUBSET Nat /\ None \notin todo
      BY <3>1
    <3>3. main' = [main EXCEPT !.stage = "stopping", !.todo = todo]
      BY <2>1
    <3> HIDE DEF todo
    <3> QED
      BY <1>1, <3>2, <3>3 DEF MainRec
  <2>4. Typed'
    BY <1>1, <2>1, <2>2, <2>3, StepTyped DEF Typed
  <2>5. Listed'
    BY <2>1 DEF Listed
  <2>6. Asked'
    BY <1>1, <2>1, <2>2 DEF Safe, Asked, Awaits
  <2>7. OneCode'
    BY <2>1 DEF OneCode
  <2>8. Answered'
    BY <1>1, <2>1 DEF Safe, Answered
  <2>9. Doomed'
    BY <2>1, <2>3 DEF Doomed
  <2> QED
    BY <2>4, <2>5, <2>6, <2>7, <2>8, <2>9 DEF IInv, Safe
<1>3. CASE CloseStopsRoom
  <2>1. PICK r \in main.todo : rooms' = Stopped(rooms, r) /\ main' = [main EXCEPT !.todo = @ \ {r}]
    BY <1>3 DEF CloseStopsRoom
  <2>2. r \in RoomID /\ UNCHANGED <<registry, handler, killed, sweeper>>
    BY <1>1, <1>3, <2>1 DEF Typed, CloseStopsRoom
  <2>3. PICK v \in RoomRec : rooms' = [rooms EXCEPT ![r] = v] /\ v.done /\ v.run = rooms[r].run
    BY <1>1, <2>1, <2>2, StoppedIs
  <2>4. rooms' \in Seq(RoomRec) /\ RoomID' = RoomID
    BY <1>1, <2>2, <2>3, RoomStep DEF Typed
  <2>5. main' \in MainRec /\ main'.todo \subseteq main.todo
    BY <1>1, <2>1 DEF MainRec
  <2>6. Typed'
    BY <1>1, <2>2, <2>4, <2>5, StepTyped DEF Typed
  <2>7. Safe'
    <3>1. \A c \in Code : registry[c] # r
      BY <1>1, <2>1 DEF Safe, Doomed
    <3> QED
      BY <1>1, <2>2, <2>3, <2>5, <3>1, RoomEnds
  <2> QED
    BY <2>6, <2>7 DEF IInv
<1> QED
  BY <1>2, <1>3

-----------------------------------------------------------------------------
(* The theorems.                                                           *)

\* Every action, from the lemmas on each.
LEMMA NextInv == IInv /\ [Next]_vars => IInv'
<1> SUFFICES ASSUME IInv, [Next]_vars PROVE IInv'
  OBVIOUS
<1>1. CASE BeginPost \/ RefusePost \/ ServeEnds \/ ShutdownReturns \/ Exit \/ UNCHANGED vars
  BY <1>1, ProcessAlone
<1>2. CASE CreateRoom
  BY <1>2, CreateRoomInv
<1>3. ASSUME NEW h \in Handler,
             \/ Accept(h) \/ RejectJoinFrame(h) \/ HandlerStep(h) \/ Submit(h)
             \/ PeerLost(h) \/ Heartbeat(h) \/ ClientClosed(h)
      PROVE  IInv'
  BY <1>3, HandlerAlone, HandlerPosts DEF HandlerStep
<1>4. ASSUME NEW r \in RoomID,
             \/ ProcessJoin(r) \/ ProcessLeave(r) \/ Handle(r)
             \/ HandleExpireCheck(r) \/ RunReturns(r) \/ TTLPasses(r)
      PROVE  IInv'
  BY <1>4, RoomWorks, HandleExpireCheckInv, RunReturnsInv
<1>5. ASSUME NEW w \in Sweeper, BeginSweep(w) \/ SweeperStep(w)
      PROVE  IInv'
  BY <1>5, BeginSweepInv, AskExpireInv, AwaitExpireInv, RemoveRoomInv DEF SweeperStep
<1>6. CASE CloseTakesRooms \/ CloseStopsRoom
  BY <1>6, CloseInv
<1> QED
  BY <1>1, <1>2, <1>3, <1>4, <1>5, <1>6 DEF Next

\* The map, the questions under way and the answers fit together in every state.
THEOREM HubSound == Spec => []IInv
<1> QED
  BY InitInv, NextInv, PTL DEF Spec

\* A code never leads to a room that has ended, except while a sweeper is about to
\* take it off the map: for any number of rooms, sweepers and requests.
THEOREM NoDeadEntryHolds == Spec => []NoDeadEntry
<1>1. IInv => NoDeadEntry
  BY DEF IInv, Safe, Listed, Untouched, Knows, NoDeadEntry
<1> QED
  BY <1>1, HubSound, PTL

\* Only a room that has decided to end loses its code, before Close takes the map:
\* two sweeps that meet over a code that was given away never remove the newer room.
THEOREM NewerRoomKeptHolds == Spec => NewerRoomKept
<1> DEFINE Kept == main'.stage # "stopping" =>
                     \A c \in Code : (registry[c] # None /\ registry'[c] = None) =>
                                       rooms[registry[c]].run # "loop"
<1>1. ASSUME IInv, Next, main'.stage # "stopping", NEW c \in Code,
             registry[c] # None, registry'[c] = None
      PROVE  rooms[registry[c]].run # "loop"
  <2>1. CASE CreateRoom
    <3>1. PICK d \in Code : registry[d] = None /\ registry' = [registry EXCEPT ![d] = Len(rooms) + 1]
      BY <2>1 DEF CreateRoom
    <3> QED
      BY <1>1, <3>1 DEF IInv, Typed
  <2>2. ASSUME NEW w \in Sweeper, RemoveRoom(w)
        PROVE  rooms[registry[c]].run # "loop"
    <3> DEFINE e == sweeper[w].entry
    <3>1. StillThere(e) /\ registry' = [registry EXCEPT ![e.code] = None]
      BY <1>1, <2>2 DEF RemoveRoom
    <3>2. c = e.code /\ registry[c] = e.room
      BY <1>1, <3>1 DEF IInv, Typed, StillThere
    <3>3. rooms[e.room].run # "loop" \/ rooms[e.room].done
      BY <1>1, <2>2 DEF IInv, Safe, Answered, RemoveRoom
    <3> QED
      BY <1>1, <3>2, <3>3 DEF IInv, Safe, Listed, Untouched
  <2>3. CASE CloseTakesRooms
    BY <1>1, <2>3 DEF CloseTakesRooms, IInv, Typed, MainRec
  <2>4. CASE UNCHANGED registry
    BY <1>1, <2>4
  <2>5. \/ CreateRoom \/ CloseTakesRooms \/ UNCHANGED registry
        \/ \E w \in Sweeper : RemoveRoom(w)
    BY <1>1 DEF Next, BeginPost, RefusePost, HandlerStep, SweeperStep, Accept, RejectJoinFrame,
      PostJoin, AwaitJoin, Submit, Leave, PeerLost, Heartbeat, ClientClosed, ProcessJoin, ProcessLeave,
      Handle, HandleExpireCheck, RunReturns, TTLPasses, BeginSweep, AskExpire, AwaitExpire,
      ServeEnds, ShutdownReturns, CloseStopsRoom, Exit
  <2> QED
    BY <2>1, <2>2, <2>3, <2>4, <2>5
<1>2. IInv /\ [Next]_vars => [Kept]_vars
  BY <1>1
<1> QED
  BY <1>2, HubSound, PTL DEF Spec, NewerRoomKept

-----------------------------------------------------------------------------
(* The exit: no room is left running that Close did not see.               *)

Ended(r) == rooms[r].done \/ rooms[r].run # "loop"

\* A room that goes on is on the map, or Close is about to stop it; and once main
\* has drained the requests, no room appears.
Accounted ==
  /\ posts \in Nat
  /\ \A r \in RoomID : Ended(r) \/ Registered(r) \/ r \in main.todo
  /\ main.status = 0 /\ main.stage \in {"closing", "stopping", "exited"} => posts = 0
  /\ main.status = 0 /\ main.stage \in {"stopping", "exited"} => \A c \in Code : registry[c] = None
  /\ main.stage \in {"serving", "draining", "closing", "exited"} => main.todo = {}

RoomsKept ==
  /\ RoomID' = RoomID \/ CreateRoom
  /\ \A r \in RoomID : Ended(r) => r \in RoomID' /\ Ended(r)'

\* Rooms come by CreateRoom only, and one that has ended stays so.
LEMMA EndedStays == IInv /\ [Next]_vars => RoomsKept
<1> SUFFICES ASSUME IInv, [Next]_vars PROVE RoomsKept
  OBVIOUS
<1>1. /\ Typed /\ rooms \in Seq(RoomRec)
      /\ \A q \in RoomID : rooms[q] \in RoomRec
  BY RoomTyped DEF IInv, Typed
<1>2. CASE UNCHANGED rooms
  BY <1>2 DEF RoomID, Ended, RoomsKept
<1>3. CASE CreateRoom
  <2>1. rooms' = Append(rooms, NewRoom) /\ NewRoom \in RoomRec
    BY <1>3, EmptySeq DEF CreateRoom, NewRoom, RoomRec
  <2>2. RoomID \subseteq RoomID' /\ \A r \in RoomID : rooms'[r] = rooms[r]
    BY <1>1, <2>1, AppendProperties DEF RoomID
  <2> QED
    BY <1>3, <2>2 DEF Ended, RoomsKept
<1>4. ASSUME NEW q \in RoomID, NEW v, rooms' = [rooms EXCEPT ![q] = v],
             rooms[q].done => v.done, rooms[q].run # "loop" => v.run # "loop"
      PROVE  RoomsKept
  BY <1>1, <1>4 DEF RoomID, Ended, RoomsKept
<1>5. ASSUME NEW h \in Handler, PostJoin(h) \/ Submit(h) \/ Leave(h)
      PROVE  RoomsKept
  <2> DEFINE q == handler[h].room
  <2>1. q \in RoomID /\ rooms[q] \in RoomRec
    BY <1>1, <1>5 DEF PostJoin, Submit, Leave, At, Hijacked, Typed
  <2>2. CASE UNCHANGED rooms
    BY <1>2, <2>2
  <2>3. CASE rooms' = [rooms EXCEPT ![q].joins = @ \cup {h}]
    BY <1>4, <2>1, <2>3 DEF RoomRec
  <2>4. CASE rooms' = [rooms EXCEPT ![q].inbox = Append(@, h)]
    BY <1>4, <2>1, <2>4 DEF RoomRec
  <2>5. CASE rooms' = [rooms EXCEPT ![q].leaves = @ \cup {h}]
    BY <1>4, <2>1, <2>5 DEF RoomRec
  <2> QED
    BY <1>5, <2>2, <2>3, <2>4, <2>5 DEF PostJoin, Submit, Leave
<1>6. ASSUME NEW q \in RoomID,
             \/ ProcessJoin(q) \/ ProcessLeave(q) \/ Handle(q)
             \/ HandleExpireCheck(q) \/ RunReturns(q) \/ TTLPasses(q)
      PROVE  RoomsKept
  <2>1. rooms[q] \in RoomRec
    BY <1>1
  <2>2. CASE ProcessJoin(q) \/ ProcessLeave(q) \/ Handle(q) \/ TTLPasses(q)
    BY <1>1, <1>4, <2>2, RoomMoves DEF Vital
  <2>3. CASE HandleExpireCheck(q)
    <3>1. PICK w \in rooms[q].ask :
            rooms' = [rooms EXCEPT ![q].ask = @ \ {w}, ![q].run = IF Expired(q) THEN "returning" ELSE @]
      BY <2>3 DEF HandleExpireCheck
    <3> DEFINE v == [rooms[q] EXCEPT !.ask = @ \ {w}, !.run = IF Expired(q) THEN "returning" ELSE @]
    <3>2. /\ rooms' = [rooms EXCEPT ![q] = v] /\ v.done = rooms[q].done
          /\ rooms[q].run # "loop" => v.run # "loop"
      BY <2>1, <3>1 DEF RoomRec
    <3> HIDE DEF v
    <3> QED
      BY <1>4, <3>2
  <2>4. CASE RunReturns(q)
    <3> DEFINE v == [rooms[q] EXCEPT !.run = "over", !.done = TRUE, !.clients = {}]
    <3>1. rooms' = [rooms EXCEPT ![q] = v] /\ v.done /\ v.run # "loop"
      BY <2>1, <2>4 DEF RunReturns, RoomRec
    <3> HIDE DEF v
    <3> QED
      BY <1>4, <3>1
  <2> QED
    BY <1>6, <2>2, <2>3, <2>4
<1>7. ASSUME NEW q \in RoomID, rooms' = Stopped(rooms, q)
      PROVE  RoomsKept
  BY <1>1, <1>4, <1>7, StoppedIs
<1>8. ASSUME NEW w \in Sweeper, SweeperStep(w)
      PROVE  RoomsKept
  <2>1. CASE AskExpire(w)
    <3>1. \/ UNCHANGED rooms
          \/ \E e \in sweeper[w].todo : rooms' = [rooms EXCEPT ![e.room].ask = @ \cup {w}]
      BY <2>1 DEF AskExpire
    <3>2. \A e \in sweeper[w].todo : e.room \in RoomID
      BY <1>1 DEF Typed, Entry
    <3>3. ASSUME NEW e \in sweeper[w].todo, rooms' = [rooms EXCEPT ![e.room].ask = @ \cup {w}]
          PROVE  RoomsKept
      <4> DEFINE v == [rooms[e.room] EXCEPT !.ask = @ \cup {w}]
      <4>1. /\ rooms' = [rooms EXCEPT ![e.room] = v]
            /\ v.done = rooms[e.room].done /\ v.run = rooms[e.room].run
        BY <1>1, <3>2, <3>3 DEF RoomRec
      <4> HIDE DEF v
      <4> QED
        BY <1>4, <3>2, <4>1
    <3> QED
      BY <1>2, <3>1, <3>3
  <2>2. CASE RemoveRoom(w)
    BY <1>1, <1>2, <1>7, <2>2 DEF RemoveRoom, StillThere, Entry, Typed
  <2> QED
    BY <1>2, <1>8, <2>1, <2>2 DEF SweeperStep, AwaitExpire
<1>9. CASE CloseStopsRoom
  BY <1>1, <1>7, <1>9 DEF CloseStopsRoom, Typed
<1>10. \/ UNCHANGED rooms \/ CreateRoom \/ CloseStopsRoom
       \/ \E h \in Handler : PostJoin(h) \/ Submit(h) \/ Leave(h)
       \/ \E q \in RoomID : \/ ProcessJoin(q) \/ ProcessLeave(q) \/ Handle(q)
                            \/ HandleExpireCheck(q) \/ RunReturns(q) \/ TTLPasses(q)
       \/ \E w \in Sweeper : SweeperStep(w)
  BY DEF Next, vars, BeginPost, RefusePost, HandlerStep, Accept, RejectJoinFrame, AwaitJoin,
    PeerLost, Heartbeat, ClientClosed, BeginSweep, ServeEnds, ShutdownReturns, CloseTakesRooms, Exit
<1> QED
  BY <1>2, <1>3, <1>5, <1>6, <1>8, <1>9, <1>10

\* Every step keeps each room that goes on on the map, or among those Close goes through.
LEMMA AccountedInv == IInv /\ Accounted /\ [Next]_vars => Accounted'
<1> SUFFICES ASSUME IInv, Accounted, [Next]_vars PROVE Accounted'
  OBVIOUS
<1>1. Typed /\ main \in MainRec /\ RoomsKept
  BY EndedStays DEF IInv, Typed
<1>2. CASE UNCHANGED <<registry, main, posts>> /\ RoomID' = RoomID
  BY <1>1, <1>2 DEF Accounted, Registered, RoomsKept
<1>3. CASE BeginPost \/ RefusePost
  <2>1. UNCHANGED <<registry, rooms>> /\ RoomID' = RoomID
    BY <1>3 DEF BeginPost, RefusePost, RoomID
  <2>2. UNCHANGED main /\ posts' \in Nat /\ (posts = 0 => main.stage = "serving")
    BY <1>3 DEF BeginPost, RefusePost, Accounted
  <2> QED
    BY <2>1, <2>2 DEF Accounted, Registered, Ended
<1>4. CASE CreateRoom
  <2> DEFINE n == Len(rooms) + 1
  <2>1. PICK c \in Code : registry[c] = None /\ registry' = [registry EXCEPT ![c] = n]
    BY <1>4 DEF CreateRoom
  <2>2. /\ posts > 0 /\ posts' = posts - 1 /\ UNCHANGED main
        /\ RoomID' = RoomID \cup {n}
    BY <1>1, <1>4, AppendProperties DEF CreateRoom, RoomID, Typed
  <2>3. \A d \in Code : registry'[d] = IF d = c THEN n ELSE registry[d]
    BY <1>1, <2>1 DEF Typed
  <2>4. ASSUME NEW r \in RoomID, Registered(r)
        PROVE  Registered(r)'
    BY <2>1, <2>3, <2>4, ServerAssumption DEF Registered, RoomID
  <2>5. \A r \in RoomID' : Ended(r)' \/ Registered(r)' \/ r \in main.todo
    <3>1. \E d \in Code : registry'[d] = n
      BY <2>3
    <3> QED
      BY <1>1, <2>2, <2>4, <3>1 DEF Accounted, Registered, RoomsKept
  <2>6. posts \in Nat /\ posts # 0
    BY <2>2 DEF Accounted
  <2>7. ~(main.status = 0 /\ main.stage \in {"closing", "stopping", "exited"})
    BY <2>6 DEF Accounted
  <2> QED
    BY <2>2, <2>5, <2>6, <2>7 DEF Accounted
<1>5. ASSUME NEW w \in Sweeper, RemoveRoom(w)
      PROVE  Accounted'
  <2> DEFINE e == sweeper[w].entry
  <2>1. UNCHANGED <<posts, main>> /\ e.room \in RoomID /\ e.code \in Code
    BY <1>1, <1>5 DEF RemoveRoom, Typed, Entry
  <2>2. CASE ~StillThere(e)
    BY <1>2, <1>5, <2>2 DEF RemoveRoom, RoomID
  <2>3. CASE StillThere(e)
    <3>1. registry' = [registry EXCEPT ![e.code] = None] /\ rooms' = Stopped(rooms, e.room)
      BY <1>5, <2>3 DEF RemoveRoom, StillThere
    <3>2. RoomID' = RoomID /\ rooms'[e.room].done
      BY <1>1, <2>1, <3>1, StoppedIs, RoomStep DEF Typed
    <3>3. \A d \in Code : registry'[d] = IF d = e.code THEN None ELSE registry[d]
      BY <1>1, <3>1 DEF Typed
    <3>4. \A r \in RoomID : Registered(r) => r = e.room \/ Registered(r)'
      BY <2>3, <3>3 DEF Registered, StillThere
    <3> QED
      BY <1>1, <2>1, <3>2, <3>3, <3>4 DEF Accounted, RoomsKept, Ended
  <2> QED
    BY <2>2, <2>3
<1>6. CASE ServeEnds \/ ShutdownReturns \/ Exit
  <2>1. UNCHANGED <<registry, rooms, posts>> /\ RoomID' = RoomID
    BY <1>6 DEF ServeEnds, ShutdownReturns, Exit, RoomID
  <2>2. main'.todo = main.todo
    BY <1>1, <1>6 DEF ServeEnds, ShutdownReturns, Exit, MainRec
  <2>3. CASE ServeEnds
    <3>1. main.todo = {}
      BY <2>3 DEF ServeEnds, Accounted
    <3>2. CASE main' = [main EXCEPT !.stage = "closing", !.status = 1]
      <4>1. main'.stage = "closing" /\ main'.status = 1
        BY <1>1, <3>2 DEF MainRec
      <4> QED
        BY <2>1, <2>2, <3>1, <4>1 DEF Accounted, Registered, Ended
    <3>3. CASE main' = [main EXCEPT !.stage = "draining"]
      <4>1. main'.stage = "draining"
        BY <1>1, <3>3 DEF MainRec
      <4> QED
        BY <2>1, <2>2, <3>1, <4>1 DEF Accounted, Registered, Ended
    <3> QED
      BY <2>3, <3>2, <3>3 DEF ServeEnds
  <2>4. CASE ShutdownReturns
    <3>1. main.todo = {} /\ main'.stage = "closing" /\ (main'.status = 1 \/ posts = 0)
      BY <1>1, <2>4 DEF ShutdownReturns, MainRec, Accounted, Drained
    <3> QED
      BY <2>1, <2>2, <3>1 DEF Accounted, Registered, Ended
  <2>5. CASE Exit
    <3>1. /\ main.stage = "stopping" /\ main.todo = {}
          /\ main'.stage = "exited" /\ main'.status = main.status
      BY <1>1, <2>5 DEF Exit, MainRec
    <3> QED
      BY <2>1, <2>2, <3>1 DEF Accounted, Registered, Ended
  <2> QED
    BY <1>6, <2>3, <2>4, <2>5
<1>7. CASE CloseTakesRooms
  <2> DEFINE todo == {registry[c] : c \in Code} \ {None}
  <2>1. /\ main.stage = "closing" /\ main' = [main EXCEPT !.stage = "stopping", !.todo = todo]
        /\ registry' = [c \in Code |-> None]
        /\ UNCHANGED <<rooms, posts>> /\ RoomID' = RoomID
    BY <1>7 DEF CloseTakesRooms, RoomID
  <2>2. \A r \in RoomID : Registered(r) => r \in todo
    BY ServerAssumption DEF Registered, RoomID
  <2>3. main'.stage = "stopping" /\ main'.todo = todo /\ main'.status = main.status
    BY <1>1, <2>1 DEF MainRec
  <2> HIDE DEF todo
  <2> QED
    BY <2>1, <2>2, <2>3 DEF Accounted, Ended
<1>8. CASE CloseStopsRoom
  <2>1. PICK q \in main.todo : rooms' = Stopped(rooms, q) /\ main' = [main EXCEPT !.todo = @ \ {q}]
    BY <1>8 DEF CloseStopsRoom
  <2>2. main.stage = "stopping" /\ q \in RoomID /\ UNCHANGED <<posts, registry>>
    BY <1>1, <1>8 DEF CloseStopsRoom, Typed
  <2>3. main'.stage = main.stage /\ main'.status = main.status /\ main'.todo = main.todo \ {q}
    BY <1>1, <2>1 DEF MainRec
  <2>4. RoomID' = RoomID /\ rooms'[q].done
    BY <1>1, <2>1, <2>2, StoppedIs, RoomStep DEF Typed
  <2> QED
    BY <1>1, <2>2, <2>3, <2>4 DEF Accounted, Registered, RoomsKept, Ended
<1>9. \/ UNCHANGED <<registry, main, posts>> /\ RoomID' = RoomID
      \/ BeginPost \/ RefusePost \/ CreateRoom \/ ServeEnds \/ ShutdownReturns \/ Exit
      \/ CloseTakesRooms \/ CloseStopsRoom
      \/ \E w \in Sweeper : RemoveRoom(w)
  BY <1>1, ZenonT(60) DEF RoomsKept, Next, vars, HandlerStep, SweeperStep, Accept, RejectJoinFrame, PostJoin, AwaitJoin,
    Submit, Leave, PeerLost, Heartbeat, ClientClosed, ProcessJoin, ProcessLeave, Handle,
    HandleExpireCheck, RunReturns, TTLPasses, BeginSweep, AskExpire, AwaitExpire
<1> QED
  BY <1>2, <1>3, <1>4, <1>5, <1>6, <1>7, <1>8, <1>9

\* A process that exits with status 0 leaves no room running that nobody told to
\* stop: main drains the requests before it closes the hub.
THEOREM CleanExitHolds == Spec => []CleanExit
<1>1. Init => Accounted
  BY DEF Init, Accounted, RoomID
<1>2. IInv /\ Accounted => CleanExit
  <2> SUFFICES ASSUME IInv, Accounted, main.stage = "exited", main.status = 0, NEW r \in RoomID
               PROVE  rooms[r].done \/ rooms[r].run # "loop"
    BY DEF CleanExit
  <2>1. ~Registered(r) /\ main.todo = {}
    BY ServerAssumption DEF Accounted, Registered, RoomID
  <2> QED
    BY <2>1 DEF Accounted, Ended
<1> QED
  BY <1>1, <1>2, AccountedInv, HubSound, PTL DEF Spec

-----------------------------------------------------------------------------
(* Joins and leaves: who is registered has a handler that will leave.      *)

\* A request to join belongs to a handler that waits for it, unless the room was done.
Waiting(h, r) ==
  \/ handler[h].stage = "awaiting" /\ handler[h].room = r /\ handler[h].answer = "none"
  \/ handler[h].stage = "ended" /\ rooms[r].done

\* A registered client's handler reads for this room, will as soon as it sees that it
\* was accepted, or has asked to leave.
Served(h, r) ==
  \/ h \in rooms[r].leaves
  \/ /\ handler[h].room = r
     /\ \/ handler[h].stage = "reading"
        \/ handler[h].stage = "awaiting" /\ handler[h].answer = "accepted"

Attended ==
  /\ \A h \in Handler : handler[h].stage \in {"none", "framing"} => handler[h].answer = "none"
  /\ \A r \in RoomID : /\ \A h \in rooms[r].joins : Waiting(h, r)
                       /\ ~rooms[r].done => \A h \in rooms[r].clients : Served(h, r)

\* One room changes, and nobody is added to it.
LEMMA AttendedRoom ==
  ASSUME IInv, Attended, NEW r \in RoomID, NEW v, rooms' = [rooms EXCEPT ![r] = v],
         v.joins \subseteq rooms[r].joins, v.leaves = rooms[r].leaves,
         v.clients \subseteq rooms[r].clients, rooms[r].done => v.done, UNCHANGED handler
  PROVE  Attended'
<1>1. rooms \in Seq(RoomRec) /\ r \in DOMAIN rooms
  BY DEF IInv, Typed, RoomID
<1>2. RoomID' = RoomID /\ \A q \in RoomID : rooms'[q] = IF q = r THEN v ELSE rooms[q]
  BY <1>1 DEF RoomID
<1> QED
  BY <1>2 DEF Attended, Waiting, Served

\* One handler changes, and the rooms do not.
LEMMA AttendedHandler ==
  ASSUME IInv, Attended, NEW h \in Handler, NEW u, handler' = [handler EXCEPT ![h] = u],
         UNCHANGED rooms,
         u.stage \in {"none", "framing"} => u.answer = "none",
         \A r \in RoomID : Waiting(h, r) =>
            \/ u.stage = "awaiting" /\ u.room = r /\ u.answer = "none"
            \/ u.stage = "ended" /\ rooms[r].done,
         \A r \in RoomID : Served(h, r) /\ ~rooms[r].done =>
            \/ h \in rooms[r].leaves
            \/ u.room = r /\ (u.stage = "reading" \/ (u.stage = "awaiting" /\ u.answer = "accepted"))
  PROVE  Attended'
<1>1. RoomID' = RoomID
  BY DEF RoomID
<1>2. \A k \in Handler : handler'[k] = IF k = h THEN u ELSE handler[k]
  BY DEF IInv, Typed
<1>3. \A r \in RoomID : rooms[r].joins \subseteq Handler /\ rooms[r].clients \subseteq Handler
  BY RoomTyped DEF IInv, Typed, RoomRec
<1>4. \A r \in RoomID : \A k \in Handler : Waiting(k, r) => Waiting(k, r)'
  BY <1>2 DEF Waiting
<1>5. \A r \in RoomID : ~rooms[r].done => \A k \in Handler : Served(k, r) => Served(k, r)'
  BY <1>2 DEF Served
<1> QED
  BY <1>1, <1>2, <1>3, <1>4, <1>5 DEF Attended

\* A handler that ends without having read for a room that goes on.
LEMMA AttendedEnds ==
  ASSUME IInv, Attended, NEW h \in Handler, Ends(h), UNCHANGED rooms,
         \/ handler[h].stage = "framing"
         \/ handler[h].stage = "awaiting" /\ handler[h].answer = "refused"
         \/ handler[h].stage = "awaiting" /\ rooms[handler[h].room].done
  PROVE  Attended'
<1> DEFINE u == [NewHandler EXCEPT !.stage = "ended", !.peer = "closed", !.seat = handler[h].seat]
<1>1. u.stage = "ended" /\ handler' = [handler EXCEPT ![h] = u]
  BY DEF Ends, NewHandler
<1> HIDE DEF u
<1>2. \A r \in RoomID : Waiting(h, r) => rooms[r].done
  BY DEF Waiting
<1>3. \A r \in RoomID : Served(h, r) /\ ~rooms[r].done => h \in rooms[r].leaves
  BY DEF Served
<1> QED
  BY <1>1, <1>2, <1>3, AttendedHandler

\* Every step keeps a handler for each client of a room that runs.
LEMMA AttendedInv == IInv /\ Attended /\ [Next]_vars => Attended'
<1> SUFFICES ASSUME IInv, Attended, [Next]_vars PROVE Attended'
  OBVIOUS
<1>0. /\ Typed /\ rooms \in Seq(RoomRec)
      /\ \A q \in RoomID : rooms[q] \in RoomRec
      /\ \A h \in Handler : handler[h] \in HandlerRec
  BY RoomTyped DEF IInv, Typed
<1>1. CASE UNCHANGED <<rooms, handler>>
  BY <1>1 DEF Attended, Waiting, Served, RoomID
<1>2. CASE CreateRoom
  <2>1. /\ RoomID' = RoomID \cup {Len(rooms) + 1} /\ \A q \in RoomID : rooms'[q] = rooms[q]
        /\ rooms'[Len(rooms) + 1] = NewRoom /\ UNCHANGED handler
    <3>1. NewRoom \in RoomRec
      BY EmptySeq DEF NewRoom, RoomRec
    <3> QED
      BY <1>0, <1>2, <3>1, AppendProperties DEF CreateRoom, RoomID
  <2> QED
    BY <2>1 DEF Attended, Waiting, Served, NewRoom
<1>3. ASSUME NEW h \in Handler, Accept(h)
      PROVE  Attended'
  <2>1. PICK c \in Code : handler' = [handler EXCEPT ![h].stage = "framing", ![h].room = registry[c]]
    BY <1>3 DEF Accept
  <2> DEFINE u == [handler[h] EXCEPT !.stage = "framing", !.room = registry[c]]
  <2>2. /\ handler' = [handler EXCEPT ![h] = u] /\ u.stage = "framing" /\ u.answer = handler[h].answer
        /\ handler[h].stage = "none" /\ UNCHANGED rooms
    BY <1>0, <1>3, <2>1, ZenonT(60) DEF HandlerRec, Accept
  <2>3. u.answer = "none" /\ \A r \in RoomID : ~Waiting(h, r) /\ (Served(h, r) => h \in rooms[r].leaves)
    BY <2>2 DEF Attended, Waiting, Served
  <2> HIDE DEF u
  <2> QED
    BY <2>2, <2>3, AttendedHandler
<1>4. ASSUME NEW h \in Handler, RejectJoinFrame(h)
      PROVE  Attended'
  BY <1>4, AttendedEnds DEF RejectJoinFrame, At
<1>5. ASSUME NEW h \in Handler, AwaitJoin(h)
      PROVE  Attended'
  <2>1. UNCHANGED rooms /\ handler[h].stage = "awaiting"
    BY <1>5 DEF AwaitJoin, At
  <2>2. CASE Ends(h) /\ (handler[h].answer = "refused" \/ JoinClosed(h))
    BY <2>1, <2>2, AttendedEnds DEF JoinClosed
  <2>3. CASE handler[h].answer = "accepted" /\ Goes(h, "reading")
    <3> DEFINE u == [handler[h] EXCEPT !.stage = "reading"]
    <3>1. /\ handler' = [handler EXCEPT ![h] = u] /\ u.stage = "reading" /\ u.room = handler[h].room
      BY <1>0, <2>3 DEF HandlerRec, Goes
    <3>2. \A r \in RoomID : ~Waiting(h, r) /\ (Served(h, r) => h \in rooms[r].leaves \/ handler[h].room = r)
      BY <2>1, <2>3 DEF Waiting, Served
    <3> HIDE DEF u
    <3>3. \A r \in RoomID : Waiting(h, r) =>
            \/ u.stage = "awaiting" /\ u.room = r /\ u.answer = "none"
            \/ u.stage = "ended" /\ rooms[r].done
      BY <3>2
    <3>4. \A r \in RoomID : Served(h, r) /\ ~rooms[r].done =>
            \/ h \in rooms[r].leaves
            \/ u.room = r /\ (u.stage = "reading" \/ (u.stage = "awaiting" /\ u.answer = "accepted"))
      BY <3>1, <3>2
    <3> QED
      BY <2>1, <3>1, <3>3, <3>4, AttendedHandler
  <2> QED
    BY <1>5, <2>2, <2>3 DEF AwaitJoin
<1>6. ASSUME NEW h \in Handler, PeerLost(h) \/ Heartbeat(h) \/ ClientClosed(h)
      PROVE  Attended'
  <2>1. UNCHANGED rooms /\ \E p : handler' = [handler EXCEPT ![h].peer = p]
    BY <1>6 DEF PeerLost, Heartbeat, ClientClosed
  <2>2. PICK p : handler' = [handler EXCEPT ![h].peer = p]
    BY <2>1
  <2> DEFINE u == [handler[h] EXCEPT !.peer = p]
  <2>3. /\ handler' = [handler EXCEPT ![h] = u] /\ u.stage = handler[h].stage
        /\ u.room = handler[h].room /\ u.answer = handler[h].answer
    BY <1>0, <2>2 DEF HandlerRec
  <2> HIDE DEF u
  <2>4. u.stage \in {"none", "framing"} => u.answer = "none"
    BY <2>3 DEF Attended
  <2>5. \A r \in RoomID : Waiting(h, r) =>
            \/ u.stage = "awaiting" /\ u.room = r /\ u.answer = "none"
            \/ u.stage = "ended" /\ rooms[r].done
    BY <2>3 DEF Waiting
  <2>6. \A r \in RoomID : Served(h, r) /\ ~rooms[r].done =>
            \/ h \in rooms[r].leaves
            \/ u.room = r /\ (u.stage = "reading" \/ (u.stage = "awaiting" /\ u.answer = "accepted"))
    BY <2>3 DEF Served
  <2> QED
    BY <2>1, <2>3, <2>4, <2>5, <2>6, AttendedHandler
<1>7. ASSUME NEW h \in Handler, PostJoin(h)
      PROVE  Attended'
  <2> DEFINE r == handler[h].room
  <2>1. r \in RoomID /\ handler[h].stage = "framing"
    BY <1>0, <1>7 DEF PostJoin, At, Hijacked, Typed
  <2>2. CASE Ends(h) /\ UNCHANGED rooms
    BY <2>1, <2>2, AttendedEnds
  <2>3. CASE /\ rooms' = [rooms EXCEPT ![r].joins = @ \cup {h}]
             /\ \E s \in Seat : handler' = [handler EXCEPT ![h].stage = "awaiting", ![h].seat = s]
    <3>1. PICK s \in Seat : handler' = [handler EXCEPT ![h].stage = "awaiting", ![h].seat = s]
      BY <2>3
    <3> DEFINE u == [handler[h] EXCEPT !.stage = "awaiting", !.seat = s]
               v == [rooms[r] EXCEPT !.joins = @ \cup {h}]
    <3>2. /\ handler' = [handler EXCEPT ![h] = u] /\ u.stage = "awaiting"
          /\ u.room = r /\ u.answer = handler[h].answer
      BY <1>0, <3>1 DEF HandlerRec
    <3>3. /\ rooms' = [rooms EXCEPT ![r] = v] /\ v.joins = rooms[r].joins \cup {h}
          /\ v.leaves = rooms[r].leaves /\ v.clients = rooms[r].clients /\ v.done = rooms[r].done
      BY <1>0, <2>1, <2>3 DEF RoomRec
    <3>4. handler[h].answer = "none"
      BY <2>1 DEF Attended
    <3> HIDE DEF u, v
    <3>5. RoomID' = RoomID /\ \A q \in RoomID : rooms'[q] = IF q = r THEN v ELSE rooms[q]
      BY <1>0, <2>1, <3>3 DEF RoomID
    <3>6. \A k \in Handler : handler'[k] = IF k = h THEN u ELSE handler[k]
      BY <1>0, <3>2 DEF Typed
    <3>7. /\ \A q \in RoomID : q = r => Waiting(h, q)'
          /\ \A q \in RoomID : ~Waiting(h, q) /\ (Served(h, q) => h \in rooms[q].leaves)
      BY <2>1, <3>2, <3>4, <3>6 DEF Waiting, Served
    <3>8. \A q \in RoomID : rooms[q].joins \subseteq Handler /\ rooms[q].clients \subseteq Handler
      BY <1>0 DEF RoomRec
    <3>9. ASSUME NEW q \in RoomID
          PROVE  /\ \A k \in rooms'[q].joins : Waiting(k, q)'
                 /\ ~rooms'[q].done => \A k \in rooms'[q].clients : Served(k, q)'
      <4>1. /\ rooms'[q].leaves = rooms[q].leaves /\ rooms'[q].clients = rooms[q].clients
            /\ rooms'[q].done = rooms[q].done
            /\ \/ rooms'[q].joins = rooms[q].joins
               \/ q = r /\ rooms'[q].joins = rooms[q].joins \cup {h}
        <5>1. CASE q = r
          <6>1. rooms'[q] = v
            BY <3>5, <5>1
          <6> QED
            BY <3>3, <5>1, <6>1
        <5>2. CASE q # r
          <6>1. rooms'[q] = rooms[q]
            BY <3>5, <5>2
          <6> QED
            BY <6>1
        <5> QED
          BY <5>1, <5>2
      <4>2. \A k \in Handler \ {h} : (Waiting(k, q) => Waiting(k, q)') /\ (Served(k, q) => Served(k, q)')
        BY <3>6, <4>1 DEF Waiting, Served
      <4>3. Served(h, q) => Served(h, q)'
        BY <3>7, <4>1 DEF Served
      <4>4. h \in rooms'[q].joins => q = r
        BY <3>7, <4>1 DEF Attended
      <4>5. \A k \in rooms'[q].joins : Waiting(k, q)'
        <5> SUFFICES ASSUME NEW k \in rooms'[q].joins PROVE Waiting(k, q)'
          OBVIOUS
        <5>1. CASE k = h
          BY <3>7, <4>4, <5>1
        <5>2. CASE k # h
          <6>1. k \in rooms[q].joins /\ k \in Handler
            BY <3>8, <4>1, <5>2
          <6>2. Waiting(k, q)
            BY <6>1 DEF Attended
          <6> QED
            BY <4>2, <5>2, <6>1, <6>2
        <5> QED
          BY <5>1, <5>2
      <4>6. ~rooms'[q].done => \A k \in rooms'[q].clients : Served(k, q)'
        BY <3>8, <4>1, <4>2, <4>3 DEF Attended
      <4> QED
        BY <4>5, <4>6
    <3> QED
      BY <3>2, <3>5, <3>6, <3>9 DEF Attended
  <2> QED
    BY <1>7, <2>2, <2>3 DEF PostJoin
<1>8. ASSUME NEW h \in Handler, Submit(h)
      PROVE  Attended'
  <2> DEFINE r == handler[h].room
             v == [rooms[r] EXCEPT !.inbox = Append(@, h)]
  <2>1. r \in RoomID
    BY <1>0, <1>8 DEF Submit, At, Hijacked, Typed
  <2>2. /\ rooms' = [rooms EXCEPT ![r] = v] /\ v.joins = rooms[r].joins
        /\ v.leaves = rooms[r].leaves /\ v.clients = rooms[r].clients /\ v.done = rooms[r].done
    BY <1>0, <1>8, <2>1 DEF RoomRec, Submit
  <2> HIDE DEF v
  <2> QED
    BY <1>8, <2>1, <2>2, AttendedRoom DEF Submit
<1>9. ASSUME NEW h \in Handler, Leave(h)
      PROVE  Attended'
  <2> DEFINE r == handler[h].room
             v == [rooms[r] EXCEPT !.leaves = @ \cup {h}]
             u == [NewHandler EXCEPT !.stage = "ended", !.peer = "closed", !.seat = handler[h].seat]
  <2>1. r \in RoomID /\ handler[h].stage = "reading"
    BY <1>0, <1>9 DEF Leave, At, Hijacked, Typed
  <2>2. /\ rooms' = [rooms EXCEPT ![r] = v] /\ v.joins = rooms[r].joins
        /\ v.leaves = rooms[r].leaves \cup {h} /\ v.clients = rooms[r].clients /\ v.done = rooms[r].done
    BY <1>0, <1>9, <2>1 DEF RoomRec, Leave
  <2>3. handler' = [handler EXCEPT ![h] = u] /\ u.stage = "ended"
    BY <1>9 DEF Leave, Ends, NewHandler
  <2> HIDE DEF u, v
  <2>4. RoomID' = RoomID /\ \A q \in RoomID : rooms'[q] = IF q = r THEN v ELSE rooms[q]
    BY <1>0, <2>1, <2>2 DEF RoomID
  <2>5. \A k \in Handler : handler'[k] = IF k = h THEN u ELSE handler[k]
    BY <1>0, <2>3 DEF Typed
  <2>6. \A q \in RoomID : rooms[q].joins \subseteq Handler /\ rooms[q].clients \subseteq Handler
    BY <1>0 DEF RoomRec
  <2>7. ASSUME NEW q \in RoomID
        PROVE  /\ \A k \in rooms'[q].joins : Waiting(k, q)'
               /\ ~rooms'[q].done => \A k \in rooms'[q].clients : Served(k, q)'
    <3>1. /\ rooms'[q].joins = rooms[q].joins /\ rooms'[q].clients = rooms[q].clients
          /\ rooms'[q].done = rooms[q].done
          /\ rooms'[q].leaves = IF q = r THEN rooms[q].leaves \cup {h} ELSE rooms[q].leaves
      <4>1. CASE q = r
        <5>1. rooms'[q] = v
          BY <2>4, <4>1
        <5> QED
          BY <2>2, <4>1, <5>1
      <4>2. CASE q # r
        <5>1. rooms'[q] = rooms[q]
          BY <2>4, <4>2
        <5> QED
          BY <4>2, <5>1
      <4> QED
        BY <4>1, <4>2
    <3>2. \A k \in Handler \ {h} : (Waiting(k, q) => Waiting(k, q)') /\ (Served(k, q) => Served(k, q)')
      BY <2>5, <3>1 DEF Waiting, Served
    <3>3. ~Waiting(h, q) /\ (Served(h, q) => Served(h, q)')
      BY <2>1, <3>1 DEF Waiting, Served
    <3> QED
      BY <2>6, <3>1, <3>2, <3>3 DEF Attended
  <2> QED
    BY <2>3, <2>4, <2>5, <2>7 DEF Attended
<1>10. ASSUME NEW r \in RoomID, ProcessJoin(r)
       PROVE  Attended'
  <2>1. PICK h \in rooms[r].joins :
          LET old == {k \in rooms[r].clients : handler[k].seat = handler[h].seat}
          IN  \/ /\ rooms' = [rooms EXCEPT ![r].joins = @ \ {h}]
                 /\ handler' = [handler EXCEPT ![h].answer = "refused"]
              \/ /\ rooms' = [rooms EXCEPT ![r].joins = @ \ {h}, ![r].idle = FALSE,
                                            ![r].clients = (@ \ old) \cup {h}]
                 /\ handler' = [handler EXCEPT ![h].answer = "accepted"]
    BY <1>10 DEF ProcessJoin
  <2>2. h \in Handler /\ Waiting(h, r)
    BY <1>0 DEF RoomRec, Attended
  <2>3. PICK a \in {"refused", "accepted"} : handler' = [handler EXCEPT ![h].answer = a]
    BY <2>1
  <2> DEFINE u == [handler[h] EXCEPT !.answer = a]
  <2>4. /\ handler' = [handler EXCEPT ![h] = u] /\ u.stage = handler[h].stage
        /\ u.room = handler[h].room /\ u.answer = a
    BY <1>0, <2>2, <2>3 DEF HandlerRec
  <2>5. PICK v : /\ rooms' = [rooms EXCEPT ![r] = v] /\ v.joins = rooms[r].joins \ {h}
                 /\ v.leaves = rooms[r].leaves /\ v.done = rooms[r].done
                 /\ \/ v.clients \subseteq rooms[r].clients
                    \/ v.clients \subseteq rooms[r].clients \cup {h} /\ a = "accepted"
    <3>1. CASE /\ rooms' = [rooms EXCEPT ![r].joins = @ \ {h}]
               /\ handler' = [handler EXCEPT ![h].answer = "refused"]
      <4> DEFINE v == [rooms[r] EXCEPT !.joins = @ \ {h}]
      <4>1. /\ rooms' = [rooms EXCEPT ![r] = v] /\ v.joins = rooms[r].joins \ {h}
            /\ v.leaves = rooms[r].leaves /\ v.done = rooms[r].done /\ v.clients = rooms[r].clients
        BY <1>0, <3>1 DEF RoomRec
      <4> HIDE DEF v
      <4> QED
        BY <4>1
    <3> DEFINE old == {k \in rooms[r].clients : handler[k].seat = handler[h].seat}
    <3>2. CASE /\ rooms' = [rooms EXCEPT ![r].joins = @ \ {h}, ![r].idle = FALSE,
                                         ![r].clients = (@ \ old) \cup {h}]
               /\ handler' = [handler EXCEPT ![h].answer = "accepted"]
      <4> DEFINE v == [rooms[r] EXCEPT !.joins = @ \ {h}, !.idle = FALSE, !.clients = (@ \ old) \cup {h}]
      <4>1. /\ rooms' = [rooms EXCEPT ![r] = v] /\ v.joins = rooms[r].joins \ {h}
            /\ v.leaves = rooms[r].leaves /\ v.done = rooms[r].done
            /\ v.clients = (rooms[r].clients \ old) \cup {h}
        BY <1>0, <3>2 DEF RoomRec
      <4>2. a = "accepted"
        <5>1. handler'[h].answer = a /\ handler'[h].answer = "accepted"
          BY <1>0, <2>2, <2>3, <3>2 DEF Typed, HandlerRec
        <5> QED
          BY <5>1
      <4> HIDE DEF v, old
      <4> QED
        BY <4>1, <4>2
    <3> QED
      BY <2>1, <3>1, <3>2
  <2> HIDE DEF u
  <2>6. RoomID' = RoomID /\ \A q \in RoomID : rooms'[q] = IF q = r THEN v ELSE rooms[q]
    BY <1>0, <2>5 DEF RoomID
  <2>7. \A k \in Handler : handler'[k] = IF k = h THEN u ELSE handler[k]
    BY <1>0, <2>2, <2>4 DEF Typed
  <2>8. \A q \in RoomID : rooms[q].joins \subseteq Handler /\ rooms[q].clients \subseteq Handler
    BY <1>0 DEF RoomRec
  <2>9. ASSUME NEW q \in RoomID
        PROVE  /\ \A k \in rooms'[q].joins : Waiting(k, q)'
               /\ ~rooms'[q].done => \A k \in rooms'[q].clients : Served(k, q)'
    <3>1. /\ rooms'[q].leaves = rooms[q].leaves /\ rooms'[q].done = rooms[q].done
          /\ rooms'[q].joins \subseteq rooms[q].joins /\ (q = r => h \notin rooms'[q].joins)
          /\ \/ rooms'[q].clients \subseteq rooms[q].clients
             \/ q = r /\ a = "accepted" /\ rooms'[q].clients \subseteq rooms[q].clients \cup {h}
      BY <2>5, <2>6
    <3>2. \A k \in Handler \ {h} : (Waiting(k, q) => Waiting(k, q)') /\ (Served(k, q) => Served(k, q)')
      BY <2>7, <3>1 DEF Waiting, Served
    <3>3. Served(h, q) /\ ~rooms[q].done => Served(h, q)'
      BY <2>2, <2>4, <2>7, <3>1 DEF Waiting, Served
    <3>4. q # r => (Waiting(h, q) => Waiting(h, q)')
      BY <2>2, <2>4, <2>7, <3>1 DEF Waiting
    <3>5. q = r /\ a = "accepted" /\ ~rooms[q].done => Served(h, q)'
      BY <2>2, <2>4, <2>7 DEF Waiting, Served
    <3> QED
      BY <2>8, <3>1, <3>2, <3>3, <3>4, <3>5 DEF Attended
  <2>10. \A k \in Handler : handler'[k].stage \in {"none", "framing"} => handler'[k].answer = "none"
    BY <2>2, <2>4, <2>7 DEF Attended, Waiting
  <2> QED
    BY <2>6, <2>9, <2>10 DEF Attended
<1>11. ASSUME NEW r \in RoomID, ProcessLeave(r)
       PROVE  Attended'
  <2>1. PICK h \in rooms[r].leaves :
          rooms' = [rooms EXCEPT ![r].leaves = @ \ {h}, ![r].clients = @ \ {h},
                                 ![r].idle = @ /\ h \notin rooms[r].clients]
    BY <1>11 DEF ProcessLeave
  <2> DEFINE v == [rooms[r] EXCEPT !.leaves = @ \ {h}, !.clients = @ \ {h},
                                   !.idle = @ /\ h \notin rooms[r].clients]
  <2>2. /\ rooms' = [rooms EXCEPT ![r] = v] /\ v.joins = rooms[r].joins /\ v.done = rooms[r].done
        /\ v.leaves = rooms[r].leaves \ {h} /\ v.clients = rooms[r].clients \ {h}
    BY <1>0, <2>1 DEF RoomRec
  <2> HIDE DEF v
  <2>3. RoomID' = RoomID /\ \A q \in RoomID : rooms'[q] = IF q = r THEN v ELSE rooms[q]
    BY <1>0, <2>2 DEF RoomID
  <2>4. UNCHANGED handler
    BY <1>11 DEF ProcessLeave
  <2> QED
    BY <2>2, <2>3, <2>4 DEF Attended, Waiting, Served
<1>12. ASSUME NEW r \in RoomID, Handle(r) \/ TTLPasses(r) \/ HandleExpireCheck(r) \/ RunReturns(r)
       PROVE  Attended'
  <2>1. UNCHANGED handler
    BY <1>12 DEF Handle, TTLPasses, HandleExpireCheck, RunReturns
  <2>2. CASE Handle(r)
    <3>1. PICK i \in {rooms[r].idle, rooms[r].idle /\ Head(rooms[r].inbox) \notin rooms[r].clients} :
            rooms' = [rooms EXCEPT ![r].inbox = Tail(@), ![r].idle = i]
      <4>1. CASE rooms' = [rooms EXCEPT ![r].inbox = Tail(@)]
        <5>1. rooms' = [rooms EXCEPT ![r].inbox = Tail(@), ![r].idle = rooms[r].idle]
          BY <1>0, <4>1 DEF RoomRec
        <5> QED
          BY <5>1
      <4> QED
        BY <2>2, <4>1 DEF Handle
    <3> DEFINE v == [rooms[r] EXCEPT !.inbox = Tail(@), !.idle = i]
    <3>2. /\ rooms' = [rooms EXCEPT ![r] = v] /\ v.joins = rooms[r].joins /\ v.done = rooms[r].done
          /\ v.leaves = rooms[r].leaves /\ v.clients = rooms[r].clients
      BY <1>0, <3>1 DEF RoomRec
    <3> HIDE DEF v
    <3> QED
      BY <2>1, <3>2, AttendedRoom
  <2>3. CASE TTLPasses(r)
    <3> DEFINE v == [rooms[r] EXCEPT !.idle = TRUE]
    <3>1. /\ rooms' = [rooms EXCEPT ![r] = v] /\ v.joins = rooms[r].joins /\ v.done = rooms[r].done
          /\ v.leaves = rooms[r].leaves /\ v.clients = rooms[r].clients
      BY <1>0, <2>3 DEF RoomRec, TTLPasses
    <3> HIDE DEF v
    <3> QED
      BY <2>1, <3>1, AttendedRoom
  <2>4. CASE HandleExpireCheck(r)
    <3>1. PICK w \in rooms[r].ask :
            rooms' = [rooms EXCEPT ![r].ask = @ \ {w}, ![r].run = IF Expired(r) THEN "returning" ELSE @]
      BY <2>4 DEF HandleExpireCheck
    <3> DEFINE v == [rooms[r] EXCEPT !.ask = @ \ {w}, !.run = IF Expired(r) THEN "returning" ELSE @]
    <3>2. /\ rooms' = [rooms EXCEPT ![r] = v] /\ v.joins = rooms[r].joins /\ v.done = rooms[r].done
          /\ v.leaves = rooms[r].leaves /\ v.clients = rooms[r].clients
      BY <1>0, <3>1 DEF RoomRec
    <3> HIDE DEF v
    <3> QED
      BY <2>1, <3>2, AttendedRoom
  <2>5. CASE RunReturns(r)
    <3> DEFINE v == [rooms[r] EXCEPT !.run = "over", !.done = TRUE, !.clients = {}]
    <3>1. /\ rooms' = [rooms EXCEPT ![r] = v] /\ v.joins = rooms[r].joins /\ v.done
          /\ v.leaves = rooms[r].leaves /\ v.clients = {}
      BY <1>0, <2>5 DEF RoomRec, RunReturns
    <3> HIDE DEF v
    <3> QED
      BY <2>1, <3>1, AttendedRoom
  <2> QED
    BY <1>12, <2>2, <2>3, <2>4, <2>5
<1>13. ASSUME NEW r \in RoomID, rooms' = Stopped(rooms, r), UNCHANGED handler
       PROVE  Attended'
  <2> DEFINE v == [rooms[r] EXCEPT !.cancelled = TRUE, !.done = TRUE]
  <2>1. /\ rooms' = [rooms EXCEPT ![r] = v] /\ v.joins = rooms[r].joins /\ v.done
        /\ v.leaves = rooms[r].leaves /\ v.clients = rooms[r].clients
    BY <1>0, <1>13 DEF RoomRec, Stopped
  <2> HIDE DEF v
  <2> QED
    BY <1>13, <2>1, AttendedRoom
<1>14. ASSUME NEW w \in Sweeper, SweeperStep(w)
       PROVE  Attended'
  <2>1. UNCHANGED handler
    BY <1>14 DEF SweeperStep, AskExpire, AwaitExpire, RemoveRoom
  <2>2. CASE UNCHANGED rooms
    BY <1>1, <2>1, <2>2
  <2>3. ASSUME NEW r \in RoomID, rooms' = [rooms EXCEPT ![r].ask = @ \cup {w}]
        PROVE  Attended'
    <3> DEFINE v == [rooms[r] EXCEPT !.ask = @ \cup {w}]
    <3>1. /\ rooms' = [rooms EXCEPT ![r] = v] /\ v.joins = rooms[r].joins /\ v.done = rooms[r].done
          /\ v.leaves = rooms[r].leaves /\ v.clients = rooms[r].clients
      BY <1>0, <2>3 DEF RoomRec
    <3> HIDE DEF v
    <3> QED
      BY <2>1, <3>1, AttendedRoom
  <2>4. /\ \A e \in sweeper[w].todo : e.room \in RoomID
        /\ sweeper[w].stage = "removing" => sweeper[w].entry.room \in RoomID
    BY <1>0 DEF Typed, Entry
  <2>5. CASE AskExpire(w)
    BY <2>2, <2>3, <2>4, <2>5 DEF AskExpire
  <2>6. CASE RemoveRoom(w)
    BY <1>13, <2>1, <2>2, <2>4, <2>6 DEF RemoveRoom, StillThere
  <2> QED
    BY <1>14, <2>2, <2>5, <2>6 DEF SweeperStep, AwaitExpire
<1>15. CASE CloseStopsRoom
  BY <1>0, <1>13, <1>15 DEF CloseStopsRoom, Typed
<1>16. \/ UNCHANGED <<rooms, handler>> \/ CreateRoom \/ CloseStopsRoom
       \/ \E h \in Handler : \/ Accept(h) \/ RejectJoinFrame(h) \/ AwaitJoin(h) \/ PostJoin(h)
                             \/ Submit(h) \/ Leave(h) \/ PeerLost(h) \/ Heartbeat(h) \/ ClientClosed(h)
       \/ \E r \in RoomID : \/ ProcessJoin(r) \/ ProcessLeave(r) \/ Handle(r) \/ TTLPasses(r)
                            \/ HandleExpireCheck(r) \/ RunReturns(r)
       \/ \E w \in Sweeper : SweeperStep(w)
  BY DEF Next, vars, HandlerStep, BeginPost, RefusePost, BeginSweep, ServeEnds, ShutdownReturns,
    CloseTakesRooms, Exit
<1> QED
  BY <1>1, <1>2, <1>3, <1>4, <1>5, <1>6, <1>7, <1>8, <1>9, <1>10, <1>11, <1>12, <1>14, <1>15, <1>16

\* Whoever is registered with a room that has not been told to stop has a handler that
\* will call Leave: no order of joins, answers, ends of rooms and lost connections
\* leaves a seat occupied by nobody.
THEOREM ClientsWillLeaveHolds == Spec => []ClientsWillLeave
<1>1. Init => Attended
  BY DEF Init, Attended, NewHandler, RoomID
<1>2. Attended => ClientsWillLeave
  BY DEF Attended, Served, ClientsWillLeave
<1> QED
  BY <1>1, <1>2, AttendedInv, HubSound, PTL DEF Spec

-----------------------------------------------------------------------------
(* Types and capacities.                                                   *)

\* The requests in flight, a room's inbox and its question channel keep within their
\* capacities, and a handler's room exists.
InPosts == posts \in 0 .. MaxPosts

Fits(s) == Len(s.inbox) <= InboxCap /\ \A v, w \in s.ask : v = w

InRooms == \A r \in RoomID : Fits(rooms[r])

Placed == \A h \in Handler : handler[h].room \in RoomID \cup {0}

\* The counter of requests moves by one, and not beyond its bound.
LEMMA PostsStay == InPosts /\ [Next]_vars => InPosts'
<1> SUFFICES ASSUME InPosts, [Next]_vars PROVE InPosts'
  OBVIOUS
<1>1. posts \in Nat /\ posts <= MaxPosts /\ MaxPosts \in Nat
  BY ServerAssumption DEF InPosts
<1>2. \/ posts' = posts
      \/ posts' = posts + 1 /\ posts < MaxPosts
      \/ posts' = posts - 1 /\ posts > 0
  <2>1. CASE BeginPost \/ RefusePost \/ CreateRoom
    BY <2>1 DEF BeginPost, RefusePost, CreateRoom
  <2>2. CASE \E h \in Handler : \/ Accept(h) \/ RejectJoinFrame(h) \/ HandlerStep(h) \/ Submit(h)
                                \/ PeerLost(h) \/ Heartbeat(h) \/ ClientClosed(h)
    BY <2>2 DEF Accept, RejectJoinFrame, HandlerStep, PostJoin, AwaitJoin, Leave, Submit, PeerLost,
      Heartbeat, ClientClosed
  <2>3. CASE \E r \in RoomID : \/ ProcessJoin(r) \/ ProcessLeave(r) \/ Handle(r)
                               \/ HandleExpireCheck(r) \/ RunReturns(r) \/ TTLPasses(r)
    BY <2>3 DEF ProcessJoin, ProcessLeave, Handle, HandleExpireCheck, RunReturns, TTLPasses
  <2>4. CASE \E w \in Sweeper : BeginSweep(w) \/ SweeperStep(w)
    BY <2>4 DEF BeginSweep, SweeperStep, AskExpire, AwaitExpire, RemoveRoom
  <2>5. CASE \/ ServeEnds \/ ShutdownReturns \/ CloseTakesRooms \/ CloseStopsRoom \/ Exit
             \/ UNCHANGED vars
    BY <2>5 DEF ServeEnds, ShutdownReturns, CloseTakesRooms, CloseStopsRoom, Exit, vars
  <2> QED
    BY <2>1, <2>2, <2>3, <2>4, <2>5 DEF Next
<1> QED
  BY <1>1, <1>2 DEF InPosts

\* One room changes and keeps within its capacities.
LEMMA OneRoomFits ==
  ASSUME IInv, InRooms, NEW r \in RoomID, NEW v, rooms' = [rooms EXCEPT ![r] = v], Fits(v)
  PROVE  InRooms' /\ RoomID' = RoomID
<1>1. rooms \in Seq(RoomRec) /\ r \in DOMAIN rooms
  BY DEF IInv, Typed, RoomID
<1>2. RoomID' = RoomID /\ \A q \in RoomID : rooms'[q] = IF q = r THEN v ELSE rooms[q]
  BY <1>1 DEF RoomID
<1>3. \A q \in RoomID : Fits(rooms'[q])
  BY <1>2 DEF InRooms
<1> QED
  BY <1>2, <1>3 DEF InRooms, Fits

\* A room that only loses messages and questions keeps within its capacities.
LEMMA RoomShrinks ==
  ASSUME IInv, InRooms, NEW r \in RoomID, NEW v, rooms' = [rooms EXCEPT ![r] = v],
         v.inbox = rooms[r].inbox \/ (rooms[r].inbox # <<>> /\ v.inbox = Tail(rooms[r].inbox)),
         v.ask \subseteq rooms[r].ask
  PROVE  InRooms' /\ RoomID' = RoomID
<1>1. rooms[r] \in RoomRec /\ Fits(rooms[r])
  BY RoomTyped DEF IInv, Typed, InRooms
<1>2. Len(v.inbox) <= Len(rooms[r].inbox) /\ Len(rooms[r].inbox) \in Nat /\ Len(v.inbox) \in Nat
  <2>1. rooms[r].inbox \in Seq(Handler) /\ Len(rooms[r].inbox) \in Nat
    BY <1>1, LenProperties DEF RoomRec
  <2>2. CASE v.inbox = rooms[r].inbox
    BY <2>1, <2>2
  <2>3. CASE rooms[r].inbox # <<>> /\ v.inbox = Tail(rooms[r].inbox)
    BY <2>1, <2>3, HeadTailProperties, LenProperties
  <2> QED
    BY <2>2, <2>3
<1>3. Fits(v)
  BY <1>1, <1>2, ServerAssumption DEF Fits
<1> QED
  BY <1>3, OneRoomFits

\* Only Submit and AskExpire put anything into a channel bounded here, and both look
\* whether it has room. Rooms come and never go.
LEMMA RoomsFit == IInv /\ InRooms /\ [Next]_vars => InRooms' /\ RoomID \subseteq RoomID'
<1> SUFFICES ASSUME IInv, InRooms, [Next]_vars PROVE InRooms' /\ RoomID \subseteq RoomID'
  OBVIOUS
<1>0. /\ Typed /\ rooms \in Seq(RoomRec)
      /\ \A q \in RoomID : rooms[q] \in RoomRec
  BY RoomTyped DEF IInv, Typed
<1>1. CASE UNCHANGED rooms
  BY <1>1 DEF InRooms, Fits, RoomID
<1>2. CASE CreateRoom
  <2>1. /\ RoomID' = RoomID \cup {Len(rooms) + 1} /\ \A q \in RoomID : rooms'[q] = rooms[q]
        /\ rooms'[Len(rooms) + 1] = NewRoom
    <3>1. NewRoom \in RoomRec
      BY EmptySeq DEF NewRoom, RoomRec
    <3> QED
      BY <1>0, <1>2, <3>1, AppendProperties DEF CreateRoom, RoomID
  <2>2. Fits(NewRoom)
    <3>1. NewRoom.inbox = <<>> /\ NewRoom.ask = {} /\ Len(<<>>) = 0
      BY EmptySeq DEF NewRoom
    <3> QED
      BY <3>1, ServerAssumption DEF Fits
  <2>3. \A q \in RoomID' : Fits(rooms'[q])
    BY <2>1, <2>2 DEF InRooms
  <2> QED
    BY <2>1, <2>3 DEF InRooms, Fits
<1>3. ASSUME NEW h \in Handler, PostJoin(h) \/ Leave(h), ~UNCHANGED rooms
      PROVE  InRooms' /\ RoomID' = RoomID
  <2> DEFINE r == handler[h].room
  <2>1. r \in RoomID
    BY <1>0, <1>3 DEF PostJoin, Leave, At, Hijacked, Typed
  <2>2. CASE rooms' = [rooms EXCEPT ![r].joins = @ \cup {h}]
    <3> DEFINE v == [rooms[r] EXCEPT !.joins = @ \cup {h}]
    <3>1. rooms' = [rooms EXCEPT ![r] = v] /\ v.inbox = rooms[r].inbox /\ v.ask = rooms[r].ask
      BY <1>0, <2>1, <2>2 DEF RoomRec
    <3> HIDE DEF v
    <3> QED
      BY <2>1, <3>1, RoomShrinks
  <2>3. CASE rooms' = [rooms EXCEPT ![r].leaves = @ \cup {h}]
    <3> DEFINE v == [rooms[r] EXCEPT !.leaves = @ \cup {h}]
    <3>1. rooms' = [rooms EXCEPT ![r] = v] /\ v.inbox = rooms[r].inbox /\ v.ask = rooms[r].ask
      BY <1>0, <2>1, <2>3 DEF RoomRec
    <3> HIDE DEF v
    <3> QED
      BY <2>1, <3>1, RoomShrinks
  <2> QED
    BY <1>3, <2>2, <2>3 DEF PostJoin, Leave
<1>4. ASSUME NEW h \in Handler, Submit(h)
      PROVE  InRooms' /\ RoomID' = RoomID
  <2> DEFINE r == handler[h].room
             v == [rooms[r] EXCEPT !.inbox = Append(@, h)]
  <2>1. r \in RoomID
    BY <1>0, <1>4 DEF Submit, At, Hijacked, Typed
  <2>2. /\ rooms' = [rooms EXCEPT ![r] = v] /\ v.inbox = Append(rooms[r].inbox, h)
        /\ v.ask = rooms[r].ask /\ Len(rooms[r].inbox) < InboxCap
    BY <1>0, <1>4, <2>1, SMTT(60) DEF RoomRec, Submit
  <2>3. Len(Append(rooms[r].inbox, h)) = Len(rooms[r].inbox) + 1 /\ Len(rooms[r].inbox) \in Nat
    BY <1>0, <2>1, AppendProperties, LenProperties DEF RoomRec
  <2> HIDE DEF v
  <2>4. Fits(v)
    BY <2>1, <2>2, <2>3, ServerAssumption DEF Fits, InRooms
  <2> QED
    BY <2>1, <2>2, <2>4, OneRoomFits
<1>5. ASSUME NEW r \in RoomID, ProcessJoin(r) \/ ProcessLeave(r) \/ RunReturns(r) \/ TTLPasses(r)
      PROVE  InRooms' /\ RoomID' = RoomID
  <2>1. PICK v : rooms' = [rooms EXCEPT ![r] = v] /\ v.inbox = rooms[r].inbox /\ v.ask = rooms[r].ask
    <3>0. rooms[r] \in RoomRec
      BY <1>0
    <3>1. CASE \E h \in rooms[r].joins : rooms' = [rooms EXCEPT ![r].joins = @ \ {h}]
      <4>1. PICK h \in rooms[r].joins : rooms' = [rooms EXCEPT ![r].joins = @ \ {h}]
        BY <3>1
      <4> DEFINE v == [rooms[r] EXCEPT !.joins = @ \ {h}]
      <4>2. rooms' = [rooms EXCEPT ![r] = v] /\ v.inbox = rooms[r].inbox /\ v.ask = rooms[r].ask
        BY <3>0, <4>1 DEF RoomRec
      <4> HIDE DEF v
      <4> QED
        BY <4>2
    <3>2. CASE \E h, c : rooms' = [rooms EXCEPT ![r].joins = @ \ {h}, ![r].idle = FALSE,
                                                ![r].clients = (@ \ c) \cup {h}]
      <4>1. PICK h, c : rooms' = [rooms EXCEPT ![r].joins = @ \ {h}, ![r].idle = FALSE,
                                               ![r].clients = (@ \ c) \cup {h}]
        BY <3>2
      <4> DEFINE v == [rooms[r] EXCEPT !.joins = @ \ {h}, !.idle = FALSE,
                                       !.clients = (@ \ c) \cup {h}]
      <4>2. rooms' = [rooms EXCEPT ![r] = v] /\ v.inbox = rooms[r].inbox /\ v.ask = rooms[r].ask
        BY <3>0, <4>1 DEF RoomRec
      <4> HIDE DEF v
      <4> QED
        BY <4>2
    <3>3. CASE ProcessLeave(r)
      <4>1. PICK h \in rooms[r].leaves :
              rooms' = [rooms EXCEPT ![r].leaves = @ \ {h}, ![r].clients = @ \ {h},
                                     ![r].idle = @ /\ h \notin rooms[r].clients]
        BY <3>3 DEF ProcessLeave
      <4> DEFINE v == [rooms[r] EXCEPT !.leaves = @ \ {h}, !.clients = @ \ {h},
                                       !.idle = @ /\ h \notin rooms[r].clients]
      <4>2. rooms' = [rooms EXCEPT ![r] = v] /\ v.inbox = rooms[r].inbox /\ v.ask = rooms[r].ask
        BY <3>0, <4>1 DEF RoomRec
      <4> HIDE DEF v
      <4> QED
        BY <4>2
    <3>4. CASE RunReturns(r)
      <4> DEFINE v == [rooms[r] EXCEPT !.run = "over", !.done = TRUE, !.clients = {}]
      <4>1. rooms' = [rooms EXCEPT ![r] = v] /\ v.inbox = rooms[r].inbox /\ v.ask = rooms[r].ask
        BY <3>0, <3>4 DEF RoomRec, RunReturns
      <4> HIDE DEF v
      <4> QED
        BY <4>1
    <3>5. CASE TTLPasses(r)
      <4> DEFINE v == [rooms[r] EXCEPT !.idle = TRUE]
      <4>1. rooms' = [rooms EXCEPT ![r] = v] /\ v.inbox = rooms[r].inbox /\ v.ask = rooms[r].ask
        BY <3>0, <3>5 DEF RoomRec, TTLPasses
      <4> HIDE DEF v
      <4> QED
        BY <4>1
    <3>6. CASE ProcessJoin(r)
      BY <3>1, <3>2, <3>6 DEF ProcessJoin
    <3> QED
      BY <1>5, <3>3, <3>4, <3>5, <3>6
  <2> QED
    BY <2>1, RoomShrinks
<1>6. ASSUME NEW r \in RoomID, Handle(r)
      PROVE  InRooms' /\ RoomID' = RoomID
  <2>1. PICK i : rooms' = [rooms EXCEPT ![r].inbox = Tail(@), ![r].idle = i]
    <3>1. CASE rooms' = [rooms EXCEPT ![r].inbox = Tail(@)]
      <4>1. rooms' = [rooms EXCEPT ![r].inbox = Tail(@), ![r].idle = rooms[r].idle]
        BY <1>0, <3>1 DEF RoomRec
      <4> QED
        BY <4>1
    <3>2. CASE rooms' = [rooms EXCEPT ![r].inbox = Tail(@),
                           ![r].idle = @ /\ Head(rooms[r].inbox) \notin rooms[r].clients]
      <4>1. rooms' = [rooms EXCEPT ![r].inbox = Tail(@),
                        ![r].idle = rooms[r].idle /\ Head(rooms[r].inbox) \notin rooms[r].clients]
        BY <1>0, <3>2 DEF RoomRec
      <4> QED
        BY <4>1
    <3> QED
      BY <1>6, <3>1, <3>2 DEF Handle
  <2> DEFINE v == [rooms[r] EXCEPT !.inbox = Tail(@), !.idle = i]
  <2>2. /\ rooms' = [rooms EXCEPT ![r] = v] /\ v.inbox = Tail(rooms[r].inbox)
        /\ v.ask = rooms[r].ask /\ rooms[r].inbox # <<>>
    BY <1>0, <1>6, <2>1 DEF RoomRec, Handle
  <2> HIDE DEF v
  <2> QED
    BY <2>2, RoomShrinks
<1>7. ASSUME NEW r \in RoomID, HandleExpireCheck(r)
      PROVE  InRooms' /\ RoomID' = RoomID
  <2>1. PICK w \in rooms[r].ask :
          rooms' = [rooms EXCEPT ![r].ask = @ \ {w}, ![r].run = IF Expired(r) THEN "returning" ELSE @]
    BY <1>7 DEF HandleExpireCheck
  <2> DEFINE v == [rooms[r] EXCEPT !.ask = @ \ {w}, !.run = IF Expired(r) THEN "returning" ELSE @]
  <2>2. rooms' = [rooms EXCEPT ![r] = v] /\ v.inbox = rooms[r].inbox /\ v.ask \subseteq rooms[r].ask
    BY <1>0, <2>1 DEF RoomRec
  <2> HIDE DEF v
  <2> QED
    BY <2>2, RoomShrinks
<1>8. ASSUME NEW r \in RoomID, rooms' = Stopped(rooms, r)
      PROVE  InRooms' /\ RoomID' = RoomID
  <2> DEFINE v == [rooms[r] EXCEPT !.cancelled = TRUE, !.done = TRUE]
  <2>1. rooms' = [rooms EXCEPT ![r] = v] /\ v.inbox = rooms[r].inbox /\ v.ask = rooms[r].ask
    BY <1>0, <1>8 DEF RoomRec, Stopped
  <2> HIDE DEF v
  <2> QED
    BY <2>1, RoomShrinks
<1>9. ASSUME NEW w \in Sweeper, AskExpire(w)
      PROVE  InRooms' /\ RoomID \subseteq RoomID'
  <2>1. PICK e \in sweeper[w].todo :
          \/ UNCHANGED rooms
          \/ MayAsk(e.room) /\ rooms' = [rooms EXCEPT ![e.room].ask = @ \cup {w}]
    BY <1>9 DEF AskExpire
  <2> DEFINE r == e.room
             v == [rooms[r] EXCEPT !.ask = @ \cup {w}]
  <2>2. r \in RoomID
    BY <1>0 DEF Typed, Entry
  <2>3. CASE MayAsk(r) /\ rooms' = [rooms EXCEPT ![r].ask = @ \cup {w}]
    <3>1. /\ rooms' = [rooms EXCEPT ![r] = v] /\ v.inbox = rooms[r].inbox /\ v.ask = {w}
      BY <1>0, <2>2, <2>3 DEF RoomRec, MayAsk
    <3> HIDE DEF v
    <3>2. Fits(v)
      BY <2>2, <3>1 DEF Fits, InRooms
    <3> QED
      BY <2>2, <3>1, <3>2, OneRoomFits
  <2> QED
    BY <1>1, <2>1, <2>3
<1>10. ASSUME NEW w \in Sweeper, RemoveRoom(w)
       PROVE  InRooms' /\ RoomID \subseteq RoomID'
  <2>1. sweeper[w].entry.room \in RoomID
    BY <1>0, <1>10 DEF RemoveRoom, Typed, Entry
  <2> QED
    BY <1>1, <1>8, <1>10, <2>1 DEF RemoveRoom, StillThere
<1>11. CASE CloseStopsRoom
  BY <1>0, <1>8, <1>11 DEF CloseStopsRoom, Typed
<1>12. \/ UNCHANGED rooms \/ CreateRoom \/ CloseStopsRoom
       \/ \E h \in Handler : PostJoin(h) \/ Submit(h) \/ Leave(h)
       \/ \E r \in RoomID : \/ ProcessJoin(r) \/ ProcessLeave(r) \/ Handle(r) \/ TTLPasses(r)
                            \/ HandleExpireCheck(r) \/ RunReturns(r)
       \/ \E w \in Sweeper : AskExpire(w) \/ RemoveRoom(w)
  BY DEF Next, vars, HandlerStep, SweeperStep, BeginPost, RefusePost, Accept, RejectJoinFrame,
    AwaitJoin, PeerLost, Heartbeat, ClientClosed, BeginSweep, AwaitExpire, ServeEnds,
    ShutdownReturns, CloseTakesRooms, Exit
<1> QED
  BY <1>1, <1>2, <1>3, <1>4, <1>5, <1>6, <1>7, <1>9, <1>10, <1>11, <1>12

\* A handler's room is that of the code it came with, until it ends.
LEMMA PlacesStay ==
  ASSUME IInv, Placed, [Next]_vars, RoomID \subseteq RoomID'
  PROVE  Placed'
<1>0. Typed /\ \A h \in Handler : handler[h] \in HandlerRec
  BY DEF IInv, Typed
<1>1. ASSUME NEW h \in Handler, NEW u, handler' = [handler EXCEPT ![h] = u],
             u.room \in RoomID \cup {0}
      PROVE  Placed'
  <2>1. \A k \in Handler : handler'[k] = IF k = h THEN u ELSE handler[k]
    BY <1>0, <1>1 DEF Typed
  <2> QED
    BY <1>1, <2>1 DEF Placed
<1>2. CASE UNCHANGED handler
  BY <1>2 DEF Placed
<1>3. ASSUME NEW h \in Handler, Ends(h)
      PROVE  Placed'
  <2> DEFINE u == [NewHandler EXCEPT !.stage = "ended", !.peer = "closed", !.seat = handler[h].seat]
  <2>1. handler' = [handler EXCEPT ![h] = u] /\ u.room = 0
    BY <1>3 DEF Ends, NewHandler
  <2> HIDE DEF u
  <2> QED
    BY <1>1, <2>1
<1>4. ASSUME NEW h \in Handler, NEW s, handler' = [handler EXCEPT ![h].stage = s]
      PROVE  Placed'
  <2> DEFINE u == [handler[h] EXCEPT !.stage = s]
  <2>1. handler' = [handler EXCEPT ![h] = u] /\ u.room = handler[h].room
    BY <1>0, <1>4 DEF HandlerRec
  <2> HIDE DEF u
  <2> QED
    BY <1>1, <2>1 DEF Placed
<1>5. ASSUME NEW h \in Handler, NEW p, handler' = [handler EXCEPT ![h].peer = p]
      PROVE  Placed'
  <2> DEFINE u == [handler[h] EXCEPT !.peer = p]
  <2>1. handler' = [handler EXCEPT ![h] = u] /\ u.room = handler[h].room
    BY <1>0, <1>5 DEF HandlerRec
  <2> HIDE DEF u
  <2> QED
    BY <1>1, <2>1 DEF Placed
<1>6. ASSUME NEW h \in Handler, NEW a, handler' = [handler EXCEPT ![h].answer = a]
      PROVE  Placed'
  <2> DEFINE u == [handler[h] EXCEPT !.answer = a]
  <2>1. handler' = [handler EXCEPT ![h] = u] /\ u.room = handler[h].room
    BY <1>0, <1>6 DEF HandlerRec
  <2> HIDE DEF u
  <2> QED
    BY <1>1, <2>1 DEF Placed
<1>7. ASSUME NEW h \in Handler, Accept(h)
      PROVE  Placed'
  <2>1. PICK c \in Code : /\ registry[c] # None
                          /\ handler' = [handler EXCEPT ![h].stage = "framing", ![h].room = registry[c]]
    BY <1>7 DEF Accept
  <2> DEFINE u == [handler[h] EXCEPT !.stage = "framing", !.room = registry[c]]
  <2>2. handler' = [handler EXCEPT ![h] = u] /\ u.room = registry[c]
    BY <1>0, <2>1 DEF HandlerRec
  <2>3. registry[c] \in RoomID
    BY <1>0, <2>1 DEF Typed
  <2> HIDE DEF u
  <2> QED
    BY <1>1, <2>2, <2>3
<1>8. ASSUME NEW h \in Handler, PostJoin(h)
      PROVE  Placed'
  <2>1. CASE Ends(h)
    BY <1>3, <2>1
  <2>2. CASE \E s \in Seat : handler' = [handler EXCEPT ![h].stage = "awaiting", ![h].seat = s]
    <3>1. PICK s \in Seat : handler' = [handler EXCEPT ![h].stage = "awaiting", ![h].seat = s]
      BY <2>2
    <3> DEFINE u == [handler[h] EXCEPT !.stage = "awaiting", !.seat = s]
    <3>2. handler' = [handler EXCEPT ![h] = u] /\ u.room = handler[h].room
      BY <1>0, <3>1 DEF HandlerRec
    <3> HIDE DEF u
    <3> QED
      BY <1>1, <3>2 DEF Placed
  <2> QED
    BY <1>8, <2>1, <2>2 DEF PostJoin
<1>9. ASSUME NEW h \in Handler,
             \/ RejectJoinFrame(h) \/ AwaitJoin(h) \/ Leave(h) \/ PeerLost(h) \/ ClientClosed(h)
      PROVE  Placed'
  BY <1>3, <1>4, <1>5, <1>9 DEF RejectJoinFrame, AwaitJoin, Leave, PeerLost, ClientClosed, Goes
<1>10. ASSUME NEW h \in Handler, Heartbeat(h)
       PROVE  Placed'
  <2>1. handler' = [handler EXCEPT ![h].peer = Pinged(handler[h].peer)]
    BY <1>10 DEF Heartbeat
  <2> QED
    BY <1>5, <2>1
<1>11. ASSUME NEW r \in RoomID, ProcessJoin(r)
       PROVE  Placed'
  <2>1. \A h \in rooms[r].joins : h \in Handler
    BY <1>0, RoomTyped DEF Typed, RoomRec
  <2>2. \E h \in rooms[r].joins : \E a : handler' = [handler EXCEPT ![h].answer = a]
    BY <1>11 DEF ProcessJoin
  <2> QED
    BY <1>6, <2>1, <2>2
<1>12. \/ UNCHANGED handler
       \/ \E h \in Handler : \/ Accept(h) \/ RejectJoinFrame(h) \/ PostJoin(h) \/ AwaitJoin(h) \/ Leave(h)
                             \/ PeerLost(h) \/ Heartbeat(h) \/ ClientClosed(h)
       \/ \E r \in RoomID : ProcessJoin(r)
  BY DEF Next, vars, HandlerStep, SweeperStep, BeginPost, RefusePost, CreateRoom, Submit,
    ProcessLeave, Handle, HandleExpireCheck, RunReturns, TTLPasses, BeginSweep, AskExpire,
    AwaitExpire, RemoveRoom, ServeEnds, ShutdownReturns, CloseTakesRooms, CloseStopsRoom, Exit
<1> QED
  BY <1>2, <1>7, <1>8, <1>9, <1>10, <1>11, <1>12

\* Every reachable state of the process has its type; no channel, and not the one for
\* the sweepers' question, ever holds more than its capacity, whoever sends on it.
THEOREM ServerTyped == Spec => []TypeOK
<1>1. Init => InPosts /\ InRooms /\ Placed
  BY ServerAssumption DEF Init, InPosts, InRooms, Placed, NewHandler, RoomID
<1>2. IInv /\ InPosts /\ InRooms /\ Placed /\ [Next]_vars => InPosts' /\ InRooms' /\ Placed'
  BY PostsStay, RoomsFit, PlacesStay
<1>3. IInv /\ InPosts /\ InRooms /\ Placed => TypeOK
  <2> SUFFICES ASSUME IInv, InPosts, InRooms, Placed PROVE TypeOK
    OBVIOUS
  <2>1. ASSUME NEW r \in RoomID
        PROVE  /\ rooms[r].run \in {"loop", "returning", "over"}
               /\ rooms[r].clients \cup rooms[r].joins \cup rooms[r].leaves \subseteq Handler
               /\ rooms[r].inbox \in Seq(Handler) /\ Len(rooms[r].inbox) <= InboxCap
               /\ rooms[r].ask \subseteq Sweeper
    BY RoomTyped DEF IInv, Typed, RoomRec, InRooms, Fits
  <2>2. ASSUME NEW r \in RoomID
        PROVE  Cardinality(rooms[r].ask) <= 1
    <3>1. CASE rooms[r].ask = {}
      BY <3>1, FS_EmptySet
    <3>2. CASE rooms[r].ask # {}
      <4>1. \A v, w \in rooms[r].ask : v = w
        BY DEF InRooms, Fits
      <4>2. PICK w \in rooms[r].ask : TRUE
        BY <3>2
      <4>3. rooms[r].ask = {w}
        BY <4>1, <4>2
      <4>4. Cardinality({w}) = 1
        BY FS_Singleton
      <4> QED
        BY <4>3, <4>4
    <3> QED
      BY <3>1, <3>2
  <2> QED
    BY <2>1, <2>2 DEF TypeOK, IInv, Typed, InPosts, Placed
<1> QED
  BY <1>1, <1>2, <1>3, HubSound, PTL DEF Spec

=============================================================================
