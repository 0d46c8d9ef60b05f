--------------------------- MODULE ConnectionProofs ---------------------------
(***************************************************************************)
(* Theorems about a tab and its room (module Connection): what the tab     *)
(* shows is the room at one revision and never goes back, one attempt at a *)
(* time reconnects, a final answer is final, the tab has one seat. They    *)
(* hold for any number of sockets, revisions and resyncs and any length of *)
(* the send channel.                                                       *)
(***************************************************************************)
EXTENDS Connection, SequenceTheorems, FiniteSetTheorems, TLAPS

-----------------------------------------------------------------------------
(* The inductive invariant.                                                *)

\* Every event has a revision of its own, the first is 1.
Msg == {m \in [type : Types, seq : Nat] : m.type = "event" => m.seq > 0}

SocketRec ==
  [stage : Stage, join : SUBSET Nat, resyncs : Nat, down : Seq(Msg), tokens : 0 .. ResyncBurst]

TabRec ==
  [ws : Socket, opened : Socket, timer : {"none", "pending", "spent"}, fatal : BOOLEAN,
   stopped : BOOLEAN, leapt : BOOLEAN, everConnected : BOOLEAN, failing : BOOLEAN,
   late : BOOLEAN, creds : Nat, status : Status, seen : BOOLEAN, last : 0 .. MaxRevision,
   resyncing : BOOLEAN, shown : SUBSET (1 .. MaxRevision)]

RoomRec ==
  [open : BOOLEAN, revision : 0 .. MaxRevision, seats : SUBSET Nat, issued : Nat,
   conn : Socket \cup {0}]

Typed ==
  /\ tab \in TabRec
  /\ room \in RoomRec
  /\ sock \in [Socket -> SocketRec]

\* The messages that carry a revision.
Numbered(m) == m.type \in {"event", "snapshot", "other"}

\* A queue's revisions lie between two bounds and do not decrease.
Ordered(q, low, high) ==
  \A i \in 1 .. Len(q) : Numbered(q[i]) =>
    /\ low <= q[i].seq /\ q[i].seq <= high
    /\ \A j \in 1 .. i : Numbered(q[j]) => q[j].seq <= q[i].seq

\* What the tab has taken over is behind what its socket still brings.
Floor(n) == IF n = tab.ws THEN tab.last ELSE 0

Delivered ==
  /\ tab.last <= room.revision
  /\ tab.everConnected => tab.seen
  /\ \A n \in Socket : Ordered(sock[n].down, Floor(n), room.revision)

\* The next socket has not been used.
Fresh ==
  /\ tab.ws <= tab.opened
  /\ \A n \in Socket : n > tab.opened => sock[n] = Unused

\* A retry is for a lost connection, and nothing retries after the end.
Retrying ==
  tab.timer = "pending" => sock[tab.ws].stage = "closed" /\ ~tab.fatal /\ ~tab.stopped

Seated == \A s, t \in room.seats : s = t

IInv == Typed /\ Delivered /\ Fresh /\ Retrying /\ Seated /\ ShowsOneRevision

-----------------------------------------------------------------------------
(* Queues.                                                                 *)

\* A queue holds messages.
LEMMA InQueue ==
  ASSUME NEW q \in Seq(Msg)
  PROVE  Len(q) \in Nat /\ \A i \in 1 .. Len(q) : q[i] \in Msg /\ q[i].seq \in Nat
<1>1. \A i \in 1 .. Len(q) : q[i] \in Msg
  BY ElementOfSeq
<1> QED
  BY <1>1, LenProperties DEF Msg

\* Bounds may be relaxed.
LEMMA OrderedRelaxed ==
  ASSUME NEW q \in Seq(Msg), NEW low \in Nat, NEW high \in Nat,
         NEW lower \in Nat, NEW higher \in Nat,
         lower <= low, high <= higher, Ordered(q, low, high)
  PROVE  Ordered(q, lower, higher)
<1>1. \A i \in 1 .. Len(q) : q[i].seq \in Nat
  BY InQueue
<1>2. \A i \in 1 .. Len(q) : Numbered(q[i]) => lower <= q[i].seq /\ q[i].seq <= higher
  BY <1>1 DEF Ordered
<1> QED
  BY <1>2 DEF Ordered

\* Nothing is out of order in an empty queue.
LEMMA OrderedEmpty ==
  ASSUME NEW low, NEW high
  PROVE  Ordered(<< >>, low, high)
  BY DEF Ordered

\* What follows the first message is no older than it.
LEMMA OrderedTail ==
  ASSUME NEW q \in Seq(Msg), q # << >>, NEW low \in Nat, NEW high \in Nat,
         Ordered(q, low, high)
  PROVE  /\ Head(q) \in Msg /\ Tail(q) \in Seq(Msg)
         /\ Numbered(Head(q)) =>
              /\ low <= Head(q).seq /\ Head(q).seq <= high
              /\ Ordered(Tail(q), Head(q).seq, high)
         /\ Ordered(Tail(q), low, high)
<1>1. /\ Tail(q) \in Seq(Msg) /\ Head(q) \in Msg /\ Head(q) = q[1]
      /\ Len(q) \in Nat /\ Len(q) >= 1 /\ Len(Tail(q)) = Len(q) - 1
      /\ \A i \in 1 .. Len(Tail(q)) : Tail(q)[i] = q[i + 1]
  BY HeadTailProperties, LenProperties, EmptySeq
<1>2. \A i \in 1 .. Len(Tail(q)) : /\ i + 1 \in 1 .. Len(q)
                                   /\ \A j \in 1 .. i : j + 1 \in 1 .. i + 1 /\ Tail(q)[j] = q[j + 1]
  BY <1>1
<1>3. Ordered(Tail(q), low, high)
  BY <1>1, <1>2 DEF Ordered
<1>4. ASSUME Numbered(Head(q))
      PROVE  /\ low <= Head(q).seq /\ Head(q).seq <= high
             /\ Ordered(Tail(q), Head(q).seq, high)
  <2>1. 1 \in 1 .. Len(q) /\ \A i \in 1 .. Len(Tail(q)) : 1 \in 1 .. i + 1
    BY <1>1
  <2>2. low <= Head(q).seq /\ Head(q).seq <= high
    BY <1>1, <1>4, <2>1 DEF Ordered
  <2>3. \A i \in 1 .. Len(Tail(q)) : Numbered(Tail(q)[i]) => Head(q).seq <= Tail(q)[i].seq
    BY <1>1, <1>2, <1>4, <2>1 DEF Ordered
  <2> QED
    BY <1>3, <2>2, <2>3 DEF Ordered
<1> QED
  BY <1>1, <1>3, <1>4

\* One queue after another.
LEMMA OrderedConcat ==
  ASSUME NEW q \in Seq(Msg), NEW p \in Seq(Msg),
         NEW low \in Nat, NEW middle \in Nat, NEW high \in Nat, low <= middle, middle <= high,
         Ordered(q, low, middle), Ordered(p, middle, high)
  PROVE  q \o p \in Seq(Msg) /\ Ordered(q \o p, low, high)
<1> DEFINE r == q \o p
<1>1. /\ r \in Seq(Msg) /\ Len(q) \in Nat /\ Len(p) \in Nat /\ Len(r) = Len(q) + Len(p)
      /\ \A i \in 1 .. Len(r) : r[i] = IF i <= Len(q) THEN q[i] ELSE p[i - Len(q)]
  BY ConcatProperties, LenProperties
<1>2. \A i \in 1 .. Len(r) : r[i].seq \in Nat
  BY <1>1, InQueue
<1> HIDE DEF r
<1>3. ASSUME NEW i \in 1 .. Len(r), Numbered(r[i])
      PROVE  /\ low <= r[i].seq /\ r[i].seq <= high
             /\ \A j \in 1 .. i : Numbered(r[j]) => r[j].seq <= r[i].seq
  <2>1. CASE i <= Len(q)
    <3>1. i \in 1 .. Len(q) /\ r[i] = q[i] /\ \A j \in 1 .. i : r[j] = q[j]
      BY <1>1, <2>1
    <3>2. low <= r[i].seq /\ r[i].seq <= middle
      BY <1>3, <3>1 DEF Ordered
    <3>3. \A j \in 1 .. i : Numbered(r[j]) => r[j].seq <= r[i].seq
      BY <1>3, <3>1 DEF Ordered
    <3> QED
      BY <1>2, <3>2, <3>3
  <2>2. CASE i > Len(q)
    <3>1. i - Len(q) \in 1 .. Len(p) /\ r[i] = p[i - Len(q)]
      BY <1>1, <2>2
    <3>2. middle <= r[i].seq /\ r[i].seq <= high
      BY <1>3, <3>1 DEF Ordered
    <3>3. ASSUME NEW j \in 1 .. i, Numbered(r[j])
          PROVE  r[j].seq <= r[i].seq
      <4>0. r[j].seq \in Nat /\ r[i].seq \in Nat
        BY <1>1, <1>2
      <4>1. CASE j <= Len(q)
        <5>1. j \in 1 .. Len(q) /\ r[j] = q[j]
          BY <1>1, <4>1
        <5>2. r[j].seq <= middle
          BY <3>3, <5>1 DEF Ordered
        <5> QED
          BY <3>2, <4>0, <5>2
      <4>2. CASE j > Len(q)
        <5>1. j - Len(q) \in 1 .. (i - Len(q)) /\ r[j] = p[j - Len(q)]
          BY <1>1, <4>2
        <5> QED
          BY <1>3, <3>1, <3>3, <5>1 DEF Ordered
      <4> QED
        BY <4>1, <4>2, <1>1
    <3> QED
      BY <1>2, <3>2, <3>3
  <2> QED
    BY <2>1, <2>2, <1>1
<1> QED
  BY <1>1, <1>3 DEF Ordered, r

\* A queue of one message.
LEMMA OrderedOne ==
  ASSUME NEW m \in Msg, NEW low \in Nat, NEW high \in Nat,
         Numbered(m) => low <= m.seq /\ m.seq <= high
  PROVE  << m >> \in Seq(Msg) /\ Ordered(<< m >>, low, high)
<1>1. << m >> \in Seq(Msg) /\ Len(<< m >>) = 1 /\ << m >>[1] = m /\ m.seq \in Nat
  BY DEF Msg
<1> QED
  BY <1>1 DEF Ordered

\* Push drops the message or puts it last, and changes nothing else.
LEMMA PushOrdered ==
  ASSUME NEW s \in SocketRec, NEW m \in Msg, NEW low \in Nat, NEW old \in Nat, NEW high \in Nat,
         low <= old, old <= high, Ordered(s.down, low, old),
         Numbered(m) => old <= m.seq /\ m.seq <= high
  PROVE  /\ Push(s, m) \in SocketRec
         /\ Push(s, m).stage = s.stage /\ Push(s, m).join = s.join
         /\ Ordered(Push(s, m).down, low, high)
         /\ s.stage = "unused" => Push(s, m) = s
<1>1. s.down \in Seq(Msg)
  BY DEF SocketRec
<1>2. << m >> \in Seq(Msg) /\ Ordered(<< m >>, old, high)
  BY OrderedOne
<1>3. Append(s.down, m) \in Seq(Msg) /\ Ordered(Append(s.down, m), low, high)
  BY <1>1, <1>2, OrderedConcat, AppendIsConcat
<1>4. Ordered(s.down, low, high)
  BY <1>1, OrderedRelaxed
<1> QED
  BY <1>3, <1>4 DEF Push, SocketRec

-----------------------------------------------------------------------------
(* The invariant's parts at one socket, and what a step must show.         *)

\* What the invariant says of the numbers and of one socket.
LEMMA Parts ==
  ASSUME IInv
  PROVE  /\ tab \in TabRec /\ room \in RoomRec /\ sock \in [Socket -> SocketRec]
         /\ MaxRevision \in Nat /\ MaxSockets \in Nat /\ ResyncBurst \in Nat
         /\ tab.ws \in Nat /\ tab.opened \in Nat /\ tab.last \in Nat /\ room.revision \in Nat
         /\ \A n \in Socket : /\ n \in Nat /\ sock[n] \in SocketRec /\ sock[n].down \in Seq(Msg)
                              /\ Floor(n) \in Nat /\ Floor(n) <= room.revision
                              /\ Ordered(sock[n].down, Floor(n), room.revision)
                              /\ sock[n].stage # "unused" => n <= tab.opened
<1>1. tab \in TabRec /\ room \in RoomRec /\ sock \in [Socket -> SocketRec]
  BY DEF IInv, Typed
<1>2. MaxRevision \in Nat /\ MaxSockets \in Nat /\ ResyncBurst \in Nat
  BY ConnectionAssumption
<1>3. tab.ws \in Nat /\ tab.opened \in Nat /\ tab.last \in Nat /\ room.revision \in Nat
  BY <1>1, <1>2 DEF TabRec, RoomRec, Socket
<1>4. ASSUME NEW n \in Socket
      PROVE  /\ n \in Nat /\ sock[n] \in SocketRec /\ sock[n].down \in Seq(Msg)
             /\ Floor(n) \in Nat /\ Floor(n) <= room.revision
             /\ Ordered(sock[n].down, Floor(n), room.revision)
             /\ sock[n].stage # "unused" => n <= tab.opened
  <2>1. n \in Nat /\ sock[n] \in SocketRec /\ sock[n].down \in Seq(Msg)
    BY <1>1, <1>2 DEF Socket, SocketRec
  <2>2. Floor(n) \in Nat /\ Floor(n) <= room.revision
    BY <1>3 DEF IInv, Delivered, Floor
  <2>3. Ordered(sock[n].down, Floor(n), room.revision)
    BY DEF IInv, Delivered
  <2>4. sock[n].stage # "unused" => n <= tab.opened
    BY <1>3, <2>1 DEF IInv, Fresh, Unused
  <2> QED
    BY <2>1, <2>2, <2>3, <2>4
<1> QED
  BY <1>1, <1>2, <1>3, <1>4

\* An unused socket is one.
LEMMA UnusedTyped == Unused \in SocketRec
<1>1. << >> \in Seq(Msg) /\ ResyncBurst \in 0 .. ResyncBurst
  BY EmptySeq, ConnectionAssumption
<1> QED
  BY <1>1 DEF Unused, SocketRec, Stage

\* A step of the room, or of the wire, that touches one socket and not the tab.
LEMMA RoomSide ==
  ASSUME IInv, UNCHANGED tab, room' \in RoomRec, room.revision <= room'.revision, Seated',
         NEW n \in Socket, NEW v \in SocketRec, sock' = [sock EXCEPT ![n] = v],
         sock[n] = Unused => v = Unused,
         sock[n].stage = "closed" => v.stage = "closed",
         Ordered(v.down, Floor(n), room'.revision)
  PROVE  IInv'
<1>1. /\ tab \in TabRec /\ sock \in [Socket -> SocketRec] /\ room'.revision \in Nat
      /\ tab.ws \in Nat /\ tab.opened \in Nat /\ tab.last \in Nat /\ room.revision \in Nat
  BY Parts DEF RoomRec
<1>2. \A k \in Socket : sock'[k] = IF k = n THEN v ELSE sock[k]
  BY <1>1
<1>3. Typed'
  BY <1>1 DEF Typed
<1>4. Delivered'
  <2>1. tab'.last <= room'.revision /\ (tab'.everConnected => tab'.seen)
    BY <1>1 DEF IInv, Delivered
  <2>2. ASSUME NEW k \in Socket
        PROVE  Ordered(sock'[k].down, Floor(k), room'.revision)
    <3>1. CASE k = n
      BY <1>2, <3>1
    <3>2. CASE k # n
      <4>1. /\ sock[k].down \in Seq(Msg) /\ Floor(k) \in Nat
            /\ Ordered(sock[k].down, Floor(k), room.revision)
        BY Parts
      <4> QED
        BY <1>1, <1>2, <3>2, <4>1, OrderedRelaxed
    <3> QED
      BY <3>1, <3>2
  <2>3. \A k \in Socket : Floor(k)' = Floor(k)
    BY DEF Floor
  <2> QED
    BY <2>1, <2>2, <2>3 DEF Delivered
<1>5. Fresh'
  BY <1>2 DEF IInv, Fresh
<1>6. Retrying'
  BY <1>1, <1>2 DEF IInv, Retrying, TabRec
<1>7. ShowsOneRevision'
  BY DEF IInv, ShowsOneRevision
<1> QED
  BY <1>3, <1>4, <1>5, <1>6, <1>7 DEF IInv

\* The same for a step that touches no socket.
LEMMA RoomAlone ==
  ASSUME IInv, UNCHANGED <<tab, sock>>, room' \in RoomRec, room.revision <= room'.revision, Seated'
  PROVE  IInv'
<1>1. 1 \in Socket
  BY ConnectionAssumption DEF Socket
<1>2. /\ sock \in [Socket -> SocketRec] /\ sock[1] \in SocketRec /\ sock[1].down \in Seq(Msg)
      /\ Floor(1) \in Nat /\ room.revision \in Nat
      /\ Ordered(sock[1].down, Floor(1), room.revision)
  BY <1>1, Parts
<1>3. sock' = [sock EXCEPT ![1] = sock[1]]
  BY <1>2
<1>4. room'.revision \in Nat
  BY ConnectionAssumption DEF RoomRec
<1>5. Ordered(sock[1].down, Floor(1), room'.revision)
  BY <1>2, <1>4, OrderedRelaxed
<1> QED
  BY <1>1, <1>2, <1>3, <1>5, RoomSide

\* A step of the tab that keeps its socket and touches one.
LEMMA TabSide ==
  ASSUME IInv, UNCHANGED room, tab' \in TabRec, tab'.ws = tab.ws, tab'.opened = tab.opened,
         NEW n \in Socket, NEW v \in SocketRec, sock' = [sock EXCEPT ![n] = v],
         n <= tab.opened, n # tab.ws => tab'.last = tab.last,
         tab'.last <= room.revision, tab'.everConnected => tab'.seen,
         Ordered(v.down, Floor(n)', room.revision), Retrying', ShowsOneRevision'
  PROVE  IInv'
<1>1. /\ tab \in TabRec /\ sock \in [Socket -> SocketRec] /\ room \in RoomRec
      /\ tab.ws \in Nat /\ tab.opened \in Nat /\ tab.last \in Nat /\ room.revision \in Nat
      /\ n \in Nat
  BY Parts
<1>2. \A k \in Socket : sock'[k] = IF k = n THEN v ELSE sock[k]
  BY <1>1
<1>3. Typed'
  BY <1>1 DEF Typed
<1>4. Delivered'
  <2>1. ASSUME NEW k \in Socket
        PROVE  Ordered(sock'[k].down, Floor(k)', room.revision)
    <3>1. CASE k = n
      BY <1>2, <3>1
    <3>2. CASE k # n
      <4>1. Floor(k)' = Floor(k)
        BY <3>2 DEF Floor
      <4>2. Ordered(sock[k].down, Floor(k), room.revision)
        BY Parts
      <4> QED
        BY <1>2, <3>2, <4>1, <4>2
    <3> QED
      BY <3>1, <3>2
  <2> QED
    BY <2>1 DEF Delivered
<1>5. Fresh'
  <2>1. \A k \in Socket : k > tab.opened => k # n
    BY <1>1 DEF Socket
  <2> QED
    BY <1>2, <2>1 DEF IInv, Fresh
<1>6. Seated'
  BY DEF IInv, Seated
<1> QED
  BY <1>3, <1>4, <1>5, <1>6 DEF IInv

\* In the initial state the queues are empty and there is at most the seat of the
\* credentials.
LEMMA InitInv == Init => IInv
<1> SUFFICES ASSUME Init PROVE IInv
  OBVIOUS
<1>1. PICK creds \in {ByName, 1} :
       /\ tab = [ws |-> 1, opened |-> 1, timer |-> "none", fatal |-> FALSE,
                 stopped |-> FALSE, leapt |-> FALSE,
                 everConnected |-> FALSE, failing |-> FALSE, late |-> FALSE,
                 creds |-> creds, status |-> "connecting", seen |-> FALSE, last |-> 0,
                 resyncing |-> FALSE, shown |-> {}]
       /\ room = [open |-> TRUE, revision |-> 0, seats |-> {creds} \ {ByName},
                  issued |-> creds, conn |-> 0]
  BY DEF Init
<1>2. 1 \in Socket /\ MaxRevision \in Nat /\ MaxSockets \in Nat /\ 0 \in 0 .. MaxRevision
  BY ConnectionAssumption DEF Socket
<1>3. sock = [n \in Socket |-> IF n = 1 THEN [Unused EXCEPT !.stage = "connecting"] ELSE Unused]
  BY <1>2 DEF Init, Connecting
<1>4. [Unused EXCEPT !.stage = "connecting"] \in SocketRec
  BY UnusedTyped DEF SocketRec, Stage
<1>5. Typed
  <2>1. tab \in TabRec
    BY <1>1, <1>2 DEF TabRec, Status, ByName
  <2>2. room \in RoomRec
    BY <1>1, <1>2 DEF RoomRec, ByName
  <2> QED
    BY <1>3, <1>4, <2>1, <2>2, UnusedTyped DEF Typed
<1>6. Delivered
  <2>1. \A n \in Socket : sock[n].down = << >>
    BY <1>3 DEF Unused
  <2> QED
    BY <1>1, <2>1, OrderedEmpty DEF Delivered
<1>7. Fresh
  BY <1>1, <1>2, <1>3 DEF Fresh, Socket
<1>8. Retrying /\ Seated /\ ShowsOneRevision
  BY <1>1 DEF Retrying, Seated, ShowsOneRevision, ByName
<1> QED
  BY <1>5, <1>6, <1>7, <1>8 DEF IInv

-----------------------------------------------------------------------------
(* The room and the wire.                                                  *)

\* onopen sends the join frame and nothing else.
LEMMA OpenInv ==
  ASSUME IInv, NEW n \in Socket, Open(n)
  PROVE  IInv'
<1> DEFINE v == [sock[n] EXCEPT !.stage = "open", !.join = IF Listens(n) THEN {tab.creds} ELSE {}]
<1>1. /\ sock[n] \in SocketRec /\ sock \in [Socket -> SocketRec] /\ room \in RoomRec
      /\ tab \in TabRec /\ room.revision \in Nat
      /\ Ordered(sock[n].down, Floor(n), room.revision)
  BY Parts
<1>2. v \in SocketRec /\ v.down = sock[n].down
  BY <1>1 DEF SocketRec, Stage, TabRec
<1>3. sock' = [sock EXCEPT ![n] = v] /\ UNCHANGED <<tab, room>>
  BY <1>1 DEF Open
<1>4. sock[n].stage = "connecting" /\ Unused.stage = "unused"
  BY DEF Open, Unused
<1> HIDE DEF v
<1>5. Seated' /\ room.revision <= room'.revision
  BY <1>1, <1>3 DEF IInv, Seated
<1> QED
  BY <1>1, <1>2, <1>3, <1>4, <1>5, RoomSide

\* A socket's message queued by the room, with whatever the room has counted.
LEMMA Pushes ==
  ASSUME IInv, UNCHANGED tab, room' \in RoomRec, room.revision <= room'.revision, Seated',
         NEW n \in Socket, NEW s \in SocketRec, NEW m \in Msg,
         sock' = [sock EXCEPT ![n] = Push(s, m)],
         s.stage = sock[n].stage, s.down = sock[n].down, sock[n] = Unused => s = Unused,
         Numbered(m) => room.revision <= m.seq /\ m.seq <= room'.revision
  PROVE  IInv'
<1>1. /\ sock[n].down \in Seq(Msg) /\ Floor(n) \in Nat /\ Floor(n) <= room.revision
      /\ room.revision \in Nat /\ Ordered(sock[n].down, Floor(n), room.revision)
  BY Parts
<1>2. room'.revision \in Nat
  BY ConnectionAssumption DEF RoomRec
<1>3. /\ Push(s, m) \in SocketRec
      /\ Push(s, m).stage = s.stage
      /\ Ordered(Push(s, m).down, Floor(n), room'.revision)
      /\ s.stage = "unused" => Push(s, m) = s
  BY <1>1, <1>2, PushOrdered
<1>4. sock[n] = Unused => Push(s, m) = Unused
  BY <1>3 DEF Unused
<1> QED
  BY <1>3, <1>4, RoomSide

\* A message of a known type and revision is one.
LEMMA MessageTyped ==
  ASSUME NEW type \in Types, NEW k \in Nat, type = "event" => k > 0
  PROVE  /\ Message(type, k) \in Msg /\ Message(type, k).seq = k
         /\ Message(type, k).type = type
  BY DEF Message, Msg

\* A change of the room is sent to the registered connection.
LEMMA BroadcastInv == IInv /\ Broadcast => IInv'
<1> SUFFICES ASSUME IInv, Broadcast PROVE IInv'
  OBVIOUS
<1>1. /\ room \in RoomRec /\ sock \in [Socket -> SocketRec] /\ room.revision \in Nat
      /\ MaxRevision \in Nat
  BY Parts
<1>2. /\ room' \in RoomRec /\ room'.revision = room.revision + 1 /\ room'.seats = room.seats
      /\ UNCHANGED tab
  BY <1>1 DEF Broadcast, RevisionsLeft, RoomRec
<1>3. Seated' /\ room.revision <= room'.revision
  BY <1>1, <1>2 DEF IInv, Seated
<1>4. CASE room.conn = 0
  BY <1>2, <1>3, <1>4, RoomAlone DEF Broadcast
<1>5. CASE room.conn # 0
  <2> DEFINE m == Message("event", room.revision + 1)
  <2>1. room.conn \in Socket /\ sock[room.conn] \in SocketRec
    BY <1>1, <1>5 DEF RoomRec
  <2>2. m \in Msg /\ room.revision <= m.seq /\ m.seq <= room'.revision
    <3>1. room.revision + 1 \in Nat /\ room.revision + 1 > 0 /\ "event" \in Types
      BY <1>1 DEF Types
    <3> QED
      BY <1>1, <1>2, <3>1, MessageTyped
  <2>3. sock' = [sock EXCEPT ![room.conn] = Push(sock[room.conn], m)]
    BY <1>5 DEF Broadcast
  <2> HIDE DEF m
  <2> QED
    BY <1>1, <1>2, <1>3, <2>1, <2>2, <2>3, Pushes
<1> QED
  BY <1>4, <1>5

\* So is what changes nothing, with the revision of the moment.
LEMMA SayInv == IInv /\ Say => IInv'
<1> SUFFICES ASSUME IInv, Say PROVE IInv'
  OBVIOUS
<1> DEFINE m == Message("other", room.revision)
<1>1. /\ room \in RoomRec /\ sock \in [Socket -> SocketRec] /\ room.revision \in Nat
      /\ UNCHANGED <<tab, room>>
  BY Parts DEF Say
<1>2. room.conn \in Socket /\ sock[room.conn] \in SocketRec
  BY <1>1 DEF RoomRec, Say
<1>3. m \in Msg /\ m.seq = room.revision
  BY <1>1, MessageTyped DEF Types
<1>4. sock' = [sock EXCEPT ![room.conn] = Push(sock[room.conn], m)]
  BY DEF Say
<1>5. Seated' /\ room.revision <= room'.revision
  BY <1>1 DEF IInv, Seated
<1> HIDE DEF m
<1> QED
  BY <1>1, <1>2, <1>3, <1>4, <1>5, Pushes

\* Events numbered one after another.
LEMMA EventsOrdered ==
  ASSUME NEW rev \in Nat, NEW early \in Nat, NEW events \in [1 .. early -> Msg],
         \A i \in 1 .. early : events[i].seq = rev + i
  PROVE  events \in Seq(Msg) /\ Ordered(events, rev, rev + early)
<1>1. events \in Seq(Msg)
  BY SeqDef
<1>2. Len(events) = early
  BY <1>1, LenProperties
<1>3. ASSUME NEW i \in 1 .. early
      PROVE  /\ rev <= events[i].seq /\ events[i].seq <= rev + early
             /\ \A j \in 1 .. i : events[j].seq <= events[i].seq
  <2>1. \A j \in 1 .. i : j \in 1 .. early
    OBVIOUS
  <2>2. \A j \in 1 .. i : events[j].seq = rev + j
    BY <2>1
  <2> QED
    BY <2>2
<1> QED
  BY <1>1, <1>2, <1>3 DEF Ordered

\* A queue of two messages.
LEMMA OrderedTwo ==
  ASSUME NEW m \in Msg, NEW k \in Msg, NEW low \in Nat, NEW high \in Nat,
         low <= m.seq, m.seq <= k.seq, k.seq <= high
  PROVE  << m, k >> \in Seq(Msg) /\ Ordered(<< m, k >>, low, high)
<1> DEFINE q == << m, k >>
<1>1. q \in Seq(Msg) /\ Len(q) = 2 /\ q[1] = m /\ q[2] = k /\ m.seq \in Nat /\ k.seq \in Nat
  BY DEF Msg
<1> HIDE DEF q
<1>2. 1 .. Len(q) = {1, 2} /\ 1 .. 1 = {1} /\ 1 .. 2 = {1, 2}
  BY <1>1
<1>3. low <= q[1].seq /\ q[1].seq <= high /\ low <= q[2].seq /\ q[2].seq <= high /\ q[1].seq <= q[2].seq
      /\ q[1].seq <= q[1].seq /\ q[2].seq <= q[2].seq
  BY <1>1
<1>4. \A i \in 1 .. Len(q) : /\ low <= q[i].seq /\ q[i].seq <= high
                            /\ \A j \in 1 .. i : q[j].seq <= q[i].seq
  BY <1>2, <1>3
<1>5. Ordered(q, low, high)
  BY <1>4 DEF Ordered
<1> QED
  BY <1>1, <1>5 DEF q

\* What a join is sent: the events before the snapshot, what names the seat, the
\* snapshot and the event after it.
LEMMA SentOrdered ==
  ASSUME NEW rev \in Nat, NEW early \in Nat, NEW first \in Seq(Msg),
         \A i \in 1 .. Len(first) : ~Numbered(first[i]),
         NEW events, events = [i \in 1 .. early |-> Message("event", rev + i)],
         NEW last, last = <<Message("snapshot", rev + early), Message("event", rev + early + 1)>>
  PROVE  events \o first \o last \in Seq(Msg) /\ Ordered(events \o first \o last, rev, rev + early + 1)
<1>1. /\ rev + early \in Nat /\ rev + early + 1 \in Nat /\ rev + early + 1 > 0 /\ rev <= rev + early
      /\ rev + early <= rev + early + 1 /\ rev + early <= rev + early
  OBVIOUS
<1>2. events \in Seq(Msg) /\ Ordered(events, rev, rev + early)
  <2>1. \A i \in 1 .. early : rev + i \in Nat /\ rev + i > 0 /\ "event" \in Types
    BY DEF Types
  <2>2. \A i \in 1 .. early : Message("event", rev + i) \in Msg
                              /\ Message("event", rev + i).seq = rev + i
    BY <2>1, MessageTyped
  <2>3. events \in [1 .. early -> Msg] /\ \A i \in 1 .. early : events[i].seq = rev + i
    BY <2>2
  <2> QED
    BY <2>3, EventsOrdered
<1>3. Ordered(first, rev + early, rev + early)
  BY DEF Ordered
<1>4. last \in Seq(Msg) /\ Ordered(last, rev + early, rev + early + 1)
  <2> DEFINE m == Message("snapshot", rev + early)
             k == Message("event", rev + early + 1)
  <2>1. m \in Msg /\ k \in Msg /\ m.seq = rev + early /\ k.seq = rev + early + 1 /\ last = <<m, k>>
    BY <1>1, MessageTyped DEF Types
  <2> HIDE DEF m, k
  <2> QED
    BY <1>1, <2>1, OrderedTwo
<1> DEFINE start == events \o first
<1>5. start \in Seq(Msg) /\ Ordered(start, rev, rev + early)
  BY <1>1, <1>2, <1>3, OrderedConcat
<1> HIDE DEF start
<1>6. start \o last \in Seq(Msg) /\ Ordered(start \o last, rev, rev + early + 1)
  BY <1>1, <1>4, <1>5, OrderedConcat
<1> QED
  BY <1>6 DEF start

\* A join that is accepted: nothing the tab has applied is newer than what it is sent.
LEMMA AttachInv ==
  ASSUME IInv, NEW n \in Socket, NEW first \in Seq(Msg),
         \A i \in 1 .. Len(first) : ~Numbered(first[i]), sock[n].join # {},
         NEW seats \in SUBSET Nat, \A s, t \in seats : s = t, NEW issued \in Nat,
         Attach(n, first, seats, issued), UNCHANGED tab
  PROVE  IInv'
<1> DEFINE rev == room.revision
<1>1. /\ sock[n] \in SocketRec /\ sock \in [Socket -> SocketRec] /\ room \in RoomRec
      /\ MaxRevision \in Nat /\ rev \in Nat /\ Floor(n) \in Nat /\ Floor(n) <= rev
      /\ sock[n].down \in Seq(Msg) /\ Ordered(sock[n].down, Floor(n), rev)
  BY Parts
<1>2. PICK early \in 0 .. 5 :
        LET events == [i \in 1 .. early |-> Message("event", rev + i)]
            sent   == events \o first \o <<Message("snapshot", rev + early),
                                            Message("event", rev + early + 1)>>
        IN  /\ RevisionsLeft(early + 1)
            /\ room' = [room EXCEPT !.revision = rev + early + 1, !.conn = n, !.seats = seats,
                                    !.issued = issued]
            /\ sock' = [sock EXCEPT ![n].join = {},
                                    ![n].down = IF sock[n].stage = "open" THEN sent ELSE @]
  BY DEF Attach
<1>3. PICK sent \in Seq(Msg) :
        /\ Ordered(sent, rev, rev + early + 1)
        /\ sock' = [sock EXCEPT ![n].join = {},
                                ![n].down = IF sock[n].stage = "open" THEN sent ELSE @]
  <2> DEFINE events == [i \in 1 .. early |-> Message("event", rev + i)]
             last == <<Message("snapshot", rev + early), Message("event", rev + early + 1)>>
             all == events \o first \o last
  <2>1. early \in Nat
    OBVIOUS
  <2>2. all \in Seq(Msg) /\ Ordered(all, rev, rev + early + 1)
    BY <1>1, <2>1, SentOrdered
  <2>3. sock' = [sock EXCEPT ![n].join = {},
                            ![n].down = IF sock[n].stage = "open" THEN all ELSE @]
    BY <1>2
  <2> HIDE DEF all
  <2> QED
    BY <2>2, <2>3
<1> DEFINE v == [sock[n] EXCEPT !.join = {}, !.down = IF sock[n].stage = "open" THEN sent ELSE @]
<1>4. /\ room' = [room EXCEPT !.revision = rev + early + 1, !.conn = n, !.seats = seats,
                              !.issued = issued]
      /\ rev + early + 1 \in 0 .. MaxRevision /\ rev <= rev + early + 1 /\ rev + early + 1 \in Nat
  BY <1>1, <1>2, SMTT(60) DEF RevisionsLeft
<1>5. /\ room' \in RoomRec /\ room'.revision = rev + early + 1 /\ rev <= room'.revision
      /\ room'.seats = seats
  BY <1>1, <1>4 DEF RoomRec
<1>6. v \in SocketRec /\ v.stage = sock[n].stage
  BY <1>1 DEF SocketRec
<1>7. sock' = [sock EXCEPT ![n] = v]
  BY <1>1, <1>3
<1>8. Ordered(v.down, Floor(n), room'.revision)
  <2>1. Ordered(sent, Floor(n), rev + early + 1) /\ Ordered(sock[n].down, Floor(n), rev + early + 1)
    BY <1>1, <1>3, <1>4, OrderedRelaxed
  <2> QED
    BY <1>1, <1>5, <2>1 DEF SocketRec
<1>9. sock[n] # Unused
  BY DEF Unused
<1>10. Seated'
  BY <1>5 DEF Seated
<1> HIDE DEF v
<1> QED
  BY <1>1, <1>5, <1>6, <1>7, <1>8, <1>9, <1>10, RoomSide

\* A join takes the only seat there is, returns to one, or is refused.
LEMMA ProcessJoinInv ==
  ASSUME IInv, NEW n \in Socket, ProcessJoin(n)
  PROVE  IInv'
<1>1. /\ sock[n] \in SocketRec /\ sock \in [Socket -> SocketRec] /\ room \in RoomRec
      /\ room.seats \in SUBSET Nat /\ room.issued \in Nat /\ room.revision \in Nat
  BY Parts DEF RoomRec
<1>2. PICK creds \in sock[n].join :
       \/ /\ MayTakeSeat(creds)
          /\ LET seat == room.issued + 1
             IN  Attach(n, <<Message("accepted", seat)>>, room.seats \cup {seat}, seat)
       \/ /\ MayReclaim(creds)
          /\ Attach(n, <<>>, room.seats, room.issued)
       \/ /\ ~MayReclaim(creds)
          /\ sock' = [sock EXCEPT ![n] = Push([@ EXCEPT !.join = {}], Message("refused", 0))]
          /\ UNCHANGED room
  BY DEF ProcessJoin
<1>3. UNCHANGED tab /\ sock[n].join # {}
  BY <1>2 DEF ProcessJoin
<1>4. CASE /\ MayTakeSeat(creds)
           /\ Attach(n, <<Message("accepted", room.issued + 1)>>, room.seats \cup {room.issued + 1},
                     room.issued + 1)
  <2> DEFINE m == Message("accepted", room.issued + 1)
  <2>1. room.issued + 1 \in Nat /\ m \in Msg /\ ~Numbered(m)
    BY <1>1, MessageTyped DEF Types, Numbered
  <2> DEFINE first == <<m>>
             seats == room.seats \cup {room.issued + 1}
             seat == room.issued + 1
  <2>2. first \in Seq(Msg) /\ \A i \in 1 .. Len(first) : ~Numbered(first[i])
    <3>1. Len(first) = 1 /\ first[1] = m /\ first \in Seq(Msg)
      BY <2>1
    <3> QED
      BY <2>1, <3>1
  <2>3. \A s, t \in seats : s = t
    BY <1>4 DEF MayTakeSeat
  <2>4. seats \in SUBSET Nat /\ seat \in Nat
    BY <1>1, <2>1
  <2>5. Attach(n, first, seats, seat)
    BY <1>4
  <2> HIDE DEF m, first, seats, seat
  <2> QED
    BY <1>3, <2>2, <2>3, <2>4, <2>5, AttachInv
<1>5. CASE Attach(n, <<>>, room.seats, room.issued)
  <2>1. PICK first \in Seq(Msg) : first = << >>
    BY EmptySeq
  <2>2. \A i \in 1 .. Len(first) : ~Numbered(first[i])
    BY <2>1
  <2>3. \A s, t \in room.seats : s = t
    BY DEF IInv, Seated
  <2>4. Attach(n, first, room.seats, room.issued)
    BY <1>5, <2>1
  <2> QED
    BY <1>1, <1>3, <2>2, <2>3, <2>4, AttachInv
<1>6. CASE /\ sock' = [sock EXCEPT ![n] = Push([@ EXCEPT !.join = {}], Message("refused", 0))]
           /\ UNCHANGED room
  <2> DEFINE s == [sock[n] EXCEPT !.join = {}]
             m == Message("refused", 0)
  <2>1. m \in Msg /\ ~Numbered(m)
    BY MessageTyped DEF Types, Numbered
  <2>2. s \in SocketRec /\ s.stage = sock[n].stage /\ s.down = sock[n].down
    BY <1>1 DEF SocketRec
  <2>3. sock' = [sock EXCEPT ![n] = Push(s, m)]
    BY <1>6
  <2>4. sock[n] # Unused
    BY <1>3 DEF Unused
  <2>5. Seated' /\ room.revision <= room'.revision /\ room' \in RoomRec
    BY <1>1, <1>6 DEF IInv, Seated
  <2> HIDE DEF s, m
  <2> QED
    BY <1>3, <2>1, <2>2, <2>3, <2>4, <2>5, Pushes
<1> QED
  BY <1>2, <1>4, <1>5, <1>6

\* A resync is answered by a snapshot or, without a token, by an error.
LEMMA ProcessResyncInv ==
  ASSUME IInv, NEW n \in Socket, ProcessResync(n)
  PROVE  IInv'
<1>1. /\ sock[n] \in SocketRec /\ sock \in [Socket -> SocketRec] /\ room \in RoomRec
      /\ room.revision \in Nat /\ ResyncBurst \in Nat
      /\ sock[n].resyncs \in Nat /\ sock[n].tokens \in 0 .. ResyncBurst
  BY Parts DEF SocketRec
<1>2. /\ sock[n].resyncs > 0 /\ sock[n] # Unused /\ UNCHANGED <<tab, room>>
      /\ Seated' /\ room.revision <= room'.revision
  BY <1>1 DEF ProcessResync, Unused, IInv, Seated
<1> DEFINE taken == [sock[n] EXCEPT !.resyncs = @ - 1]
<1>5. /\ taken \in SocketRec /\ taken.stage = sock[n].stage /\ taken.down = sock[n].down
      /\ taken.tokens = sock[n].tokens
  <2>1. sock[n].resyncs - 1 \in Nat
    BY <1>1, <1>2
  <2> QED
    BY <1>1, <2>1 DEF SocketRec
<1>6. sock' = [sock EXCEPT ![n] =
         IF taken.tokens = 0 THEN Push(taken, Message("other", room.revision))
         ELSE Push([taken EXCEPT !.tokens = @ - 1], Message("snapshot", room.revision))]
  BY DEF ProcessResync
<1> HIDE DEF taken
<1>3. CASE sock[n].tokens = 0
  <2> DEFINE m == Message("other", room.revision)
  <2>1. m \in Msg /\ m.seq = room.revision
    BY <1>1, MessageTyped DEF Types
  <2>2. sock' = [sock EXCEPT ![n] = Push(taken, m)]
    BY <1>3, <1>5, <1>6
  <2> HIDE DEF m
  <2> QED
    BY <1>1, <1>2, <1>5, <2>1, <2>2, Pushes
<1>4. CASE sock[n].tokens # 0
  <2> DEFINE s == [taken EXCEPT !.tokens = @ - 1]
             m == Message("snapshot", room.revision)
  <2>1. m \in Msg /\ m.seq = room.revision
    BY <1>1, MessageTyped DEF Types
  <2>2. s \in SocketRec /\ s.stage = sock[n].stage /\ s.down = sock[n].down
    <3>1. taken.tokens - 1 \in 0 .. ResyncBurst
      BY <1>1, <1>4, <1>5
    <3> QED
      BY <1>5, <3>1 DEF SocketRec
  <2>3. sock' = [sock EXCEPT ![n] = Push(s, m)]
    BY <1>4, <1>5, <1>6
  <2> HIDE DEF s, m
  <2> QED
    BY <1>1, <1>2, <2>1, <2>2, <2>3, Pushes
<1> QED
  BY <1>3, <1>4

\* Tokens come back.
LEMMA RefillInv ==
  ASSUME IInv, NEW n \in Socket, Refill(n)
  PROVE  IInv'
<1> DEFINE v == [sock[n] EXCEPT !.tokens = @ + 1]
<1>1. /\ sock[n] \in SocketRec /\ sock \in [Socket -> SocketRec] /\ room \in RoomRec
      /\ room.revision \in Nat /\ ResyncBurst \in Nat /\ sock[n].tokens \in 0 .. ResyncBurst
      /\ Ordered(sock[n].down, Floor(n), room.revision)
  BY Parts DEF SocketRec
<1>2. sock[n].tokens < ResyncBurst /\ sock[n] # Unused /\ UNCHANGED <<tab, room>>
  BY DEF Refill, Unused
<1>3. v \in SocketRec /\ v.stage = sock[n].stage /\ v.down = sock[n].down
  <2>1. sock[n].tokens + 1 \in 0 .. ResyncBurst
    BY <1>1, <1>2
  <2> QED
    BY <1>1, <2>1 DEF SocketRec
<1>4. sock' = [sock EXCEPT ![n] = v]
  BY DEF Refill
<1>5. Seated' /\ room.revision <= room'.revision
  BY <1>1, <1>2 DEF IInv, Seated
<1> HIDE DEF v
<1> QED
  BY <1>1, <1>2, <1>3, <1>4, <1>5, RoomSide

\* The room loses a connection or a seat, or closes.
LEMMA RoomGoes ==
  ASSUME IInv, ProcessLeave \/ SeatExpires \/ RoomCloses
  PROVE  IInv'
<1>1. room \in RoomRec /\ room.revision \in Nat /\ MaxRevision \in Nat
  BY Parts
<1>2. UNCHANGED <<tab, sock>>
  BY DEF ProcessLeave, SeatExpires, RoomCloses
<1>3. CASE ProcessLeave
  <2>1. room' \in RoomRec /\ room'.revision = room.revision + 1 /\ room'.seats = room.seats
    <3>1. room.revision + 1 \in 0 .. MaxRevision
      BY <1>1, <1>3 DEF ProcessLeave, RevisionsLeft
    <3> QED
      BY <1>1, <1>3, <3>1 DEF ProcessLeave, RoomRec
  <2>2. Seated' /\ room.revision <= room'.revision
    BY <1>1, <2>1 DEF IInv, Seated
  <2> QED
    BY <1>2, <2>1, <2>2, RoomAlone
<1>4. CASE SeatExpires
  <2>1. room' \in RoomRec /\ room'.revision = room.revision + 2 /\ room'.seats \subseteq room.seats
    <3>0. room.revision + 2 <= MaxRevision
      BY <1>4 DEF SeatExpires, RevisionsLeft
    <3>1. room.revision + 2 \in 0 .. MaxRevision
      BY <1>1, <3>0
    <3> QED
      BY <1>1, <1>4, <3>1 DEF SeatExpires, RoomRec
  <2>2. Seated' /\ room.revision <= room'.revision
    BY <1>1, <2>1 DEF IInv, Seated
  <2> QED
    BY <1>2, <2>1, <2>2, RoomAlone
<1>5. CASE RoomCloses
  <2>1. room' \in RoomRec /\ room'.revision = room.revision /\ room'.seats = room.seats
    BY <1>1, <1>5 DEF RoomCloses, RoomRec
  <2>2. Seated' /\ room.revision <= room'.revision
    BY <1>1, <2>1 DEF IInv, Seated
  <2> QED
    BY <1>2, <2>1, <2>2, RoomAlone
<1> QED
  BY <1>3, <1>4, <1>5

-----------------------------------------------------------------------------
(* The tab.                                                                *)

\* What is next in the current socket's queue is no older than what was applied, so
\* that the sequencer never meets a stale snapshot there, and applies an event only
\* to the revision before it.
LEMMA Decided ==
  ASSUME IInv, NEW m \in Msg, Numbered(m) => tab.last <= m.seq
  PROVE  \/ m.type = "accepted" /\ OnMessage(tab, m) = [tab EXCEPT !.creds = m.seq]
         \/ m.type = "refused" /\ OnMessage(tab, m) = [tab EXCEPT !.fatal = TRUE]
         \/ m.type = "snapshot" /\ OnMessage(tab, m) = ApplySnapshot(tab, m)
         \/ m.type = "other" /\ OnMessage(tab, m) = ApplyMessage(tab, m)
         \/ m.type = "event" /\ OnMessage(tab, m) = tab
         \/ m.type = "event" /\ OnMessage(tab, m) = OnGap(tab)
         \/ /\ m.type = "event" /\ (tab.seen => m.seq = tab.last + 1)
            /\ OnMessage(tab, m) = ApplyMessage(tab, m)
<1>1. m.type \in Types /\ m.seq \in Nat /\ tab.last \in Nat
  BY Parts DEF Msg
<1>2. CASE m.type = "accepted"
  BY <1>2 DEF OnMessage
<1>3. CASE m.type = "refused"
  BY <1>3 DEF OnMessage
<1>4. CASE m.type = "snapshot"
  <2>1. ~(m.seq < tab.last)
    BY <1>1, <1>4 DEF Numbered
  <2>2. DecideSequence(tab, m) = "apply-snapshot"
    BY <1>4, <2>1 DEF DecideSequence
  <2> QED
    BY <1>4, <2>2 DEF OnMessage
<1>5. CASE m.type = "other"
  <2>1. DecideSequence(tab, m) = "apply"
    BY <1>5 DEF DecideSequence
  <2> QED
    BY <1>5, <2>1 DEF OnMessage
<1>6. CASE m.type = "event"
  <2>1. CASE tab.seen /\ m.seq <= tab.last
    <3>0. ~(m.seq > tab.last + 1)
      BY <1>1, <2>1
    <3>1. DecideSequence(tab, m) = "duplicate-or-old"
      BY <1>6, <2>1, <3>0 DEF DecideSequence
    <3> QED
      BY <1>6, <3>1 DEF OnMessage
  <2>2. CASE tab.seen /\ m.seq > tab.last + 1
    <3>1. ~(m.seq <= tab.last)
      BY <1>1, <2>2
    <3>2. DecideSequence(tab, m) = "gap"
      BY <1>6, <2>2, <3>1 DEF DecideSequence
    <3> QED
      BY <1>6, <3>2 DEF OnMessage
  <2>3. CASE ~tab.seen \/ (~(m.seq <= tab.last) /\ ~(m.seq > tab.last + 1))
    <3>1. DecideSequence(tab, m) = "apply"
      BY <1>6, <2>3 DEF DecideSequence
    <3>2. tab.seen => m.seq = tab.last + 1
      BY <1>1, <2>3
    <3> QED
      BY <1>6, <3>1, <3>2 DEF OnMessage
  <2> QED
    BY <2>1, <2>2, <2>3
<1> QED
  BY <1>1, <1>2, <1>3, <1>4, <1>5, <1>6 DEF Types

\* What a message makes of the tab: it keeps its socket and timer, never goes back,
\* and shows one revision if it did.
LEMMA Applied ==
  ASSUME IInv, NEW m \in Msg, Numbered(m) => tab.last <= m.seq /\ m.seq <= room.revision,
         NEW t, t = OnMessage(tab, m)
  PROVE  /\ t \in TabRec
         /\ t.ws = tab.ws /\ t.opened = tab.opened /\ t.timer = tab.timer /\ t.stopped = tab.stopped
         /\ t.last = tab.last \/ (Numbered(m) /\ t.last = m.seq)
         /\ tab.seen => t.seen
         /\ t.everConnected => t.seen
         /\ t.everConnected /\ ~t.leapt => t.shown = 1 .. t.last
<1>1. /\ tab \in TabRec /\ tab.last \in Nat /\ room.revision \in Nat /\ room.revision <= MaxRevision
      /\ MaxRevision \in Nat /\ m.seq \in Nat /\ tab.shown \in SUBSET (1 .. MaxRevision)
  BY Parts DEF TabRec, RoomRec, Msg
<1>2. /\ tab.everConnected => tab.seen
      /\ tab.everConnected /\ ~tab.leapt => tab.shown = 1 .. tab.last
  BY DEF IInv, Delivered, ShowsOneRevision
<1>3. Numbered(m) => m.seq \in 0 .. MaxRevision /\ 1 .. m.seq \in SUBSET (1 .. MaxRevision)
  BY <1>1
<1>4. CASE t = [tab EXCEPT !.creds = m.seq] \/ t = [tab EXCEPT !.fatal = TRUE] \/ t = tab
  BY <1>1, <1>2, <1>4, ZenonT(60) DEF TabRec
<1>5. CASE t = OnGap(tab)
  BY <1>1, <1>2, <1>5, ZenonT(60) DEF OnGap, TabRec, Status
<1>6. CASE m.type = "snapshot" /\ t = ApplySnapshot(tab, m)
  <2>1. Numbered(m)
    BY <1>6 DEF Numbered
  <2> QED
    BY <1>1, <1>3, <1>6, <2>1, ZenonT(60) DEF ApplySnapshot, TabRec, Status
<1>7. CASE m.type = "other" /\ t = ApplyMessage(tab, m)
  <2>1. CASE tab.resyncing
    BY <1>1, <1>2, <1>7, <2>1 DEF ApplyMessage
  <2>2. CASE ~tab.resyncing
    <3>1. Numbered(m)
      BY <1>7 DEF Numbered
    <3>2. t = [tab EXCEPT !.last = m.seq, !.seen = TRUE, !.leapt = @ \/ m.seq > tab.last]
      BY <1>1, <1>7, <2>2 DEF ApplyMessage, TabRec
    <3>3. t \in TabRec
      BY <1>1, <1>3, <3>1, <3>2 DEF TabRec
    <3>4. /\ t.ws = tab.ws /\ t.opened = tab.opened /\ t.timer = tab.timer /\ t.stopped = tab.stopped
          /\ t.last = m.seq /\ t.seen /\ t.everConnected = tab.everConnected /\ t.shown = tab.shown
          /\ t.leapt <=> (tab.leapt \/ m.seq > tab.last)
      BY <1>1, <3>2 DEF TabRec
    <3>5. ~t.leapt => ~tab.leapt /\ m.seq = tab.last
      <4>1. m.seq <= tab.last => m.seq = tab.last
        BY <1>1, <3>1
      <4>2. m.seq > tab.last \/ m.seq <= tab.last
        BY <1>1
      <4> QED
        BY <3>4, <4>1, <4>2
    <3> QED
      BY <1>2, <3>1, <3>3, <3>4, <3>5
  <2> QED
    BY <2>1, <2>2
<1>8. CASE m.type = "event" /\ (tab.seen => m.seq = tab.last + 1) /\ t = ApplyMessage(tab, m)
  <2>1. CASE tab.resyncing
    BY <1>1, <1>2, <1>8, <2>1 DEF ApplyMessage
  <2>2. CASE ~tab.resyncing
    <3>1. Numbered(m)
      BY <1>8 DEF Numbered
    <3>2. t = [tab EXCEPT !.last = m.seq, !.seen = TRUE, !.shown = @ \cup {m.seq}]
      BY <1>1, <1>8, <2>2 DEF ApplyMessage, TabRec
    <3>3. /\ t.ws = tab.ws /\ t.opened = tab.opened /\ t.timer = tab.timer /\ t.stopped = tab.stopped
          /\ t.last = m.seq /\ t.seen /\ t.everConnected = tab.everConnected
          /\ t.shown = tab.shown \cup {m.seq} /\ t.leapt = tab.leapt
      BY <1>1, <3>2 DEF TabRec
    <3>4. t \in TabRec
      <4>1. m.seq \in 0 .. MaxRevision
        BY <1>3, <3>1
      <4>2. tab.shown \cup {m.seq} \in SUBSET (1 .. MaxRevision)
        BY <1>1, <1>8, <4>1 DEF Msg
      <4> QED
        BY <1>1, <3>2, <4>1, <4>2 DEF TabRec
    <3>5. t.everConnected /\ ~t.leapt => t.shown = 1 .. t.last
      BY <1>1, <1>2, <1>8, <3>3
    <3> QED
      BY <3>1, <3>3, <3>4, <3>5
  <2> QED
    BY <2>1, <2>2
<1>9. \/ t = [tab EXCEPT !.creds = m.seq] \/ t = [tab EXCEPT !.fatal = TRUE] \/ t = tab
      \/ t = OnGap(tab)
      \/ m.type = "snapshot" /\ t = ApplySnapshot(tab, m)
      \/ m.type = "other" /\ t = ApplyMessage(tab, m)
      \/ m.type = "event" /\ (tab.seen => m.seq = tab.last + 1) /\ t = ApplyMessage(tab, m)
  <2>1. Numbered(m) => tab.last <= m.seq
    OBVIOUS
  <2> QED
    BY <2>1, Decided, Zenon
<1> QED
  BY <1>4, <1>5, <1>6, <1>7, <1>8, <1>9, Zenon

\* A socket takes the place of the last one: it is unused, and nothing is on its way.
LEMMA Connects ==
  ASSUME IInv, NEW t \in TabRec, t.opened = tab.opened, t.last = tab.last, t.seen = tab.seen,
         t.everConnected = tab.everConnected, t.leapt = tab.leapt, t.shown = tab.shown,
         t.timer # "pending", Connect(t), sock' = Connecting(sock, tab'.ws), UNCHANGED room
  PROVE  IInv'
<1> DEFINE n == tab.opened + 1
           v == [Unused EXCEPT !.stage = "connecting"]
<1>1. /\ tab \in TabRec /\ sock \in [Socket -> SocketRec] /\ room \in RoomRec
      /\ tab.ws \in Nat /\ tab.opened \in Nat /\ tab.last \in Nat /\ room.revision \in Nat
      /\ MaxSockets \in Nat /\ tab.opened < MaxSockets
  BY Parts DEF Connect, MayConnect
<1>2. n \in Socket /\ n > tab.opened /\ n \in Nat
  BY <1>1 DEF Socket
<1>3. tab' = [t EXCEPT !.opened = n, !.ws = n]
  BY <1>1 DEF Connect
<1>4. /\ tab' \in TabRec /\ tab'.ws = n /\ tab'.opened = n /\ tab'.last = tab.last
      /\ tab'.seen = tab.seen /\ tab'.everConnected = tab.everConnected
      /\ tab'.leapt = tab.leapt /\ tab'.shown = tab.shown /\ tab'.timer # "pending"
  BY <1>2, <1>3 DEF TabRec
<1>5. v \in SocketRec /\ v.down = << >> /\ sock[n] = Unused
  BY <1>1, <1>2, UnusedTyped DEF SocketRec, Stage, IInv, Fresh, Unused
<1>6. sock' = [sock EXCEPT ![n] = v]
  BY <1>1, <1>2, <1>4, <1>5 DEF Connecting
<1> HIDE DEF v
<1>7. \A k \in Socket : sock'[k] = IF k = n THEN v ELSE sock[k]
  BY <1>1, <1>6
<1>8. Typed'
  BY <1>1, <1>4, <1>5, <1>6 DEF Typed
<1>9. Delivered'
  <2>1. tab'.last <= room'.revision /\ (tab'.everConnected => tab'.seen)
    BY <1>4 DEF IInv, Delivered
  <2>2. ASSUME NEW k \in Socket
        PROVE  Ordered(sock'[k].down, Floor(k)', room'.revision)
    <3>1. CASE k = n
      BY <1>5, <1>7, <3>1, OrderedEmpty
    <3>2. CASE k # n
      <4>1. /\ sock[k].down \in Seq(Msg) /\ Floor(k) \in Nat
            /\ Ordered(sock[k].down, Floor(k), room.revision)
        BY Parts
      <4>2. Ordered(sock[k].down, 0, room.revision)
        BY <1>1, <4>1, OrderedRelaxed
      <4>3. Floor(k)' = 0
        BY <1>4, <3>2 DEF Floor
      <4> QED
        BY <1>7, <3>2, <4>2, <4>3
    <3> QED
      BY <3>1, <3>2
  <2> QED
    BY <2>1, <2>2 DEF Delivered
<1>10. Fresh'
  <2>1. \A k \in Socket : k > n => k > tab.opened /\ k # n
    BY <1>1 DEF Socket
  <2> QED
    BY <1>2, <1>4, <1>7, <2>1 DEF IInv, Fresh
<1>11. Retrying' /\ Seated' /\ ShowsOneRevision'
  BY <1>4 DEF IInv, Retrying, Seated, ShowsOneRevision
<1> QED
  BY <1>8, <1>9, <1>10, <1>11 DEF IInv

\* The retry timer and the online event.
LEMMA ReconnectInv ==
  ASSUME IInv, Retry \/ Online
  PROVE  IInv'
<1>1. tab \in TabRec
  BY Parts
<1>2. CASE Retry
  <2> DEFINE t == [tab EXCEPT !.timer = "spent"]
  <2>1. /\ t \in TabRec /\ t.opened = tab.opened /\ t.last = tab.last /\ t.seen = tab.seen
        /\ t.everConnected = tab.everConnected /\ t.leapt = tab.leapt /\ t.shown = tab.shown
        /\ t.timer # "pending"
    BY <1>1 DEF TabRec
  <2>2. Connect(t) /\ sock' = Connecting(sock, tab'.ws) /\ UNCHANGED room
    BY <1>2 DEF Retry
  <2> HIDE DEF t
  <2> QED
    BY <2>1, <2>2, Connects
<1>3. CASE Online
  <2> DEFINE t == OnOnline(tab)
  <2>1. /\ t \in TabRec /\ t.opened = tab.opened /\ t.last = tab.last /\ t.seen = tab.seen
        /\ t.everConnected = tab.everConnected /\ t.leapt = tab.leapt /\ t.shown = tab.shown
        /\ t.timer # "pending"
    BY <1>1 DEF TabRec, OnOnline
  <2>2. Connect(t) /\ sock' = Connecting(sock, tab'.ws) /\ UNCHANGED room
    BY <1>3 DEF Online
  <2> HIDE DEF t
  <2> QED
    BY <2>1, <2>2, Connects
<1> QED
  BY <1>2, <1>3

\* A closed socket keeps the join frame only.
LEMMA ClosedTyped ==
  ASSUME NEW s \in SocketRec
  PROVE  /\ [Unused EXCEPT !.stage = "closed", !.join = s.join] \in SocketRec
         /\ [Unused EXCEPT !.stage = "closed", !.join = s.join].stage = "closed"
         /\ [Unused EXCEPT !.stage = "closed", !.join = s.join].down = << >>
<1>1. Unused \in SocketRec
  BY UnusedTyped
<1> QED
  BY <1>1 DEF SocketRec, Stage, Unused

\* A socket closes; its tab, if it still counts, retries or has failed for good.
LEMMA CloseInv ==
  ASSUME IInv, NEW n \in Socket, NEW code \in {"fatal", "other"}, Close(n, code)
  PROVE  IInv'
<1> DEFINE v == [Unused EXCEPT !.stage = "closed", !.join = sock[n].join]
           t == [tab EXCEPT !.fatal = @ \/ code = "fatal"]
<1>1. /\ tab \in TabRec /\ sock \in [Socket -> SocketRec] /\ room \in RoomRec
      /\ sock[n] \in SocketRec /\ tab.last \in Nat /\ room.revision \in Nat
      /\ n <= tab.opened
  BY Parts DEF Close
<1>2. v \in SocketRec /\ v.stage = "closed" /\ v.down = << >>
  BY <1>1, ClosedTyped
<1>3. sock' = [sock EXCEPT ![n] = v] /\ UNCHANGED room
  BY DEF Close, Closed
<1>4. sock[n].stage # "closed" /\ tab' = IF Listens(n) THEN OnClose(t) ELSE tab
  BY DEF Close
<1>5. t \in TabRec /\ t = [tab EXCEPT !.fatal = t.fatal]
  BY <1>1 DEF TabRec
<1> HIDE DEF v, t
<1>6. /\ tab' \in TabRec /\ tab'.ws = tab.ws /\ tab'.opened = tab.opened /\ tab'.last = tab.last
      /\ tab'.seen = tab.seen /\ tab'.everConnected = tab.everConnected
      /\ tab'.leapt = tab.leapt /\ tab'.shown = tab.shown /\ tab'.stopped = tab.stopped
      /\ Listens(n) => /\ t.fatal => tab'.timer = tab.timer
                       /\ tab'.fatal = t.fatal
  BY <1>1, <1>4, <1>5, ZenonT(60) DEF OnClose, ScheduleRetry, TabRec, Status
<1>7. sock'[n] = v /\ \A k \in Socket : k # n => sock'[k] = sock[k]
  BY <1>1, <1>3
<1>8. Retrying'
  <2>1. CASE Listens(n)
    <3>1. tab.timer # "pending" /\ tab.ws = n /\ ~tab.stopped
      BY <1>4, <2>1 DEF IInv, Retrying, Listens
    <3>2. t.fatal => tab'.timer # "pending"
      BY <1>6, <2>1, <3>1
    <3> QED
      BY <1>2, <1>6, <1>7, <2>1, <3>1, <3>2 DEF Retrying
  <2>2. CASE ~Listens(n)
    <3>1. tab' = tab
      BY <1>4, <2>2
    <3>2. tab.ws \in Socket
      BY <1>1 DEF TabRec
    <3> QED
      BY <1>2, <1>7, <3>1, <3>2 DEF IInv, Retrying
  <2> QED
    BY <2>1, <2>2
<1>9. ShowsOneRevision' /\ tab'.last <= room.revision /\ (tab'.everConnected => tab'.seen)
  BY <1>6 DEF IInv, ShowsOneRevision, Delivered
<1>10. Ordered(v.down, Floor(n)', room.revision)
  BY <1>2, OrderedEmpty
<1> QED
  BY <1>1, <1>2, <1>3, <1>6, <1>8, <1>9, <1>10, TabSide

\* stop() closes the current socket, and nothing is pending any more.
LEMMA StopInv == IInv /\ Stop => IInv'
<1> SUFFICES ASSUME IInv, Stop PROVE IInv'
  OBVIOUS
<1> DEFINE n == tab.ws
           v == [Unused EXCEPT !.stage = "closed", !.join = sock[n].join]
<1>1. /\ tab \in TabRec /\ sock \in [Socket -> SocketRec] /\ room \in RoomRec
      /\ n \in Socket /\ tab.last \in Nat /\ room.revision \in Nat
  BY Parts DEF TabRec
<1>2. n <= tab.opened
  BY DEF IInv, Fresh
<1>3. v \in SocketRec /\ v.stage = "closed" /\ v.down = << >>
  BY <1>1, ClosedTyped
<1>4. sock' = [sock EXCEPT ![n] = v] /\ UNCHANGED room
  BY DEF Stop, Closed
<1> HIDE DEF v
<1>5. /\ tab' \in TabRec /\ tab'.ws = tab.ws /\ tab'.opened = tab.opened /\ tab'.last = tab.last
      /\ tab'.seen = tab.seen /\ tab'.everConnected = tab.everConnected
      /\ tab'.leapt = tab.leapt /\ tab'.shown = tab.shown /\ tab'.timer # "pending"
  BY <1>1 DEF Stop, TabRec
<1>6. Retrying'
  BY <1>5 DEF Retrying
<1>7. ShowsOneRevision' /\ tab'.last <= room.revision /\ (tab'.everConnected => tab'.seen)
  BY <1>5 DEF IInv, ShowsOneRevision, Delivered
<1>8. Ordered(v.down, Floor(n)', room.revision)
  BY <1>3, OrderedEmpty
<1> QED
  BY <1>1, <1>2, <1>3, <1>4, <1>5, <1>6, <1>7, <1>8, TabSide

\* The grace period is over; only the next loss will see it.
LEMMA GraceElapsesInv == IInv /\ GraceElapses => IInv'
<1> SUFFICES ASSUME IInv, GraceElapses PROVE IInv'
  OBVIOUS
<1> DEFINE n == tab.ws
<1>1. /\ tab \in TabRec /\ sock \in [Socket -> SocketRec] /\ n \in Socket /\ sock[n] \in SocketRec
      /\ Ordered(sock[n].down, Floor(n), room.revision)
  BY Parts DEF TabRec
<1>2. n <= tab.opened
  BY DEF IInv, Fresh
<1>3. sock' = [sock EXCEPT ![n] = sock[n]] /\ sock' = sock /\ UNCHANGED room
  BY <1>1 DEF GraceElapses
<1>4. /\ tab' \in TabRec /\ tab'.ws = tab.ws /\ tab'.opened = tab.opened /\ tab'.last = tab.last
      /\ tab'.seen = tab.seen /\ tab'.everConnected = tab.everConnected
      /\ tab'.leapt = tab.leapt /\ tab'.shown = tab.shown /\ tab'.timer = tab.timer
      /\ tab'.fatal = tab.fatal /\ tab'.stopped = tab.stopped
  BY <1>1 DEF GraceElapses, TabRec
<1>5. Retrying'
  BY <1>3, <1>4 DEF IInv, Retrying
<1>6. ShowsOneRevision' /\ tab'.last <= room.revision /\ (tab'.everConnected => tab'.seen)
  BY <1>4 DEF IInv, ShowsOneRevision, Delivered
<1>7. Ordered(sock[n].down, Floor(n)', room.revision)
  BY <1>1, <1>4 DEF Floor
<1> QED
  BY <1>1, <1>2, <1>3, <1>4, <1>5, <1>6, <1>7, TabSide

\* The next message of a socket: the tab takes it over if the socket still counts.
LEMMA Delivers ==
  ASSUME IInv, NEW n \in Socket, Deliver(n)
  PROVE  /\ IInv'
         /\ tab'.ws = tab.ws
         /\ tab.seen => tab'.seen /\ tab.last <= tab'.last
<1> DEFINE m == Head(sock[n].down)
           v == [sock[n] EXCEPT !.down = Tail(@),
                                !.resyncs = IF Listens(n) /\ AsksResync(tab, m) THEN @ + 1 ELSE @]
<1>1. /\ tab \in TabRec /\ sock \in [Socket -> SocketRec] /\ room \in RoomRec
      /\ sock[n] \in SocketRec /\ tab.last \in Nat /\ room.revision \in Nat
      /\ sock[n].down \in Seq(Msg) /\ Floor(n) \in Nat
      /\ Ordered(sock[n].down, Floor(n), room.revision)
  BY Parts
<1>2. sock[n].stage = "open" /\ sock[n].down # << >> /\ n <= tab.opened /\ UNCHANGED room
  BY Parts DEF Deliver
<1>3. /\ m \in Msg /\ Tail(sock[n].down) \in Seq(Msg)
      /\ Numbered(m) => /\ Floor(n) <= m.seq /\ m.seq <= room.revision
                        /\ Ordered(Tail(sock[n].down), m.seq, room.revision)
      /\ Ordered(Tail(sock[n].down), Floor(n), room.revision)
  BY <1>1, <1>2, OrderedTail
<1>4. /\ tab' = IF Listens(n) THEN OnMessage(tab, m) ELSE tab
      /\ sock' = [sock EXCEPT ![n] = v]
  BY <1>1 DEF Deliver
<1>5. v \in SocketRec /\ v.down = Tail(sock[n].down) /\ v.stage = sock[n].stage
  <2> DEFINE r == IF Listens(n) /\ AsksResync(tab, m) THEN sock[n].resyncs + 1 ELSE sock[n].resyncs
  <2>1. r \in Nat
    BY <1>1 DEF SocketRec
  <2>2. v = [sock[n] EXCEPT !.down = Tail(sock[n].down), !.resyncs = r]
    OBVIOUS
  <2> HIDE DEF m, v, r
  <2> QED
    BY <1>1, <1>3, <2>1, <2>2 DEF SocketRec
<1> HIDE DEF m, v
<1>6. CASE Listens(n)
  <2>1. tab.ws = n /\ ~tab.stopped /\ Floor(n) = tab.last
    BY <1>6 DEF Listens, Floor
  <2>2. Numbered(m) => tab.last <= m.seq /\ m.seq <= room.revision
    BY <1>3, <2>1
  <2>3. tab' = OnMessage(tab, m)
    BY <1>4, <1>6
  <2>4. /\ tab' \in TabRec
        /\ tab'.ws = tab.ws /\ tab'.opened = tab.opened /\ tab'.timer = tab.timer
        /\ tab'.stopped = tab.stopped
        /\ tab'.last = tab.last \/ (Numbered(m) /\ tab'.last = m.seq)
        /\ tab.seen => tab'.seen
        /\ tab'.everConnected => tab'.seen
        /\ tab'.everConnected /\ ~tab'.leapt => tab'.shown = 1 .. tab'.last
    BY <1>3, <2>2, <2>3, Applied
  <2>5. Ordered(v.down, Floor(n)', room.revision)
    <3>1. Floor(n)' = tab'.last
      BY <2>1, <2>4 DEF Floor
    <3> QED
      BY <1>3, <1>5, <2>1, <2>4, <3>1
  <2>6. tab'.last <= room.revision /\ tab.last <= tab'.last
    BY <1>1, <2>2, <2>4 DEF IInv, Delivered
  <2>7. Retrying' /\ ShowsOneRevision'
    BY <1>2, <2>1, <2>4 DEF IInv, Retrying, ShowsOneRevision
  <2>8. IInv'
    BY <1>2, <1>4, <1>5, <2>1, <2>4, <2>5, <2>6, <2>7, TabSide
  <2> QED
    BY <2>4, <2>6, <2>8
<1>7. CASE ~Listens(n)
  <2>1. tab' = tab /\ tab.last <= tab.last
    BY <1>1, <1>4, <1>7
  <2>2. Floor(n)' = Floor(n)
    BY <2>1 DEF Floor
  <2>3. Retrying'
    <3>1. \A k \in Socket : sock'[k].stage = sock[k].stage
      BY <1>1, <1>4, <1>5
    <3>2. tab.ws \in Socket
      BY <1>1 DEF TabRec
    <3> QED
      BY <2>1, <3>1, <3>2 DEF IInv, Retrying
  <2>4. ShowsOneRevision' /\ tab'.last <= room.revision /\ (tab'.everConnected => tab'.seen)
    BY <2>1 DEF IInv, ShowsOneRevision, Delivered
  <2>5. IInv'
    BY <1>1, <1>2, <1>3, <1>4, <1>5, <2>1, <2>2, <2>3, <2>4, TabSide
  <2> QED
    BY <2>1, <2>5
<1> QED
  BY <1>6, <1>7

-----------------------------------------------------------------------------
(* The theorems.                                                           *)

\* Every action, from the lemmas on each.
LEMMA NextInv == IInv /\ [Next]_vars => IInv'
<1> SUFFICES ASSUME IInv, [Next]_vars PROVE IInv'
  OBVIOUS
<1>1. CASE Retry \/ Online
  BY <1>1, ReconnectInv
<1>2. CASE GraceElapses
  BY <1>2, GraceElapsesInv
<1>3. ASSUME NEW n \in Socket, Open(n) \/ Close(n, "fatal") \/ Close(n, "other") \/ Deliver(n)
      PROVE  IInv'
  BY <1>3, OpenInv, CloseInv, Delivers
<1>4. CASE Stop
  BY <1>4, StopInv
<1>5. CASE Broadcast
  BY <1>5, BroadcastInv
<1>6. CASE Say
  BY <1>6, SayInv
<1>7. CASE ProcessLeave \/ SeatExpires \/ RoomCloses
  BY <1>7, RoomGoes
<1>8. ASSUME NEW n \in Socket, ProcessJoin(n) \/ ProcessResync(n) \/ Refill(n)
      PROVE  IInv'
  BY <1>8, ProcessJoinInv, ProcessResyncInv, RefillInv
<1>9. CASE UNCHANGED vars
  BY <1>9 DEF vars, IInv, Typed, Delivered, Floor, Fresh, Retrying, Seated, ShowsOneRevision
<1> QED
  BY <1>1, <1>2, <1>3, <1>4, <1>5, <1>6, <1>7, <1>8, <1>9 DEF Next

\* Queues, sockets, timer, seats and screen fit together in every state.
THEOREM ConnectionSound == Spec => []IInv
<1> QED
  BY InitInv, NextInv, PTL DEF Spec

\* Every reachable state of the tab, its sockets and its room has its type.
THEOREM ConnectionTyped == Spec => []TypeOK
<1>1. IInv => TypeOK
  <2> SUFFICES ASSUME IInv PROVE TypeOK
    OBVIOUS
  <2>1. tab \in TabRec /\ room \in RoomRec
    BY Parts
  <2>2. ASSUME NEW n \in Socket
        PROVE  /\ sock[n].stage \in Stage /\ sock[n].join \in SUBSET Nat
               /\ sock[n].resyncs \in Nat /\ sock[n].tokens \in 0 .. ResyncBurst
               /\ sock[n].down \in Seq([type : Types, seq : Nat])
    <3>1. sock[n] \in SocketRec /\ sock[n].down \in Seq(Msg) /\ Msg \subseteq [type : Types, seq : Nat]
      BY Parts DEF Msg
    <3> QED
      BY <3>1, SeqMonotonic DEF SocketRec
  <2> QED
    BY <2>1, <2>2 DEF TypeOK, TabRec, RoomRec
<1> QED
  BY <1>1, ConnectionSound, PTL

\* Whatever is dropped, lost or replaced, a tab that was ever in sync and has not leapt
\* shows the room as it was at one revision (sequencing.js, roomConnection.js:163-177).
THEOREM ShowsOneRevisionHolds == Spec => []ShowsOneRevision
<1>1. IInv => ShowsOneRevision
  BY DEF IInv
<1> QED
  BY <1>1, ConnectionSound, PTL

\* A retry is pending only while the tab has no connection and no attempt
\* (roomConnection.js:108-124).
THEOREM OneAttemptHolds == Spec => []OneAttempt
<1>1. IInv => OneAttempt
  BY DEF IInv, Retrying, OneAttempt
<1> QED
  BY <1>1, ConnectionSound, PTL

\* However often a join is repeated, the tab has one seat (join.go:128-160).
THEOREM OneSeatHolds == Spec => []OneSeat
<1>1. IInv => OneSeat
  <2> SUFFICES ASSUME IInv PROVE Cardinality(room.seats) <= 1
    BY DEF OneSeat
  <2>1. CASE room.seats = {}
    BY <2>1, FS_EmptySet
  <2>2. CASE room.seats # {}
    <3>1. PICK s \in room.seats : room.seats = {s}
      BY <2>2 DEF IInv, Seated
    <3> QED
      BY <3>1, FS_Singleton
  <2> QED
    BY <2>1, <2>2
<1> QED
  BY <1>1, ConnectionSound, PTL

\* What a step other than a delivery does to what was applied: nothing.
LEMMA OthersKeep ==
  ASSUME IInv, [Next]_vars, ~\E n \in Socket : Deliver(n)
  PROVE  tab'.seen = tab.seen /\ tab'.last = tab.last
<1>1. tab \in TabRec
  BY Parts
<1>2. CASE Retry \/ Online
  BY <1>1, <1>2 DEF Retry, Online, OnOnline, Connect, TabRec
<1>3. CASE GraceElapses \/ Stop
  BY <1>1, <1>3 DEF GraceElapses, Stop, TabRec
<1>4. ASSUME NEW n \in Socket, NEW code \in {"fatal", "other"}, Close(n, code)
      PROVE  tab'.seen = tab.seen /\ tab'.last = tab.last
  BY <1>1, <1>4 DEF Close, OnClose, ScheduleRetry, TabRec
<1>5. ASSUME NEW n \in Socket, Open(n) \/ ProcessJoin(n) \/ ProcessResync(n) \/ Refill(n)
      PROVE  UNCHANGED tab
  BY <1>5 DEF Open, ProcessJoin, ProcessResync, Refill
<1>6. CASE Broadcast \/ Say \/ ProcessLeave \/ SeatExpires \/ RoomCloses \/ UNCHANGED vars
  BY <1>6 DEF Broadcast, Say, ProcessLeave, SeatExpires, RoomCloses, vars
<1> QED
  BY <1>2, <1>3, <1>4, <1>5, <1>6 DEF Next

\* What is shown never goes back, across reconnects, late snapshots and replaced
\* sockets (sequencing.js:22-40).
THEOREM NeverBackHolds == Spec => NeverBack
<1>1. IInv /\ [Next]_vars => [tab.seen => tab'.seen /\ tab'.last >= tab.last]_vars
  <2> SUFFICES ASSUME IInv, [Next]_vars, tab.seen PROVE tab'.seen /\ tab'.last >= tab.last
    OBVIOUS
  <2>0. tab.last \in Nat
    BY Parts
  <2>1. CASE \E n \in Socket : Deliver(n)
    <3>1. tab'.seen /\ tab.last <= tab'.last
      BY <2>1, Delivers
    <3> QED
      BY <3>1
  <2>2. CASE ~\E n \in Socket : Deliver(n)
    <3>1. tab'.seen = tab.seen /\ tab'.last = tab.last
      BY <2>2, OthersKeep
    <3> QED
      BY <2>0, <3>1
  <2> QED
    BY <2>1, <2>2
<1> QED
  BY <1>1, ConnectionSound, PTL DEF Spec, NeverBack

\* After a final answer, and after a stop, the tab opens no socket
\* (roomConnection.js:104-124, 193-197).
THEOREM FatalIsFinalHolds == Spec => FatalIsFinal
<1>1. IInv /\ [Next]_vars => [tab.fatal \/ tab.stopped => tab'.ws = tab.ws]_vars
  <2> SUFFICES ASSUME IInv, [Next]_vars, tab.fatal \/ tab.stopped PROVE tab'.ws = tab.ws
    OBVIOUS
  <2>1. tab \in TabRec
    BY Parts
  <2>2. tab.timer # "pending"
    BY DEF IInv, Retrying
  <2>3. ~Retry /\ ~Online
    BY <2>2 DEF Retry, Online
  <2>4. CASE GraceElapses \/ Stop
    BY <2>1, <2>4 DEF GraceElapses, Stop, TabRec
  <2>5. ASSUME NEW n \in Socket, NEW code \in {"fatal", "other"}, Close(n, code)
        PROVE  tab'.ws = tab.ws
    BY <2>1, <2>5 DEF Close, OnClose, ScheduleRetry, TabRec
  <2>6. ASSUME NEW n \in Socket, Deliver(n)
        PROVE  tab'.ws = tab.ws
    BY <2>6, Delivers
  <2>7. ASSUME NEW n \in Socket, Open(n) \/ ProcessJoin(n) \/ ProcessResync(n) \/ Refill(n)
        PROVE  UNCHANGED tab
    BY <2>7 DEF Open, ProcessJoin, ProcessResync, Refill
  <2>8. CASE Broadcast \/ Say \/ ProcessLeave \/ SeatExpires \/ RoomCloses \/ UNCHANGED vars
    BY <2>8 DEF Broadcast, Say, ProcessLeave, SeatExpires, RoomCloses, vars
  <2> QED
    BY <2>3, <2>4, <2>5, <2>6, <2>7, <2>8 DEF Next
<1> QED
  BY <1>1, ConnectionSound, PTL DEF Spec, FatalIsFinal

=============================================================================
