-------------------------------- MODULE Voice --------------------------------
(***************************************************************************)
(* The voice mesh: the list the room keeps and the signals it relays       *)
(* (internal/room), and the RTCPeerConnections of the tabs that call each  *)
(* other (web/src/useVoice.js). The room never takes part in a call: it    *)
(* says who is there, and each tab decides what to open and what to close. *)
(*                                                                         *)
(* A tab outlives its sockets. What is on its way on a socket is lost with *)
(* it; the room learns of the loss later, or when the seat reconnects      *)
(* first and supersedes it. A connection object is a number: what matters  *)
(* is which objects of the other tab its descriptions came from.           *)
(***************************************************************************)
EXTENDS Integers, Sequences, FiniteSets

LOCAL Sequence == INSTANCE SequencesExt

CONSTANTS
  Player,      \* the players, by numbers that order them as their ids do
  MaxConns,    \* bound: connections a seat makes
  MaxObjects   \* bound: connection objects a tab makes for a peer

VARIABLES
  present,   \* Room.voicePresent
  client,    \* the connection registered for a seat, 0 if none
  tab,       \* the hook's refs, and the socket the tab has open
  up, down   \* messages on their way on that socket, to and from the room

vars == <<present, client, tab, up, down>>

NoPeer == [object |-> 0, offered |-> FALSE, remotes |-> {}]

\* conns counts the tab's sockets: the generation of its latest one. seen is the
\* generation of the last snapshot, made how many objects there were for each peer.
NewTab == [open |-> FALSE, conns |-> 0, seen |-> 0, active |-> FALSE,
           made |-> [q \in Player |-> 0],
           pcs |-> [q \in Player |-> NoPeer]]

Init ==
  /\ present = {}
  /\ client = [p \in Player |-> 0]
  /\ tab = [p \in Player |-> NewTab]
  /\ up = [p \in Player |-> <<>>]
  /\ down = [p \in Player |-> <<>>]

Current(p) == tab[p].open /\ client[p] = tab[p].conns

\* Room.sendTo and broadcastExcept: to the registered connections; what a lost one
\* is sent is lost. None of these messages is numbered.
Told(queues, players, m) ==
  [p \in Player |-> IF p \in players /\ Current(p) THEN Append(queues[p], m) ELSE queues[p]]

\* send: nothing is kept for a socket that is not open.
Sent(p, msgs) == [up EXCEPT ![p] = IF tab[p].open THEN @ \o msgs ELSE @]

-----------------------------------------------------------------------------
(* Sockets and seats.                                                      *)

\* The join or reconnect and processJoin: the seat's earlier connection, if the room
\* still has it, is replaced, and the voice list is left as it is.
Connect(p) ==
  /\ ~tab[p].open /\ tab[p].conns < MaxConns
  /\ tab' = [tab EXCEPT ![p].open = TRUE, ![p].conns = @ + 1]
  /\ client' = [client EXCEPT ![p] = tab[p].conns + 1]
  /\ up' = [up EXCEPT ![p] = <<>>]
  /\ down' = [down EXCEPT ![p] = <<[type |-> "state_snapshot"]>>]
  /\ UNCHANGED present

\* What the tab has sent may still arrive.
Lose(p) ==
  /\ tab[p].open
  /\ tab' = [tab EXCEPT ![p].open = FALSE]
  /\ down' = [down EXCEPT ![p] = <<>>]
  /\ UNCHANGED <<present, client, up>>

\* processLeave, for a connection that is still the seat's.
Leave(p) ==
  /\ client[p] # 0 /\ ~tab[p].open
  /\ client' = [client EXCEPT ![p] = 0]
  /\ present' = present \ {p}
  /\ down' = IF p \in present
             THEN Told(down, Player \ {p}, [type |-> "voice_peer_left", id |-> p]) ELSE down
  /\ up' = [up EXCEPT ![p] = <<>>]
  /\ UNCHANGED tab

-----------------------------------------------------------------------------
(* The room: one message of a seat's current connection.                   *)

VoiceJoin(p) ==
  /\ present' = present \cup {p}
  /\ down' = Told(Told(down, {p}, [type |-> "voice_peers", ids |-> present \ {p}]),
                  Player \ {p}, [type |-> "voice_peer_joined", id |-> p])

VoiceLeave(p) ==
  /\ present' = present \ {p}
  /\ down' = IF p \in present
             THEN Told(down, Player \ {p}, [type |-> "voice_peer_left", id |-> p]) ELSE down

\* To another player who is connected; otherwise the sender gets an error, which
\* voice ignores.
ValidateVoiceSignal(p, m) == m.to # p /\ client[m.to] # 0

RelayVoiceSignal(p, m) ==
  /\ down' = IF ValidateVoiceSignal(p, m)
             THEN Told(down, {m.to}, [type |-> "voice_signal", from |-> p, kind |-> m.kind,
                                      object |-> m.object])
             ELSE down
  /\ UNCHANGED present

Handle(p) ==
  /\ client[p] # 0 /\ up[p] # <<>>
  /\ up' = [up EXCEPT ![p] = Tail(@)]
  /\ LET m == Head(up[p])
     IN  \/ m.type = "voice_join" /\ VoiceJoin(p)
         \/ m.type = "voice_leave" /\ VoiceLeave(p)
         \/ m.type = "voice_signal" /\ RelayVoiceSignal(p, m)
  /\ UNCHANGED <<client, tab>>

-----------------------------------------------------------------------------
(* The hook.                                                               *)

\* makePeer for each of them: the object there is, or a new one.
MakePeers(t, ids) ==
  LET new == {q \in ids : t.pcs[q] = NoPeer}
  IN  [t EXCEPT !.made = [q \in Player |-> IF q \in new THEN @[q] + 1 ELSE @[q]],
                !.pcs = [q \in Player |-> IF q \in new
                                          THEN [NoPeer EXCEPT !.object = t.made[q] + 1]
                                          ELSE t.pcs[q]]]

\* callPeer, without what it sends.
CallPeers(t, ids) ==
  LET made == MakePeers(t, ids)
  IN  [made EXCEPT !.pcs = [q \in Player |-> [made.pcs[q] EXCEPT !.offered = @ \/ q \in ids]]]

Signal(t, q, kind) == [type |-> "voice_signal", to |-> q, kind |-> kind, object |-> t.pcs[q].object]

CloseAllPeers(t) == [t EXCEPT !.pcs = [q \in Player |-> NoPeer]]

\* The microphone is granted and the answer to ice_config_request, or the time given
\* to it, has come: later than the snapshot a socket begins with.
Enable(p) ==
  /\ tab[p].seen # 0 /\ tab[p].seen = tab[p].conns /\ ~tab[p].active
  /\ tab' = [tab EXCEPT ![p].active = TRUE]
  /\ up' = Sent(p, <<[type |-> "voice_join"]>>)
  /\ UNCHANGED <<present, client, down>>

\* The hook's cleanup, when the room's screen goes away for good.
Unmount(p) ==
  /\ tab[p].active
  /\ tab' = [tab EXCEPT ![p] = [CloseAllPeers(@) EXCEPT !.active = FALSE]]
  /\ up' = Sent(p, <<[type |-> "voice_leave"]>>)
  /\ UNCHANGED <<present, client, down>>

\* The tab becomes t and sends msgs, on reading the first message of its queue.
Reads(p, t, msgs) ==
  /\ \A q \in Player : t.made[q] <= MaxObjects
  /\ tab' = [tab EXCEPT ![p] = t]
  /\ up' = Sent(p, msgs)
  /\ down' = [down EXCEPT ![p] = Tail(@)]
  /\ UNCHANGED <<present, client>>

\* Whoever has the smaller id calls, so that two tabs never call each other.
Calls(p, ids) == {q \in ids : p < q}

Call(p, ids) ==
  LET t == CallPeers(tab[p], ids)
  IN  Reads(p, t, Sequence!SetToSeq({Signal(t, q, "offer") : q \in ids}))

OnVoicePeers(p, m)  == Call(p, Calls(p, m.ids))
OnPeerJoined(p, m)  == Call(p, Calls(p, {m.id}))

OnPeerLeft(p, m) == Reads(p, [tab[p] EXCEPT !.pcs[m.id] = NoPeer], <<>>)

\* An offer is applied and answered by the object there is; an answer is applied if
\* the object has made an offer, and otherwise refused by it.
OnSignal(p, m) ==
  LET t == MakePeers(tab[p], {m.from})
      applied == [t EXCEPT !.pcs[m.from].remotes = @ \cup {m.object},
                           !.pcs[m.from].offered = FALSE]
  IN  \/ m.kind = "offer" /\ Reads(p, applied, <<Signal(applied, m.from, "answer")>>)
      \/ m.kind = "answer" /\ t.pcs[m.from].offered /\ Reads(p, applied, <<>>)
      \/ m.kind = "answer" /\ ~t.pcs[m.from].offered /\ Reads(p, t, <<>>)

\* A snapshot of a later socket than the last one's: the tab has reconnected.
OnSnapshot(p) ==
  LET t == tab[p]
      reconnected == t.seen # 0 /\ t.seen # t.conns
      seen == [t EXCEPT !.seen = t.conns]
  IN  IF reconnected /\ t.active
      THEN Reads(p, CloseAllPeers(seen), <<[type |-> "voice_join"]>>)
      ELSE Reads(p, seen, <<>>)

Receive(p) ==
  /\ down[p] # <<>>
  /\ LET m == Head(down[p])
     IN  \/ m.type = "voice_peers" /\ OnVoicePeers(p, m)
         \/ m.type = "voice_peer_joined" /\ OnPeerJoined(p, m)
         \/ m.type = "voice_peer_left" /\ OnPeerLeft(p, m)
         \/ m.type = "voice_signal" /\ OnSignal(p, m)
         \/ m.type = "state_snapshot" /\ OnSnapshot(p)

-----------------------------------------------------------------------------
Next ==
  \E p \in Player :
    \/ Connect(p) \/ Lose(p) \/ Leave(p)
    \/ Handle(p) \/ Receive(p)
    \/ Enable(p) \/ Unmount(p)

Spec == Init /\ [][Next]_vars

-----------------------------------------------------------------------------
(* What must hold.                                                         *)

\* The tab reads the snapshot that a reconnect begins with, and is about to join anew.
Rejoins(p) == tab[p].active /\ tab[p].seen # 0 /\ tab'[p].seen # tab[p].seen

ToldLeft(q, p) == \E i \in 1 .. Len(down[q]) : down[q][i] = [type |-> "voice_peer_left", id |-> p]

\* By the time a tab that was in the voice list joins anew after a reconnect, every peer
\* has closed the connection it had to it, or has voice_peer_left before it
\* (useVoice.js:28-31 and 138-142). It does not hold: a reconnect that supersedes the
\* lost socket leaves the list as it is and sends nobody voice_peer_left, and the peers
\* keep the objects that makePeer will hand out for the new call.
PeersClosed ==
  [][\A p, q \in Player : (Rejoins(p) /\ p \in present /\ p # q /\ Current(q)) =>
       tab[q].pcs[p].remotes = {} \/ ToldLeft(q, p)]_vars

=============================================================================
