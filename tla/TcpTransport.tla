---------------------------- MODULE TcpTransport ----------------------------
(***************************************************************************)
(* The TCP transport (src/src/tcp_transport.cpp) of two members that       *)
(* connect to each other: attempts from both sides, handshakes, the choice *)
(* of one connection by its key, bounded queues in both directions, frames *)
(* that are written in parts, the partition control, lost connections and  *)
(* restarts.  Each process has one I/O thread (io_loop), whose work on one *)
(* connection is a step, and an owner thread that calls send, poll and     *)
(* set_peer_partitioned between such steps.                                *)
(*                                                                         *)
(* A frame is a number and has two parts, its length and its payload;      *)
(* wire[n][c] is what travels to n on connection c.                        *)
(***************************************************************************)
EXTENDS Naturals, SequencesExt, FiniteSets

CONSTANTS
  Setups,          \* the bounds of each instance
  Senders,         \* bound: the members that send frames
  MaxOutbound,     \* max_outbound_bytes_per_peer, in parts
  MaxEvents,       \* max_inbound_events
  MaxEventBytes,   \* max_inbound_event_bytes, in payloads
  MaxInbound,      \* capacity of Connection::inbound, in parts
  MaxConnections,  \* max_pending_connections
  MaxOpen          \* bound: connections started by one member that exist at a time

VARIABLES
  setup,         \* one of Setups
  incarnation,   \* of each process
  ends,          \* Connection at either end: phase, handshake, inbound parts
  wire,
  peers,         \* PeerState: connected, active, key, outbound, offset, queued;
                 \* waiting: next_attempt has not come yet
  events,        \* the queue of poll(): messages and diagnostics
  frames, faults, partitions, early,
  delivered      \* ghost: the frames poll() has returned

link == <<ends, wire, peers, events>>
vars == <<setup, incarnation, link, frames, faults, partitions, early, delivered>>

MaxFrames == setup.frames          \* bound: frames each sender sends
MaxFaults == setup.faults          \* bound: timeouts, lost connections, restarts
MaxPartitions == setup.partitions  \* bound: calls of set_peer_partitioned
MaxEarly == setup.early            \* bound: delays that pass before all has settled
has_outbound_endpoint(n) == n \in setup.endpoints
LengthLike == setup.length_like    \* the frames whose payload would pass for a length

Node == {1, 2}
Other(n) == 3 - n
\* Initiator and nonce.  next_nonce_ never comes back to a value; here a connection
\* takes the next nonce after those of its initiator that still exist, so that the
\* number of attempts has no bound.
Conn == Node \X (1..MaxOpen)

NoKey == <<0, 0, 0, 0>>
NewEnd(phase) == [phase |-> phase, sent |-> FALSE, remote |-> 0, inbound |-> << >>]
NewPeer == [partitioned |-> FALSE, connected |-> FALSE, active |-> << >>, key |-> NoKey,
            outbound |-> << >>, offset |-> 0, queued |-> 0, waiting |-> FALSE]

Hello(inc) == [kind |-> "hello", incarnation |-> inc]
Fin == [kind |-> "fin"]
Part(frame, i) == [kind |-> "part", frame |-> frame, part |-> i]

\* A state that several operations transform.
State == [ends |-> ends, wire |-> wire, peers |-> peers, events |-> events]
Becomes(s) ==
  \E t \in {s} : ends' = t.ends /\ wire' = t.wire /\ peers' = t.peers /\ events' = t.events

\* The operating system has a socket; the process has a Connection for it.
Alive(phase) == phase \in {"backlog", "connecting", "handshake", "established"}
Held(n) == {c \in Conn : Alive(ends[n][c].phase) /\ ends[n][c].phase # "backlog"}

\* enqueue_diagnostic, and the same for peer_up and peer_down.
enqueue_diagnostic(s, n, kind) ==
  IF Len(s.events[n]) >= MaxEvents THEN s
  ELSE [s EXCEPT !.events[n] = Append(@, [kind |-> kind])]

\* The socket of n is closed: the other end reads what was sent, then the end.
close_socket(s, n, c) ==
  [s EXCEPT !.ends[n][c] = NewEnd("closed"),
            !.wire[n][c] = << >>,
            !.wire[Other(n)][c] =
              IF Alive(s.ends[Other(n)][c].phase) THEN Append(@, Fin) ELSE << >>]

\* Mutant: the frame in progress is continued on the next connection.
reset_outbound_offsets_never(peer) == peer

\* reset_outbound_offsets: the frame in progress starts anew.
reset_outbound_offsets(peer) == [peer EXCEPT !.offset = 0]

\* Mutant: the peer is still taken for connected.
close_connection_stays(s, n, c) == close_socket(s, n, c)

\* close_connection; the frames in the queue are kept for the next connection, which is
\* not attempted before reconnect_delay.
close_connection(s, n, c) ==
  LET active == s.ends[n][c].phase = "established" /\ s.peers[n].active = c
      closed == [close_socket(s, n, c) EXCEPT !.peers[n].waiting = @ \/ c[1] = n \/ active]
      down == [closed EXCEPT !.peers[n] = reset_outbound_offsets(
                 [@ EXCEPT !.connected = FALSE, !.active = << >>])]
  IN IF active THEN enqueue_diagnostic(down, n, "peer_down") ELSE closed

-----------------------------------------------------------------------------
(* Connections                                                             *)

has_connection_for(n) ==
  \E c \in Conn : \/ c[1] = n /\ Alive(ends[n][c].phase)
                  \/ ends[n][c].phase = "established"

\* Nothing is left to read, write or poll.
Settled ==
  \A n \in Node :
    /\ events[n] = << >> /\ (peers[n].connected => peers[n].outbound = << >>)
    /\ \A c \in Conn :
         /\ wire[n][c] = << >>
         /\ ends[n][c].phase \in IF peers[n].partitioned THEN {"none", "closed"}
                                 ELSE {"none", "closed", "established"}

\* now reaches next_attempt.  The delay is many rounds of io_loop: but for some early
\* ones (a slow owner thread, a slow network), it outlasts what is under way.
reconnect_delay(n) ==
  /\ peers[n].waiting
  /\ \/ Settled /\ UNCHANGED early
     \/ early < MaxEarly /\ early' = early + 1
  /\ peers' = [peers EXCEPT ![n].waiting = FALSE]
  /\ UNCHANGED <<setup, incarnation, ends, wire, events, frames, faults, partitions, delivered>>

attempt_outgoing(n) ==
  /\ has_outbound_endpoint(n) /\ ~peers[n].waiting
  /\ ~has_connection_for(n) /\ ~peers[n].connected /\ ~peers[n].partitioned
  /\ Cardinality(Held(n)) < MaxConnections
  /\ LET open == {c \in Conn : c[1] = n /\ \E m \in Node : Alive(ends[m][c].phase)}
         nonce == Max({0} \cup {c[2] : c \in open}) + 1
     IN /\ nonce <= MaxOpen
        /\ ends' = [ends EXCEPT ![n][<<n, nonce>>] = NewEnd("connecting"),
                                ![Other(n)][<<n, nonce>>] = NewEnd("backlog")]
  /\ UNCHANGED <<setup, early, incarnation, wire, peers, events, frames, faults, partitions, delivered>>

complete_connect(n, c) ==
  /\ ends[n][c].phase = "connecting"
  /\ ends' = [ends EXCEPT ![n][c].phase = "handshake"]
  /\ UNCHANGED <<setup, early, incarnation, wire, peers, events, frames, faults, partitions,
                 delivered>>

accept_connections(n, c) ==
  /\ ends[n][c].phase = "backlog"
  /\ Becomes(IF Cardinality(Held(n)) >= MaxConnections
             THEN enqueue_diagnostic(close_socket(State, n, c), n, "peer_rejected")
             ELSE [State EXCEPT !.ends[n][c].phase = "handshake"])
  /\ UNCHANGED <<setup, early, incarnation, frames, faults, partitions, delivered>>

\* Mutant: the own identity in place of the initiator's.
connection_key_local(n, c, remote) ==
  IF n < Other(n) THEN <<incarnation[n], remote, n, c[2]>>
  ELSE <<remote, incarnation[n], n, c[2]>>

\* Both ends compute the same key.
connection_key(n, c, remote) ==
  LET lower == IF n < Other(n) THEN incarnation[n] ELSE remote
      higher == IF n < Other(n) THEN remote ELSE incarnation[n]
  IN <<lower, higher, c[1], c[2]>>

key_less(k, l) ==
  \E i \in 1..4 : k[i] < l[i] /\ \A j \in 1..(i - 1) : k[j] = l[j]

\* Mutant: the replaced socket stays open.
finish_handshake_keeps(s, n, c) ==
  LET peer == s.peers[n]
      key == connection_key(n, c, s.ends[n][c].remote)
  IN IF peer.partitioned \/ (peer.connected /\ ~key_less(peer.key, key))
     THEN close_connection(s, n, c)
     ELSE [s EXCEPT !.ends[n][c].phase = "established",
                    !.peers[n] = reset_outbound_offsets(
                      [@ EXCEPT !.connected = TRUE, !.active = c, !.key = key])]

\* finish_handshake: of two connections to a peer the one with the greater key stays.
finish_handshake(s, n, c) ==
  LET peer == s.peers[n]
      key == connection_key(n, c, s.ends[n][c].remote)
      up == [s EXCEPT !.ends[n][c].phase = "established",
                      !.peers[n] = reset_outbound_offsets(
                        [@ EXCEPT !.connected = TRUE, !.active = c, !.key = key])]
      established == enqueue_diagnostic(up, n, "peer_up")
  IN CASE peer.partitioned -> close_connection(s, n, c)
       [] ~peer.partitioned /\ ~peer.connected -> established
       [] ~peer.partitioned /\ peer.connected /\ key_less(peer.key, key) ->
            close_socket(established, n, peer.active)
       [] OTHER -> close_connection(enqueue_diagnostic(s, n, "peer_rejected"), n, c)

\* io_loop finishes a handshake as soon as both directions are complete.
continue_handshake(s, n, c) ==
  IF s.ends[n][c].sent /\ s.ends[n][c].remote # 0 THEN finish_handshake(s, n, c) ELSE s

write_handshake(n, c) ==
  /\ ends[n][c].phase = "handshake" /\ ~ends[n][c].sent
  /\ LET written == [State EXCEPT !.ends[n][c].sent = TRUE,
                                  !.wire[Other(n)][c] =
                                    IF Alive(ends[Other(n)][c].phase)
                                    THEN Append(@, Hello(incarnation[n])) ELSE @]
     IN Becomes(continue_handshake(written, n, c))
  /\ UNCHANGED <<setup, early, incarnation, frames, faults, partitions, delivered>>

read_handshake(n, c) ==
  /\ ends[n][c].phase = "handshake" /\ ends[n][c].remote = 0 /\ wire[n][c] # << >>
  /\ LET item == Head(wire[n][c])
         read == [State EXCEPT !.ends[n][c].remote = item.incarnation,
                               !.wire[n][c] = Tail(@)]
     IN Becomes(IF item.kind = "fin" THEN close_connection(State, n, c)
                ELSE continue_handshake(read, n, c))
  /\ UNCHANGED <<setup, early, incarnation, frames, faults, partitions, delivered>>

\* io_loop: the deadline of a handshake has passed, or the socket reports an error,
\* which it may as soon as the other end has closed it.
io_error(n, c) ==
  /\ c \in Held(n)
  /\ \/ Contains(wire[n][c], Fin) /\ UNCHANGED faults
     \/ faults < MaxFaults /\ faults' = faults + 1
  /\ Becomes(close_connection(State, n, c))
  /\ UNCHANGED <<setup, early, incarnation, frames, partitions, delivered>>

\* io_loop: connections of a partitioned peer are closed; an inbound one in its
\* handshake has no known peer yet.
close_partitioned(n, c) ==
  /\ peers[n].partitioned
  /\ ends[n][c].phase = "established" \/ (c[1] = n /\ c \in Held(n))
  /\ Becomes(close_connection(State, n, c))
  /\ UNCHANGED <<setup, early, incarnation, frames, faults, partitions, delivered>>

\* The process ends, the operating system closes its sockets, and a new process
\* starts.  An incarnation comes from the clock with other bits mixed in, so the new
\* one may be less than the old one.  Bound: one restart of each process.
restart(n) ==
  /\ faults < MaxFaults /\ faults' = faults + 1
  /\ incarnation[n] = 2
  /\ \E i \in {1, 3} : incarnation' = [incarnation EXCEPT ![n] = i]
  /\ LET open == {c \in Conn : Alive(ends[n][c].phase)}
     IN ends' = [ends EXCEPT ![n] = [c \in Conn |->
                   IF c \in open THEN NewEnd("closed") ELSE @[c]]]
        /\ wire' = [wire EXCEPT
             ![n] = [c \in Conn |-> << >>],
             ![Other(n)] = [c \in Conn |->
                IF c \in open /\ Alive(ends[Other(n)][c].phase)
                THEN Append(@[c], Fin) ELSE @[c]]]
  /\ peers' = [peers EXCEPT ![n] = NewPeer]
  /\ events' = [events EXCEPT ![n] = << >>]
  /\ UNCHANGED <<setup, early, frames, partitions, delivered>>

-----------------------------------------------------------------------------
(* Frames                                                                  *)

send(n) ==
  /\ n \in Senders /\ frames[n] < MaxFrames
  /\ ~peers[n].partitioned /\ peers[n].connected
  /\ peers[n].queued + 2 <= MaxOutbound
  /\ frames' = [frames EXCEPT ![n] = @ + 1]
  /\ peers' = [peers EXCEPT ![n].outbound = Append(@, frames[n] + 1),
                            ![n].queued = @ + 2]
  /\ UNCHANGED <<setup, early, incarnation, ends, wire, events, faults, partitions, delivered>>

\* write_frame: the socket takes some of the parts that are left of the first frame.
write_frame(n, c) ==
  /\ ends[n][c].phase = "established"
  /\ peers[n].connected /\ peers[n].active = c /\ peers[n].outbound # << >>
  /\ \E count \in 1..(2 - peers[n].offset) :
       LET offset == peers[n].offset + count
           parts == [i \in 1..count |-> Part(Head(peers[n].outbound), peers[n].offset + i)]
       IN /\ wire' = [wire EXCEPT ![Other(n)][c] =
                        IF Alive(ends[Other(n)][c].phase) THEN @ \o parts ELSE @]
          /\ peers' = IF offset = 2
                      THEN [peers EXCEPT ![n].outbound = Tail(@), ![n].offset = 0,
                                         ![n].queued = @ - 2]
                      ELSE [peers EXCEPT ![n].offset = offset]
  /\ UNCHANGED <<setup, early, incarnation, ends, events, frames, faults, partitions, delivered>>

EventBytes(s, n) == Len(SelectSeq(s.events[n], LAMBDA e : e.kind = "message"))

\* enqueue_message for the first frame of the buffer, which is erased if it went to the
\* queue or its peer is partitioned.
enqueue_message(s, n, c) ==
  LET erased == [s EXCEPT !.ends[n][c].inbound = SubSeq(@, 3, Len(@))]
      frame == SubSeq(s.ends[n][c].inbound, 1, 2)
      room == Len(s.events[n]) < MaxEvents /\ EventBytes(s, n) + 1 <= MaxEventBytes
  IN CASE s.peers[n].partitioned -> erased
       [] ~s.peers[n].partitioned /\ room ->
            [erased EXCEPT !.events[n] = Append(@, [kind |-> "message", parts |-> frame])]
       [] OTHER -> s

valid_length(item) == item.part = 1 \/ item.frame \in LengthLike

\* process_inbound: whole frames leave the buffer until one finds no room; what stands
\* in the place of a length and is none closes the connection.
process_inbound(s, n, c) ==
  LET process(t, i) ==
        LET inbound == t.ends[n][c].inbound
        IN CASE inbound = << >> -> t
             [] inbound # << >> /\ ~valid_length(Head(inbound)) -> close_connection(t, n, c)
             [] inbound # << >> /\ valid_length(Head(inbound)) ->
                  IF Len(inbound) < 2 THEN t ELSE enqueue_message(t, n, c)
  IN FoldLeft(process, s, [i \in 1..(MaxInbound \div 2) |-> i])

can_read_established(n, c) ==
  /\ Len(ends[n][c].inbound) < MaxInbound
  /\ Len(events[n]) < MaxEvents /\ EventBytes(State, n) < MaxEventBytes

\* read_frames: as much as has arrived and the buffer can take.  The limits of the queue
\* are compared before select; until the read, the same round may have filled the queue
\* on behalf of another connection.
read_frames(n, c) ==
  /\ ends[n][c].phase = "established" /\ wire[n][c] # << >>
  /\ \/ can_read_established(n, c)
     \/ /\ Len(ends[n][c].inbound) < MaxInbound
        /\ \E d \in Conn \ {c} : Alive(ends[n][d].phase)
  /\ LET read(count) == [State EXCEPT !.ends[n][c].inbound = @ \o SubSeq(wire[n][c], 1, count),
                                      !.wire[n][c] = SubSeq(@, count + 1, Len(@))]
     IN \/ Head(wire[n][c]) = Fin /\ Becomes(close_connection(State, n, c))
        \/ \E count \in 1..(MaxInbound - Len(ends[n][c].inbound)) :
             /\ count <= Len(SelectSeq(wire[n][c], LAMBDA item : item # Fin))
             /\ Becomes(process_inbound(read(count), n, c))
  /\ UNCHANGED <<setup, early, incarnation, frames, faults, partitions, delivered>>

\* Mutant: only what arrives later is processed.
retry_inbound_never(n, c) ==
  /\ ends[n][c].phase = "established" /\ Len(ends[n][c].inbound) >= 2
  /\ peers[n].partitioned
  /\ Becomes(process_inbound(State, n, c))
  /\ UNCHANGED <<setup, early, incarnation, frames, faults, partitions, delivered>>

\* io_loop: a frame that found the queue full is tried again.
retry_inbound(n, c) ==
  /\ ends[n][c].phase = "established" /\ Len(ends[n][c].inbound) >= 2
  /\ Becomes(process_inbound(State, n, c))
  /\ UNCHANGED <<setup, early, incarnation, frames, faults, partitions, delivered>>

poll(n) ==
  /\ events[n] # << >>
  /\ delivered' = [delivered EXCEPT ![n] = 
                   IF Head(events[n]).kind = "message"
                   THEN Append(@, Head(events[n]).parts) ELSE @]
  /\ events' = [events EXCEPT ![n] = Tail(@)]
  /\ UNCHANGED <<setup, early, incarnation, ends, wire, peers, frames, faults, partitions>>

\* set_peer_partitioned: the queued frames are dropped at once; the connection is
\* closed by the I/O thread, if it still finds the peer partitioned.
set_peer_partitioned(n) ==
  /\ partitions < MaxPartitions /\ partitions' = partitions + 1
  /\ peers' = IF peers[n].partitioned
              THEN [peers EXCEPT ![n].partitioned = FALSE]
              ELSE [peers EXCEPT ![n].partitioned = TRUE, ![n].outbound = << >>,
                                 ![n].offset = 0, ![n].queued = 0]
  /\ events' = IF peers[n].partitioned THEN events
              ELSE [events EXCEPT ![n] = SelectSeq(@, LAMBDA e : e.kind # "message")]
  /\ UNCHANGED <<setup, early, incarnation, ends, wire, frames, faults, delivered>>

-----------------------------------------------------------------------------
Init ==
  /\ setup \in Setups
  /\ incarnation = [n \in Node |-> 2]
  /\ ends = [n \in Node |-> [c \in Conn |-> NewEnd("none")]]
  /\ wire = [n \in Node |-> [c \in Conn |-> << >>]]
  /\ peers = [n \in Node |-> NewPeer]
  /\ events = [n \in Node |-> << >>]
  /\ frames = [n \in Node |-> 0]
  /\ faults = 0 /\ partitions = 0 /\ early = 0
  /\ delivered = [n \in Node |-> << >>]

\* What io_loop does for one connection.
io_loop(n, c) ==
  \/ complete_connect(n, c) \/ accept_connections(n, c)
  \/ write_handshake(n, c) \/ read_handshake(n, c)
  \/ close_partitioned(n, c)
  \/ read_frames(n, c) \/ retry_inbound(n, c) \/ write_frame(n, c)

Next ==
  \E n \in Node :
    \/ reconnect_delay(n) \/ attempt_outgoing(n) \/ restart(n)
    \/ send(n) \/ poll(n) \/ set_peer_partitioned(n)
    \/ \E c \in Conn : io_loop(n, c) \/ io_error(n, c)

Spec == Init /\ [][Next]_vars

\* The I/O thread of n: io_loop runs without end.
IoThread(n) == reconnect_delay(n) \/ attempt_outgoing(n) \/ \E c \in Conn : io_loop(n, c)

\* Both threads of a process keep running; the owner thread keeps polling.
Fairness == \A n \in Node : WF_vars(IoThread(n)) /\ WF_vars(poll(n))

FairSpec == Spec /\ Fairness

-----------------------------------------------------------------------------
Linked == \E c \in Conn : \A n \in Node : peers[n].connected /\ peers[n].active = c

\* connection_key and key_less: members that connect to each other at the same time
\* agree on the connection to keep; they never reject both.
ConnectsSettle ==
  (/\ faults = 0 /\ partitions = 0 /\ \E n \in Node, c \in Conn : ends[n][c].phase # "none"
   /\ \A n \in Node, c \in Conn :
        ends[n][c].phase \in {"none", "established", "closed"} /\ wire[n][c] = << >>)
  => Linked

\* write_frame, read_frames: what poll() returns is a frame that was sent, whole.
FramesIntact ==
  \A n \in Node : \A i \in DOMAIN delivered[n] :
    \E f \in 1..frames[Other(n)] : delivered[n][i] = <<Part(f, 1), Part(f, 2)>>

\* Over connections that are lost or replaced with a frame half written, each frame
\* arrives at most once, and, while no connection failed or was cut, in the order of send: a
\* replaced connection is no longer read.  (After a failure of the new connection, the
\* old one can still finish a late handshake and deliver an earlier frame.)
InOrderOnce ==
  \A n \in Node : \A i, j \in DOMAIN delivered[n] :
    LET f == delivered[n][i][1].frame
        g == delivered[n][j][1].frame
    IN i < j => f # g /\ (faults + partitions = 0 => f < g)

\* attempt_outgoing, finish_handshake, close_connection: after connections that failed or
\* were refused, restarts and healed partitions, both members come to hold the same
\* connection for good, unless one cuts the other off.
Reconnects == <>[](Linked \/ \E n \in Node : peers[n].partitioned)

Backlogged(n) == \E c \in Conn : Len(ends[n][c].inbound) >= 2

\* A frame that was read while the queue of events was full is delivered or dropped
\* with its connection; back pressure does not last.
InboundDelivered == \A n \in Node : []<>~Backlogged(n)
=============================================================================
