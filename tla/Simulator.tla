----------------------------- MODULE Simulator -----------------------------
(***************************************************************************)
(* The deterministic simulator (src/src/simulator.cpp): one queue of timed *)
(* events; timers with generations; links with partitions, delays, losses  *)
(* and duplicates and with byte budgets; one storage device per node with  *)
(* stable bytes, unflushed bytes and operations in flight; crashes and     *)
(* restarts, which start a new incarnation.                                *)
(*                                                                         *)
(* A byte is the number of the write that brought it and its place there.  *)
(* A call that is refused changes nothing and is no step.                  *)
(***************************************************************************)
EXTENDS Naturals, SequencesExt, FiniteSets

CONSTANTS
  Setups,                        \* the simulations: what is registered and its limits
  MaxQueuedPerLink, MaxTotalQueued, MaxExtraDuplicates,
  MaxPendingOperations, MaxPendingBytes,
  DropInFlight                   \* drop_in_flight_on_endpoint_crash

VARIABLES
  setup,              \* one of Setups
  now, heap, total,   \* EventQueue: time, pending events, number scheduled
  nodes,              \* alive, incarnation, generation per timer kind
  device,             \* StorageDevice of each node
  links,              \* LinkState of each ordered pair
  network_bytes,      \* total_network_bytes
  next_storage_id,
  faults,
  armed,              \* ghost: the timers the caller believes armed
  flushed,            \* ghost: the bytes that a flush has covered and no caller cut
  returned            \* the event next() has returned last

queue == <<now, heap, total>>
vars == <<setup, queue, nodes, device, links, network_bytes, next_storage_id, faults,
          armed, flushed, returned>>

Node == setup.nodes
TimerKind == setup.timers
UserTag == setup.tags                   \* tags of user events
FrameSize == setup.frames               \* bytes of a frame
WriteSize == setup.writes               \* bytes of a write
MaxPendingEvents == setup.pending
MaxTotalEvents == setup.total
MaxFileBytes == setup.file
Delay == setup.delays                   \* delays and latencies
MaxFaults == setup.faults               \* bound: injected faults, crashes, cancellations

Link == Node \X Node
NoEvent == [kind |-> "none"]
Minimum(a, b) == IF a <= b THEN a ELSE b
Prefix(seq, n) == SubSeq(seq, 1, Minimum(n, Len(seq)))
SumOver(S, Size(_)) == FoldSet(LAMBDA x, sum : Size(x) + sum, 0, S)

-----------------------------------------------------------------------------
(* EventQueue                                                              *)

EarlierEvent(e, f) == e.time < f.time \/ (e.time = f.time /\ e.sequence < f.sequence)

can_schedule(count) ==
  Cardinality(heap) + count <= MaxPendingEvents /\ total + count <= MaxTotalEvents

\* schedule_at for several copies of one event
schedule_at(time, event, copies) ==
  /\ heap' = heap \cup {[time |-> time, sequence |-> total + i] @@ event : i \in 1..copies}
  /\ total' = total + copies
  /\ UNCHANGED now

-----------------------------------------------------------------------------
(* Timers and user events                                                  *)

\* Mutant: the generation advances although the event does not fit the queue.
arm_timer_Advances(n, kind, delay) ==
  /\ nodes[n].alive
  /\ LET generation == nodes[n].generation[kind] + 1
         event == [kind |-> "timer", node |-> n, timer |-> kind, generation |-> generation,
                   incarnation |-> nodes[n].incarnation]
     IN /\ IF can_schedule(1) THEN schedule_at(now + delay, event, 1) ELSE UNCHANGED queue
        /\ nodes' = [nodes EXCEPT ![n].generation[kind] = generation]
  /\ armed' = IF can_schedule(1) THEN armed \cup {<<n, kind>>} ELSE armed
  /\ nodes[n].generation[kind] <= MaxTotalEvents
  /\ UNCHANGED <<setup, device, links, network_bytes, next_storage_id, faults, flushed, returned>>

arm_timer(n, kind, delay) ==
  /\ nodes[n].alive /\ can_schedule(1)
  /\ LET generation == nodes[n].generation[kind] + 1
     IN /\ schedule_at(now + delay,
             [kind |-> "timer", node |-> n, timer |-> kind, generation |-> generation,
              incarnation |-> nodes[n].incarnation], 1)
        /\ nodes' = [nodes EXCEPT ![n].generation[kind] = generation]
  /\ armed' = armed \cup {<<n, kind>>}
  /\ UNCHANGED <<setup, device, links, network_bytes, next_storage_id, faults, flushed, returned>>

cancel_timer(n, kind) ==
  /\ nodes[n].alive /\ faults < MaxFaults
  /\ nodes' = [nodes EXCEPT ![n].generation[kind] = @ + 1]
  /\ armed' = armed \ {<<n, kind>>}
  /\ faults' = faults + 1
  /\ UNCHANGED <<setup, queue, device, links, network_bytes, next_storage_id, flushed, returned>>

schedule_user(n, tag, delay) ==
  /\ nodes[n].alive /\ can_schedule(1)
  /\ schedule_at(now + delay, [kind |-> "user", node |-> n, tag |-> tag,
                               incarnation |-> nodes[n].incarnation], 1)
  /\ UNCHANGED <<setup, nodes, device, links, network_bytes, next_storage_id, faults, armed,
                 flushed, returned>>

-----------------------------------------------------------------------------
(* Links                                                                   *)

\* set_partition, set_link_delay, drop_next, duplicate_next
link_fault(from, to) ==
  /\ faults < MaxFaults /\ faults' = faults + 1
  /\ \/ links' = [links EXCEPT ![from, to].partitioned = ~@]
     \/ \E delay \in Delay : links' = [links EXCEPT ![from, to].delay = delay]
     \/ links' = [links EXCEPT ![from, to].drop_next = 1]
     \/ \E extra \in 1..MaxExtraDuplicates :
          links' = [links EXCEPT ![from, to].extra_copies = extra]
  /\ UNCHANGED <<setup, queue, nodes, device, network_bytes, next_storage_id, armed, flushed,
                 returned>>

\* send: a partition refuses, drop_next loses, the limits refuse; otherwise all
\* copies are scheduled for the same time.
send(from, to, size, delay) ==
  /\ nodes[from].alive /\ nodes[to].alive
  /\ LET link == links[from, to]
         copies == link.extra_copies + 1
     IN /\ ~link.partitioned
        /\ IF link.drop_next # 0
           THEN /\ links' = [links EXCEPT ![from, to].drop_next = @ - 1]
                /\ UNCHANGED <<queue, network_bytes>>
           ELSE /\ link.queued + size * copies <= MaxQueuedPerLink
                /\ network_bytes + size * copies <= MaxTotalQueued
                /\ can_schedule(copies)
                /\ schedule_at(now + delay + link.delay,
                     [kind |-> "network", from |-> from, to |-> to, size |-> size,
                      from_incarnation |-> nodes[from].incarnation,
                      to_incarnation |-> nodes[to].incarnation], copies)
                /\ links' = [links EXCEPT ![from, to].extra_copies = 0,
                                          ![from, to].queued = @ + size * copies]
                /\ network_bytes' = network_bytes + size * copies
  /\ UNCHANGED <<setup, nodes, device, next_storage_id, faults, armed, flushed, returned>>

\* Mutant: the budget of the link is given back, that of the network is not.
release_network_bytes_LinkOnly(events) ==
  LET frames == {e \in events : e.kind = "network"}
      size(e) == e.size
  IN /\ links' = [l \in Link |-> [links[l] EXCEPT !.queued =
                    @ - SumOver({e \in frames : <<e.from, e.to>> = l}, size)]]
     /\ UNCHANGED network_bytes

\* release_network_bytes for a set of events that leave the queue.
release_network_bytes(events) ==
  LET frames == {e \in events : e.kind = "network"}
      size(e) == e.size
  IN /\ links' = [l \in Link |-> [links[l] EXCEPT !.queued =
                    @ - SumOver({e \in frames : <<e.from, e.to>> = l}, size)]]
     /\ network_bytes' = network_bytes - SumOver(frames, size)

-----------------------------------------------------------------------------
(* Storage                                                                 *)

\* Mutant: an operation starts at once, also when others are in flight.
storage_start_Now(n) == now

storage_start(n) == IF now >= device[n].available_at THEN now ELSE device[n].available_at

\* What submit_write and submit_flush have in common: operations of a device
\* complete one after the other.
submits(n, operation, latency) ==
  LET completion == storage_start(n) + latency
  IN /\ nodes[n].alive /\ can_schedule(1)
     /\ Cardinality(device[n].pending) < MaxPendingOperations
     /\ schedule_at(completion,
          [kind |-> "storage", node |-> n, id |-> next_storage_id,
           incarnation |-> nodes[n].incarnation], 1)
     /\ next_storage_id' = next_storage_id + 1
     /\ device' = [device EXCEPT
          ![n].pending = @ \cup {[id |-> next_storage_id] @@ operation},
          ![n].available_at = completion,
          ![n].fail_next_write = @ /\ operation.kind # "write",
          ![n].short_write = @ /\ operation.kind # "write",
          ![n].fail_next_flush = @ /\ operation.kind # "flush"]
     /\ UNCHANGED <<setup, nodes, links, network_bytes, faults, armed, flushed, returned>>

size_of(p) == Len(p.bytes)
pending_bytes(n) == SumOver(device[n].pending, size_of)

\* A short write keeps a prefix that leaves out one byte or more.
submit_write(n, size, latency) ==
  LET d == device[n]
      bytes == [i \in 1..size |-> <<next_storage_id, i>>]
      written == IF d.fail_next_write THEN {0}
                 ELSE IF d.short_write THEN 0..(size - 1) ELSE {size}
  IN /\ pending_bytes(n) + size <= MaxPendingBytes
     /\ Len(d.stable) + Len(d.unstable) + pending_bytes(n) + size <= MaxFileBytes
     /\ \E actual \in written :
          submits(n, [kind |-> "write", bytes |-> bytes, actual |-> actual,
                      ok |-> actual = size], latency)

submit_flush(n, latency) ==
  submits(n, [kind |-> "flush", bytes |-> << >>, actual |-> 0,
              ok |-> ~device[n].fail_next_flush], latency)

\* fail_next_write, short_write_next, fail_next_flush
storage_fault(n) ==
  /\ nodes[n].alive /\ faults < MaxFaults /\ faults' = faults + 1
  /\ \/ device' = [device EXCEPT ![n].fail_next_write = TRUE, ![n].short_write = FALSE]
     \/ device' = [device EXCEPT ![n].fail_next_write = FALSE, ![n].short_write = TRUE]
     \/ device' = [device EXCEPT ![n].fail_next_flush = TRUE]
  /\ UNCHANGED <<setup, queue, nodes, links, network_bytes, next_storage_id, armed, flushed,
                 returned>>

\* truncate_stable_storage: the caller decides what is kept, flushed or not.
truncate_stable_storage(n, valid) ==
  /\ ~nodes[n].alive
  /\ device[n].pending = {} /\ device[n].unstable = << >>
  /\ valid < Len(device[n].stable)
  /\ device' = [device EXCEPT ![n].stable = Prefix(@, valid)]
  /\ flushed' = [flushed EXCEPT ![n] = Prefix(@, valid)]
  /\ UNCHANGED <<setup, queue, nodes, links, network_bytes, next_storage_id, faults, armed,
                 returned>>

-----------------------------------------------------------------------------
(* Crash and restart                                                       *)

NewDevice(stable) ==
  [stable |-> stable, unstable |-> << >>, pending |-> {}, available_at |-> now,
   fail_next_write |-> FALSE, short_write |-> FALSE, fail_next_flush |-> FALSE]

\* The operation in progress: the oldest one.
active(pending) == CHOOSE p \in pending : \A q \in pending : p.id <= q.id

\* Mutant: bytes of the write in progress survive behind lost ones.
crash_image_Gap(d, survivors, torn) ==
  d.stable \o Prefix(d.unstable, survivors)
    \o (IF d.pending # {} THEN Prefix(active(d.pending).bytes, torn) ELSE << >>)

\* A prefix of the unflushed bytes survives, and a prefix of the write in progress
\* only if all of them do.
crash_image(d, survivors, torn) ==
  d.stable \o Prefix(d.unstable, survivors)
    \o (IF survivors >= Len(d.unstable) /\ d.pending # {}
        THEN Prefix(active(d.pending).bytes, torn) ELSE << >>)

\* The events that a crash of n takes out of the queue.
cancelled_by(n) ==
  {e \in heap : IF e.kind = "network" THEN e.to = n \/ (DropInFlight /\ e.from = n)
                ELSE e.node = n}

crash_node(n, survivors, torn) ==
  /\ nodes[n].alive /\ faults < MaxFaults /\ faults' = faults + 1
  /\ device' = [device EXCEPT ![n] = NewDevice(crash_image(@, survivors, torn))]
  /\ nodes' = [nodes EXCEPT ![n].alive = FALSE]
  /\ heap' = heap \ cancelled_by(n)
  /\ release_network_bytes(cancelled_by(n))
  /\ armed' = {t \in armed : t[1] # n}
  /\ UNCHANGED <<setup, now, total, next_storage_id, flushed, returned>>

restart_node(n) ==
  /\ ~nodes[n].alive
  /\ nodes' = [nodes EXCEPT ![n].alive = TRUE, ![n].incarnation = @ + 1,
                            ![n].generation = [k \in TimerKind |-> 0]]
  /\ device' = [device EXCEPT ![n].available_at = now]
  /\ UNCHANGED <<setup, queue, links, network_bytes, next_storage_id, faults, armed, flushed,
                 returned>>

-----------------------------------------------------------------------------
(* next()                                                                  *)

current(n, incarnation) == nodes[n].alive /\ nodes[n].incarnation = incarnation

\* The events that next() returns; it skips the others.
valid(e) ==
  CASE e.kind = "timer" -> /\ current(e.node, e.incarnation)
                           /\ nodes[e.node].generation[e.timer] = e.generation
    [] e.kind = "network" -> /\ ~links[e.from, e.to].partitioned
                             /\ current(e.to, e.to_incarnation)
                             /\ DropInFlight => current(e.from, e.from_incarnation)
    [] e.kind = "storage" -> /\ current(e.node, e.incarnation)
                             /\ \E p \in device[e.node].pending : p.id = e.id
    [] e.kind = "user" -> current(e.node, e.incarnation)

\* The device after one of its operations has completed.
completed(d, id, time) ==
  LET p == CHOOSE q \in d.pending : q.id = id
      left == d.pending \ {p}
      done == [d EXCEPT !.pending = left,
                        !.available_at = IF left = {} THEN time ELSE @]
  IN IF p.kind = "write"
     THEN [done EXCEPT !.unstable = @ \o Prefix(p.bytes, p.actual)]
     ELSE IF p.ok THEN [done EXCEPT !.stable = @ \o d.unstable, !.unstable = << >>]
     ELSE done

\* The first valid event is returned, the events before it are dropped.
next ==
  /\ heap # {}
  /\ LET usable == {e \in heap : valid(e)}
         first == CHOOSE e \in usable : \A f \in usable \ {e} : EarlierEvent(e, f)
         gone == IF usable = {} THEN heap
                 ELSE {e \in heap : ~EarlierEvent(first, e)}
         last == CHOOSE e \in gone : \A f \in gone \ {e} : EarlierEvent(f, e)
     IN /\ heap' = heap \ gone
        /\ now' = last.time
        /\ release_network_bytes(gone)
        /\ returned' = IF usable = {} THEN NoEvent ELSE first
        /\ IF usable # {} /\ first.kind = "storage"
           THEN LET d == completed(device[first.node], first.id, first.time)
                IN /\ device' = [device EXCEPT ![first.node] = d]
                   /\ flushed' = [flushed EXCEPT ![first.node] =
                        IF Len(d.stable) > Len(device[first.node].stable)
                        THEN d.stable ELSE @]
           ELSE UNCHANGED <<device, flushed>>
        /\ armed' = IF usable # {} /\ first.kind = "timer"
                    THEN armed \ {<<first.node, first.timer>>} ELSE armed
  /\ UNCHANGED <<setup, total, nodes, next_storage_id, faults>>

-----------------------------------------------------------------------------
(* register_node, and initialize_storage with an empty image               *)
Init ==
  /\ setup \in Setups
  /\ now = 0 /\ heap = {} /\ total = 0
  /\ nodes = [n \in Node |-> [alive |-> TRUE, incarnation |-> 1,
                              generation |-> [k \in TimerKind |-> 0]]]
  /\ device = [n \in Node |-> NewDevice(<< >>)]
  /\ links = [l \in Link |-> [partitioned |-> FALSE, delay |-> 0, drop_next |-> 0,
                              extra_copies |-> 0, queued |-> 0]]
  /\ network_bytes = 0 /\ next_storage_id = 1 /\ faults = 0
  /\ armed = {} /\ flushed = [n \in Node |-> << >>] /\ returned = NoEvent

Next ==
  \/ next
  \/ \E n \in Node, delay \in Delay :
       \/ \E kind \in TimerKind : arm_timer(n, kind, delay)
       \/ \E tag \in UserTag : schedule_user(n, tag, delay)
       \/ \E m \in Node \ {n}, size \in FrameSize : send(n, m, size, delay)
       \/ \E size \in WriteSize : submit_write(n, size, delay)
       \/ WriteSize # {} /\ submit_flush(n, delay)
  \/ \E n \in Node :
       \/ \E kind \in TimerKind : cancel_timer(n, kind)
       \/ \E m \in Node \ {n} : FrameSize # {} /\ link_fault(n, m)
       \/ WriteSize # {} /\ storage_fault(n)
       \/ \E survivors, torn \in 0..MaxFileBytes : crash_node(n, survivors, torn)
       \/ \E size \in 0..MaxFileBytes : truncate_stable_storage(n, size)
       \/ restart_node(n)

Spec == Init /\ [][Next]_vars

-----------------------------------------------------------------------------
(* Properties.                                                             *)

\* A timer that the caller armed, and that has not fired or been cancelled since,
\* has exactly one event that next() will return, and no other timer has one:
\* a refused arm_timer leaves the timer before it alive, a re-armed, cancelled or
\* crashed one never fires.
TimersKept ==
  \A n \in Node, k \in TimerKind :
    LET live == {e \in heap : e.kind = "timer" /\ e.node = n /\ e.timer = k /\ valid(e)}
    IN Cardinality(live) = IF <<n, k>> \in armed THEN 1 ELSE 0

InFlight(l) == {e \in heap : e.kind = "network" /\ <<e.from, e.to>> = l}
frame_size(e) == e.size

\* The byte counters of every link and of the network equal the frames in the
\* queue, whatever crashes, duplicates and drops happen, and stay in their limits.
BytesAccounted ==
  /\ \A l \in Link : /\ links[l].queued = SumOver(InFlight(l), frame_size)
                     /\ links[l].queued <= MaxQueuedPerLink
  /\ network_bytes = SumOver({e \in heap : e.kind = "network"}, frame_size)
  /\ network_bytes <= MaxTotalQueued

\* A step in which a flush completes after every write that was submitted before it.
FlushBarrier ==
  \A n \in Node : \A p \in device[n].pending \ device'[n].pending :
    nodes'[n].alive /\ p.kind = "flush" =>
      \A q \in device[n].pending : q.kind = "write" => q.id > p.id

\* A step that leaves what a successful flush has covered, and truncate_stable_storage was
\* not told to cut, at the front of the stable bytes; a crash leaves a prefix of what the
\* device was given in order: the stable bytes, then unflushed ones, then the write in
\* progress, without a gap.
PrefixLeft ==
  \A n \in Node :
    LET d == device[n]
        given == d.stable \o d.unstable
                   \o (IF d.pending = {} THEN << >> ELSE active(d.pending).bytes)
    IN /\ IsPrefix(flushed'[n], device'[n].stable)
       /\ nodes[n].alive /\ ~nodes'[n].alive =>
            IsPrefix(d.stable, device'[n].stable) /\ IsPrefix(device'[n].stable, given)

=============================================================================
