------------------------------ MODULE Cluster ------------------------------
(***************************************************************************)
(* The cluster adapter (src/src/cluster.cpp) over the simulator: it turns  *)
(* the effects of the Raft cores into simulator calls and simulator events *)
(* into core events.  A batch becomes a write and then a flush of the      *)
(* node's device; a timer of the core is bound to one of the simulator; a  *)
(* restart recovers from the stable bytes.                                 *)
(*                                                                         *)
(* step() is Simulator!next and the handling of the event it returned; the *)
(* effects are then handled one by one, before anything else happens.  Of  *)
(* a core only its contract is kept, module RaftCore; a core has one       *)
(* timer, that of its role.                                                *)
(***************************************************************************)
EXTENDS Naturals, SequencesExt, FiniteSets

CONSTANTS
  Setups, MaxQueuedPerLink, MaxTotalQueued, MaxExtraDuplicates,
  MaxPendingOperations, MaxPendingBytes, DropInFlight

VARIABLES
  setup, now, heap, total, nodes, device, links, network_bytes, next_storage_id, faults,
  armed, flushed, returned,      \* of the simulator
  event,              \* the event step() is handling
  effect_queue,
  raft,               \* the core of each node
  wal_state,          \* the durable frames the adapter knows of
  pending_persists,   \* PendingPersist, with the simulator's operation
  binding,            \* TimerBinding of each node
  adapter_failure,
  acked               \* ghost: the frames reported as durable to the core

Sim == INSTANCE Simulator

Core == INSTANCE RaftCore WITH MaxDeferred <- setup.max_deferred, MaxOps <- setup.ops,
                               MaxGeneration <- setup.generations

Node == setup.nodes
CoreTimer == "timer"
FrameSize == setup.frames
WriteSize == setup.writes
MaxFileBytes == setup.file

simulator == <<setup, now, heap, total, nodes, device, links, network_bytes, next_storage_id,
               faults, armed, flushed, returned>>
adapter == <<event, effect_queue, raft, wal_state, pending_persists, binding,
             adapter_failure, acked>>
vars == <<simulator, adapter>>

NoEvent == [kind |-> "none"]
NoBinding == [generation |-> 0, raft_generation |-> 0, incarnation |-> 0]

\* A frame has as many bytes as a write; its bytes carry the number of the write.
FrameBytes == IF WriteSize = {} THEN 1 ELSE CHOOSE size \in WriteSize : TRUE

-----------------------------------------------------------------------------
(* scan_wal_bytes                                                          *)

\* The frames of an image, and what remains behind them.
valid_frames(bytes) ==
  LET complete(k) == \A i \in 1..FrameBytes :
        bytes[(k - 1) * FrameBytes + i] = <<bytes[(k - 1) * FrameBytes + 1][1], i>>
      count == CHOOSE k \in 0..(Len(bytes) \div FrameBytes) :
        /\ \A j \in 1..k : complete(j)
        /\ k < Len(bytes) \div FrameBytes => ~complete(k + 1)
  IN [k \in 1..count |-> bytes[k * FrameBytes][1]]

has_incomplete_tail(bytes) == Len(valid_frames(bytes)) * FrameBytes < Len(bytes)

-----------------------------------------------------------------------------
(* The cores                                                               *)

\* enqueue_effects: the effects follow those already in the queue.  Replies are kept for
\* the caller and have no other consequence.
Queued(n, effects) ==
  LET handled == SelectSeq(effects, LAMBDA e : e.kind # "reply")
  IN [i \in DOMAIN handled |-> <<n, handled[i]>>]

\* deliver: one step of the core
deliver(n, e, queue) ==
  \E x \in Core!step(raft[n], e) :
    /\ raft' = [raft EXCEPT ![n] = x.raft]
    /\ effect_queue' = queue \o Queued(n, x.effects)

\* Mutant: the failure is not reported to the core.
fail_storage_silent(n, op, queue) == raft' = raft /\ effect_queue' = queue

fail_storage(n, op, queue) == deliver(n, Core!Complete(op, FALSE), queue)

-----------------------------------------------------------------------------
(* Effects                                                                 *)

Idle == event = NoEvent /\ effect_queue = << >>
Effect(n, kind) ==
  /\ event = NoEvent /\ effect_queue # << >>
  /\ effect_queue[1][1] = n /\ effect_queue[1][2].kind = kind

\* When the simulator takes a write, a flush, a frame.
flush_fits(n) ==
  Sim!can_schedule(1) /\ Cardinality(device[n].pending) < MaxPendingOperations
write_fits(n) ==
  /\ flush_fits(n) /\ Sim!pending_bytes(n) + FrameBytes <= MaxPendingBytes
  /\ Len(device[n].stable) + Len(device[n].unstable) + Sim!pending_bytes(n) + FrameBytes
       <= MaxFileBytes
send_fits(from, to, size) ==
  LET link == links[from, to]
      bytes == size * (link.extra_copies + 1)
  IN /\ nodes[from].alive /\ nodes[to].alive /\ ~link.partitioned
     /\ \/ link.drop_next # 0
        \/ /\ Sim!can_schedule(link.extra_copies + 1)
           /\ link.queued + bytes <= MaxQueuedPerLink
           /\ network_bytes + bytes <= MaxTotalQueued

\* handle_persist: a write that the simulator refuses fails the operation.
handle_persist(n) ==
  /\ Effect(n, "persist")
  /\ LET op == effect_queue[1][2].op
         persist == [node |-> n, incarnation |-> nodes[n].incarnation, op |-> op,
                     sequence |-> Len(wal_state[n]) + 1, stage |-> "write",
                     id |-> next_storage_id]
     IN IF write_fits(n)
        THEN /\ Sim!submit_write(n, FrameBytes, 1)
             /\ pending_persists' = pending_persists \cup {persist}
             /\ effect_queue' = Tail(effect_queue) /\ UNCHANGED raft
        ELSE /\ fail_storage(n, op, Tail(effect_queue))
             /\ UNCHANGED <<simulator, pending_persists>>
  /\ UNCHANGED <<event, wal_state, binding, adapter_failure, acked>>

\* handle_send: a frame that the simulator refuses is lost.
handle_send(n) ==
  /\ Effect(n, "send")
  /\ \/ Node = {n} /\ UNCHANGED simulator       \* there is nobody to send to
     \/ \E to \in Node \ {n}, size \in FrameSize :
          IF send_fits(n, to, size) THEN Sim!send(n, to, size, 1) ELSE UNCHANGED simulator
  /\ effect_queue' = Tail(effect_queue)
  /\ UNCHANGED <<event, raft, wal_state, pending_persists, binding, adapter_failure, acked>>

fresh_binding(n, generation) ==
  [generation |-> nodes[n].generation[CoreTimer] + 1, raft_generation |-> generation,
   incarnation |-> nodes[n].incarnation]

\* Mutant: a timer that stands for the new one keeps the old generation.
handle_timer_stale(n) ==
  /\ Effect(n, "timer")
  /\ IF Sim!can_schedule(1)
     THEN /\ \E delay \in setup.delays : Sim!arm_timer(n, CoreTimer, delay)
          /\ binding' = [binding EXCEPT ![n] =
                           fresh_binding(n, effect_queue[1][2].generation)]
          /\ UNCHANGED adapter_failure
     ELSE /\ adapter_failure' = (adapter_failure \/ binding[n] = NoBinding)
          /\ UNCHANGED <<simulator, binding>>
  /\ effect_queue' = Tail(effect_queue)
  /\ UNCHANGED <<event, raft, wal_state, pending_persists, acked>>

\* handle_timer: if the simulator has no room, the timer that is still bound stands
\* for the new one; without such a timer the adapter reports a failure.
handle_timer(n) ==
  /\ Effect(n, "timer")
  /\ LET generation == effect_queue[1][2].generation
     IN \/ /\ Sim!can_schedule(1)
           /\ \E delay \in setup.delays : Sim!arm_timer(n, CoreTimer, delay)
           /\ binding' = [binding EXCEPT ![n] = fresh_binding(n, generation)]
           /\ UNCHANGED adapter_failure
        \/ /\ ~Sim!can_schedule(1) /\ binding[n].incarnation = nodes[n].incarnation
           /\ binding' = [binding EXCEPT ![n].raft_generation = generation]
           /\ UNCHANGED <<simulator, adapter_failure>>
        \/ /\ ~Sim!can_schedule(1) /\ binding[n].incarnation # nodes[n].incarnation
           /\ adapter_failure' = TRUE
           /\ UNCHANGED <<simulator, binding>>
  /\ effect_queue' = Tail(effect_queue)
  /\ UNCHANGED <<event, raft, wal_state, pending_persists, acked>>

-----------------------------------------------------------------------------
(* Events                                                                  *)

step ==
  /\ Idle /\ Sim!next
  /\ event' = IF returned'.kind = "storage"
              THEN returned' @@ [ok |-> \E p \in device[returned'.node].pending :
                                          p.id = returned'.id /\ p.ok]
              ELSE returned'
  /\ UNCHANGED <<effect_queue, raft, wal_state, pending_persists, binding, adapter_failure,
                 acked>>

\* step: a timer reaches the core with the generation bound to it.
timer_deliver ==
  /\ event.kind = "timer"
  /\ LET n == event.node
         bound == binding[n]
     IN IF bound.generation = event.generation /\ bound.incarnation = event.incarnation
        THEN /\ binding' = [binding EXCEPT ![n] = NoBinding]
             /\ deliver(n, Core!Timer(bound.raft_generation), effect_queue)
        ELSE UNCHANGED <<binding, raft, effect_queue>>
  /\ event' = NoEvent
  /\ UNCHANGED <<simulator, wal_state, pending_persists, adapter_failure, acked>>

protocol_deliver ==
  /\ event.kind = "network"
  /\ deliver(event.to, Core!Message, effect_queue)
  /\ event' = NoEvent
  /\ UNCHANGED <<simulator, wal_state, pending_persists, binding, adapter_failure, acked>>

\* handle_storage_event: a write is followed by a flush; after the flush the stable
\* bytes must hold exactly one frame more.
handle_storage_event ==
  /\ event.kind = "storage" /\ event' = NoEvent
  /\ LET n == event.node
         found == {p \in pending_persists : p.id = event.id}
         persist == CHOOSE p \in found : TRUE
         flush == [persist EXCEPT !.stage = "flush", !.id = next_storage_id]
         frames == valid_frames(device[n].stable)
         expected == ~has_incomplete_tail(device[n].stable) /\ Len(frames) = persist.sequence
         left == pending_persists \ found
     IN IF found = {} \/ persist.incarnation # nodes[n].incarnation
        THEN /\ pending_persists' = left
             /\ UNCHANGED <<simulator, raft, effect_queue, wal_state, acked>>
        ELSE \/ /\ event.ok /\ persist.stage = "write" /\ flush_fits(n)
                /\ Sim!submit_flush(n, 1)
                /\ pending_persists' = left \cup {flush}
                /\ UNCHANGED <<raft, effect_queue, wal_state, acked>>
             \/ /\ event.ok /\ persist.stage = "flush" /\ expected
                /\ wal_state' = [wal_state EXCEPT ![n] = frames]
                /\ acked' = [acked EXCEPT ![n] = frames]
                /\ deliver(n, Core!Complete(persist.op, TRUE), effect_queue)
                /\ pending_persists' = left /\ UNCHANGED simulator
             \/ /\ \/ ~event.ok
                   \/ persist.stage = "write" /\ ~flush_fits(n)
                   \/ persist.stage = "flush" /\ ~expected
                /\ fail_storage(n, persist.op, effect_queue)
                /\ pending_persists' = left /\ UNCHANGED <<simulator, wal_state, acked>>
  /\ UNCHANGED <<binding, adapter_failure>>

-----------------------------------------------------------------------------
(* Calls of the user                                                       *)

submit(n) ==
  /\ Idle /\ WriteSize # {} /\ nodes[n].alive
  /\ deliver(n, Core!Client(1), << >>)
  /\ UNCHANGED <<simulator, event, wal_state, pending_persists, binding, adapter_failure, acked>>

link_fault(n) ==
  /\ Idle /\ FrameSize # {}
  /\ \E m \in Node \ {n} : Sim!link_fault(n, m)
  /\ UNCHANGED adapter

storage_fault(n) ==
  /\ Idle /\ WriteSize # {} /\ Sim!storage_fault(n)
  /\ UNCHANGED adapter

crash(n) ==
  /\ Idle
  /\ \E survivors, torn \in 0..MaxFileBytes : Sim!crash_node(n, survivors, torn)
  /\ raft' = [raft EXCEPT ![n] = Core!NewRaft]
  /\ binding' = [binding EXCEPT ![n] = NoBinding]
  /\ pending_persists' = {p \in pending_persists : p.node # n}
  /\ UNCHANGED <<event, effect_queue, wal_state, adapter_failure, acked>>

\* Mutant: the last complete frame goes with the tail.
recover_node_frame(n) ==
  /\ Idle /\ ~nodes[n].alive /\ has_incomplete_tail(device[n].stable)
  /\ valid_frames(device[n].stable) # << >>
  /\ Sim!truncate_stable_storage(n, (Len(valid_frames(device[n].stable)) - 1) * FrameBytes)
  /\ UNCHANGED adapter

\* restart, first part: recover_node cuts an incomplete frame off.
recover_node(n) ==
  /\ Idle /\ ~nodes[n].alive /\ has_incomplete_tail(device[n].stable)
  /\ Sim!truncate_stable_storage(n, Len(valid_frames(device[n].stable)) * FrameBytes)
  /\ UNCHANGED adapter

restart(n) ==
  /\ Idle /\ ~nodes[n].alive /\ ~has_incomplete_tail(device[n].stable)
  /\ Sim!restart_node(n)
  /\ wal_state' = [wal_state EXCEPT ![n] = valid_frames(device[n].stable)]
  /\ raft' = [raft EXCEPT ![n] = Core!start.raft]
  /\ effect_queue' = Queued(n, Core!start.effects)
  /\ UNCHANGED <<event, pending_persists, binding, adapter_failure, acked>>

-----------------------------------------------------------------------------
(* initialize, or a cluster with a leader whose members have all just      *)
(* armed their timers, with frames and numbers counted from there.         *)
Init ==
  /\ Sim!Init
  /\ event = NoEvent
  /\ effect_queue = FlattenSeq([i \in 1..Cardinality(Node) |-> Queued(i, Core!start.effects)])
  /\ raft = [n \in Node |-> [Core!start.raft EXCEPT !.leader = setup.leader = n]]
  /\ wal_state = [n \in Node |-> << >>]
  /\ pending_persists = {}
  /\ binding = [n \in Node |-> NoBinding]
  /\ adapter_failure = FALSE
  /\ acked = [n \in Node |-> << >>]

Next ==
  \/ step \/ timer_deliver \/ protocol_deliver \/ handle_storage_event
  \/ \E n \in Node :
       \/ handle_persist(n) \/ handle_send(n) \/ handle_timer(n)
       \/ submit(n) \/ link_fault(n) \/ storage_fault(n)
       \/ crash(n) \/ recover_node(n) \/ restart(n)

Spec == Init /\ [][Next]_vars

-----------------------------------------------------------------------------
(* Properties                                                              *)

\* What was reported to a core as durable stays at the front of the frames that its
\* device would recover, over failed writes, torn bytes, crashes and repairs.
AckedRecovered ==
  \A n \in Node : IsPrefix(acked[n], valid_frames(device[n].stable))

\* An operation that a core waits for is on its way: an effect in the queue, or the one
\* persist whose simulator operation is in flight or being handled.
OperationBridged ==
  \A n \in Node :
    LET mine == {p \in pending_persists : p.node = n}
        queued == {i \in DOMAIN effect_queue :
                     effect_queue[i][1] = n /\ effect_queue[i][2].kind = "persist"}
    IN raft[n].op # 0 =>
         /\ Cardinality(mine) + Cardinality(queued) = 1
         /\ \A p \in mine : /\ p.op = raft[n].op
                            /\ \/ \E q \in device[n].pending : q.id = p.id
                               \/ event.kind = "storage" /\ event.id = p.id

\* The current timer of a core is never lost between the core, the adapter and the
\* simulator, however the core invalidates, defers and re-arms it: it is being armed,
\* bound to a live timer of the simulator, being delivered, deferred, or to be armed by
\* the outstanding operation; otherwise a failure was reported, or RaftNode::step dropped
\* this very timer with its deferral queue full (raft.cpp:152), after step() had already
\* reset the binding.
TimerBound ==
  \A n \in Node :
    LET r == raft[n]
    IN /\ nodes[n].alive /\ r.up /\ ~adapter_failure
       /\ r.generation < setup.generations /\ r.dropped # r.generation
       =>
         \/ \E i \in DOMAIN effect_queue :
              /\ effect_queue[i][1] = n /\ effect_queue[i][2].kind = "timer"
              /\ effect_queue[i][2].generation = r.generation
         \/ /\ binding[n].raft_generation = r.generation
            /\ \/ \E e \in heap : /\ e.kind = "timer" /\ e.node = n
                                  /\ e.generation = binding[n].generation /\ Sim!valid(e)
               \/ event.kind = "timer" /\ event.node = n
         \/ \E e \in Range(r.deferred) : e = Core!Timer(r.generation)
         \/ r.op # 0 /\ r.rearm
=============================================================================
