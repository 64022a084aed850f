------------------------------ MODULE NodeHost ------------------------------
(***************************************************************************)
(* The host of one member (src/src/node_host.cpp): the owner thread, which *)
(* feeds a RaftNode and carries out its effects, and the storage worker,   *)
(* which appends batches to the WAL and flushes them, one by one or in     *)
(* groups.  In group mode Raft is told that a batch is complete when it is *)
(* written; what it emits from then on waits in quarantine for the flush.  *)
(*                                                                         *)
(* RaftNode is represented by its contract, module RaftCore.  An effect    *)
(* depends on the operations completed when it is emitted (needs).         *)
(***************************************************************************)
EXTENDS Naturals, FiniteSets, SequencesExt, TLC

CONSTANTS
  Setups,               \* the configurations a host can be started with
  MaxOwnerEvents, MaxClientQueue, MaxClientSlots,
  MaxStorageTasks, MaxStorageCompletions,
  MaxQuarantined,       \* max_group_quarantined_effects
  MaxGroupOperations,   \* group_commit.max_operations
  MaxOps,               \* bound: storage operations
  MaxFaults             \* bound: faults

VARIABLES
  setup,     \* the configuration, and the bounds that belong to it
  owner,     \* where the owner thread is
  taken,     \* notices it has taken and not handled yet
  host,      \* the members of NodeHost::Impl
  raft,      \* the Raft node
  storage,   \* the shared state of StorageWorker: tasks, completions, flags
  worker,    \* the worker thread: its place, task, group and notice
  wal,       \* last operation written, last operation durable
  released,  \* ghost: the latest operation a released effect depends on
  delivered, \* ghost: the tokens whose reply poll_replies has returned
  messages, faults

vars == <<setup, owner, taken, host, raft, storage, worker, wal, released, delivered,
          messages, faults>>

Grouped == setup.grouped           \* group_commit.enabled, or flush_every_append
MaxGeneration == setup.generations \* bound: generations of the timer
MaxTokens == setup.tokens          \* bound: clients that submit
MaxMessages == setup.messages      \* bound: messages received; 0: without end
Faults == setup.faults             \* the faults that can happen

maximum(a, b) == IF a >= b THEN a ELSE b

\* The Raft node.
Core == INSTANCE RaftCore WITH MaxDeferred <- setup.max_deferred

NoTask == [op |-> 0, commit |-> FALSE]
NoNotice == [kind |-> "none"]

\* A fault of the given kind happens now, or none does.
Fails(kind, yes) ==
  IF yes THEN kind \in Faults /\ faults < MaxFaults /\ faults' = faults + 1
         ELSE UNCHANGED faults

-----------------------------------------------------------------------------
(* Effects.  A state s joins host, storage and released.                   *)

Joined == [host |-> host, storage |-> storage, released |-> released,
           unencodable |-> FALSE]

\* StorageWorker::stop without the join
stop_worker(st) == [st EXCEPT !.stopping = TRUE, !.tasks = << >>]

fail_transport(s) ==
  IF ~s.host.running THEN s
  ELSE LET room == MaxClientSlots - Len(s.host.replies)
           tokens == SetToSeq(s.host.outstanding)
           unavailable == SubSeq(tokens, 1, IF room < Len(tokens) THEN room ELSE Len(tokens))
       IN [s EXCEPT !.host.fatal = TRUE, !.host.running = FALSE,
                    !.host.quarantined = << >>, !.host.active = FALSE,
                    !.host.replies = @ \o unavailable, !.host.outstanding = {},
                    !.host.client_queue = << >>, !.host.owner_events = << >>,
                    !.storage = stop_worker(@)]

fail_group_storage(s) ==
  fail_transport([s EXCEPT !.host.quarantined = << >>, !.host.active = FALSE])

\* StorageWorker::enqueue accepts a task.
accepts(st) == ~st.stopping /\ ~st.failed /\ Len(st.tasks) < MaxStorageTasks

dispatch_effect(s, e) ==
  CASE e.kind = "persist" ->
         IF accepts(s.storage)
         THEN [s EXCEPT !.storage.tasks = Append(@, [op |-> e.op, commit |-> e.commit])]
         ELSE IF Grouped THEN fail_group_storage(s)
         ELSE IF Len(s.host.owner_events) < MaxOwnerEvents
         THEN [s EXCEPT !.host.owner_events = <<Core!Complete(e.op, FALSE)>> \o @]
         ELSE s
    [] e.kind = "send" ->
         IF s.unencodable THEN fail_transport(s)
         ELSE [s EXCEPT !.released = maximum(@, e.needs)]
    [] e.kind = "timer" ->
         [s EXCEPT !.host.timer = [active |-> TRUE, due |-> FALSE,
                                   generation |-> e.generation],
                   !.released = maximum(@, e.needs)]
    [] e.kind = "reply" ->
         [s EXCEPT !.host.outstanding = @ \ {e.token},
                   !.host.replies = IF Len(@) < MaxClientSlots
                                    THEN Append(@, e.token) ELSE @,
                   !.released = maximum(@, e.needs)]

\* What status() reports of consensus: the operations that Raft's memory shows.
refresh_published_status(s, r) ==
  IF s.host.active \/ s.host.fatal THEN s
  ELSE [s EXCEPT !.host.published = r.next_op - 1]

handle_effects(s, r, effects) ==
  LET ops == {e.op : e \in {p \in Range(effects) : p.kind = "persist"}}
      dependency == FoldSet(maximum, s.host.last_submitted, ops)
      gated == IF Grouped /\ dependency > s.host.last_submitted
               THEN [s EXCEPT !.host.last_submitted = dependency, !.host.active = TRUE]
               ELSE s
      handle(t, e) ==
        IF ~t.host.running THEN t
        ELSE IF Grouped /\ t.host.active /\ e.kind # "persist"
             THEN IF Len(t.host.quarantined) >= MaxQuarantined
                  THEN fail_group_storage(t)
                  ELSE [t EXCEPT !.host.quarantined =
                          Append(@, [dependency |-> dependency, effect |-> e])]
             ELSE dispatch_effect(t, e)
  IN refresh_published_status(FoldLeft(handle, gated, effects), r)

\* Mutant: any flush opens the gate, also for operations submitted meanwhile.
open_gate_Open(s, through) ==
  LET durable == maximum(s.host.durable_through, through)
      t == FoldLeft(LAMBDA u, held : dispatch_effect(u, held.effect), s, s.host.quarantined)
  IN [t EXCEPT !.host.durable_through = durable, !.host.quarantined = << >>,
               !.host.active = FALSE]

\* The first half of complete_group_barrier: what the flush covers is released.
open_gate(s, through) ==
  LET durable == maximum(s.host.durable_through, through)
      release(t, held) ==
        IF ~t.host.running THEN t
        ELSE IF held.dependency <= durable THEN dispatch_effect(t, held.effect)
        ELSE [t EXCEPT !.waiting = Append(@, held)]
      t == FoldLeft(release, s @@ [waiting |-> << >>], s.host.quarantined)
  IN [host |-> [t.host EXCEPT !.durable_through = durable,
                              !.quarantined = t.waiting,
                              !.active = durable < t.host.last_submitted],
      storage |-> t.storage, released |-> t.released, unencodable |-> t.unencodable]

-----------------------------------------------------------------------------
(* The owner thread.                                                       *)

\* The new host, storage and released; after a stop of the worker the owner
\* waits for its thread.
Becomes(s, next) ==
  \E t \in {s} :
    /\ host' = t.host /\ storage' = t.storage /\ released' = t.released
    /\ owner' = IF t.storage.stopping /\ ~storage.stopping THEN "join" ELSE next

\* One event of Raft and its effects, from s.
Steps(s, event, next) ==
  \E x \in Core!step(raft, event), unencodable \in BOOLEAN :
    /\ Fails("encode", unencodable)
    /\ raft' = x.raft
    /\ Becomes(handle_effects([s EXCEPT !.unencodable = unencodable], x.raft, x.effects),
               next)

submit ==
  /\ owner = "idle" /\ host.running
  /\ host.next_token <= MaxTokens
  /\ Len(host.client_queue) < MaxClientQueue
  /\ Cardinality(host.outstanding) + Len(host.replies) < MaxClientSlots
  /\ host' = [host EXCEPT !.next_token = @ + 1,
                          !.client_queue = Append(@, Core!Client(host.next_token)),
                          !.outstanding = @ \cup {host.next_token}]
  /\ UNCHANGED <<setup, owner, taken, raft, storage, worker, wal, released, delivered,
                 messages, faults>>

poll_replies ==
  /\ owner = "idle" /\ host.replies # << >>
  /\ delivered' = delivered \cup {Head(host.replies)}
  /\ host' = [host EXCEPT !.replies = Tail(@)]
  /\ UNCHANGED <<setup, owner, taken, raft, storage, worker, wal, released, messages, faults>>

stop ==
  /\ owner = "idle" /\ host.running /\ "stop" \in Faults
  /\ host' = [host EXCEPT !.running = FALSE]
  /\ storage' = stop_worker(storage)
  /\ owner' = "join"
  /\ UNCHANGED <<setup, taken, raft, worker, wal, released, delivered, messages, faults>>

\* The join in StorageWorker::stop.
joined ==
  /\ owner = "join" /\ worker.pc = "done"
  /\ owner' = "idle" /\ taken' = << >>
  /\ UNCHANGED <<setup, host, raft, storage, worker, wal, released, delivered, messages, faults>>

\* Time passes: the deadline of the timer is reached.
timer_due ==
  /\ host.timer.active /\ ~host.timer.due
  /\ host' = [host EXCEPT !.timer.due = TRUE]
  /\ UNCHANGED <<setup, owner, taken, raft, storage, worker, wal, released, delivered,
                 messages, faults>>

\* gather_inputs: a transport that has stopped is fatal; StorageWorker::take.
gather_inputs ==
  /\ owner = "idle" /\ host.running
  /\ \E tcp_stopped \in BOOLEAN :
       /\ Fails("tcp", tcp_stopped)      \* or a transport_error event
       /\ IF tcp_stopped
          THEN Becomes(fail_transport(Joined), "idle") /\ UNCHANGED taken
          ELSE LET available == MaxOwnerEvents - Len(host.owner_events)
                   ready == Len(storage.completions)
                   count == IF available < ready THEN available ELSE ready
               IN /\ taken' = SubSeq(storage.completions, 1, count)
                  /\ storage' = [storage EXCEPT !.completions = SubSeq(@, count + 1, ready)]
                  /\ owner' = "notices"
                  /\ UNCHANGED <<host, released>>
  /\ UNCHANGED <<setup, raft, worker, wal, delivered, messages>>

\* complete_group_barrier
complete_group_barrier(notice) ==
  LET s == open_gate(Joined, notice.through)
  IN IF s.host.running /\ notice.delayed # 0
     THEN Steps(s, Core!Complete(notice.delayed, TRUE), "notices")
     ELSE /\ Becomes(refresh_published_status(s, raft), "notices")
          /\ UNCHANGED <<raft, faults>>

\* gather_inputs: the next notice of those taken.
handle_notice ==
  /\ owner = "notices" /\ taken # << >>
  /\ taken' = Tail(taken)
  /\ LET notice == Head(taken)
     IN CASE notice.kind = "complete" ->
               /\ Becomes([Joined EXCEPT !.host.owner_events =
                             Append(@, Core!Complete(notice.op, notice.success))], "notices")
               /\ UNCHANGED <<raft, faults>>
          [] notice.kind = "staged" -> Steps(Joined, Core!Complete(notice.op, TRUE), "notices")
          [] notice.kind = "barrier" -> complete_group_barrier(notice)
          [] notice.kind = "failed" ->
               /\ Becomes(fail_group_storage(Joined), "notices")
               /\ UNCHANGED <<raft, faults>>
  /\ UNCHANGED <<setup, worker, wal, delivered, messages>>

\* gather_inputs: admission of a due timer, of one client, of n messages and of
\* the remaining clients, each as far as the owner queue has room.
admit_timer(h) ==
  IF h.timer.active /\ h.timer.due /\ Len(h.owner_events) < MaxOwnerEvents
  THEN [h EXCEPT !.owner_events = Append(@, Core!Timer(h.timer.generation)),
                 !.timer.active = FALSE, !.timer.due = FALSE]
  ELSE h

admit_clients(h, most) ==
  LET room == MaxOwnerEvents - Len(h.owner_events)
      n == Min({room, most, Len(h.client_queue)})
  IN [h EXCEPT !.owner_events = @ \o SubSeq(h.client_queue, 1, n),
               !.client_queue = SubSeq(@, n + 1, Len(@))]

admit_messages(h, n) ==
  LET room == MaxOwnerEvents - Len(h.owner_events)
  IN [h EXCEPT !.owner_events = @ \o [i \in 1..Min({room, n}) |-> Core!Message]]

\* Mutant: messages are admitted before a due timer.
admit_TcpFirst(h, n) ==
  admit_clients(admit_timer(admit_messages(admit_clients(h, 1), n)), MaxClientQueue)

admit(h, n) ==
  admit_clients(admit_messages(admit_clients(admit_timer(h), 1), n), MaxClientQueue)

\* The rest of poll_once: the admissions, and one event for Raft.
poll_once ==
  /\ owner = "notices" /\ taken = << >>
  /\ \E n \in 0..(IF MaxMessages = 0 THEN MaxOwnerEvents ELSE MaxMessages - messages) :
       /\ messages' = IF MaxMessages = 0 THEN 0 ELSE messages + n
       /\ LET h == admit(host, n)
          IN IF h.owner_events = << >>
             THEN host' = h /\ owner' = "idle" /\ UNCHANGED <<storage, raft, released, faults>>
             ELSE Steps([Joined EXCEPT !.host = [h EXCEPT !.owner_events = Tail(@)]],
                        Head(h.owner_events), "idle")
  /\ UNCHANGED <<setup, taken, worker, wal, delivered>>

-----------------------------------------------------------------------------
(* The storage worker.                                                     *)

NewGroup == [size |-> 0, last |-> 0]

\* run_ungrouped, run_grouped: the wait ends with a task,
take_task ==
  /\ worker.pc = "wait" /\ ~storage.stopping /\ storage.tasks # << >>
  /\ storage' = [storage EXCEPT !.tasks = Tail(@)]
  /\ worker' = [worker EXCEPT !.pc = "append", !.task = Head(storage.tasks)]
  /\ UNCHANGED <<setup, owner, taken, host, raft, wal, released, delivered, messages, faults>>

\* or, for an open group, with the deadline,
group_deadline ==
  /\ worker.pc = "wait" /\ ~storage.stopping /\ storage.tasks = << >>
  /\ worker.group.size > 0
  /\ worker' = [worker EXCEPT !.pc = "flush", !.task = NoTask]
  /\ UNCHANGED <<setup, owner, taken, host, raft, storage, wal, released, delivered,
                 messages, faults>>

\* or with stop().
stop_wait ==
  /\ worker.pc = "wait" /\ storage.stopping
  /\ worker' = [worker EXCEPT !.pc = "done"]
  /\ UNCHANGED <<setup, owner, taken, host, raft, storage, wal, released, delivered,
                 messages, faults>>

mark_failed == storage' = [storage EXCEPT !.failed = TRUE, !.tasks = << >>]

Publishes(notice) == worker' = [worker EXCEPT !.pc = "publish", !.notice = notice]

\* The append of run_ungrouped, durable when it returns.
append_ungrouped ==
  /\ worker.pc = "append" /\ ~Grouped
  /\ \E error \in BOOLEAN :
       /\ Fails("append", error)
       /\ Publishes([kind |-> "complete", op |-> worker.task.op, success |-> ~error])
       /\ IF error THEN mark_failed /\ UNCHANGED wal
          ELSE wal' = [written |-> worker.task.op, durable |-> worker.task.op]
               /\ UNCHANGED storage
  /\ UNCHANGED <<setup, owner, taken, host, raft, released, delivered, messages>>

\* Mutant: a batch with a commit index may be staged.
append_grouped_StagesCommit ==
  /\ worker.pc = "append" /\ Grouped
  /\ LET group == [size |-> worker.group.size + 1, last |-> worker.task.op]
         close_group == group.size >= MaxGroupOperations
     IN /\ wal' = [wal EXCEPT !.written = worker.task.op]
        /\ worker' = [worker EXCEPT
             !.group = group,
             !.pc = IF close_group THEN "flush" ELSE "publish",
             !.notice = IF close_group THEN NoNotice
                        ELSE [kind |-> "staged", op |-> worker.task.op]]
  /\ UNCHANGED <<setup, owner, taken, host, raft, storage, released, delivered, messages, faults>>

\* Mutant: a staged batch is not reported.
append_grouped_Silent ==
  /\ worker.pc = "append" /\ Grouped
  /\ wal' = [wal EXCEPT !.written = worker.task.op]
  /\ worker' = [worker EXCEPT !.group = [size |-> @.size + 1, last |-> worker.task.op],
                  !.pc = "wait", !.task = NoTask]
  /\ UNCHANGED <<setup, owner, taken, host, raft, storage, released, delivered, messages, faults>>

\* The append of run_grouped: the group is closed, or the batch is staged.
append_grouped ==
  /\ worker.pc = "append" /\ Grouped
  /\ \E error, past_deadline \in BOOLEAN :
       /\ Fails("append", error)
       /\ IF error
          THEN mark_failed /\ Publishes([kind |-> "failed"]) /\ UNCHANGED wal
          ELSE LET group == [size |-> worker.group.size + 1, last |-> worker.task.op]
                   close_group == \/ worker.task.commit
                                  \/ group.size >= MaxGroupOperations
                                  \/ past_deadline
               IN /\ wal' = [wal EXCEPT !.written = worker.task.op]
                  /\ worker' = [worker EXCEPT
                       !.group = group,
                       !.pc = IF close_group THEN "flush" ELSE "publish",
                       !.notice = IF close_group THEN NoNotice
                                  ELSE [kind |-> "staged", op |-> worker.task.op]]
                  /\ UNCHANGED storage
  /\ UNCHANGED <<setup, owner, taken, host, raft, released, delivered, messages>>

\* Mutant: the barrier names the closing task, and none when the deadline closed it.
flush_group_TaskOnly ==
  /\ worker.pc = "flush"
  /\ wal' = [wal EXCEPT !.durable = wal.written]
  /\ worker' = [worker EXCEPT
       !.pc = "publish", !.group = NewGroup,
       !.notice = [kind |-> "barrier", delayed |-> worker.task.op,
                   through |-> worker.task.op]]
  /\ UNCHANGED <<setup, owner, taken, host, raft, storage, released, delivered, messages, faults>>

\* Mutant: the barrier does not carry the completion of the closing task.
flush_group_NoDelayed ==
  /\ worker.pc = "flush"
  /\ wal' = [wal EXCEPT !.durable = wal.written]
  /\ worker' = [worker EXCEPT
       !.pc = "publish", !.group = NewGroup, !.task = NoTask,
       !.notice = [kind |-> "barrier", delayed |-> 0, through |-> worker.group.last]]
  /\ UNCHANGED <<setup, owner, taken, host, raft, storage, released, delivered, messages, faults>>

\* The flush of a group that is closed by its last task or by the deadline.
flush_group ==
  /\ worker.pc = "flush"
  /\ \E error \in BOOLEAN :
       /\ Fails("flush", error)
       /\ IF error
          THEN mark_failed /\ Publishes([kind |-> "failed"]) /\ UNCHANGED wal
          ELSE /\ wal' = [wal EXCEPT !.durable = wal.written]
               /\ worker' = [worker EXCEPT
                    !.pc = "publish", !.group = NewGroup,
                    !.notice = [kind |-> "barrier", delayed |-> worker.task.op,
                                through |-> worker.group.last]]
               /\ UNCHANGED storage
  /\ UNCHANGED <<setup, owner, taken, host, raft, released, delivered, messages>>

\* Mutant: stop() does not wake a worker that waits for room.
completion_space_IgnoresStop == Len(storage.completions) < MaxStorageCompletions

\* What publish waits for.
completion_space ==
  storage.stopping \/ Len(storage.completions) < MaxStorageCompletions

\* publish waits for room or for stop(); after a failure the worker returns.
publish ==
  /\ worker.pc = "publish" /\ completion_space
  /\ worker' = [worker EXCEPT !.notice = NoNotice, !.task = NoTask,
                  !.pc = IF storage.stopping \/ storage.failed THEN "done" ELSE "wait"]
  /\ storage' = IF storage.stopping THEN storage
                ELSE [storage EXCEPT !.completions = Append(@, worker.notice)]
  /\ UNCHANGED <<setup, owner, taken, host, raft, wal, released, delivered, messages, faults>>

-----------------------------------------------------------------------------
(* The state after NodeHost::start, which arms the election timer, or of a *)
(* host at rest whose member leads, with numbers counted from there.       *)
Init ==
  /\ setup \in Setups
  /\ owner = "idle" /\ taken = << >>
  /\ host = [running |-> TRUE, fatal |-> FALSE, owner_events |-> << >>,
             client_queue |-> << >>, next_token |-> 1, outstanding |-> {},
             replies |-> << >>, quarantined |-> << >>, active |-> FALSE,
             last_submitted |-> 0, durable_through |-> 0, published |-> 0,
             timer |-> [active |-> TRUE, due |-> FALSE, generation |-> 1]]
  /\ raft = [Core!start.raft EXCEPT !.leader = setup.leader]
  /\ storage = [tasks |-> << >>, completions |-> << >>, stopping |-> FALSE,
                failed |-> FALSE]
  /\ worker = [pc |-> "wait", task |-> NoTask, group |-> NewGroup, notice |-> NoNotice]
  /\ wal = [written |-> 0, durable |-> 0]
  /\ released = 0 /\ delivered = {} /\ messages = 0 /\ faults = 0

Owner == joined \/ gather_inputs \/ handle_notice \/ poll_once

Worker ==
  \/ take_task \/ group_deadline \/ stop_wait
  \/ append_ungrouped \/ append_grouped \/ flush_group \/ publish

Next == submit \/ poll_replies \/ stop \/ timer_due \/ Owner \/ Worker

Spec == Init /\ [][Next]_vars

\* When a step of either thread is possible (ENABLED Owner and ENABLED Worker).
OwnerReady ==
  \/ owner = "join" /\ worker.pc = "done"
  \/ owner = "idle" /\ host.running
  \/ owner = "notices"

WorkerReady ==
  CASE worker.pc = "wait" -> storage.stopping \/ storage.tasks # << >> \/ worker.group.size > 0
    [] worker.pc = "publish" -> completion_space
    [] OTHER -> worker.pc # "done"

\* Weak fairness of both threads and of time: run_for polls until the host stops,
\* the worker thread is scheduled, and deadlines are reached.  A step of a thread
\* is one that changes its own variables.
FairSpec ==
  /\ Spec
  /\ []<>~OwnerReady \/ []<><<owner' # owner \/ taken' # taken>>_vars
  /\ []<>~WorkerReady \/ []<><<worker' # worker>>_vars
  /\ WF_vars(timer_due)

-----------------------------------------------------------------------------
(* Properties.                                                             *)

Token == 1..Max({s.tokens : s \in Setups})

\* What status() shows: the snapshot of the last open gate, or the live state.
StatusShown ==
  IF host.active \/ host.fatal THEN host.published ELSE raft.next_op - 1

\* No message, timer or reply leaves the quarantine of dispatch_effect before the
\* operations that Raft had been told of when it emitted it are flushed
\* (node_host.cpp:775-778; invariant I13), and what status() reports between two calls
\* of the owner never includes an operation that a group commit has not flushed.
DurableBeforeVisible ==
  /\ released <= wal.durable
  /\ Grouped /\ owner = "idle" => StatusShown <= wal.durable

\* Raft is told that a batch with a commit index is complete only when it is
\* durable, so apply_committed never runs ahead of the flush (run_grouped).
ApplyAfterFlush ==
  [][raft.op # 0 /\ raft.commit /\ raft'.done = raft.op => raft.op <= wal.durable]_vars

ClientsIn(events) == SelectSeq(events, LAMBDA e : e.kind = "client")
TokensOf(events) == [i \in DOMAIN events |-> events[i].token]
HeldReplies == SelectSeq([i \in DOMAIN host.quarantined |-> host.quarantined[i].effect],
                         LAMBDA e : e.kind = "reply")

\* Every accepted token is outstanding, has one reply in the queue, or has been
\* answered, and only one of these: max_client_slots leaves room for each reply, so
\* dispatch_effect and fail_transport never drop one.  While the host runs, an
\* outstanding token is in exactly one place that leads to an answer: a queue of the
\* host, the deferral queue, the clients of Raft or the quarantine.
AnsweredOnce ==
  LET queued == Range(host.replies)
      places == TokensOf(host.client_queue) \o TokensOf(ClientsIn(host.owner_events))
                  \o TokensOf(ClientsIn(raft.deferred)) \o SetToSeq(raft.clients)
                  \o TokensOf(HeldReplies)
  IN /\ host.outstanding \cup queued \cup delivered = 1..(host.next_token - 1)
     /\ Len(host.replies) + Cardinality(host.outstanding) + Cardinality(delivered)
          = host.next_token - 1
     /\ host.running => /\ Range(places) = host.outstanding
                        /\ Len(places) = Cardinality(host.outstanding)

OpsIn(seq) == {e.op : e \in {x \in Range(seq) : x.kind \in {"complete", "staged"}}}
DelayedIn(seq) == {e.delayed : e \in {x \in Range(seq) : x.kind = "barrier"}}

\* While the host runs, the operation Raft waits for is with the worker or its
\* completion or failure is on the way: dispatch_effect's refusal with a full owner
\* queue never strands the node.
OperationInFlight ==
  host.running /\ raft.op # 0 =>
    \/ raft.op \in {task.op : task \in Range(storage.tasks)}
    \/ raft.op = worker.task.op
    \/ raft.op \in UNION {OpsIn(q) : q \in {storage.completions, taken, host.owner_events}}
    \/ raft.op \in UNION {DelayedIn(q) : q \in {storage.completions, taken}}
    \/ \E q \in {storage.completions, taken} : \E e \in Range(q) : e.kind = "failed"
    \/ storage.failed /\ worker.pc = "publish"

\* The timer of the node: armed, on its way to Raft, in quarantine, or to be armed again
\* by the outstanding operation.
TimerHeld ==
  LET current(e) == e.kind = "timer" /\ e.generation = raft.generation
  IN \/ host.timer.active /\ host.timer.generation = raft.generation
     \/ \E e \in Range(host.owner_events) \cup Range(raft.deferred) : current(e)
     \/ \E held \in Range(host.quarantined) : current(held.effect)
     \/ raft.op # 0 /\ raft.rearm

\* A node that is up has a way to wake up, however often its timer is invalidated, armed
\* again, quarantined, deferred and replaced.  The one timer that disappears is the one
\* that RaftNode::step drops with the deferral queue full (raft.cpp:152).  The comment at
\* node_host.cpp:845-847 promises that data-plane traffic cannot keep a timer out.
TimerKept ==
  host.running /\ raft.up /\ raft.generation < MaxGeneration /\ raft.dropped # raft.generation
    => TimerHeld

\* The same without the exception: RaftNode defers every event that arrives during an
\* operation (the comment at raft.hpp:97-100), so none of them is the last of the timers.
EveryTimerDeferred ==
  host.running /\ raft.up /\ raft.generation < MaxGeneration => TimerHeld

\* The storage operation Raft waits for completes, or the host stops: neither
\* thread waits for the other in publish, take or stop.
OperationCompletes ==
  \A op \in 1..MaxOps : raft.op = op ~> raft.op # op \/ ~host.running

\* An open group is flushed even when no further task arrives, so the gate of the
\* quarantine opens or the host stops.
GateOpens ==
  \A op \in 1..MaxOps : host.active /\ host.last_submitted >= op
                          ~> host.durable_through >= op \/ ~host.running

\* Whatever peers send, a due timer is admitted to the owner queue, or re-armed, and a
\* submitted request reaches it.
InputsAdmitted ==
  /\ host.timer.due ~> ~host.timer.due \/ ~host.running
  /\ \A t \in Token : t \in Range(TokensOf(host.client_queue))
                        ~> t \notin Range(TokensOf(host.client_queue)) \/ ~host.running

\* stop() and every fatal error end the worker thread and return.
StopReturns == owner = "join" ~> owner = "idle"

=============================================================================
