# DetLog in TLA+

DetLog is a replicated log in C++: a deterministic Raft core, a write-ahead log
(WAL), a key-value state machine with client sessions, a host that runs one
member over TCP, and a simulator that runs a whole cluster from one seed. This
directory holds TLA+ modules for it, TLC configurations that check them on
small instances, and proofs that TLAPS checks for every instance.

## The system

| Part | Source | State | Operations |
|---|---|---|---|
| Raft node | `src/raft.cpp` | role, hard state, log, commit and applied index, peers, pending storage, pending clients | timers, four peer messages, client request, storage completion |
| Write-ahead log | `src/wal.cpp` | file, `WalState`, failed flag | open or recover, `append_group`, `flush` |
| State machine | `src/state_machine.cpp` | values, one record per session | `apply` |
| Node host, storage worker | `src/node_host.cpp` | input, operation and reply queues, timers, group in quarantine | `submit`, `poll_once`, worker loop |
| Event deferral | `src/raft.cpp` `step` | bounded queue of events that arrive during a storage operation | defer, drain |
| Simulator | `src/simulator.cpp` | event queue, links, timers, storage devices | `send`, `submit_write`, `submit_flush`, crash, restart, `next` |
| Cluster and observer | `src/cluster.cpp` | hosts, record of leaders and certified entries | effect dispatch, faults, invariant checks |
| Reference model | `src/reference_model.cpp` | replicas of an abstract log | elect, propose, replicate, commit, learn, crash |
| TCP transport | `src/tcp_transport.cpp` | connections, incarnations, queues | connect, accept, handshake, send, poll |
| Codec, programs | `src/codec.cpp`, `apps/` | none between calls | encode, decode |

A host gives a `RaftNode` one event at a time and carries out the effects it
returns. At most one storage operation of a node is outstanding; what depends on
its durability (a vote, an acknowledgement, a campaign, a commit) is a
continuation that runs at its `StorageComplete`, and every other event waits.
The WAL makes the batch durable; a restart builds the node from what it recovers.

What is hard here: crashes between a decision and its durability; failed writes
that reached the medium all the same; late, repeated and reordered answers;
repair of diverging logs; timers that are cancelled and armed again in different
steps; bounds that only the leader checks; torn frames and unflushed writes.
`PROJECT.json` lists each hazard at its line with the properties that cover it.

## Modules

`Raft` models all members, the network and the media.

| `Raft` | `raft.cpp` |
|---|---|
| variables named as in the code | members of `RaftNode` |
| `pending_storage` (batch and continuation) | `PendingStorage`, its lambdas as a record with a kind |
| `disk[n]` | what WAL recovery would yield |
| `msgs` | every message sent; any may be delivered never, late, repeatedly, in any order |
| `election_timer`, `heartbeat_timer` | the host holds a timer of the current generation |
| `on_request_vote`, `on_append_entries`, ... | the handlers of the same names |
| `on_storage_complete`, `crash`, `restart` | completion or failure of the batch, loss of memory, the constructor |
| `elected`, `committed` | the observer's record in `cluster.cpp` |

Abstractions: a deferred event is a message not delivered or a timer not fired
yet; commands are opaque; byte bounds are left out; RPC ids count per peer; a
batch that was outstanding at a crash or reported as failed is on the medium or
not, as a whole.

`Wal` models one WAL file below that: cells that can be torn, the page cache
(`file`) and the stable part (`medium`), both flush policies, creation with its
directory entry, recovery with repair of an incomplete tail, I/O errors, stops
of the process, and power losses. A frame is its sequence number and batch; a
cell knows the frame it belongs to, which is what checksums and lengths provide.
Writes since the last flush reach the medium in order, up to some point. The
validation of batches (`stage_throws`) follows `ValidationView::stage`; byte
sizes and identities are left out. `Raft` and `Wal` are not composed: `Raft` has a
medium that keeps or loses the outstanding batch as a whole.

`KvStateMachine` has `apply` with its session records as operators on the two
maps; the digest of a command is the command's kind, key and value, so without
collisions. `ReferenceModel` has one action per action of a history
(`elect`, `propose`, `replicate`, `commit`, `learn`, `crash`, `restart`, ...), with
the witnesses the code demands as guards, and the interpreter of commands that
`reference_model.cpp` writes independently. An action the code rejects changes
nothing and is not enabled.

`ReplicatedLog` is the abstract specification: one sequence of chosen entries
that grows, of which every member has learned a prefix that grows. `Raft` (mapping
in `RaftRefinement`: what the observer has certified is chosen, the committed prefix of
a medium is learned) implements it.

`RaftCore` is the contract of one `RaftNode` with its host, which `NodeHost` and
`Cluster` instantiate: operations are numbered and one at a time, other events are
deferred in the bounded queue of `step` and drained in order, a full queue drops an
event or refuses a client, a timer is checked against its generation when it is
dispatched, and is armed again at once or by the continuation of an operation. An
operator returns every reaction the protocol could choose. "The timer" is the one the
role waits for, the election timer or a leader's heartbeat.

`NodeHost` is one process: owner thread and storage worker as two interleaved
processes.

| `NodeHost` | `node_host.cpp` |
|---|---|
| `owner`, `taken` | where `poll_once` is between two accesses to the shared queues |
| `host` | members of `NodeHost::Impl`: queues, timer, quarantine, durable and published operation |
| `storage` | the queues and flags of `StorageWorker`, under its mutex |
| `worker`, `wal` | the loop of the worker in both modes, the operation written and the one durable |
| `raft` | state of a `RaftNode` as `RaftCore` has it |

A step ends where a thread takes or releases the mutex or calls the WAL. The timer of
the role stands for the two; metrics, traces and byte bounds are left out.

`Simulator` is the event queue with its limits, timers with generations, links
with budgets, duplicates and partitions, storage devices with stable and
unflushed bytes, crashes with any prefix kept, and `next`. A byte is the
number of its write and its place in it. A refused call changes nothing.

`Cluster` composes the adapter of `cluster.cpp` with that module (`Sim ==
INSTANCE Simulator`): every action calls operators of `Sim` and changes the
adapter's maps. `step` takes an event from `Sim!next`, then the effects are
handled one by one before anything else happens. The cores follow `RaftCore`; their
replies to clients are dropped. `restart` of the code is `recover_node`, which repairs a
torn tail, and then `restart`, which nothing can come between.

`TcpTransport` is two members that connect to each other. `ends[n][c]` is the
`Connection` at `n`, `wire[n][c]` what travels to `n`, `peers[n]` the `PeerState`,
`events[n]` the queue of `poll`. The work of the I/O thread on one connection is
one step (`io_loop(n, c)`); calls of the owner come between. A frame has two parts, its
length and its payload, so that a partial write and a frame cut in the middle
exist. A restarted process draws a smaller or a greater incarnation. Members attempt
connections without a bound: a connection takes the next nonce after those of its
initiator that still exist. All frames have one size, so the byte limit of the event
queue counts messages. A payload that is read as a length passes for one or not
(`setup.length_like`), and closes the connection if not.

The `MC...` modules give the instances. A run of `Wal`, `NodeHost`, `Cluster` with
`Simulator`, or `TcpTransport` covers several of them: the variable `setup` holds the
configuration and the bounds of a behaviour, is chosen in `Init` from the constant
`Setups`, and never changes.

The proofs about `Raft` use the invariants and the kinds of steps that `RaftInvariants`
defines.

| Module | Proves |
|---|---|
| `RaftBaseProofs` | facts about operators, messages, media and logs |
| `RaftProofs` | every handler, completion and fault: types, memory and medium, hard state; votes and winners |
| `RaftStepProofs` | every step is of one of nine kinds, each keeps the invariant on logs; timers and waiting clients |
| `RaftLogProofs` | acknowledgments, votes, winners and what is committed, for a step of any kind |
| `RaftCommitProofs` | each kind keeps the invariant on what is committed |
| `RaftPromiseProofs` | what the invariant on what is committed says to clients, leaders and the abstract log |
| `RaftSafetyProofs` | the theorems that join these parts |
| `ReplicatedLogProofs` | the abstract log |

Operators with a comment `Mutant:` are plausible mistakes in the definition below them;
`PROJECT.json` says which property each one breaks.

## Runs

| Run | Shows |
|---|---|
| `raft_elections` | three campaigns of three members, then one leader with a command, heartbeats, retries and one fault, or a second leader with late requests of the first: one leader per term, hard state never regresses, every member keeps a timer, memory and match indexes never ahead of the media |
| `raft_repair` | three leaders in a row, diverging logs, waiting clients, the bound reached: log matching, leader completeness, readiness, the bound, no member stops without a storage failure, and every step is one of `ReplicatedLog`, so that committed prefixes agree and stay |
| `wal_faults` | either flush policy with power losses and failed appends, and deferred flushes with stops and I/O errors anywhere: acknowledged frames survive, nothing reported is taken back, memory is what recovery computes |
| `reference_model` | retries at two leaders put a request twice into the log: it executes once, all copies get one answer, the two interpreters agree |
| `node_host` | group commit, and one flush per append, deferral queues that overflow, more tokens than reply slots, one fault of any kind: nothing that depends on an unflushed operation leaves the quarantine, status and apply stay behind the flush, each token is answered once, no operation and no timer is lost, except a timer that `step` drops |
| `node_host_progress` | *liveness*: operations complete, the gate opens by the group's deadline, `stop()` returns; a peer that never stops sending keeps neither timers nor clients out |
| `simulation` | `Cluster`: refused, failed, short and torn writes, repairs, crashes: a core recovers what it was told is durable, and its operation is always on its way; a full event queue, deferred and re-armed timers: the current timer is bound to a live one, deferred, or armed by the outstanding operation, or the adapter reports a failure, or `step` dropped it. `Simulator` called directly: overlapping writes and flushes with errors and crashes: barrier, survival, prefix; duplicates and crashes with full queues: budgets; timers armed again and cancelled while the queue is full: one live event for each |
| `tcp` | simultaneous connects, faults, restarts: one connection, the same at both ends; partial writes, replaced and lost connections, full queues: frames whole, at most once; *liveness*: a common connection after every fault, restart and healed partition; a frame that met a full event queue is delivered |
| `wal_directory`, `tcp_partition`, `reference_quorum`, `deferred_timer` | *violated*, see below |

### Bounds

Three members are the least with a majority that is not everybody.
Elections, log length, RPCs, faults and late answers are bounded by constants of
`Raft`. The constraints of `MCRaft` are partitions and orders of events that lead to
the cases in question: campaigns before anything is appended, one change of leader
while entries are appended (`AtMostOneChange`), and three leaders in a row
(`ThirdLeader`). They cut other behaviours off, so the runs say nothing about, for
example, split votes during the repair. The WAL runs have four frames, groups of two
and three faults; the batches hold a vote, a rival vote, an append, a repair and a
commit.

`reference_model` has one session with two terms and four log entries, room for a
request, its retry by a second leader, and the next request, with a third replica that
only votes and one member down at a time (`ClientsOfTwoLeaders`). `reference_quorum` has
five replicas, four terms that are won in order, and logs with one no-op (`NoOpsOnly`).
`NodeHost` has three operations with groups of two, so that a group is full, a group
waits for its deadline, and an operation arrives while a flush is running; timers of
three to five generations, so that some are armed again from the quarantine or by a
continuation; queues with one to three places, so each is full in some state; three
tokens with two reply slots; and one fault of any kind. `simulation` gives device, links
and timers an instance each, with at most four or five events, one or two faults, and
budgets that two frames or writes exhaust, and the adapter nine to twelve events with up
to four faults, enough for a write, a flush, a crash, a recovery and a second write. `tcp` has up to two faults,
two calls of the partition control and two frames, enough for one partly written and one
queued behind it, in several combinations, from members that both connect or of which
only one has the other's endpoint; two connections of one initiator exist at a time
(`MaxOpen`).

Members are symmetric in `Raft` and `ReferenceModel`: no operator orders them.
Runs of a liveness property use no symmetry. Deadlock is not checked, because the bounds stop
every instance, and a file that cannot be opened and a stopped host are final.

### Fairness

`NodeHost!FairSpec`: the owner, when it has something to do (`OwnerReady`), moves
in the end, and so does the worker (`WorkerReady`): the program calls `poll_once` in a
loop, and the worker is a thread that waits on a condition variable which every
producer notifies. A timer that is armed falls due (`timer_due`). Nothing is assumed of
clients, peers, or faults.

`TcpTransport!FairSpec`: weak fairness of the I/O thread of each process (`IoThread`)
and of `poll`. The loop of `io_loop` never waits for one connection, and attempts
outgoing connections; the owner polls in its loop.
Nothing is assumed of `send`, faults or the partition control. A new attempt waits for
`reconnect_delay`. This delay is many rounds of `io_loop` (20 ms and 2 ms in the tests),
so the model lets it pass when everything under way has settled (`Settled`), or earlier a
bounded number of times (`MaxEarly`). Without such an assumption the members need not
reconnect: a member whose event queue holds the refusal of each new attempt just when
the queue is looked at never reads that the old connection has ended.

`Raft` has no liveness property: under its fault bounds an election can
always be lost by timing, which the model does not measure. `TimerOwned` is the safety
part of its progress.

### Violated by the code

* `AckedSurvives` in `wal_directory`: only the instance that created the file
  flushes its directory. If it stops before, nobody does, and a power loss can
  remove a file with acknowledged frames. With one kind of fault alone
  (`wal_faults`) the property holds.
* `FramesIntact` in `tcp_partition`: `set_peer_partitioned` drops a partly written
  frame at once, but the connection is closed by a later round of the I/O thread.
  If the peer is healed before that round, the connection stays open in the middle
  of a frame. With one call of the control (`tcp`) the property holds.

* `LeadersContainCommitted` in `reference_quorum`: `commit` of the reference model counts
  every live replica that holds the prefix, also one that got it from a leader of a later
  term. A deposed leader then commits what a later leader lacks, against I4 of
  `docs/invariants.md`. This is about the model used in tests, not about `RaftNode`, for
  which `LeaderCompleteness` is proved.
* `EveryTimerDeferred` in `deferred_timer`: with `max_deferred_events` deferred, `step`
  drops a timer the host has already deactivated (`raft.cpp:152`). If the outstanding
  operation is a leader's append or commit index, nothing arms the heartbeat again. In
  the passing runs `TimerKept` and `TimerBound` except this timer, by the ghost field
  `dropped`, and no other.

Two smaller disagreements have no run of their own; the properties of the passing
runs are stated so that they hold beside them:

* `raft.cpp:1159` says that `can_append_client` keeps room for the no-op of a future
  leader. The no-ops of leaders that fail before they commit use that room up
  (`can_append_client` looks at it only for client commands), and a later winner
  steps down (`raft.cpp:427`).
* `wal.hpp:67` calls `durable_frame_sequence` a lower bound. Recovery sets it to the
  last complete frame, which a stopped process may have written and not flushed. It
  takes a stop of the process and then a power loss to matter. `Raft` assumes that what a restart has
  read stays.

`InOrderOnce` is stated with care: a frame is delivered at most once in every
behaviour, and in order only while no connection has failed. After a failure, an older
connection whose handshake ends late can deliver an earlier frame after a later one.
Raft does not rely on order.

## Proofs

For every finite `Node` with two members or more, every `Command` and every
bound (`NodeAssumption`, `BoundAssumption`):

* `TypeCorrect`: `Spec => []TypeOK`;
* `MemoryDurable`: `Spec => []MemoryIsDurable`;
* `HardStateMonotone`: `Spec => HardStateNeverRegresses`;
* `OneLeaderPerTerm`: `Spec => []ElectionSafety`;
* `LogsMatch`: `Spec => []LogMatching`;
* `LeadersComplete`: `Spec => []LeaderCompleteness`;
* `ReplicationDurable`: `Spec => []MatchIsDurable`;
* `ReadyLeadersCurrent`: `Spec => []ReadyLeaderIsCurrent`;
* `SuffixBounded`: `Spec => []UncommittedBounded`;
* `StorageStopsNode`: `Spec => OnlyStorageStopsNode`;
* `NodesKeepTimers`: `Spec => []TimerOwned`;
* `ClientsAnswered`: `Spec => []PendingClientsMatchLog`;
* `Refinement`: `Spec => ImplementsReplicatedLog`.

`MemoryIsDurable` is not inductive: it says that memory is the medium with the
outstanding batch, and not how that batch may differ from the medium. `LocalInv`
adds, for each node, that the batch carries a hard state only for a later term or
a first vote, truncates inside the durable log and never lowers the commit
index (`BatchInv`), which continuation goes with which batch and role
(`ShapeInv`), and that a candidate voted for itself (`CandidateInv`). It
mentions one node at a time, so a step of one node leaves it for the others;
there is one lemma per handler (`...Local`), `NextLocal` joins them, and
`Inductive` proves `[](TypeOK /\ LocalInv)`. `HardStateMonotone` follows from
`BatchInv`: a medium changes only by the outstanding batch.

`ElectionSafety` is about winners only, so `ElectionInv` adds how they won. Messages are
never removed from `msgs`, so a ballot (a granted response, or the request that follows
a candidate's vote for itself) records a vote for good. Its sender's medium holds that
vote or is in a later term (`BallotInv`), so a sender has one choice per term
(`VoteOnce`); this step uses `HardStateStep`, the lemma behind `HardStateMonotone`. A
reply that waits for its batch reveals the vote in memory (`ReplyInv`), which by
`LocalInv` is on the medium when the batch is. Votes counted by a candidate are ballots
for it (`CampaignInv`), so a winner has a quorum of them (`QuorumInv`), and two quorums
share a voter (`QuorumsIntersect`). Most steps reveal and count no vote (`Quiet`); the
other five have a lemma each (`...Election`).

`TimerOwned` and `PendingClientsMatchLog` are inductive given `LocalInv`, but for one
thing: a node that is down has no waiting clients (`ClientInv`). A leader's completion
relies on `ShapeInv`, which ties its continuation to its role (`CompleteAppendService`);
a follower that cuts its log has told the clients at and above the cut
(`ClientsReplaced`).

The other theorems are about logs, and rest on one inductive invariant,
`BaseInv /\ SafetyInv` (`SafetyInductive`), where `BaseInv` joins the invariants above.

*Kinds of steps.* `NextStep` shows that a step of a node is of one of nine kinds
(`StepKind`): it answers, campaigns, wins, appends a command, hears its followers and
perhaps commits, accepts entries, completes an operation, stops or restarts. A kind says
what happens to log, role, peers, media and messages, and nothing else; what follows is
shown for the kinds, not for the handlers.

*Logs.* No variable of the code or of the model holds the log a leader of an old term
had. The invariant says that there is a history `H` with the log of each term's leader:
as it is now while that member leads, as it last was afterwards. `LogInv(H)` is that
every log in memory, in a batch or on a medium, and every segment sent, agrees with
`H[t]` up to each of its entries of term `t`. A step keeps `H`, or a leader's log in it
grows (`NewHistory`). Two logs with an entry of one term at an index then both agree
with `H[t]` there, which is `LogMatching`.

*What is committed.* An entry of its leader's own term is *chosen* (`Chosen`) when a
quorum has acknowledged it: with successful answers, or, for the leader, with entries it
sends, which are on its medium by then. These messages stay in `msgs`. It is *dead*
(`Dead`) when a quorum of media has passed to later terms without having acknowledged
it; as quorums meet, nothing is both (`ChosenAlive`). `CommitInv(H)` says: who
acknowledged an entry keeps it unless it is dead (`AckInv`); a leader of a later term
has every earlier entry that is not dead (`ElectedInv`), since each voter compares its
own log with the candidate's before it votes (`VoteInv`); what leaders count as
replicated was acknowledged (`PeerInv`); committed and known to be committed is only
what is chosen (`CommittedInv`, `KnownInv`). `LeaderCompleteness`, `MatchIsDurable`, and
the guard of `on_append_entries` that never fires (`OnlyStorageStopsNode`) follow.

*Readiness and the bound.* `ReadyInv` says that a leader that accepts commands has
applied the no-op of its own term, before which its log holds all that was committed.
`BoundInv` bounds the uncommitted suffix of every log, on media and in memory, and of
what a leader has sent, by `max_uncommitted_entries`: followers do not check, and yet
never exceed it, because what they accept is a leader's log together with its commit
index.

*Refinement.* `chosen` grows with `committed`; by `LearnedIsCommitted` the committed
prefix of every medium is a prefix of it, and by `MediumKept` it never shrinks. So every
step is a step of `ReplicatedLog` or leaves it alone (`StepRefines`).

For every `Node` and `Entry`, about the abstract log:

* `Agreed`: `Spec => []Agreement`, no two members know different entries at an index;
* `KnowledgeGrows`: `Spec => LearnedGrows`, what a member has learned stays.

The invariant there is that every member's entries are a prefix of the chosen ones;
two prefixes of one sequence are comparable (`Comparable`), and prefixes of what is
chosen stay prefixes when more is chosen (`ExtendsTransitive`). With `Refinement`, both
hold of the media of `Raft`.

Every property that the runs of `Raft` check is proved. Only model-checked: all of the
other modules. Out of the prover's reach: liveness, `ENABLED`, and what recursive definitions
compute for every input.

## Not modelled

* The codec (`codec.cpp`, `trace` files): encoding and decoding keep no state
  between calls, and what could be wrong in them is about bytes.
* The programs in `apps/` and the benchmark: arguments and printing around
  `NodeHost` and `Cluster`.
* In `Raft`: byte budgets, reply statuses of rejected requests, `shutdown`. Its
  deferral queue is in `RaftCore`.
* In `Wal`: byte layout and sizes, the identity check. One mutex makes calls atomic.
* In `Cluster`: client replies, traces, and `isolate` and latency settings, which are
  sequences of modelled calls. The observer is `elected` and `committed` of `Raft`.
* In `TcpTransport`: socket options, malformed handshakes, other clusters' identities, a
  failing `select`, and the outbound budget shared by more than two members.

## Plan

1. Proofs of the safety properties of `Simulator` and `TcpTransport`.
2. An abstract durable log that `Wal` refines under one kind of fault and that `Raft`
   uses as its medium.
3. `Cluster` over `Raft` in place of the contract, on two members.
4. `TcpTransport` with a third member, for the shared budget.
