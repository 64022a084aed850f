-------------------------------- MODULE Raft --------------------------------
(***************************************************************************)
(* The Raft core of DetLog (src/src/raft.cpp) run by every member of a     *)
(* cluster, over a network that loses, duplicates, delays and reorders     *)
(* messages, with asynchronous storage, crashes and restarts.              *)
(*                                                                         *)
(* A RaftNode is a deterministic object: RaftNode::step handles one event  *)
(* and returns effects.  At most one storage operation is outstanding;     *)
(* until its StorageComplete arrives, every other event is deferred.  Here *)
(* a deferred event is one that has not been delivered yet: a message      *)
(* stays in msgs and a live timer stays armed.                             *)
(***************************************************************************)
EXTENDS Integers, Sequences, FiniteSets

CONSTANTS
  Node,             \* config_.members
  Command,          \* client commands, opaque here
  Nil,              \* std::nullopt: no vote, no hint, no command (a no-op)
  MaxEntriesPerRpc, \* config_.max_append_entries_per_rpc
  MaxUncommitted,   \* config_.max_uncommitted_entries
  RetryHeartbeats,  \* config_.append_retry_heartbeats
  MaxElections,     \* bound: elections started
  MaxLog,           \* bound: no client command is submitted to a log this long
  MaxRpc,           \* bound: no heartbeat once a peer was sent this many RPCs
  MaxFaults,        \* bound: crashes plus failed storage operations
  MaxLate           \* bound: requests of past terms that are answered

ASSUME NodeAssumption ==
  /\ IsFiniteSet(Node)
  /\ \E m, n \in Node : m # n

ASSUME BoundAssumption ==
  /\ MaxEntriesPerRpc \in Nat \ {0}
  /\ MaxUncommitted \in Nat \ {0}
  /\ RetryHeartbeats \in Nat \ {0}
  /\ MaxElections \in Nat
  /\ MaxLog \in Nat
  /\ MaxRpc \in Nat
  /\ MaxFaults \in Nat
  /\ MaxLate \in Nat

VARIABLES
  role,                   \* role_, or "down" when the process is not running
  current_term,           \* hard_state_.current_term
  voted_for,              \* hard_state_.voted_for
  log,                    \* log_; the index of an entry is its position
  commit_index,           \* commit_index_
  last_applied,           \* last_applied_
  durable_last_log_index, \* durable_last_log_index_
  leader_hint,            \* leader_hint_
  leader_ready,           \* leader_ready_
  readiness_index,        \* readiness_index_
  votes_received,         \* votes_received_
  peers,                  \* peers_
  next_rpc_id,            \* next_rpc_id_, counted for each peer apart
  pending_clients,        \* indexes in pending_clients_ and their commands
  pending_storage,        \* pending_storage_: the batch and what follows it
  election_timer,         \* the host holds a timer of election_generation_
  heartbeat_timer,        \* the host holds a timer of heartbeat_generation_
  disk,                   \* the state a recovery of the node's WAL yields
  msgs,                   \* every message ever sent
  elected,                \* observer: <<term, node>> that became leader
  committed,              \* observer: certified entries, with the certifying term
  elections,              \* elections started so far
  late,                   \* requests of past terms answered so far
  faults                  \* crashes and failed storage operations so far

hard_vars == <<current_term, voted_for>>
log_vars == <<log, commit_index, last_applied, durable_last_log_index>>
role_vars == <<role, leader_hint, leader_ready, readiness_index, votes_received>>
peer_vars == <<peers, next_rpc_id>>
timer_vars == <<election_timer, heartbeat_timer>>
ghost_vars == <<elected, committed>>
bound_vars == <<elections, late, faults>>
vars == <<hard_vars, log_vars, role_vars, peer_vars, timer_vars, ghost_vars,
          pending_clients, pending_storage, disk, msgs, bound_vars>>

-----------------------------------------------------------------------------
(* Values *)

LiveRole == {"follower", "candidate", "leader"}
Role == LiveRole \cup {"unavailable", "down"}

Entry == [term : Nat, command : Command \cup {Nil}]
HardState == [term : Nat, vote : Node \cup {Nil}]
DiskState == [term : Nat, vote : Node \cup {Nil}, log : Seq(Entry), commit : Nat]

\* PersistBatch: an absent part is Nil, 0 or the empty sequence.
PersistBatch == [hard_state : HardState \cup {Nil}, truncate_from : Nat,
                 entries : Seq(Entry), commit_index : Nat]
EmptyBatch == [hard_state |-> Nil, truncate_from |-> 0,
               entries |-> << >>, commit_index |-> 0]

RequestVoteMsg ==
  [type : {"RequestVote"}, from : Node, to : Node, term : Nat,
   last_log_index : Nat, last_log_term : Nat]
RequestVoteResponseMsg ==
  [type : {"RequestVoteResponse"}, from : Node, to : Node, term : Nat,
   vote_granted : BOOLEAN]
AppendEntriesMsg ==
  [type : {"AppendEntries"}, from : Node, to : Node, term : Nat, rpc_id : Nat,
   prev_log_index : Nat, prev_log_term : Nat, entries : Seq(Entry),
   leader_commit : Nat]
AppendEntriesResponseMsg ==
  [type : {"AppendEntriesResponse"}, from : Node, to : Node, term : Nat,
   rpc_id : Nat, success : BOOLEAN, match_index : Nat,
   conflict_index : Nat, conflict_term : Nat]
Message == RequestVoteMsg \cup RequestVoteResponseMsg
             \cup AppendEntriesMsg \cup AppendEntriesResponseMsg

\* What runs when the outstanding batch is durable: the reply closures send a
\* message and may re-arm the election timer, the others are named for their
\* function.
Reply(rearm, message) == [kind |-> "reply", rearm |-> rearm, message |-> message]
Resume(kind) == [kind |-> kind, rearm |-> FALSE, message |-> Nil]
Continuation ==
  [kind : {"reply", "begin_election", "become_leader", "on_client_request",
           "maybe_advance_commit"},
   rearm : BOOLEAN, message : Message \cup {Nil}]
PendingStorage == [batch : PersistBatch, after_success : Continuation]

InflightAppend == [rpc_id : Nat, last_index : Nat]
PeerProgress == [next_index : Nat, match_index : Nat,
                 inflight : InflightAppend \cup {Nil}, age : Nat]
NewProgress(next) ==
  [next_index |-> next, match_index |-> 0, inflight |-> Nil, age |-> 0]
NoPeers == [p \in Node |-> NewProgress(1)]

\* An absent value is none of the values it may stand for.
ASSUME NilAssumption ==
  Nil \notin Node \cup Command \cup HardState \cup Message \cup PendingStorage
               \cup InflightAppend

-----------------------------------------------------------------------------
(* Helpers *)

min(a, b) == IF a <= b THEN a ELSE b
max(a, b) == IF a >= b THEN a ELSE b

quorum_size == (Cardinality(Node) \div 2) + 1
IsQuorum(S) == Cardinality(S) >= quorum_size

term_at(l, i) == IF i \in 1..Len(l) THEN l[i].term ELSE 0

\* Mutant: any candidate passes for up to date.
candidate_is_up_to_date_Dropped(l, index, term) == TRUE

candidate_is_up_to_date(l, index, term) ==
  LET local_term == term_at(l, Len(l))
  IN  term > local_term \/ (term = local_term /\ index >= Len(l))

uncommitted_entry_count(n) == Len(log[n]) - commit_index[n]
\* Mutant: one entry too many.
can_append_OffByOne(n) == uncommitted_entry_count(n) <= MaxUncommitted

can_append(n) == uncommitted_entry_count(n) < MaxUncommitted
can_append_client(n) == MaxUncommitted - uncommitted_entry_count(n) > 1

\* i is the first index of the run of equal terms that ends at index at.
first_index_of_term(l, at, i) ==
  /\ i \in 1..at
  /\ \A j \in i..at : term_at(l, j) = term_at(l, at)
  /\ i > 1 => term_at(l, i - 1) # term_at(l, at)

\* i is the last index of an entry of the term, 0 when there is none.
last_index_of_term(l, term, i) ==
  /\ i \in 0..Len(l)
  /\ i > 0 => l[i].term = term
  /\ \A j \in (i + 1)..Len(l) : l[j].term # term

\* Mutant: a recovered node does not know its vote.
ApplyBatch_ForgetsVote(d, b) ==
  LET kept == IF b.truncate_from = 0 THEN d.log
              ELSE SubSeq(d.log, 1, b.truncate_from - 1)
  IN [term   |-> IF b.hard_state = Nil THEN d.term ELSE b.hard_state.term,
      vote   |-> Nil,
      log    |-> kept \o b.entries,
      commit |-> IF b.commit_index = 0 THEN d.commit ELSE b.commit_index]

\* Mutant: truncation removes one entry too many.
ApplyBatch_CutsTooMuch(d, b) ==
  LET kept == IF b.truncate_from = 0 THEN d.log
              ELSE SubSeq(d.log, 1, b.truncate_from - 2)
  IN [term   |-> IF b.hard_state = Nil THEN d.term ELSE b.hard_state.term,
      vote   |-> IF b.hard_state = Nil THEN d.vote ELSE b.hard_state.vote,
      log    |-> kept \o b.entries,
      commit |-> IF b.commit_index = 0 THEN d.commit ELSE b.commit_index]

\* The state of the WAL once a batch is part of it.
ApplyBatch(d, b) ==
  LET kept == IF b.truncate_from = 0 THEN d.log
              ELSE SubSeq(d.log, 1, b.truncate_from - 1)
  IN [term   |-> IF b.hard_state = Nil THEN d.term ELSE b.hard_state.term,
      vote   |-> IF b.hard_state = Nil THEN d.vote ELSE b.hard_state.vote,
      log    |-> kept \o b.entries,
      commit |-> IF b.commit_index = 0 THEN d.commit ELSE b.commit_index]

\* The node handles events: its process runs, storage has not failed and no
\* storage operation is outstanding.
Idle(n) == role[n] \in LiveRole /\ pending_storage[n] = Nil

-----------------------------------------------------------------------------
(* Pieces of handlers *)

begin_persist(n, batch, after) ==
  pending_storage' = [pending_storage EXCEPT
                        ![n] = [batch |-> batch, after_success |-> after]]

run_reply(n, after) ==
  /\ election_timer' = IF after.rearm THEN [election_timer EXCEPT ![n] = TRUE]
                       ELSE election_timer
  /\ msgs' = IF after.message = Nil THEN msgs ELSE msgs \cup {after.message}

\* Mutant: the reply does not wait.
persist_then_reply_Early(n, batch, after) ==
  /\ run_reply(n, after)
  /\ IF batch = EmptyBatch THEN UNCHANGED pending_storage
     ELSE begin_persist(n, batch, Reply(FALSE, Nil))

\* A reply waits for its batch, and goes out at once when there is none.
persist_then_reply(n, batch, after) ==
  IF batch = EmptyBatch
  THEN run_reply(n, after) /\ UNCHANGED pending_storage
  ELSE begin_persist(n, batch, after) /\ UNCHANGED <<election_timer, msgs>>

step_down(n, hint) ==
  /\ role' = [role EXCEPT ![n] = "follower"]
  /\ leader_hint' = [leader_hint EXCEPT ![n] = hint]
  /\ leader_ready' = [leader_ready EXCEPT ![n] = FALSE]
  /\ readiness_index' = [readiness_index EXCEPT ![n] = 0]
  /\ votes_received' = [votes_received EXCEPT ![n] = {}]
  /\ peers' = [peers EXCEPT ![n] = NoPeers]
  /\ heartbeat_timer' = [heartbeat_timer EXCEPT ![n] = FALSE]

\* The terminal state after a storage failure; waiting clients are told.
fail_storage(n) ==
  /\ role' = [role EXCEPT ![n] = "unavailable"]
  /\ leader_hint' = [leader_hint EXCEPT ![n] = Nil]
  /\ leader_ready' = [leader_ready EXCEPT ![n] = FALSE]
  /\ votes_received' = [votes_received EXCEPT ![n] = {}]
  /\ peers' = [peers EXCEPT ![n] = NoPeers]
  /\ pending_clients' = [pending_clients EXCEPT ![n] = {}]
  /\ pending_storage' = [pending_storage EXCEPT ![n] = Nil]
  /\ election_timer' = [election_timer EXCEPT ![n] = FALSE]
  /\ heartbeat_timer' = [heartbeat_timer EXCEPT ![n] = FALSE]

\* send_append for one peer: the RPC, with entries up to durable index last,
\* and the progress recorded for it.
ClampedNext(progress, last) == max(1, min(progress.next_index, last + 1))
SentLast(progress, last) ==
  min(ClampedNext(progress, last) - 1 + MaxEntriesPerRpc, last)
AppendEntriesTo(n, p, progress, last) ==
  LET next == ClampedNext(progress, last)
  IN [type |-> "AppendEntries", from |-> n, to |-> p, term |-> current_term[n],
      rpc_id |-> next_rpc_id[n][p], prev_log_index |-> next - 1,
      prev_log_term |-> term_at(log[n], next - 1),
      entries |-> SubSeq(log[n], next, SentLast(progress, last)),
      leader_commit |-> commit_index[n]]
SentProgress(n, p, progress, last) ==
  [progress EXCEPT
     !.next_index = ClampedNext(progress, last),
     !.inflight = [rpc_id |-> next_rpc_id[n][p],
                   last_index |-> SentLast(progress, last)],
     !.age = 0]

\* send_append to every peer in S that has no RPC in flight.
send_appends(n, S, progress, last) ==
  LET targets == {p \in S \ {n} : progress[p].inflight = Nil}
  IN /\ peers' = [peers EXCEPT ![n] =
                    [p \in Node |-> IF p \in targets
                                    THEN SentProgress(n, p, progress[p], last)
                                    ELSE progress[p]]]
     /\ next_rpc_id' = [next_rpc_id EXCEPT ![n] =
                          [p \in Node |-> IF p \in targets THEN @[p] + 1 ELSE @[p]]]
     /\ msgs' = msgs \cup {AppendEntriesTo(n, p, progress[p], last) : p \in targets}

\* Index c is of the leader's term and durable on a quorum.
Committable(n, progress, last, c) ==
  /\ c \in (commit_index[n] + 1)..last
  /\ term_at(log[n], c) = current_term[n]
  /\ IsQuorum({n} \cup {p \in Node \ {n} : progress[p].match_index >= c})

\* The highest committable index, if there is one, becomes the commit index
\* and is persisted; the observer certifies what was not certified before.
cannot_advance_commit(n, progress, last) ==
  \A c \in (commit_index[n] + 1)..last : ~Committable(n, progress, last, c)
maybe_advance_commit(n, progress, last) ==
  IF cannot_advance_commit(n, progress, last)
  THEN /\ pending_storage' = [pending_storage EXCEPT ![n] = Nil]
       /\ UNCHANGED <<commit_index, committed>>
  ELSE \E target \in (commit_index[n] + 1)..last :
         /\ Committable(n, progress, last, target)
         /\ \A c \in (target + 1)..last : ~Committable(n, progress, last, c)
         /\ commit_index' = [commit_index EXCEPT ![n] = target]
         /\ begin_persist(n, [EmptyBatch EXCEPT !.commit_index = target],
                          Resume("maybe_advance_commit"))
         /\ committed' = committed \o
              [i \in 1..max(0, target - Len(committed)) |->
                 [entry |-> log[n][Len(committed) + i], term |-> current_term[n]]]

\* apply_committed: the state machine reaches commit_index; the clients that
\* wait for an applied index get their replies.
apply_committed(n) ==
  /\ last_applied' = [last_applied EXCEPT ![n] = max(@, commit_index[n])]
  /\ pending_clients' = [pending_clients EXCEPT
                           ![n] = {c \in @ : c.index > commit_index[n]}]

-----------------------------------------------------------------------------
(* Timers *)

\* on_timer, election: a campaign starts and its self-vote is persisted.
begin_election(n) ==
  /\ Idle(n)
  /\ election_timer[n]
  /\ role[n] # "leader"
  /\ elections < MaxElections
  /\ elections' = elections + 1
  /\ role' = [role EXCEPT ![n] = "candidate"]
  /\ current_term' = [current_term EXCEPT ![n] = @ + 1]
  /\ voted_for' = [voted_for EXCEPT ![n] = n]
  /\ leader_hint' = [leader_hint EXCEPT ![n] = Nil]
  /\ leader_ready' = [leader_ready EXCEPT ![n] = FALSE]
  /\ readiness_index' = [readiness_index EXCEPT ![n] = 0]
  /\ votes_received' = [votes_received EXCEPT ![n] = {n}]
  /\ peers' = [peers EXCEPT ![n] = NoPeers]
  /\ election_timer' = [election_timer EXCEPT ![n] = FALSE]
  /\ heartbeat_timer' = [heartbeat_timer EXCEPT ![n] = FALSE]
  /\ begin_persist(n, [EmptyBatch EXCEPT
                         !.hard_state = [term |-> current_term[n] + 1, vote |-> n]],
                   Resume("begin_election"))
  /\ UNCHANGED <<log_vars, next_rpc_id, pending_clients, disk, msgs, ghost_vars,
                 late, faults>>

\* on_timer, election: a leader, whose timer was armed by a denied candidate of
\* its own term, lets it pass.
on_election_timer_leader(n) ==
  /\ Idle(n)
  /\ election_timer[n]
  /\ role[n] = "leader"
  /\ election_timer' = [election_timer EXCEPT ![n] = FALSE]
  /\ UNCHANGED <<hard_vars, log_vars, role_vars, peer_vars, heartbeat_timer, ghost_vars,
                 pending_clients, pending_storage, disk, msgs, bound_vars>>

\* on_timer, heartbeat: RPCs that stayed unanswered for RetryHeartbeats
\* heartbeats are given up, every idle peer is sent an RPC, the timer re-armed.
AgedProgress(progress) ==
  IF progress.inflight = Nil THEN progress
  ELSE IF progress.age + 1 >= RetryHeartbeats
       THEN [progress EXCEPT !.inflight = Nil, !.age = 0]
       ELSE [progress EXCEPT !.age = @ + 1]
on_heartbeat_timer(n) ==
  /\ Idle(n)
  /\ heartbeat_timer[n]
  /\ role[n] = "leader"
  /\ \A p \in Node : next_rpc_id[n][p] <= MaxRpc
  /\ send_appends(n, Node, [p \in Node |-> AgedProgress(peers[n][p])],
                  durable_last_log_index[n])
  /\ UNCHANGED <<hard_vars, log_vars, role_vars, timer_vars, ghost_vars,
                 pending_clients, pending_storage, disk, bound_vars>>

-----------------------------------------------------------------------------
(* Elections *)

VoteResponse(n, to, term, granted) ==
  [type |-> "RequestVoteResponse", from |-> n, to |-> to, term |-> term,
   vote_granted |-> granted]

on_request_vote_stale(n, m) ==
  /\ late < MaxLate
  /\ late' = late + 1
  /\ m.term < current_term[n]
  /\ msgs' = msgs \cup {VoteResponse(n, m.from, current_term[n], FALSE)}
  /\ UNCHANGED <<hard_vars, log_vars, role_vars, peer_vars, timer_vars, ghost_vars,
                 pending_clients, pending_storage, disk, elections, faults>>

\* Mutant: a second vote in a term.
can_vote_Always(vote, candidate) == TRUE

can_vote(vote, candidate) == vote \in {Nil, candidate}

\* Mutant: a leader deposed by a candidate it denies arms no timer.
vote_rearms_OnlyGrant(n, grant) == grant

vote_rearms(n, grant) == grant \/ role[n] = "leader"

on_request_vote_current(n, m) ==
  LET higher == m.term > current_term[n]
      vote == IF higher THEN Nil ELSE voted_for[n]
      grant == /\ can_vote(vote, m.from)
               /\ candidate_is_up_to_date(log[n], m.last_log_index, m.last_log_term)
      new_vote == IF grant THEN m.from ELSE vote
      batch == [EmptyBatch EXCEPT
                  !.hard_state = IF higher \/ new_vote # vote
                                 THEN [term |-> m.term, vote |-> new_vote]
                                 ELSE Nil]
  IN /\ m.term >= current_term[n]
     /\ IF higher THEN step_down(n, Nil)
        ELSE UNCHANGED <<role_vars, peers, heartbeat_timer>>
     /\ current_term' = [current_term EXCEPT ![n] = m.term]
     /\ voted_for' = [voted_for EXCEPT ![n] = new_vote]
     /\ persist_then_reply(n, batch,
          Reply(vote_rearms(n, grant),
                VoteResponse(n, m.from, m.term, grant)))
     /\ UNCHANGED <<log_vars, next_rpc_id, ghost_vars, pending_clients, disk, bound_vars>>

on_request_vote(n, m) ==
  /\ m.type = "RequestVote"
  /\ Idle(n)
  /\ on_request_vote_stale(n, m) \/ on_request_vote_current(n, m)

\* A response of a higher term makes the node a follower of that term.
on_higher_term_response(n, m) ==
  /\ m.term > current_term[n]
  /\ step_down(n, Nil)
  /\ current_term' = [current_term EXCEPT ![n] = m.term]
  /\ voted_for' = [voted_for EXCEPT ![n] = Nil]
  /\ begin_persist(n, [EmptyBatch EXCEPT
                         !.hard_state = [term |-> m.term, vote |-> Nil]],
                   Reply(TRUE, Nil))
  /\ UNCHANGED <<log_vars, next_rpc_id, election_timer, ghost_vars,
                 pending_clients, disk, msgs, bound_vars>>

\* The winner of an election appends and persists a no-op of its term, unless
\* the uncommitted suffix is at its bound: then it is a follower again.
become_leader(n) ==
  /\ elected' = elected \cup {<<current_term[n], n>>}
  /\ leader_ready' = [leader_ready EXCEPT ![n] = FALSE]
  /\ votes_received' = [votes_received EXCEPT ![n] = {}]
  /\ IF can_append(n)
     THEN LET no_op == [term |-> current_term[n], command |-> Nil]
          IN /\ role' = [role EXCEPT ![n] = "leader"]
             /\ leader_hint' = [leader_hint EXCEPT ![n] = n]
             /\ election_timer' = [election_timer EXCEPT ![n] = FALSE]
             /\ peers' = [peers EXCEPT ![n] =
                  [p \in Node |-> NewProgress(durable_last_log_index[n] + 1)]]
             /\ log' = [log EXCEPT ![n] = Append(@, no_op)]
             /\ readiness_index' = [readiness_index EXCEPT ![n] = Len(log[n]) + 1]
             /\ begin_persist(n, [EmptyBatch EXCEPT !.entries = <<no_op>>],
                              Resume("become_leader"))
     ELSE /\ role' = [role EXCEPT ![n] = "follower"]
          /\ leader_hint' = [leader_hint EXCEPT ![n] = Nil]
          /\ election_timer' = [election_timer EXCEPT ![n] = TRUE]
          /\ peers' = [peers EXCEPT ![n] = NoPeers]
          /\ readiness_index' = [readiness_index EXCEPT ![n] = 0]
          /\ UNCHANGED <<log, pending_storage>>

receive_vote(n, m) ==
  LET votes == votes_received[n] \cup {m.from}
  IN /\ role[n] = "candidate"
     /\ m.term = current_term[n]
     /\ m.vote_granted
     /\ IF IsQuorum(votes)
        THEN become_leader(n)
        ELSE /\ votes_received' = [votes_received EXCEPT ![n] = votes]
             /\ UNCHANGED <<role, leader_hint, leader_ready, readiness_index, log,
                            peers, election_timer, pending_storage, elected>>
     /\ UNCHANGED <<hard_vars, commit_index, last_applied, durable_last_log_index,
                    next_rpc_id, heartbeat_timer, committed, pending_clients, disk,
                    msgs, bound_vars>>

on_request_vote_response(n, m) ==
  /\ m.type = "RequestVoteResponse"
  /\ Idle(n)
  /\ on_higher_term_response(n, m) \/ receive_vote(n, m)

-----------------------------------------------------------------------------
(* Replication *)

AppendResponse(n, m, term, success, match, conflict_index, conflict_term) ==
  [type |-> "AppendEntriesResponse", from |-> n, to |-> m.from, term |-> term,
   rpc_id |-> m.rpc_id, success |-> success, match_index |-> match,
   conflict_index |-> conflict_index, conflict_term |-> conflict_term]

on_append_entries_stale(n, m) ==
  /\ late < MaxLate
  /\ late' = late + 1
  /\ m.term < current_term[n]
  /\ msgs' = msgs \cup
       {AppendResponse(n, m, current_term[n], FALSE, 0, Len(log[n]) + 1, 0)}
  /\ UNCHANGED <<hard_vars, log_vars, role_vars, peer_vars, timer_vars, ghost_vars,
                 pending_clients, pending_storage, disk, elections, faults>>

\* The sender is the leader of the message's term.
adopt_leader(n, m) ==
  IF m.term > current_term[n] \/ role[n] # "follower"
  THEN step_down(n, m.from)
  ELSE /\ leader_hint' = [leader_hint EXCEPT ![n] = m.from]
       /\ UNCHANGED <<role, leader_ready, readiness_index, votes_received, peers,
                      heartbeat_timer>>
adopt_term(n, term) ==
  /\ current_term' = [current_term EXCEPT ![n] = term]
  /\ voted_for' = [voted_for EXCEPT ![n] = IF term > current_term[n] THEN Nil ELSE @]

\* Mutant: the new term is not in the batch.
AdoptedHardState_Forgotten(n, term) == Nil

AdoptedHardState(n, term) ==
  IF term > current_term[n] THEN [term |-> term, vote |-> Nil] ELSE Nil

entries_valid(m) ==
  /\ Len(m.entries) <= MaxEntriesPerRpc
  /\ \A i \in 1..Len(m.entries) : m.entries[i].term \in 1..m.term
missing(n, m) == ~entries_valid(m) \/ m.prev_log_index > Len(log[n])

\* Mutant: the term of the previous entry is not compared.
mismatch_Never(n, m) == FALSE

mismatch(n, m) ==
  ~missing(n, m) /\ term_at(log[n], m.prev_log_index) # m.prev_log_term

on_append_entries_reject(n, m) ==
  LET batch == [EmptyBatch EXCEPT !.hard_state = AdoptedHardState(n, m.term)]
  IN /\ m.term >= current_term[n]
     /\ adopt_term(n, m.term)
     /\ adopt_leader(n, m)
     /\ \/ /\ missing(n, m)
           /\ persist_then_reply(n, batch, Reply(TRUE,
                AppendResponse(n, m, m.term, FALSE, 0, Len(log[n]) + 1, 0)))
        \/ /\ mismatch(n, m)
           /\ \E first \in 1..m.prev_log_index :
                /\ first_index_of_term(log[n], m.prev_log_index, first)
                /\ persist_then_reply(n, batch, Reply(TRUE,
                     AppendResponse(n, m, m.term, FALSE, 0, first,
                                    term_at(log[n], m.prev_log_index))))
     /\ UNCHANGED <<log_vars, next_rpc_id, ghost_vars, pending_clients, disk, bound_vars>>

\* The first k entries of the message are in the log and the next one is not.
incoming(n, m, k) ==
  LET held(i) == /\ m.prev_log_index + i <= Len(log[n])
                 /\ log[n][m.prev_log_index + i] = m.entries[i]
  IN (\A i \in 1..k : held(i)) /\ (k < Len(m.entries) => ~held(k + 1))

\* Mutant: the waiters of removed entries stay.
remove_pending_from_Dropped(n, index) == pending_clients

remove_pending_from(n, index) ==
  [pending_clients EXCEPT ![n] = {c \in @ : c.index < index}]

learned_commit(m, match) == min(m.leader_commit, match)

on_append_entries_accept(n, m) ==
  /\ m.term >= current_term[n]
  /\ ~missing(n, m) /\ ~mismatch(n, m)
  /\ adopt_term(n, m.term)
  /\ \E k \in 0..Len(m.entries) :
     LET at == m.prev_log_index + k + 1
         new == SubSeq(m.entries, k + 1, Len(m.entries))
         truncates == new # << >> /\ at <= Len(log[n])
         match == m.prev_log_index + Len(m.entries)
         new_commit == learned_commit(m, match)
         batch == [hard_state    |-> AdoptedHardState(n, m.term),
                   truncate_from |-> IF truncates THEN at ELSE 0,
                   entries       |-> new,
                   commit_index  |-> IF new_commit > commit_index[n]
                                     THEN new_commit ELSE 0]
     IN /\ incoming(n, m, k)
        /\ IF new # << >> /\ at <= commit_index[n]
           THEN \* an attempt to overwrite a committed entry
                /\ fail_storage(n)
                /\ readiness_index' = [readiness_index EXCEPT ![n] = 0]
                /\ UNCHANGED <<log, commit_index, msgs>>
           ELSE /\ adopt_leader(n, m)
                /\ log' = [log EXCEPT ![n] =
                             IF new = << >> THEN @ ELSE SubSeq(@, 1, at - 1) \o new]
                /\ pending_clients' = IF truncates THEN remove_pending_from(n, at)
                                       ELSE pending_clients
                /\ commit_index' = [commit_index EXCEPT ![n] = max(@, new_commit)]
                /\ persist_then_reply(n, batch, Reply(TRUE,
                     AppendResponse(n, m, m.term, TRUE, match, 0, 0)))
  /\ UNCHANGED <<last_applied, durable_last_log_index, next_rpc_id, ghost_vars,
                 disk, bound_vars>>

on_append_entries(n, m) ==
  /\ m.type = "AppendEntries"
  /\ Idle(n)
  /\ \/ on_append_entries_stale(n, m)
     \/ on_append_entries_reject(n, m)
     \/ on_append_entries_accept(n, m)

\* A success confirms the RPC in flight: the commit index moves, or the peer is
\* sent the entries it still lacks.
on_append_success(n, p, m) ==
  LET sent == peers[n][p].inflight
      idle == [peers[n][p] EXCEPT !.inflight = Nil, !.age = 0]
      match == max(idle.match_index, sent.last_index)
      confirmed == m.match_index >= sent.last_index
      progress == [peers[n] EXCEPT ![p] =
                     IF confirmed
                     THEN [idle EXCEPT !.match_index = match, !.next_index = match + 1]
                     ELSE idle]
      last == durable_last_log_index[n]
      lacks == confirmed /\ cannot_advance_commit(n, progress, last) /\ match < last
  IN /\ IF confirmed THEN maybe_advance_commit(n, progress, last)
        ELSE UNCHANGED <<commit_index, committed, pending_storage>>
     /\ send_appends(n, IF lacks THEN {p} ELSE {}, progress, last)

\* A failure moves next_index to where the logs may agree and retries.
on_append_failure(n, p, m) ==
  \E matching \in 0..Len(log[n]) :
    LET old == peers[n][p]
        last == durable_last_log_index[n]
        hinted == IF m.conflict_term # 0 /\ matching > 0
                  THEN matching + 1 ELSE m.conflict_index
        back == IF hinted = 0 THEN max(1, old.next_index - 1) ELSE hinted
        next == max(min(back, last + 1), old.match_index + 1)
    IN /\ last_index_of_term(log[n], m.conflict_term, matching)
       /\ send_appends(n, {p},
            [peers[n] EXCEPT ![p] = [old EXCEPT !.next_index = next,
                                                !.inflight = Nil, !.age = 0]],
            last)
       /\ UNCHANGED <<commit_index, committed, pending_storage>>

on_append_entries_response(n, m) ==
  /\ m.type = "AppendEntriesResponse"
  /\ Idle(n)
  /\ \/ on_higher_term_response(n, m)
     \/ /\ role[n] = "leader"
        /\ m.term = current_term[n]
        /\ peers[n][m.from].inflight # Nil
        /\ peers[n][m.from].inflight.rpc_id = m.rpc_id
        /\ IF m.success THEN on_append_success(n, m.from, m)
           ELSE on_append_failure(n, m.from, m)
        /\ UNCHANGED <<hard_vars, log, last_applied, durable_last_log_index,
                       role_vars, timer_vars, elected, pending_clients, disk, bound_vars>>

\* A command the ready leader admits is appended and persisted.
on_client_request(n, command) ==
  LET entry == [term |-> current_term[n], command |-> command]
  IN /\ Idle(n)
     /\ role[n] = "leader"
     /\ leader_ready[n]
     /\ can_append_client(n)
     /\ Len(log[n]) < MaxLog
     /\ log' = [log EXCEPT ![n] = Append(@, entry)]
     /\ pending_clients' = [pending_clients EXCEPT ![n] =
                              @ \cup {[index |-> Len(log[n]) + 1, command |-> command]}]
     /\ begin_persist(n, [EmptyBatch EXCEPT !.entries = <<entry>>],
                      Resume("on_client_request"))
     /\ UNCHANGED <<hard_vars, commit_index, last_applied, durable_last_log_index,
                    role_vars, peer_vars, timer_vars, ghost_vars, disk, msgs, bound_vars>>

-----------------------------------------------------------------------------
(* Storage *)

\* The outstanding batch is durable.
Durable(n) ==
  LET batch == pending_storage[n].batch
  IN /\ disk' = [disk EXCEPT ![n] = ApplyBatch(@, batch)]
     /\ durable_last_log_index' =
          IF batch.truncate_from # 0 \/ batch.entries # << >>
          THEN [durable_last_log_index EXCEPT ![n] = Len(log[n])]
          ELSE durable_last_log_index

Resumes(n, kind) ==
  /\ role[n] \in LiveRole
  /\ pending_storage[n] # Nil
  /\ pending_storage[n].after_success.kind = kind

\* on_storage_complete, the closures that reply; a follower that learned a
\* commit index applies it first.
complete_reply(n) ==
  /\ Resumes(n, "reply")
  /\ Durable(n)
  /\ IF pending_storage[n].batch.commit_index # 0
     THEN apply_committed(n)
     ELSE UNCHANGED <<last_applied, pending_clients>>
  /\ run_reply(n, pending_storage[n].after_success)
  /\ pending_storage' = [pending_storage EXCEPT ![n] = Nil]
  /\ UNCHANGED <<hard_vars, log, commit_index, role_vars, peer_vars,
                 heartbeat_timer, ghost_vars, bound_vars>>

\* Mutant: the position of the last entry, counted from zero.
VoteRequest_OffByOne(n, p) ==
  [type |-> "RequestVote", from |-> n, to |-> p, term |-> current_term[n],
   last_log_index |-> durable_last_log_index[n] - 1,
   last_log_term |-> term_at(log[n], durable_last_log_index[n])]

VoteRequest(n, p) ==
  [type |-> "RequestVote", from |-> n, to |-> p, term |-> current_term[n],
   last_log_index |-> durable_last_log_index[n],
   last_log_term |-> term_at(log[n], durable_last_log_index[n])]

\* The candidate's self-vote is durable: it asks for votes.
complete_election(n) ==
  /\ Resumes(n, "begin_election")
  /\ Durable(n)
  /\ election_timer' = [election_timer EXCEPT ![n] = TRUE]
  /\ msgs' = msgs \cup {VoteRequest(n, p) : p \in Node \ {n}}
  /\ pending_storage' = [pending_storage EXCEPT ![n] = Nil]
  /\ UNCHANGED <<hard_vars, log, commit_index, last_applied, role_vars, peer_vars,
                 heartbeat_timer, ghost_vars, pending_clients, bound_vars>>

\* Mutant: a leader is ready once its no-op is on its own medium.
complete_append_Ready(n) ==
  LET last == Len(log[n])
  IN /\ Resumes(n, "become_leader") \/ Resumes(n, "on_client_request")
     /\ Durable(n)
     /\ send_appends(n, Node, peers[n], last)
     /\ heartbeat_timer' = IF Resumes(n, "become_leader")
                           THEN [heartbeat_timer EXCEPT ![n] = TRUE]
                           ELSE heartbeat_timer
     /\ leader_ready' = [leader_ready EXCEPT ![n] = TRUE]
     /\ maybe_advance_commit(n, peers[n], last)
     /\ UNCHANGED <<hard_vars, log, last_applied, role, leader_hint, readiness_index,
                    votes_received, election_timer, elected,
                    pending_clients, bound_vars>>

\* The leader's new entry is durable: it is sent, and it may be committed.
complete_append(n) ==
  LET last == Len(log[n])
  IN /\ Resumes(n, "become_leader") \/ Resumes(n, "on_client_request")
     /\ Durable(n)
     /\ send_appends(n, Node, peers[n], last)
     /\ heartbeat_timer' = IF Resumes(n, "become_leader")
                           THEN [heartbeat_timer EXCEPT ![n] = TRUE]
                           ELSE heartbeat_timer
     /\ maybe_advance_commit(n, peers[n], last)
     /\ UNCHANGED <<hard_vars, log, last_applied, role_vars, election_timer, elected,
                    pending_clients, bound_vars>>

\* The leader's commit index is durable: it applies, may become ready, and
\* tells its peers.
complete_commit(n) ==
  /\ Resumes(n, "maybe_advance_commit")
  /\ Durable(n)
  /\ apply_committed(n)
  /\ leader_ready' = IF readiness_index[n] # 0 /\ commit_index[n] >= readiness_index[n]
                     THEN [leader_ready EXCEPT ![n] = TRUE]
                     ELSE leader_ready
  /\ send_appends(n, Node, peers[n], durable_last_log_index[n])
  /\ pending_storage' = [pending_storage EXCEPT ![n] = Nil]
  /\ UNCHANGED <<hard_vars, log, commit_index, role, leader_hint, readiness_index,
                 votes_received, timer_vars, ghost_vars, bound_vars>>

\* A failed operation; its frame may nevertheless be on the medium.
on_storage_failure(n) ==
  /\ role[n] \in LiveRole
  /\ pending_storage[n] # Nil
  /\ faults < MaxFaults
  /\ faults' = faults + 1
  /\ fail_storage(n)
  /\ disk' \in {disk, [disk EXCEPT ![n] = ApplyBatch(@, pending_storage[n].batch)]}
  /\ UNCHANGED <<hard_vars, log_vars, readiness_index, next_rpc_id, msgs, ghost_vars,
                 elections, late>>

on_storage_complete(n) ==
  \/ complete_reply(n) \/ complete_election(n) \/ complete_append(n)
  \/ complete_commit(n) \/ on_storage_failure(n)

-----------------------------------------------------------------------------
(* Crash and restart *)

\* A crash loses memory.  The frame of an outstanding batch may have reached
\* the medium in full; if not, recovery cuts it off.
crash(n) ==
  /\ role[n] # "down"
  /\ faults < MaxFaults
  /\ faults' = faults + 1
  /\ disk' \in IF pending_storage[n] = Nil THEN {disk}
               ELSE {disk, [disk EXCEPT ![n] = ApplyBatch(@, pending_storage[n].batch)]}
  /\ role' = [role EXCEPT ![n] = "down"]
  /\ current_term' = [current_term EXCEPT ![n] = 0]
  /\ voted_for' = [voted_for EXCEPT ![n] = Nil]
  /\ log' = [log EXCEPT ![n] = << >>]
  /\ commit_index' = [commit_index EXCEPT ![n] = 0]
  /\ last_applied' = [last_applied EXCEPT ![n] = 0]
  /\ durable_last_log_index' = [durable_last_log_index EXCEPT ![n] = 0]
  /\ leader_hint' = [leader_hint EXCEPT ![n] = Nil]
  /\ leader_ready' = [leader_ready EXCEPT ![n] = FALSE]
  /\ readiness_index' = [readiness_index EXCEPT ![n] = 0]
  /\ votes_received' = [votes_received EXCEPT ![n] = {}]
  /\ peers' = [peers EXCEPT ![n] = NoPeers]
  /\ next_rpc_id' = [next_rpc_id EXCEPT ![n] = [p \in Node |-> 1]]
  /\ pending_clients' = [pending_clients EXCEPT ![n] = {}]
  /\ pending_storage' = [pending_storage EXCEPT ![n] = Nil]
  /\ election_timer' = [election_timer EXCEPT ![n] = FALSE]
  /\ heartbeat_timer' = [heartbeat_timer EXCEPT ![n] = FALSE]
  /\ UNCHANGED <<msgs, ghost_vars, elections, late>>

\* A new process: the constructor recovers from the WAL and replays the
\* committed prefix, start() arms the election timer.
restart(n) ==
  /\ role[n] = "down"
  /\ role' = [role EXCEPT ![n] = "follower"]
  /\ current_term' = [current_term EXCEPT ![n] = disk[n].term]
  /\ voted_for' = [voted_for EXCEPT ![n] = disk[n].vote]
  /\ log' = [log EXCEPT ![n] = disk[n].log]
  /\ commit_index' = [commit_index EXCEPT ![n] = disk[n].commit]
  /\ last_applied' = [last_applied EXCEPT ![n] = disk[n].commit]
  /\ durable_last_log_index' = [durable_last_log_index EXCEPT ![n] = Len(disk[n].log)]
  /\ election_timer' = [election_timer EXCEPT ![n] = TRUE]
  /\ UNCHANGED <<leader_hint, leader_ready, readiness_index, votes_received, peer_vars,
                 heartbeat_timer, ghost_vars, pending_clients, pending_storage, disk,
                 msgs, bound_vars>>

-----------------------------------------------------------------------------
(* Specification *)

\* Every member has been started on an empty WAL.
Init ==
  /\ role = [n \in Node |-> "follower"]
  /\ current_term = [n \in Node |-> 0]
  /\ voted_for = [n \in Node |-> Nil]
  /\ log = [n \in Node |-> << >>]
  /\ commit_index = [n \in Node |-> 0]
  /\ last_applied = [n \in Node |-> 0]
  /\ durable_last_log_index = [n \in Node |-> 0]
  /\ leader_hint = [n \in Node |-> Nil]
  /\ leader_ready = [n \in Node |-> FALSE]
  /\ readiness_index = [n \in Node |-> 0]
  /\ votes_received = [n \in Node |-> {}]
  /\ peers = [n \in Node |-> NoPeers]
  /\ next_rpc_id = [n \in Node |-> [p \in Node |-> 1]]
  /\ pending_clients = [n \in Node |-> {}]
  /\ pending_storage = [n \in Node |-> Nil]
  /\ election_timer = [n \in Node |-> TRUE]
  /\ heartbeat_timer = [n \in Node |-> FALSE]
  /\ disk = [n \in Node |-> [term |-> 0, vote |-> Nil, log |-> << >>, commit |-> 0]]
  /\ msgs = {}
  /\ elected = {}
  /\ committed = << >>
  /\ elections = 0
  /\ late = 0
  /\ faults = 0

on_message(n, m) ==
  \/ on_request_vote(n, m)
  \/ on_request_vote_response(n, m)
  \/ on_append_entries(n, m)
  \/ on_append_entries_response(n, m)

Next ==
  \/ \E m \in msgs : on_message(m.to, m)
  \/ \E n \in Node :
       \/ begin_election(n)
       \/ on_election_timer_leader(n)
       \/ on_heartbeat_timer(n)
       \/ \E c \in Command : on_client_request(n, c)
       \/ on_storage_complete(n)
       \/ crash(n)
       \/ restart(n)

Spec == Init /\ [][Next]_vars

-----------------------------------------------------------------------------
(* Properties *)

TypeOK ==
  /\ role \in [Node -> Role]
  /\ current_term \in [Node -> Nat]
  /\ voted_for \in [Node -> Node \cup {Nil}]
  /\ log \in [Node -> Seq(Entry)]
  /\ commit_index \in [Node -> Nat]
  /\ last_applied \in [Node -> Nat]
  /\ durable_last_log_index \in [Node -> Nat]
  /\ leader_hint \in [Node -> Node \cup {Nil}]
  /\ leader_ready \in [Node -> BOOLEAN]
  /\ readiness_index \in [Node -> Nat]
  /\ votes_received \in [Node -> SUBSET Node]
  /\ peers \in [Node -> [Node -> PeerProgress]]
  /\ next_rpc_id \in [Node -> [Node -> Nat]]
  /\ pending_clients \in [Node -> SUBSET [index : Nat, command : Command]]
  /\ pending_storage \in [Node -> PendingStorage \cup {Nil}]
  /\ election_timer \in [Node -> BOOLEAN]
  /\ heartbeat_timer \in [Node -> BOOLEAN]
  /\ disk \in [Node -> DiskState]
  /\ msgs \subseteq Message
  /\ elected \subseteq Nat \X Node
  /\ committed \in Seq([entry : Entry, term : Nat])
  /\ elections \in Nat
  /\ late \in Nat
  /\ faults \in Nat

\* At most one node ever becomes leader of a term, crashed leaders included.
ElectionSafety ==
  \A e1, e2 \in elected : e1[1] = e2[1] => e1 = e2

\* A running node's memory is exactly what its WAL recovers to once the
\* outstanding batch, if any, is in it; entries count as durable and are
\* applied only when the WAL has them.  So whatever a node sends when its
\* storage operation has completed (RaftNode::on_storage_complete) rests on
\* state that a crash cannot take back.
MemoryIsDurable ==
  \A n \in Node : role[n] \in LiveRole =>
    /\ [term |-> current_term[n], vote |-> voted_for[n],
        log |-> log[n], commit |-> commit_index[n]] =
         IF pending_storage[n] = Nil THEN disk[n]
         ELSE ApplyBatch(disk[n], pending_storage[n].batch)
    /\ durable_last_log_index[n] = Len(disk[n].log)
    /\ last_applied[n] = disk[n].commit

\* Logs that agree on the term of an index agree up to it, on every medium.
LogMatching ==
  \A m, n \in Node :
    \A i \in 1..min(Len(disk[m].log), Len(disk[n].log)) :
      disk[m].log[i].term = disk[n].log[i].term =>
        SubSeq(disk[m].log, 1, i) = SubSeq(disk[n].log, 1, i)

Holds(l, i, entry) == i <= Len(l) /\ l[i] = entry

\* Every leader of a later or the same term has every certified entry.
LeaderCompleteness ==
  \A n \in Node : role[n] = "leader" =>
    \A i \in 1..Len(committed) :
      committed[i].term <= current_term[n] => Holds(log[n], i, committed[i].entry)

\* A leader accepts commands only after it has applied everything any earlier
\* leader committed.
ReadyLeaderIsCurrent ==
  \A n \in Node : leader_ready[n] =>
    \A i \in 1..Len(committed) :
      committed[i].term < current_term[n] => last_applied[n] >= i

\* A reply given when index i is applied answers the command at index i.
PendingClientsMatchLog ==
  \A n \in Node : \A c \in pending_clients[n] :
    c.index <= Len(log[n]) /\ log[n][c.index].command = c.command

\* What a leader counts as replicated is on the peer's medium, as long as the
\* peer is in the leader's term: retries, late and duplicated answers included.
MatchIsDurable ==
  \A n \in Node, p \in Node :
    (role[n] = "leader" /\ p # n /\ disk[p].term = current_term[n]) =>
      LET match == peers[n][p].match_index
      IN /\ match <= durable_last_log_index[n]
         /\ match <= Len(disk[p].log)
         /\ SubSeq(disk[p].log, 1, match) = SubSeq(log[n], 1, match)

\* However far a node's knowledge of the commit index lags, its uncommitted
\* suffix stays within max_uncommitted_entries: leaders check before they
\* append, followers rely on the leader's check.
UncommittedBounded ==
  \A n \in Node : role[n] \in LiveRole => uncommitted_entry_count(n) <= MaxUncommitted

\* No running node is stranded: a leader keeps its heartbeat, any other node
\* has a live election timer, or the outstanding storage operation ends by
\* arming one.
TimerOwned ==
  \A n \in Node : role[n] \in LiveRole =>
    LET after == pending_storage[n].after_success
    IN IF role[n] = "leader"
       THEN heartbeat_timer[n] \/ (pending_storage[n] # Nil /\ after.kind = "become_leader")
       ELSE \/ election_timer[n]
            \/ pending_storage[n] # Nil /\ (after.rearm \/ after.kind = "begin_election")

\* A node stops serving only because a storage operation failed, never because
\* a leader tried to overwrite what the node knows to be committed.
OnlyStorageStopsNode ==
  [][\A n \in Node : role[n] \in LiveRole /\ role'[n] = "unavailable"
                       => pending_storage[n] # Nil]_vars

\* On a medium the term never decreases and a vote stays for its term, whatever
\* crashes and failed writes leave behind (begin_election, on_request_vote).
HardStateNeverRegresses ==
  [][\A n \in Node :
       /\ disk'[n].term >= disk[n].term
       /\ disk'[n].term = disk[n].term => disk[n].vote \in {Nil, disk'[n].vote}]_vars

=============================================================================
