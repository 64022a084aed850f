----------------------------- MODULE RaftProofs -----------------------------
(***************************************************************************)
(* Proofs about Raft, second part: every handler, storage completion,      *)
(* crash and restart preserves the local invariant of a node; and with it  *)
(* the theorems on types, on memory and medium, and on the hard state.     *)
(* Then one leader per term: a vote is on the voter's medium before a      *)
(* message reveals it, a medium holds one vote per term, a winner has the  *)
(* votes of a quorum, and two quorums share a voter.                       *)
(***************************************************************************)
EXTENDS RaftBaseProofs

\* The leaves are proved with Zenon unless they cite another prover.
USE Zenon

-----------------------------------------------------------------------------
(* Operators *)

LEMMA NoHardState == [EmptyBatch EXCEPT !.hard_state = Nil] = EmptyBatch
  BY SMT DEF EmptyBatch

LEMMA CommitBatch ==
  ASSUME NEW c \in Nat, NEW b, b = [EmptyBatch EXCEPT !.commit_index = c]
  PROVE  /\ b \in PersistBatch
         /\ b.hard_state = Nil /\ b.truncate_from = 0
         /\ b.entries = << >> /\ b.commit_index = c
<1>1. /\ EmptyBatch.truncate_from = 0 /\ EmptyBatch.entries = << >>
      /\ EmptyBatch.hard_state = Nil
  BY DEF EmptyBatch
<1> QED
  BY <1>1, EmptyBatchType DEF PersistBatch

LEMMA NewProgressType ==
  ASSUME NEW next \in Nat
  PROVE  NewProgress(next) \in PeerProgress
  BY DEF NewProgress, PeerProgress

LEMMA NoPeersType == NoPeers \in [Node -> PeerProgress]
  BY NewProgressType DEF NoPeers

LEMMA AppendEntriesToType ==
  ASSUME TypeOK, NEW n \in Node, NEW p \in Node, NEW progress \in PeerProgress,
         NEW last \in Nat, last = Len(log[n])
  PROVE  /\ AppendEntriesTo(n, p, progress, last) \in AppendEntriesMsg
         /\ SentProgress(n, p, progress, last) \in PeerProgress
<1> DEFINE next == ClampedNext(progress, last)
           sent == SentLast(progress, last)
<1>1. next \in Nat /\ next >= 1 /\ next <= last + 1
  BY SMT DEF ClampedNext, min, max, PeerProgress
<1>2. sent \in Nat /\ sent <= last
  BY <1>1, BoundAssumption, SMT DEF SentLast, min
<1>3. log[n] \in Seq(Entry) /\ current_term[n] \in Nat /\ commit_index[n] \in Nat
      /\ next_rpc_id[n][p] \in Nat
  BY VariableTypes
<1>4. SubSeq(log[n], next, sent) \in Seq(Entry)
  BY <1>1, <1>2, <1>3, SubSeqType, SMT
<1>5. term_at(log[n], next - 1) \in Nat
  <2>1. next - 1 \in Int
    BY <1>1, SMT
  <2> HIDE DEF next
  <2> QED
    BY <2>1, <1>3, TermAtType
<1>6. AppendEntriesTo(n, p, progress, last) \in AppendEntriesMsg
  <2> HIDE DEF next, sent
  <2>1. next - 1 \in Nat
    BY <1>1, SMT
  <2> QED
    BY <1>3, <1>4, <1>5, <2>1 DEF AppendEntriesTo, AppendEntriesMsg, next, sent
<1>7. SentProgress(n, p, progress, last) \in PeerProgress
  <2> HIDE DEF next, sent
  <2> QED
    BY <1>1, <1>2, <1>3 DEF SentProgress, PeerProgress, InflightAppend, next, sent
<1> QED
  BY <1>6, <1>7

LEMMA SendAppendsType ==
  ASSUME TypeOK, NEW n \in Node, NEW S \in SUBSET Node,
         NEW progress \in [Node -> PeerProgress],
         NEW last \in Nat, last = Len(log[n]),
         send_appends(n, S, progress, last)
  PROVE  /\ peers' \in [Node -> [Node -> PeerProgress]]
         /\ next_rpc_id' \in [Node -> [Node -> Nat]]
         /\ msgs' \subseteq Message
<1> DEFINE targets == {p \in S \ {n} : progress[p].inflight = Nil}
<1>1. \A p \in Node : /\ AppendEntriesTo(n, p, progress[p], last) \in Message
                      /\ SentProgress(n, p, progress[p], last) \in PeerProgress
  BY AppendEntriesToType DEF Message
<1>2. peers' \in [Node -> [Node -> PeerProgress]]
  <2>1. [p \in Node |-> IF p \in targets THEN SentProgress(n, p, progress[p], last)
                       ELSE progress[p]] \in [Node -> PeerProgress]
    BY <1>1
  <2> QED
    BY <2>1, VariableTypes DEF send_appends
<1>3. next_rpc_id' \in [Node -> [Node -> Nat]]
  <2>1. next_rpc_id[n] \in [Node -> Nat]
    BY VariableTypes
  <2>2. [p \in Node |-> IF p \in targets THEN next_rpc_id[n][p] + 1
                       ELSE next_rpc_id[n][p]] \in [Node -> Nat]
    BY <2>1, SMT
  <2> QED
    BY <2>2, VariableTypes DEF send_appends
<1>4. msgs' \subseteq Message
  BY <1>1, VariableTypes DEF send_appends
<1> QED
  BY <1>2, <1>3, <1>4

LEMMA PersistThenReplyType ==
  ASSUME TypeOK, NEW n \in Node, NEW batch \in PersistBatch,
         NEW rearm \in BOOLEAN, NEW message \in Message \cup {Nil},
         persist_then_reply(n, batch, Reply(rearm, message))
  PROVE  /\ pending_storage' \in [Node -> PendingStorage \cup {Nil}]
         /\ election_timer' \in [Node -> BOOLEAN]
         /\ msgs' \subseteq Message
<1>1. Reply(rearm, message) \in Continuation
  BY DEF Reply, Continuation
<1>2. Reply(rearm, message).rearm = rearm /\ Reply(rearm, message).message = message
  BY DEF Reply
<1>3. CASE batch = EmptyBatch
  BY <1>2, <1>3, VariableTypes DEF persist_then_reply, run_reply
<1>4. CASE batch # EmptyBatch
  <2>1. [batch |-> batch, after_success |-> Reply(rearm, message)] \in PendingStorage
    BY <1>1 DEF PendingStorage
  <2> QED
    BY <1>4, <2>1, VariableTypes DEF persist_then_reply, begin_persist
<1> QED
  BY <1>3, <1>4

LEMMA StepDownType ==
  ASSUME TypeOK, NEW n \in Node, NEW hint \in Node \cup {Nil}, step_down(n, hint)
  PROVE  /\ role' \in [Node -> Role]
         /\ leader_hint' \in [Node -> Node \cup {Nil}]
         /\ leader_ready' \in [Node -> BOOLEAN]
         /\ readiness_index' \in [Node -> Nat]
         /\ votes_received' \in [Node -> SUBSET Node]
         /\ peers' \in [Node -> [Node -> PeerProgress]]
         /\ heartbeat_timer' \in [Node -> BOOLEAN]
  BY NoPeersType, VariableTypes DEF step_down, Role, LiveRole

-----------------------------------------------------------------------------
(* Type correctness and the local invariant, action by action *)

LEMMA LocalStep ==
  ASSUME LocalInv, NEW n \in Node, OthersKept(n),
         Live(n)' => NodeInv(n)', ShapeInv(n)', CandidateInv(n)'
  PROVE  LocalInv'
<1> SUFFICES ASSUME NEW q \in Node
             PROVE  /\ Live(q)' => NodeInv(q)'
                    /\ ShapeInv(q)'
                    /\ CandidateInv(q)'
  BY DEF LocalInv
<1>1. CASE q = n
  BY <1>1
<1>2. CASE q # n
  <2>1. /\ Live(q) => NodeInv(q)
        /\ ShapeInv(q)
        /\ CandidateInv(q)
    BY DEF LocalInv
  <2> QED
    BY <1>2, <2>1 DEF OthersKept, Live, Kind, NodeInv, ShapeInv, CandidateInv
<1> QED
  BY <1>1, <1>2

LEMMA BeginElectionLocal ==
  ASSUME TypeOK, LocalInv, NEW n \in Node, begin_election(n)
  PROVE  TypeOK' /\ LocalInv'
<1> DEFINE hs == [term |-> current_term[n] + 1, vote |-> n]
           batch == [EmptyBatch EXCEPT !.hard_state = hs]
           after == Resume("begin_election")
<1>1. hs \in HardState /\ hs # Nil /\ hs.term = current_term[n] + 1 /\ hs.vote = n
  BY NilAssumption, VariableTypes, SMTT(30) DEF HardState
<1>3. after \in Continuation /\ after.kind = "begin_election"
  BY DEF Resume, Continuation
<1>4. pending_storage' = [pending_storage EXCEPT ![n] = [batch |-> batch, after_success |-> after]]
  BY DEF begin_election, begin_persist
<1> HIDE DEF hs
<1>2. /\ batch \in PersistBatch
      /\ batch.hard_state = hs /\ batch.truncate_from = 0
      /\ batch.entries = << >> /\ batch.commit_index = 0
  BY <1>1, HardStateBatch
<1> HIDE DEF batch, after
<1>5. pending_storage' \in [Node -> PendingStorage \cup {Nil}]
  BY <1>2, <1>3, <1>4, VariableTypes DEF PendingStorage
<1>6. TypeOK'
  <2>1. /\ role' \in [Node -> Role]
        /\ current_term' \in [Node -> Nat]
        /\ voted_for' \in [Node -> Node \cup {Nil}]
        /\ leader_hint' \in [Node -> Node \cup {Nil}]
        /\ leader_ready' \in [Node -> BOOLEAN]
        /\ readiness_index' \in [Node -> Nat]
        /\ votes_received' \in [Node -> SUBSET Node]
    <3>1. role' \in [Node -> Role] /\ leader_hint' \in [Node -> Node \cup {Nil}]
      BY VariableTypes DEF begin_election, Role, LiveRole
    <3>2. current_term' \in [Node -> Nat] /\ voted_for' \in [Node -> Node \cup {Nil}]
      BY VariableTypes, SMTT(30) DEF begin_election
    <3>3. /\ leader_ready' \in [Node -> BOOLEAN] /\ readiness_index' \in [Node -> Nat]
          /\ votes_received' \in [Node -> SUBSET Node]
      BY VariableTypes DEF begin_election
    <3> QED
      BY <3>1, <3>2, <3>3
  <2>2. /\ peers' \in [Node -> [Node -> PeerProgress]]
        /\ election_timer' \in [Node -> BOOLEAN]
        /\ heartbeat_timer' \in [Node -> BOOLEAN]
    BY NoPeersType, VariableTypes DEF begin_election
  <2>3. elections' \in Nat
    BY VariableTypes, SMTT(30) DEF begin_election
  <2> QED
    BY <2>1, <2>2, <2>3, <1>5, TypesNext, VariableTypes DEF begin_election, log_vars,
       ghost_vars
<1>7. OthersKept(n)
  BY <1>4, VariableTypes DEF OthersKept, begin_election, log_vars
<1>8. /\ pending_storage'[n].batch = batch /\ Kind(n)' = "begin_election"
      /\ pending_storage'[n] # Nil
  BY <1>2, <1>3, <1>4, NilAssumption, VariableTypes, SMT DEF Kind, PendingStorage
<1>9. NodeInv(n)'
  <2>1. /\ current_term'[n] = current_term[n] + 1 /\ voted_for'[n] = n
        /\ log'[n] = log[n] /\ commit_index'[n] = commit_index[n]
        /\ last_applied'[n] = last_applied[n] /\ disk'[n] = disk[n]
        /\ durable_last_log_index'[n] = durable_last_log_index[n]
    BY VariableTypes DEF begin_election, log_vars
  <2>2. NodeInv(n) /\ pending_storage[n] = Nil
    BY DEF LocalInv, begin_election, Idle, Live
  <2>3. disk[n].log \in Seq(Entry) /\ current_term[n] \in Nat /\ commit_index[n] \in Nat
    BY VariableTypes DEF DiskState
  <2>4. disk[n].log \o << >> = disk[n].log
    BY <2>3, SMT
  <2>5. BatchInv(current_term[n] + 1, n, log[n], commit_index[n], disk[n], batch)
    BY <1>1, <1>2, <2>2, <2>3, <2>4, SMT DEF NodeInv, IdleInv, BatchInv
  <2> QED
    BY <1>8, <2>1, <2>2, <2>5 DEF NodeInv
<1>10. ShapeInv(n)' /\ CandidateInv(n)'
  BY <1>2, <1>8, VariableTypes DEF begin_election, ShapeInv, CandidateInv, Live, LiveRole
<1> QED
  BY <1>6, <1>7, <1>9, <1>10, LocalStep

LEMMA LocalUnchanged ==
  ASSUME LocalInv,
         UNCHANGED <<role, current_term, voted_for, log, commit_index, last_applied,
                     durable_last_log_index, pending_storage, disk>>
  PROVE  LocalInv'
  BY DEF LocalInv, Live, Kind, NodeInv, ShapeInv, CandidateInv

LEMMA TimerLeaderLocal ==
  ASSUME TypeOK, LocalInv, NEW n \in Node, on_election_timer_leader(n)
  PROVE  TypeOK' /\ LocalInv'
<1>1. TypeOK'
  BY TypesNext, VariableTypes DEF on_election_timer_leader, hard_vars, log_vars, role_vars,
     peer_vars, ghost_vars, bound_vars
<1>2. LocalInv'
  BY LocalUnchanged DEF on_election_timer_leader, hard_vars, log_vars, role_vars
<1> QED
  BY <1>1, <1>2

LEMMA HeartbeatLocal ==
  ASSUME TypeOK, LocalInv, NEW n \in Node, on_heartbeat_timer(n)
  PROVE  TypeOK' /\ LocalInv'
<1> DEFINE aged == [p \in Node |-> AgedProgress(peers[n][p])]
           last == durable_last_log_index[n]
<1>1. aged \in [Node -> PeerProgress]
  <2>1. ASSUME NEW q \in PeerProgress PROVE AgedProgress(q) \in PeerProgress
    <3>1. [q EXCEPT !.inflight = Nil, !.age = 0] \in PeerProgress
      BY DEF PeerProgress
    <3>2. [q EXCEPT !.age = @ + 1] \in PeerProgress
      BY SMT DEF PeerProgress
    <3> QED
      BY <3>1, <3>2 DEF AgedProgress
  <2>2. \A p \in Node : peers[n][p] \in PeerProgress
    BY VariableTypes
  <2> QED
    BY <2>1, <2>2
<1>2. last \in Nat /\ last = Len(log[n])
  BY VariableTypes DEF LocalInv, on_heartbeat_timer, Idle, Live, NodeInv, IdleInv
<1>3. send_appends(n, Node, aged, last)
  BY DEF on_heartbeat_timer
<1> HIDE DEF aged, last
<1>4. /\ peers' \in [Node -> [Node -> PeerProgress]]
      /\ next_rpc_id' \in [Node -> [Node -> Nat]]
      /\ msgs' \subseteq Message
  BY <1>1, <1>2, <1>3, SendAppendsType
<1>5. TypeOK'
  BY <1>4, TypesNext, VariableTypes DEF on_heartbeat_timer, hard_vars, log_vars, role_vars,
     timer_vars, ghost_vars, bound_vars
<1>6. LocalInv'
  <2>1. UNCHANGED <<role, current_term, voted_for, log, commit_index, last_applied,
                    durable_last_log_index, pending_storage, disk>>
    BY DEF on_heartbeat_timer, hard_vars, log_vars, role_vars
  <2> QED
    BY <2>1, LocalUnchanged
<1> QED
  BY <1>5, <1>6

LEMMA VoteStaleLocal ==
  ASSUME TypeOK, LocalInv, NEW n \in Node, NEW m \in msgs, on_request_vote_stale(n, m)
  PROVE  TypeOK' /\ LocalInv'
<1>1. VoteResponse(n, m.from, current_term[n], FALSE) \in Message
  BY MessageType, VariableTypes DEF VoteResponse, Message, RequestVoteResponseMsg
<1>2. late' \in Nat
  BY VariableTypes, SMT DEF on_request_vote_stale
<1>3. TypeOK'
  BY <1>1, <1>2, TypesNext, VariableTypes DEF on_request_vote_stale, hard_vars, log_vars,
     role_vars, peer_vars, timer_vars, ghost_vars
<1>4. LocalInv'
  BY LocalUnchanged DEF on_request_vote_stale, hard_vars, log_vars, role_vars
<1> QED
  BY <1>3, <1>4

LEMMA AppendStaleLocal ==
  ASSUME TypeOK, LocalInv, NEW n \in Node, NEW m \in msgs, m.type = "AppendEntries",
         on_append_entries_stale(n, m)
  PROVE  TypeOK' /\ LocalInv'
<1>1. AppendResponse(n, m, current_term[n], FALSE, 0, Len(log[n]) + 1, 0) \in Message
  <2>1. Len(log[n]) + 1 \in Nat /\ current_term[n] \in Nat
    BY VariableTypes, SMT
  <2>2. m.from \in Node /\ m.rpc_id \in Nat
    BY MessageType DEF AppendEntriesMsg
  <2> QED
    BY <2>1, <2>2 DEF AppendResponse, Message, AppendEntriesResponseMsg
<1>2. late' \in Nat
  BY VariableTypes, SMT DEF on_append_entries_stale
<1>3. TypeOK'
  BY <1>1, <1>2, TypesNext, VariableTypes DEF on_append_entries_stale, hard_vars, log_vars,
     role_vars, peer_vars, timer_vars, ghost_vars
<1>4. LocalInv'
  BY LocalUnchanged DEF on_append_entries_stale, hard_vars, log_vars, role_vars
<1> QED
  BY <1>3, <1>4

\* A batch with a newer hard state, and an empty one.
LEMMA HardStateFields ==
  ASSUME NEW d \in DiskState, NEW t, NEW v, NEW l, NEW c, IdleInv(t, v, l, c, d),
         NEW b, b.truncate_from = 0, b.entries = << >>, b.commit_index = 0,
         NEW t1, NEW v1,
         b.hard_state = Nil => t1 = t /\ v1 = v,
         b.hard_state # Nil => /\ b.hard_state.term = t1 /\ b.hard_state.vote = v1
                               /\ t1 > d.term \/ (t1 = d.term /\ d.vote = Nil)
  PROVE  BatchInv(t1, v1, l, c, d, b)
<1>1. d.log \in Seq(Entry) /\ d.commit \in Nat
  BY DEF DiskState
<1>2. d.log \o << >> = d.log /\ Len(d.log) \in Nat
  BY <1>1, SMT
<1>3. t = d.term /\ v = d.vote /\ l = d.log /\ c = d.commit
  BY DEF IdleInv
<1>4. l = (IF b.truncate_from = 0 THEN d.log
           ELSE SubSeq(d.log, 1, b.truncate_from - 1)) \o b.entries
  BY <1>2, <1>3
<1>5. /\ b.truncate_from <= Len(d.log) /\ c >= d.commit
      /\ c = IF b.commit_index = 0 THEN d.commit ELSE b.commit_index
  BY <1>1, <1>2, <1>3, SMT
<1>6. b.hard_state = Nil => t1 = d.term /\ v1 = d.vote
  BY <1>3
<1> QED
  BY <1>4, <1>5, <1>6 DEF BatchInv

LEMMA HardStateBatchInv ==
  ASSUME NEW d \in DiskState, NEW t, NEW v, NEW l, NEW c, IdleInv(t, v, l, c, d),
         NEW hs \in HardState \cup {Nil}, NEW t1, NEW v1,
         hs = Nil => t1 = t /\ v1 = v,
         hs # Nil => /\ hs.term = t1 /\ hs.vote = v1
                     /\ t1 > d.term \/ (t1 = d.term /\ d.vote = Nil)
  PROVE  BatchInv(t1, v1, l, c, d, [EmptyBatch EXCEPT !.hard_state = hs])
<1> DEFINE b == [EmptyBatch EXCEPT !.hard_state = hs]
<1>1. /\ b.hard_state = hs /\ b.truncate_from = 0
      /\ b.entries = << >> /\ b.commit_index = 0
  BY HardStateBatch
<1> HIDE DEF b
<1>2. BatchInv(t1, v1, l, c, d, b)
  BY <1>1, HardStateFields, SMT
<1> QED
  BY <1>2 DEF b

LEMMA EmptyBatchInv ==
  ASSUME NEW d \in DiskState, NEW t, NEW v, NEW l, NEW c,
         BatchInv(t, v, l, c, d, EmptyBatch)
  PROVE  IdleInv(t, v, l, c, d)
<1>1. /\ EmptyBatch.hard_state = Nil /\ EmptyBatch.truncate_from = 0
      /\ EmptyBatch.entries = << >> /\ EmptyBatch.commit_index = 0
  BY DEF EmptyBatch
<1>2. d.log \in Seq(Entry)
  BY DEF DiskState
<1>3. d.log \o << >> = d.log
  BY <1>2, SMT
<1> QED
  BY <1>1, <1>3 DEF IdleInv, BatchInv

\* A handler that ends with persist_then_reply keeps the local invariant when
\* the batch takes the medium to the new memory.
LEMMA ReplyLocal ==
  ASSUME TypeOK, LocalInv, NEW n \in Node, Idle(n),
         NEW batch \in PersistBatch, NEW rearm \in BOOLEAN, NEW message \in Message \cup {Nil},
         persist_then_reply(n, batch, Reply(rearm, message)),
         UNCHANGED <<last_applied, durable_last_log_index, disk>>,
         \A q \in Node \ {n} :
           /\ role'[q] = role[q] /\ current_term'[q] = current_term[q]
           /\ voted_for'[q] = voted_for[q] /\ log'[q] = log[q]
           /\ commit_index'[q] = commit_index[q],
         role'[n] \in LiveRole,
         role'[n] = "candidate" => voted_for'[n] = n /\ batch = EmptyBatch,
         BatchInv(current_term'[n], voted_for'[n], log'[n], commit_index'[n], disk[n], batch)
  PROVE  LocalInv'
<1>1. CASE batch = EmptyBatch
  <2>1. pending_storage' = pending_storage
    BY <1>1 DEF persist_then_reply
  <2>2. OthersKept(n)
    BY <2>1 DEF OthersKept
  <2>3. IdleInv(current_term'[n], voted_for'[n], log'[n], commit_index'[n], disk[n])
    BY <1>1, IdleNode, EmptyBatchInv
  <2>4. NodeInv(n)'
    BY <2>1, <2>3, IdleNode DEF NodeInv
  <2>5. ShapeInv(n)' /\ CandidateInv(n)'
    BY <2>1, IdleNode DEF ShapeInv, CandidateInv
  <2> QED
    BY <2>2, <2>4, <2>5, LocalStep
<1>2. CASE batch # EmptyBatch
  <2> DEFINE after == Reply(rearm, message)
  <2>1. pending_storage' = [pending_storage EXCEPT
                              ![n] = [batch |-> batch, after_success |-> after]]
    BY <1>2 DEF persist_then_reply, begin_persist
  <2>2. after \in Continuation /\ after.kind = "reply"
    BY DEF Reply, Continuation
  <2> HIDE DEF after
  <2>3. /\ pending_storage'[n] = [batch |-> batch, after_success |-> after]
        /\ \A q \in Node \ {n} : pending_storage'[q] = pending_storage[q]
    BY <2>1, VariableTypes
  <2>4. OthersKept(n)
    BY <2>3 DEF OthersKept
  <2>5. NodeInv(n)'
    <3>1. pending_storage'[n] # Nil /\ pending_storage'[n].batch = batch
      BY SMTT(30), <2>2, <2>3, NilAssumption DEF PendingStorage
    <3> QED
      BY <3>1, IdleNode DEF NodeInv
  <2>6. ShapeInv(n)' /\ CandidateInv(n)'
    BY SMTT(30), <1>2, <2>2, <2>3 DEF ShapeInv, CandidateInv, Kind, Live
  <2> QED
    BY <2>4, <2>5, <2>6, LocalStep
<1> QED
  BY <1>1, <1>2

LEMMA VoteCurrentLocal ==
  ASSUME TypeOK, LocalInv, NEW n \in Node, NEW m \in msgs, m.type = "RequestVote", Idle(n),
         on_request_vote_current(n, m)
  PROVE  TypeOK' /\ LocalInv'
<1> DEFINE higher == m.term > current_term[n]
           vote == IF higher THEN Nil ELSE voted_for[n]
           grant == /\ can_vote(vote, m.from)
                    /\ candidate_is_up_to_date(log[n], m.last_log_index, m.last_log_term)
           new_vote == IF grant THEN m.from ELSE vote
           hs == IF higher \/ new_vote # vote THEN [term |-> m.term, vote |-> new_vote] ELSE Nil
           batch == [EmptyBatch EXCEPT !.hard_state = hs]
           rearm == vote_rearms(n, grant)
           message == VoteResponse(n, m.from, m.term, grant)
<1>1. /\ m.from \in Node /\ m.term \in Nat /\ current_term[n] \in Nat
      /\ voted_for[n] \in Node \cup {Nil}
  BY MessageType, VariableTypes
<1>2. /\ m.term >= current_term[n]
      /\ IF higher THEN step_down(n, Nil) ELSE UNCHANGED <<role_vars, peers, heartbeat_timer>>
      /\ current_term' = [current_term EXCEPT ![n] = m.term]
      /\ voted_for' = [voted_for EXCEPT ![n] = new_vote]
      /\ persist_then_reply(n, batch, Reply(rearm, message))
      /\ UNCHANGED <<log_vars, next_rpc_id, ghost_vars, pending_clients, disk, bound_vars>>
  BY DEF on_request_vote_current
<1>3. grant \in BOOLEAN /\ rearm \in BOOLEAN
  BY DEF can_vote, candidate_is_up_to_date, vote_rearms
<1>4. grant => vote = Nil \/ vote = m.from
  BY DEF can_vote
<1> HIDE DEF grant, rearm
<1>5. message \in Message \cup {Nil}
  BY <1>1, <1>3 DEF VoteResponse, Message, RequestVoteResponseMsg
<1>6. new_vote \in Node \cup {Nil}
  BY <1>1
<1>7. hs \in HardState \cup {Nil}
  BY <1>1, <1>6 DEF HardState
<1>8. /\ hs = Nil => m.term = current_term[n] /\ new_vote = voted_for[n]
      /\ hs # Nil => /\ hs.term = m.term /\ hs.vote = new_vote
                     /\ \/ m.term > current_term[n]
                        \/ m.term = current_term[n] /\ voted_for[n] = Nil
  <2>1. CASE higher \/ new_vote # vote
    <3>1. hs = [term |-> m.term, vote |-> new_vote] /\ hs # Nil
      BY <2>1, <1>1, <1>6, NilAssumption, SMT DEF HardState
    <3> QED
      BY <2>1, <3>1, <1>1, <1>2, <1>4, SMT
  <2>2. CASE ~(higher \/ new_vote # vote)
    BY <2>2, <1>1, <1>2, SMT
  <2> QED
    BY <2>1, <2>2
<1>9. /\ higher => role' = [role EXCEPT ![n] = "follower"]
      /\ ~higher => role' = role
  BY <1>2 DEF step_down, role_vars
<1>10. role'[n] = "candidate" => ~higher /\ voted_for[n] = n /\ new_vote = n /\ hs = Nil
  BY <1>1, <1>4, <1>9, NilAssumption, VariableTypes DEF LocalInv, CandidateInv
<1> HIDE DEF higher, vote, new_vote, hs, message
<1>11. batch \in PersistBatch
  BY <1>7, HardStateBatch
<1>12. /\ pending_storage' \in [Node -> PendingStorage \cup {Nil}]
       /\ election_timer' \in [Node -> BOOLEAN]
       /\ msgs' \subseteq Message
  BY <1>2, <1>3, <1>5, <1>11, PersistThenReplyType
<1>13. /\ role' \in [Node -> Role]
       /\ leader_hint' \in [Node -> Node \cup {Nil}]
       /\ leader_ready' \in [Node -> BOOLEAN]
       /\ readiness_index' \in [Node -> Nat]
       /\ votes_received' \in [Node -> SUBSET Node]
       /\ peers' \in [Node -> [Node -> PeerProgress]]
       /\ heartbeat_timer' \in [Node -> BOOLEAN]
  <2>1. CASE higher
    BY <2>1, <1>2, StepDownType
  <2>2. CASE ~higher
    BY <2>2, <1>2, VariableTypes DEF role_vars
  <2> QED
    BY <2>1, <2>2
<1>14. current_term' \in [Node -> Nat] /\ voted_for' \in [Node -> Node \cup {Nil}]
  BY <1>1, <1>2, <1>6, VariableTypes
<1>15. TypeOK'
  BY <1>2, <1>12, <1>13, <1>14, TypesNext, VariableTypes DEF log_vars, ghost_vars,
     bound_vars
<1>16. BatchInv(m.term, new_vote, log[n], commit_index[n], disk[n], batch)
  <2>1. hs # Nil => \/ m.term > disk[n].term
                    \/ m.term = disk[n].term /\ disk[n].vote = Nil
    BY <1>8, IdleNode DEF IdleInv
  <2> QED
    BY <1>7, <1>8, <2>1, IdleNode, HardStateBatchInv
<1>17. /\ current_term'[n] = m.term /\ voted_for'[n] = new_vote
       /\ log' = log /\ commit_index' = commit_index
       /\ UNCHANGED <<last_applied, durable_last_log_index, disk>>
  BY <1>2, VariableTypes DEF log_vars
<1>18. /\ role'[n] \in LiveRole
       /\ \A q \in Node \ {n} : /\ role'[q] = role[q] /\ current_term'[q] = current_term[q]
                                /\ voted_for'[q] = voted_for[q]
  BY <1>2, <1>9, VariableTypes DEF Idle, LiveRole
<1>19. LocalInv'
  <2>1. hs = Nil => batch = EmptyBatch
    BY NoHardState
  <2>2. BatchInv(current_term'[n], voted_for'[n], log'[n], commit_index'[n], disk[n], batch)
    BY <1>16, <1>17
  <2> HIDE DEF batch
  <2> QED
    BY <1>2, <1>3, <1>5, <1>10, <1>11, <1>17, <1>18, <2>1, <2>2, ReplyLocal
<1> QED
  BY <1>15, <1>19

LEMMA HigherResponseLocal ==
  ASSUME TypeOK, LocalInv, NEW n \in Node, NEW m \in msgs, Idle(n),
         on_higher_term_response(n, m)
  PROVE  TypeOK' /\ LocalInv'
<1> DEFINE hs == [term |-> m.term, vote |-> Nil]
           batch == [EmptyBatch EXCEPT !.hard_state = hs]
<1>1. /\ hs \in HardState /\ hs # Nil /\ hs.term = m.term /\ hs.vote = Nil
      /\ m.term \in Nat
  BY MessageType, NilAssumption, SMT DEF HardState
<1>2. /\ m.term > current_term[n]
      /\ step_down(n, Nil)
      /\ current_term' = [current_term EXCEPT ![n] = m.term]
      /\ voted_for' = [voted_for EXCEPT ![n] = Nil]
      /\ begin_persist(n, batch, Reply(TRUE, Nil))
      /\ UNCHANGED <<log_vars, next_rpc_id, election_timer, ghost_vars,
                     pending_clients, disk, msgs, bound_vars>>
  BY DEF on_higher_term_response
<1> HIDE DEF hs
<1>3. batch \in PersistBatch /\ batch.hard_state = hs
  BY <1>1, HardStateBatch
<1>4. batch # EmptyBatch
  BY <1>1, <1>3 DEF EmptyBatch
<1>5. persist_then_reply(n, batch, Reply(TRUE, Nil))
  BY <1>2, <1>4 DEF persist_then_reply
<1>6. BatchInv(m.term, Nil, log[n], commit_index[n], disk[n], batch)
  <2>1. m.term > disk[n].term
    BY <1>2, IdleNode DEF IdleInv
  <2> QED
    BY <1>1, <2>1, IdleNode, HardStateBatchInv
<1> HIDE DEF batch
<1>7. /\ pending_storage' \in [Node -> PendingStorage \cup {Nil}]
      /\ election_timer' \in [Node -> BOOLEAN]
      /\ msgs' \subseteq Message
  BY <1>3, <1>5, PersistThenReplyType
<1>8. /\ role' \in [Node -> Role]
      /\ leader_hint' \in [Node -> Node \cup {Nil}]
      /\ leader_ready' \in [Node -> BOOLEAN]
      /\ readiness_index' \in [Node -> Nat]
      /\ votes_received' \in [Node -> SUBSET Node]
      /\ peers' \in [Node -> [Node -> PeerProgress]]
      /\ heartbeat_timer' \in [Node -> BOOLEAN]
  BY <1>2, StepDownType
<1>9. current_term' \in [Node -> Nat] /\ voted_for' \in [Node -> Node \cup {Nil}]
  BY <1>1, <1>2, VariableTypes
<1>10. TypeOK'
  BY <1>2, <1>7, <1>8, <1>9, TypesNext, VariableTypes DEF log_vars, ghost_vars, bound_vars
<1>11. /\ current_term'[n] = m.term /\ voted_for'[n] = Nil /\ role'[n] = "follower"
       /\ log' = log /\ commit_index' = commit_index
       /\ UNCHANGED <<last_applied, durable_last_log_index, disk>>
       /\ \A q \in Node \ {n} : /\ role'[q] = role[q] /\ current_term'[q] = current_term[q]
                                /\ voted_for'[q] = voted_for[q]
  BY <1>2, VariableTypes DEF log_vars, step_down
<1>12. BatchInv(current_term'[n], voted_for'[n], log'[n], commit_index'[n], disk[n], batch)
  BY <1>6, <1>11
<1>13. LocalInv'
  BY <1>3, <1>5, <1>11, <1>12, ReplyLocal DEF LiveRole
<1> QED
  BY <1>10, <1>13

\* The pieces of on_append_entries that follow the sender.
LEMMA AdoptLeaderType ==
  ASSUME TypeOK, NEW n \in Node, NEW m, m.from \in Node, Idle(n), adopt_leader(n, m)
  PROVE  /\ role' \in [Node -> Role]
         /\ leader_hint' \in [Node -> Node \cup {Nil}]
         /\ leader_ready' \in [Node -> BOOLEAN]
         /\ readiness_index' \in [Node -> Nat]
         /\ votes_received' \in [Node -> SUBSET Node]
         /\ peers' \in [Node -> [Node -> PeerProgress]]
         /\ heartbeat_timer' \in [Node -> BOOLEAN]
         /\ role' = [role EXCEPT ![n] = "follower"]
<1>1. CASE m.term > current_term[n] \/ role[n] # "follower"
  <2>1. step_down(n, m.from)
    BY <1>1 DEF adopt_leader
  <2> QED
    BY <2>1, StepDownType DEF step_down
<1>2. CASE ~(m.term > current_term[n] \/ role[n] # "follower")
  <2>1. /\ leader_hint' = [leader_hint EXCEPT ![n] = m.from]
        /\ UNCHANGED <<role, leader_ready, readiness_index, votes_received, peers,
                       heartbeat_timer>>
    BY <1>2 DEF adopt_leader
  <2>2. leader_hint' \in [Node -> Node \cup {Nil}]
    BY <2>1, VariableTypes
  <2>3. role = [role EXCEPT ![n] = "follower"]
    BY <1>2, VariableTypes
  <2>4. /\ role \in [Node -> Role] /\ leader_ready \in [Node -> BOOLEAN]
        /\ readiness_index \in [Node -> Nat] /\ votes_received \in [Node -> SUBSET Node]
        /\ peers \in [Node -> [Node -> PeerProgress]]
        /\ heartbeat_timer \in [Node -> BOOLEAN]
    BY VariableTypes
  <2> QED
    BY <2>1, <2>2, <2>3, <2>4
<1> QED
  BY <1>1, <1>2

LEMMA AdoptTerm ==
  ASSUME TypeOK, LocalInv, NEW n \in Node, NEW term \in Nat, Idle(n),
         term >= current_term[n], adopt_term(n, term)
  PROVE  /\ current_term' \in [Node -> Nat] /\ voted_for' \in [Node -> Node \cup {Nil}]
         /\ \A q \in Node \ {n} : /\ current_term'[q] = current_term[q]
                                  /\ voted_for'[q] = voted_for[q]
         /\ AdoptedHardState(n, term) \in HardState \cup {Nil}
         /\ AdoptedHardState(n, term) = Nil =>
              current_term'[n] = disk[n].term /\ voted_for'[n] = disk[n].vote
         /\ AdoptedHardState(n, term) # Nil =>
              /\ AdoptedHardState(n, term).term = current_term'[n]
              /\ AdoptedHardState(n, term).vote = voted_for'[n]
              /\ current_term'[n] > disk[n].term
         /\ current_term'[n] = term
<1>1. current_term[n] = disk[n].term /\ voted_for[n] = disk[n].vote
  BY IdleNode DEF IdleInv
<1>2. current_term[n] \in Nat
  BY VariableTypes
<1>3. CASE term > current_term[n]
  <2>1. [term |-> term, vote |-> Nil] \in HardState
    BY DEF HardState
  <2> QED
    BY <1>1, <1>3, <2>1, NilAssumption, VariableTypes DEF adopt_term, AdoptedHardState
<1>4. CASE ~(term > current_term[n])
  <2>1. term = current_term[n]
    BY <1>2, <1>4, SMT
  <2> QED
    BY <1>1, <1>4, <2>1, VariableTypes DEF adopt_term, AdoptedHardState
<1> QED
  BY <1>3, <1>4

LEMMA AppendRejectLocal ==
  ASSUME TypeOK, LocalInv, NEW n \in Node, NEW m \in msgs, m.type = "AppendEntries", Idle(n),
         on_append_entries_reject(n, m)
  PROVE  TypeOK' /\ LocalInv'
<1> DEFINE hs == AdoptedHardState(n, m.term)
           batch == [EmptyBatch EXCEPT !.hard_state = hs]
<1>1. m.from \in Node /\ m.term \in Nat /\ m.rpc_id \in Nat /\ m.prev_log_index \in Nat
  BY MessageType DEF AppendEntriesMsg
<1>2. log[n] \in Seq(Entry) /\ Len(log[n]) + 1 \in Nat
  BY VariableTypes, SMT
<1>3. /\ m.term >= current_term[n]
      /\ adopt_term(n, m.term)
      /\ adopt_leader(n, m)
      /\ UNCHANGED <<log_vars, next_rpc_id, ghost_vars, pending_clients, disk, bound_vars>>
  BY DEF on_append_entries_reject
<1>4. PICK message \in Message : persist_then_reply(n, batch, Reply(TRUE, message))
  <2>1. \A c \in Nat, t \in Nat : AppendResponse(n, m, m.term, FALSE, 0, c, t) \in Message
    BY <1>1 DEF AppendResponse, Message, AppendEntriesResponseMsg
  <2>2. \A i \in Int : term_at(log[n], i) \in Nat
    BY <1>2, TermAtType
  <2>3. CASE missing(n, m) /\ persist_then_reply(n, batch, Reply(TRUE,
               AppendResponse(n, m, m.term, FALSE, 0, Len(log[n]) + 1, 0)))
    BY <1>2, <2>1, <2>3
  <2>4. CASE \E first \in 1..m.prev_log_index :
               persist_then_reply(n, batch, Reply(TRUE,
                 AppendResponse(n, m, m.term, FALSE, 0, first,
                                term_at(log[n], m.prev_log_index))))
    <3>1. PICK first \in 1..m.prev_log_index :
               persist_then_reply(n, batch, Reply(TRUE,
                 AppendResponse(n, m, m.term, FALSE, 0, first,
                                term_at(log[n], m.prev_log_index))))
      BY <2>4
    <3>2. first \in Nat /\ m.prev_log_index \in Int
      BY <1>1, SMT
    <3>3. AppendResponse(n, m, m.term, FALSE, 0, first, term_at(log[n], m.prev_log_index))
            \in Message
      BY <2>1, <2>2, <3>2
    <3> QED
      BY <3>1, <3>3
  <2> QED
    BY <2>3, <2>4 DEF on_append_entries_reject
<1> HIDE DEF hs
<1>5. /\ current_term' \in [Node -> Nat] /\ voted_for' \in [Node -> Node \cup {Nil}]
      /\ \A q \in Node \ {n} : /\ current_term'[q] = current_term[q]
                               /\ voted_for'[q] = voted_for[q]
      /\ hs \in HardState \cup {Nil}
      /\ hs = Nil => current_term'[n] = disk[n].term /\ voted_for'[n] = disk[n].vote
      /\ hs # Nil => /\ hs.term = current_term'[n] /\ hs.vote = voted_for'[n]
                     /\ current_term'[n] > disk[n].term
  BY <1>1, <1>3, AdoptTerm DEF hs
<1>6. batch \in PersistBatch
  BY <1>5, HardStateBatch
<1>7. BatchInv(current_term'[n], voted_for'[n], log'[n], commit_index'[n], disk[n], batch)
  <2>1. log' = log /\ commit_index' = commit_index
    BY <1>3 DEF log_vars
  <2>2. IdleInv(disk[n].term, disk[n].vote, log[n], commit_index[n], disk[n])
    BY IdleNode DEF IdleInv
  <2>3. BatchInv(current_term'[n], voted_for'[n], log[n], commit_index[n], disk[n], batch)
    BY <1>5, <2>2, IdleNode, HardStateBatchInv
  <2> QED
    BY <2>1, <2>3
<1> HIDE DEF batch
<1>8. /\ pending_storage' \in [Node -> PendingStorage \cup {Nil}]
      /\ election_timer' \in [Node -> BOOLEAN]
      /\ msgs' \subseteq Message
  BY <1>4, <1>6, PersistThenReplyType
<1>9. /\ role' \in [Node -> Role]
      /\ leader_hint' \in [Node -> Node \cup {Nil}]
      /\ leader_ready' \in [Node -> BOOLEAN]
      /\ readiness_index' \in [Node -> Nat]
      /\ votes_received' \in [Node -> SUBSET Node]
      /\ peers' \in [Node -> [Node -> PeerProgress]]
      /\ heartbeat_timer' \in [Node -> BOOLEAN]
      /\ role' = [role EXCEPT ![n] = "follower"]
  BY <1>1, <1>3, AdoptLeaderType
<1>10. TypeOK'
  BY <1>3, <1>5, <1>8, <1>9, TypesNext, VariableTypes DEF log_vars, ghost_vars, bound_vars
<1>11. /\ role'[n] = "follower"
       /\ \A q \in Node \ {n} : /\ role'[q] = role[q] /\ log'[q] = log[q]
                                /\ commit_index'[q] = commit_index[q]
       /\ UNCHANGED <<last_applied, durable_last_log_index, disk>>
  BY <1>3, <1>9, VariableTypes DEF log_vars
<1>12. LocalInv'
  BY <1>4, <1>5, <1>6, <1>7, <1>11, ReplyLocal DEF LiveRole
<1> QED
  BY <1>10, <1>12

LEMMA FailStorageType ==
  ASSUME TypeOK, NEW n \in Node, fail_storage(n)
  PROVE  /\ role' \in [Node -> Role]
         /\ leader_hint' \in [Node -> Node \cup {Nil}]
         /\ leader_ready' \in [Node -> BOOLEAN]
         /\ votes_received' \in [Node -> SUBSET Node]
         /\ peers' \in [Node -> [Node -> PeerProgress]]
         /\ pending_clients' \in [Node -> SUBSET [index : Nat, command : Command]]
         /\ pending_storage' \in [Node -> PendingStorage \cup {Nil}]
         /\ election_timer' \in [Node -> BOOLEAN]
         /\ heartbeat_timer' \in [Node -> BOOLEAN]
         /\ role'[n] = "unavailable" /\ pending_storage'[n] = Nil
         /\ \A q \in Node \ {n} : /\ role'[q] = role[q]
                                  /\ pending_storage'[q] = pending_storage[q]
<1>1. "unavailable" \in Role
  BY DEF Role
<1>2. /\ role' \in [Node -> Role]
      /\ leader_hint' \in [Node -> Node \cup {Nil}]
      /\ leader_ready' \in [Node -> BOOLEAN]
      /\ votes_received' \in [Node -> SUBSET Node]
      /\ peers' \in [Node -> [Node -> PeerProgress]]
  BY <1>1, NoPeersType, VariableTypes DEF fail_storage
<1>3. /\ pending_clients' \in [Node -> SUBSET [index : Nat, command : Command]]
      /\ pending_storage' \in [Node -> PendingStorage \cup {Nil}]
      /\ election_timer' \in [Node -> BOOLEAN]
      /\ heartbeat_timer' \in [Node -> BOOLEAN]
  BY VariableTypes DEF fail_storage
<1>4. role'[n] = "unavailable" /\ \A q \in Node \ {n} : role'[q] = role[q]
  BY VariableTypes DEF fail_storage
<1>5. pending_storage'[n] = Nil
      /\ \A q \in Node \ {n} : pending_storage'[q] = pending_storage[q]
  BY VariableTypes DEF fail_storage
<1> QED
  BY <1>2, <1>3, <1>4, <1>5

LEMMA AppendAcceptLocal ==
  ASSUME TypeOK, LocalInv, NEW n \in Node, NEW m \in msgs, m.type = "AppendEntries", Idle(n),
         on_append_entries_accept(n, m)
  PROVE  TypeOK' /\ LocalInv'
<1>1. /\ m \in AppendEntriesMsg /\ m.from \in Node /\ m.term \in Nat /\ m.rpc_id \in Nat
      /\ m.prev_log_index \in Nat /\ m.leader_commit \in Nat /\ m.entries \in Seq(Entry)
  BY MessageType DEF AppendEntriesMsg
<1>2. /\ m.term >= current_term[n]
      /\ ~missing(n, m)
      /\ adopt_term(n, m.term)
      /\ UNCHANGED <<last_applied, durable_last_log_index, next_rpc_id, ghost_vars, disk,
                     bound_vars>>
  BY DEF on_append_entries_accept
<1> DEFINE at(k) == m.prev_log_index + k + 1
           new(k) == SubSeq(m.entries, k + 1, Len(m.entries))
           truncates(k) == new(k) # << >> /\ at(k) <= Len(log[n])
           match == m.prev_log_index + Len(m.entries)
           new_commit == learned_commit(m, match)
           hs == AdoptedHardState(n, m.term)
           cut(k) == IF truncates(k) THEN at(k) ELSE 0
           commit == IF new_commit > commit_index[n] THEN new_commit ELSE 0
           batch(k) == [hard_state |-> hs, truncate_from |-> cut(k), entries |-> new(k),
                        commit_index |-> commit]
           fails(k) == /\ fail_storage(n)
                       /\ readiness_index' = [readiness_index EXCEPT ![n] = 0]
                       /\ UNCHANGED <<log, commit_index, msgs>>
           grows(k) == IF new(k) = << >> THEN log[n] ELSE SubSeq(log[n], 1, at(k) - 1) \o new(k)
           message == AppendResponse(n, m, m.term, TRUE, match, 0, 0)
           accepts(k) ==
             /\ adopt_leader(n, m)
             /\ log' = [log EXCEPT ![n] = grows(k)]
             /\ pending_clients' = IF truncates(k) THEN remove_pending_from(n, at(k))
                                   ELSE pending_clients
             /\ commit_index' = [commit_index EXCEPT ![n] = max(@, new_commit)]
             /\ persist_then_reply(n, batch(k), Reply(TRUE, message))
<1>3. PICK k \in 0..Len(m.entries) : incoming(n, m, k) /\ (fails(k) \/ accepts(k))
  BY DEF on_append_entries_accept
<1>4. /\ current_term' \in [Node -> Nat] /\ voted_for' \in [Node -> Node \cup {Nil}]
      /\ \A q \in Node \ {n} : /\ current_term'[q] = current_term[q]
                               /\ voted_for'[q] = voted_for[q]
      /\ hs \in HardState \cup {Nil}
      /\ hs = Nil => current_term'[n] = disk[n].term /\ voted_for'[n] = disk[n].vote
      /\ hs # Nil => /\ hs.term = current_term'[n] /\ hs.vote = voted_for'[n]
                     /\ current_term'[n] > disk[n].term
  BY <1>1, <1>2, AdoptTerm
<1>5. /\ at(k) \in Nat \ {0} /\ at(k) - 1 <= Len(log[n])
      /\ new(k) \in Seq(Entry)
      /\ SubSeq(log[n], 1, at(k) - 1) \o new(k) \in Seq(Entry)
      /\ at(k) > Len(log[n]) => SubSeq(log[n], 1, at(k) - 1) = log[n]
  BY <1>1, <1>2, <1>3, AcceptedSuffix
<1>6. match \in Nat /\ new_commit \in Nat /\ commit \in Nat
  BY SMTT(30), <1>1 DEF learned_commit, min
<1>7. CASE fails(k)
  <2>1. /\ role' \in [Node -> Role]
        /\ leader_hint' \in [Node -> Node \cup {Nil}]
        /\ leader_ready' \in [Node -> BOOLEAN]
        /\ votes_received' \in [Node -> SUBSET Node]
        /\ peers' \in [Node -> [Node -> PeerProgress]]
        /\ pending_clients' \in [Node -> SUBSET [index : Nat, command : Command]]
        /\ pending_storage' \in [Node -> PendingStorage \cup {Nil}]
        /\ election_timer' \in [Node -> BOOLEAN]
        /\ heartbeat_timer' \in [Node -> BOOLEAN]
        /\ role'[n] = "unavailable" /\ pending_storage'[n] = Nil
        /\ \A q \in Node \ {n} : /\ role'[q] = role[q]
                                 /\ pending_storage'[q] = pending_storage[q]
    BY <1>7, FailStorageType
  <2>2. /\ readiness_index' \in [Node -> Nat]
        /\ UNCHANGED <<log, commit_index, msgs>>
    BY <1>7, VariableTypes
  <2>3. TypeOK'
    BY <1>2, <1>4, <2>1, <2>2, TypesNext, VariableTypes DEF ghost_vars, bound_vars
  <2>4. OthersKept(n)
    BY <1>2, <1>4, <2>1, <2>2 DEF OthersKept
  <2>5. LocalInv'
    BY <2>1, <2>4, LocalStep DEF Live, LiveRole, ShapeInv, CandidateInv
  <2> QED
    BY <2>3, <2>5
<1>8. CASE accepts(k)
  <2> HIDE DEF hs, match, new_commit
  <2>1. message \in Message
    BY <1>1, <1>6 DEF AppendResponse, Message, AppendEntriesResponseMsg
  <2>2. batch(k) \in PersistBatch
    BY <1>4, <1>5, <1>6 DEF PersistBatch
  <2>3. /\ pending_storage' \in [Node -> PendingStorage \cup {Nil}]
        /\ election_timer' \in [Node -> BOOLEAN]
        /\ msgs' \subseteq Message
    BY <1>8, <2>1, <2>2, PersistThenReplyType
  <2>4. /\ role' \in [Node -> Role]
        /\ leader_hint' \in [Node -> Node \cup {Nil}]
        /\ leader_ready' \in [Node -> BOOLEAN]
        /\ readiness_index' \in [Node -> Nat]
        /\ votes_received' \in [Node -> SUBSET Node]
        /\ peers' \in [Node -> [Node -> PeerProgress]]
        /\ heartbeat_timer' \in [Node -> BOOLEAN]
        /\ role' = [role EXCEPT ![n] = "follower"]
    BY <1>1, <1>8, AdoptLeaderType
  <2>5. grows(k) \in Seq(Entry)
    <3>1. log[n] \in Seq(Entry)
      BY VariableTypes
    <3> QED
      BY <1>5, <3>1
  <2>6. log' \in [Node -> Seq(Entry)] /\ log'[n] = grows(k)
    BY <1>8, <2>5, VariableTypes
  <2>7. /\ commit_index' \in [Node -> Nat]
        /\ commit_index'[n] = max(commit_index[n], new_commit)
    BY <1>6, <1>8, VariableTypes DEF max
  <2>8. pending_clients' \in [Node -> SUBSET [index : Nat, command : Command]]
    BY <1>8, VariableTypes DEF remove_pending_from
  <2>9. TypeOK'
    BY <1>2, <1>4, <2>3, <2>4, <2>6, <2>7, <2>8, TypesNext, VariableTypes DEF ghost_vars,
       bound_vars
  <2>10. BatchInv(current_term'[n], voted_for'[n], log'[n], commit_index'[n], disk[n], batch(k))
    <3>1. /\ batch(k).hard_state = hs /\ batch(k).truncate_from = cut(k)
          /\ batch(k).entries = new(k) /\ batch(k).commit_index = commit
      OBVIOUS
    <3>2. /\ log[n] = disk[n].log /\ commit_index[n] = disk[n].commit
          /\ commit_index[n] \in Nat /\ disk[n].log \in Seq(Entry) /\ Len(disk[n].log) \in Nat
      <4>1. log[n] = disk[n].log /\ commit_index[n] = disk[n].commit
        BY IdleNode DEF IdleInv
      <4>2. commit_index[n] \in Nat /\ disk[n].log \in Seq(Entry)
        BY <4>1, IdleNode
      <4> QED
        BY <4>1, <4>2, SMT
    <3> HIDE DEF batch, at, new
    <3>3. commit_index'[n] = (IF commit = 0 THEN disk[n].commit ELSE commit)
          /\ commit_index'[n] >= disk[n].commit
      BY SMTT(30), <1>6, <2>7, <3>2 DEF max
    <3>4. /\ cut(k) <= Len(disk[n].log)
          /\ log'[n] = (IF cut(k) = 0 THEN disk[n].log
                        ELSE SubSeq(disk[n].log, 1, cut(k) - 1)) \o new(k)
      <4>1. CASE new(k) = << >>
        BY SMTT(30), <4>1, <2>6, <3>2
      <4>2. CASE new(k) # << >> /\ at(k) <= Len(log[n])
        BY <4>2, <1>5, <2>6, <3>2
      <4>3. CASE new(k) # << >> /\ ~(at(k) <= Len(log[n]))
        <5>1. at(k) > Len(log[n])
          BY <4>3, <1>5, <3>2, SMT
        <5>2. SubSeq(log[n], 1, at(k) - 1) = log[n]
          BY <5>1, <1>5
        <5>3. cut(k) = 0 /\ grows(k) = log[n] \o new(k)
          BY <4>3, <5>2
        <5>4. log'[n] = disk[n].log \o new(k)
          BY <5>3, <2>6, <3>2
        <5> HIDE DEF cut, grows
        <5> QED
          BY SMTT(30), <5>3, <5>4, <3>2
      <4> QED
        BY <4>1, <4>2, <4>3
    <3> HIDE DEF cut, commit
    <3> QED
      BY <1>4, <3>1, <3>3, <3>4 DEF BatchInv
  <2>11. /\ role'[n] = "follower"
         /\ \A q \in Node \ {n} : /\ role'[q] = role[q] /\ log'[q] = log[q]
                                  /\ commit_index'[q] = commit_index[q]
    BY <1>8, <2>4, VariableTypes
  <2>12. persist_then_reply(n, batch(k), Reply(TRUE, message))
    BY <1>8
  <2> HIDE DEF batch, message
  <2>13. LocalInv'
    BY <1>2, <1>4, <2>1, <2>2, <2>10, <2>11, <2>12, ReplyLocal DEF LiveRole
  <2> QED
    BY <2>9, <2>13
<1> QED
  BY <1>3, <1>7, <1>8

-----------------------------------------------------------------------------
(* Winning an election, and the handlers of a leader *)

\* A batch with new entries, or with a new commit index.
LEMMA EntriesBatchInv ==
  ASSUME NEW d \in DiskState, NEW t, NEW v, NEW l, NEW c, IdleInv(t, v, l, c, d),
         NEW es \in Seq(Entry), NEW b, b.hard_state = Nil, b.truncate_from = 0,
         b.entries = es, b.commit_index = 0
  PROVE  BatchInv(t, v, l \o es, c, d, b)
<1>1. d.log \in Seq(Entry) /\ d.commit \in Nat
  BY DEF DiskState
<1>2. Len(d.log) \in Nat
  BY <1>1, SMT
<1> QED
  BY <1>1, <1>2, SMT DEF IdleInv, BatchInv

LEMMA CommitBatchInv ==
  ASSUME NEW d \in DiskState, NEW t, NEW v, NEW l, NEW c, IdleInv(t, v, l, c, d),
         NEW target \in Nat, target > c, NEW b, b.hard_state = Nil, b.truncate_from = 0,
         b.entries = << >>, b.commit_index = target
  PROVE  BatchInv(t, v, l, target, d, b)
<1>1. d.log \in Seq(Entry) /\ d.commit \in Nat
  BY DEF DiskState
<1>2. d.log \o << >> = d.log /\ Len(d.log) \in Nat
  BY <1>1, SMT
<1> QED
  BY <1>1, <1>2, SMT DEF IdleInv, BatchInv

\* A leader's step that leaves a storage operation outstanding.
LEMMA LeaderPersistLocal ==
  ASSUME TypeOK, LocalInv, NEW n \in Node, NEW batch \in PersistBatch,
         NEW kind \in {"become_leader", "on_client_request", "maybe_advance_commit"},
         begin_persist(n, batch, Resume(kind)),
         \A q \in Node \ {n} :
           /\ role'[q] = role[q] /\ current_term'[q] = current_term[q]
           /\ voted_for'[q] = voted_for[q] /\ log'[q] = log[q]
           /\ commit_index'[q] = commit_index[q] /\ last_applied'[q] = last_applied[q]
           /\ durable_last_log_index'[q] = durable_last_log_index[q] /\ disk'[q] = disk[q],
         role'[n] = "leader",
         durable_last_log_index'[n] = Len(disk'[n].log),
         last_applied'[n] = disk'[n].commit,
         BatchInv(current_term'[n], voted_for'[n], log'[n], commit_index'[n], disk'[n], batch),
         batch.truncate_from = 0,
         kind = "maybe_advance_commit" => batch.entries = << >>,
         kind # "maybe_advance_commit" => batch.entries # << >> /\ batch.commit_index = 0
  PROVE  LocalInv' /\ pending_storage' \in [Node -> PendingStorage \cup {Nil}]
<1> DEFINE after == Resume(kind)
<1>1. after \in Continuation /\ after.kind = kind
  BY DEF Resume, Continuation
<1>2. pending_storage' = [pending_storage EXCEPT
                            ![n] = [batch |-> batch, after_success |-> after]]
  BY DEF begin_persist
<1> HIDE DEF after
<1>3. [batch |-> batch, after_success |-> after] \in PendingStorage
  BY <1>1 DEF PendingStorage
<1>4. /\ pending_storage' \in [Node -> PendingStorage \cup {Nil}]
      /\ pending_storage'[n] = [batch |-> batch, after_success |-> after]
      /\ pending_storage'[n] # Nil
      /\ \A q \in Node \ {n} : pending_storage'[q] = pending_storage[q]
  BY <1>2, <1>3, NilAssumption, VariableTypes
<1>5. OthersKept(n)
  BY <1>4 DEF OthersKept
<1>6. NodeInv(n)'
  BY <1>4, SMT DEF NodeInv
<1>7. ShapeInv(n)' /\ CandidateInv(n)'
  BY <1>1, <1>4, SMT DEF ShapeInv, CandidateInv, Kind, Live, LiveRole
<1> QED
  BY <1>4, <1>5, <1>6, <1>7, LocalStep

LEMMA ClientRequestLocal ==
  ASSUME TypeOK, LocalInv, NEW n \in Node, NEW command \in Command,
         on_client_request(n, command)
  PROVE  TypeOK' /\ LocalInv'
<1> DEFINE entry == [term |-> current_term[n], command |-> command]
           batch == [EmptyBatch EXCEPT !.entries = <<entry>>]
           waiter == [index |-> Len(log[n]) + 1, command |-> command]
<1>1. /\ Idle(n) /\ role[n] = "leader"
      /\ log' = [log EXCEPT ![n] = Append(@, entry)]
      /\ pending_clients' = [pending_clients EXCEPT ![n] = @ \cup {waiter}]
      /\ begin_persist(n, batch, Resume("on_client_request"))
      /\ UNCHANGED <<hard_vars, commit_index, last_applied, durable_last_log_index,
                     role_vars, peer_vars, timer_vars, ghost_vars, disk, msgs, bound_vars>>
  BY DEF on_client_request
<1>2. entry \in Entry /\ waiter \in [index : Nat, command : Command]
      /\ <<entry>> \in Seq(Entry) /\ log[n] \in Seq(Entry)
  <2>1. current_term[n] \in Nat /\ log[n] \in Seq(Entry)
    BY VariableTypes
  <2>2. entry \in Entry
    BY <2>1 DEF Entry
  <2>3. Len(log[n]) + 1 \in Nat
    BY <2>1, SMT
  <2> QED
    BY <2>1, <2>2, <2>3, SMT
<1>3. Append(log[n], entry) \in Seq(Entry) /\ Append(log[n], entry) = log[n] \o <<entry>>
  BY <1>2, SMT
<1>4. <<entry>> # << >>
  OBVIOUS
<1> HIDE DEF entry, waiter
<1>5. /\ batch \in PersistBatch
      /\ batch.hard_state = Nil /\ batch.truncate_from = 0
      /\ batch.entries = <<entry>> /\ batch.commit_index = 0
  BY <1>2, EntriesBatch
<1> HIDE DEF batch
<1>6. BatchInv(current_term[n], voted_for[n], log[n] \o <<entry>>, commit_index[n], disk[n],
               batch)
  BY <1>1, <1>2, <1>5, IdleNode, EntriesBatchInv
<1>7. /\ role' = role /\ current_term' = current_term /\ voted_for' = voted_for
      /\ commit_index' = commit_index /\ last_applied' = last_applied
      /\ durable_last_log_index' = durable_last_log_index /\ disk' = disk
      /\ log'[n] = log[n] \o <<entry>>
      /\ \A q \in Node \ {n} : log'[q] = log[q]
  BY <1>1, <1>3, VariableTypes DEF hard_vars, role_vars
<1>8. BatchInv(current_term'[n], voted_for'[n], log'[n], commit_index'[n], disk'[n], batch)
  BY <1>6, <1>7
<1>9. LocalInv' /\ pending_storage' \in [Node -> PendingStorage \cup {Nil}]
  BY <1>1, <1>4, <1>5, <1>7, <1>8, IdleNode, LeaderPersistLocal
<1>10. /\ log' \in [Node -> Seq(Entry)]
       /\ pending_clients' \in [Node -> SUBSET [index : Nat, command : Command]]
  BY <1>1, <1>2, <1>3, VariableTypes
<1>11. TypeOK'
  BY <1>1, <1>9, <1>10, TypesNext, VariableTypes DEF hard_vars, role_vars, peer_vars,
     timer_vars, ghost_vars, bound_vars
<1> QED
  BY <1>9, <1>11

LEMMA AdvanceCommit ==
  ASSUME TypeOK, NEW n \in Node, NEW progress, NEW last \in Nat, last = Len(log[n]),
         maybe_advance_commit(n, progress, last)
  PROVE  \/ /\ pending_storage' = [pending_storage EXCEPT ![n] = Nil]
            /\ UNCHANGED <<commit_index, committed>>
         \/ \E target \in Nat :
              /\ target > commit_index[n]
              /\ commit_index' = [commit_index EXCEPT ![n] = target]
              /\ begin_persist(n, [EmptyBatch EXCEPT !.commit_index = target],
                               Resume("maybe_advance_commit"))
              /\ committed' \in Seq([entry : Entry, term : Nat])
<1>1. CASE cannot_advance_commit(n, progress, last)
  BY <1>1 DEF maybe_advance_commit
<1>2. CASE ~cannot_advance_commit(n, progress, last)
  <2> DEFINE more(target) ==
        [i \in 1..max(0, target - Len(committed)) |->
           [entry |-> log[n][Len(committed) + i], term |-> current_term[n]]]
  <2>1. PICK target \in (commit_index[n] + 1)..last :
          /\ commit_index' = [commit_index EXCEPT ![n] = target]
          /\ begin_persist(n, [EmptyBatch EXCEPT !.commit_index = target],
                           Resume("maybe_advance_commit"))
          /\ committed' = committed \o more(target)
    BY <1>2 DEF maybe_advance_commit
  <2>2. /\ commit_index[n] \in Nat /\ log[n] \in Seq(Entry) /\ current_term[n] \in Nat
        /\ committed \in Seq([entry : Entry, term : Nat]) /\ Len(committed) \in Nat
    BY VariableTypes, SMT
  <2>3. target \in Nat /\ target > commit_index[n] /\ target <= Len(log[n])
    BY <2>2, SMT
  <2>4. more(target) \in Seq([entry : Entry, term : Nat])
    <3> DEFINE count == max(0, target - Len(committed))
    <3>1. count \in Nat
      BY <2>2, <2>3, SMT DEF max
    <3>2. \A i \in 1..count : Len(committed) + i \in 1..Len(log[n])
      BY <2>2, <2>3, SMT DEF max
    <3>3. \A i \in 1..count :
            [entry |-> log[n][Len(committed) + i], term |-> current_term[n]]
              \in [entry : Entry, term : Nat]
      <4> HIDE DEF count
      <4>1. \A j \in 1..Len(log[n]) : log[n][j] \in Entry
        BY <2>2, SMT
      <4> QED
        BY <2>2, <3>2, <4>1
    <3> HIDE DEF count
    <3>4. [i \in 1..count |->
             [entry |-> log[n][Len(committed) + i], term |-> current_term[n]]]
            \in Seq([entry : Entry, term : Nat])
      BY <3>1, <3>3, SMT
    <3> QED
      BY <3>4 DEF count
  <2> HIDE DEF more
  <2>5. committed' \in Seq([entry : Entry, term : Nat])
    BY <2>1, <2>2, <2>4, SMT
  <2> QED
    BY <2>1, <2>3, <2>5
<1> QED
  BY <1>1, <1>2

LEMMA BecomeLeaderLocal ==
  ASSUME TypeOK, LocalInv, NEW n \in Node, NEW m \in msgs, Idle(n), receive_vote(n, m)
  PROVE  TypeOK' /\ LocalInv'
<1>1. /\ role[n] = "candidate"
      /\ UNCHANGED <<hard_vars, commit_index, last_applied, durable_last_log_index,
                     next_rpc_id, heartbeat_timer, committed, pending_clients, disk, msgs,
                     bound_vars>>
  BY DEF receive_vote
<1>2. CASE ~IsQuorum(votes_received[n] \cup {m.from})
  <2>1. /\ votes_received' = [votes_received EXCEPT ![n] = votes_received[n] \cup {m.from}]
        /\ UNCHANGED <<role, leader_hint, leader_ready, readiness_index, log, peers,
                       election_timer, pending_storage, elected>>
    BY <1>2 DEF receive_vote
  <2>2. votes_received' \in [Node -> SUBSET Node]
    <3>1. m.from \in Node /\ votes_received \in [Node -> SUBSET Node]
      BY MessageType, VariableTypes
    <3> QED
      BY <2>1, <3>1
  <2>3. TypeOK'
    BY <1>1, <2>1, <2>2, TypesNext, VariableTypes DEF hard_vars, bound_vars
  <2>4. LocalInv'
    BY <1>1, <2>1, LocalUnchanged DEF hard_vars
  <2> QED
    BY <2>3, <2>4
<1>3. CASE IsQuorum(votes_received[n] \cup {m.from})
  <2>1. become_leader(n)
    BY <1>3 DEF receive_vote
  <2>2. /\ elected' \subseteq Nat \X Node
        /\ leader_ready' \in [Node -> BOOLEAN]
        /\ votes_received' \in [Node -> SUBSET Node]
    <3>1. <<current_term[n], n>> \in Nat \X Node
      BY VariableTypes
    <3>2. /\ elected' = elected \cup {<<current_term[n], n>>}
          /\ leader_ready' = [leader_ready EXCEPT ![n] = FALSE]
          /\ votes_received' = [votes_received EXCEPT ![n] = {}]
      BY <2>1 DEF become_leader
    <3> QED
      BY <3>1, <3>2, VariableTypes
  <2>3. CASE ~can_append(n)
    <3>1. /\ role' = [role EXCEPT ![n] = "follower"]
          /\ leader_hint' = [leader_hint EXCEPT ![n] = Nil]
          /\ election_timer' = [election_timer EXCEPT ![n] = TRUE]
          /\ peers' = [peers EXCEPT ![n] = NoPeers]
          /\ readiness_index' = [readiness_index EXCEPT ![n] = 0]
          /\ UNCHANGED <<log, pending_storage>>
      BY <2>1, <2>3 DEF become_leader
    <3>2. /\ role' \in [Node -> Role]
          /\ leader_hint' \in [Node -> Node \cup {Nil}]
          /\ election_timer' \in [Node -> BOOLEAN]
          /\ peers' \in [Node -> [Node -> PeerProgress]]
          /\ readiness_index' \in [Node -> Nat]
      BY <3>1, NoPeersType, VariableTypes DEF Role, LiveRole
    <3>3. TypeOK'
      BY <1>1, <2>2, <3>1, <3>2, TypesNext, VariableTypes DEF hard_vars, bound_vars
    <3>4. OthersKept(n)
      BY <1>1, <3>1, VariableTypes DEF OthersKept, hard_vars
    <3>5. NodeInv(n)'
      <4>1. NodeInv(n)
        BY DEF LocalInv, Idle, Live
      <4> QED
        BY <1>1, <3>1, <4>1 DEF NodeInv, hard_vars
    <3>6. ShapeInv(n)' /\ CandidateInv(n)'
      BY <1>1, <3>1, IdleNode, VariableTypes DEF ShapeInv, CandidateInv
    <3> QED
      BY <3>3, <3>4, <3>5, <3>6, LocalStep
  <2>4. CASE can_append(n)
    <3> DEFINE no_op == [term |-> current_term[n], command |-> Nil]
               batch == [EmptyBatch EXCEPT !.entries = <<no_op>>]
    <3>1. /\ role' = [role EXCEPT ![n] = "leader"]
          /\ leader_hint' = [leader_hint EXCEPT ![n] = n]
          /\ election_timer' = [election_timer EXCEPT ![n] = FALSE]
          /\ peers' = [peers EXCEPT ![n] =
               [p \in Node |-> NewProgress(durable_last_log_index[n] + 1)]]
          /\ log' = [log EXCEPT ![n] = Append(@, no_op)]
          /\ readiness_index' = [readiness_index EXCEPT ![n] = Len(log[n]) + 1]
          /\ begin_persist(n, batch, Resume("become_leader"))
      BY <2>1, <2>4 DEF become_leader
    <3>2. /\ no_op \in Entry /\ <<no_op>> \in Seq(Entry) /\ log[n] \in Seq(Entry)
          /\ Len(log[n]) + 1 \in Nat /\ durable_last_log_index[n] + 1 \in Nat
      <4>1. /\ current_term[n] \in Nat /\ log[n] \in Seq(Entry)
            /\ durable_last_log_index[n] \in Nat
        BY VariableTypes
      <4>2. no_op \in Entry
        BY <4>1 DEF Entry
      <4> QED
        BY SMTT(30), <4>1, <4>2
    <3>3. Append(log[n], no_op) \in Seq(Entry) /\ Append(log[n], no_op) = log[n] \o <<no_op>>
      BY <3>2, SMT
    <3>4. <<no_op>> # << >>
      OBVIOUS
    <3> HIDE DEF no_op
    <3>5. /\ batch \in PersistBatch
          /\ batch.hard_state = Nil /\ batch.truncate_from = 0
          /\ batch.entries = <<no_op>> /\ batch.commit_index = 0
      BY <3>2, EntriesBatch
    <3> HIDE DEF batch
    <3>6. BatchInv(current_term[n], voted_for[n], log[n] \o <<no_op>>, commit_index[n],
                   disk[n], batch)
      BY <3>2, <3>5, IdleNode, EntriesBatchInv
    <3>7. /\ current_term' = current_term /\ voted_for' = voted_for
          /\ commit_index' = commit_index /\ last_applied' = last_applied
          /\ durable_last_log_index' = durable_last_log_index /\ disk' = disk
          /\ log'[n] = log[n] \o <<no_op>> /\ role'[n] = "leader"
          /\ \A q \in Node \ {n} : log'[q] = log[q] /\ role'[q] = role[q]
      BY <1>1, <3>1, <3>3, VariableTypes DEF hard_vars
    <3>8. BatchInv(current_term'[n], voted_for'[n], log'[n], commit_index'[n], disk'[n], batch)
      BY <3>6, <3>7
    <3>9. LocalInv' /\ pending_storage' \in [Node -> PendingStorage \cup {Nil}]
      BY <3>1, <3>4, <3>5, <3>7, <3>8, IdleNode, LeaderPersistLocal
    <3>10. peers' \in [Node -> [Node -> PeerProgress]]
      <4>1. [p \in Node |-> NewProgress(durable_last_log_index[n] + 1)] \in [Node -> PeerProgress]
        BY <3>2, NewProgressType
      <4> QED
        BY <3>1, <4>1, VariableTypes
    <3>11. /\ role' \in [Node -> Role]
           /\ leader_hint' \in [Node -> Node \cup {Nil}]
           /\ election_timer' \in [Node -> BOOLEAN]
           /\ log' \in [Node -> Seq(Entry)]
           /\ readiness_index' \in [Node -> Nat]
      BY <3>1, <3>2, <3>3, VariableTypes DEF Role, LiveRole
    <3>12. TypeOK'
      BY <1>1, <2>2, <3>9, <3>10, <3>11, TypesNext, VariableTypes DEF hard_vars, bound_vars
    <3> QED
      BY <3>9, <3>12
  <2> QED
    BY <2>3, <2>4
<1> QED
  BY <1>2, <1>3

LEMMA AppendFailureLocal ==
  ASSUME TypeOK, LocalInv, NEW n \in Node, NEW m \in msgs, Idle(n), m.conflict_index \in Nat,
         on_append_failure(n, m.from, m),
         UNCHANGED <<hard_vars, log, last_applied, durable_last_log_index, role_vars,
                     timer_vars, elected, pending_clients, disk, bound_vars>>
  PROVE  TypeOK' /\ LocalInv'
<1> DEFINE p == m.from
           old == peers[n][p]
           last == durable_last_log_index[n]
           hinted(i) == IF m.conflict_term # 0 /\ i > 0 THEN i + 1 ELSE m.conflict_index
           back(i) == IF hinted(i) = 0 THEN max(1, old.next_index - 1) ELSE hinted(i)
           next(i) == max(min(back(i), last + 1), old.match_index + 1)
           fresh(i) == [old EXCEPT !.next_index = next(i), !.inflight = Nil, !.age = 0]
<1>1. PICK i \in 0..Len(log[n]) : send_appends(n, {p}, [peers[n] EXCEPT ![p] = fresh(i)], last)
  BY DEF on_append_failure
<1>2. UNCHANGED <<commit_index, committed, pending_storage>>
  BY DEF on_append_failure
<1>3. /\ p \in Node /\ peers[n] \in [Node -> PeerProgress] /\ old \in PeerProgress
      /\ last \in Nat /\ Len(log[n]) \in Nat
  <2>1. p \in Node
    BY MessageType
  <2>2. /\ peers[n] \in [Node -> PeerProgress] /\ last \in Nat /\ log[n] \in Seq(Entry)
    BY VariableTypes
  <2> QED
    BY SMTT(30), <2>1, <2>2
<1>4. old.next_index \in Nat /\ old.match_index \in Nat
  BY <1>3 DEF PeerProgress
<1>5. next(i) \in Nat
  <2>1. i \in Nat
    BY <1>3, SMT
  <2>2. hinted(i) \in Nat
    <3>1. i + 1 \in Nat
      BY <2>1, SMT
    <3> QED
      BY <3>1
  <2> HIDE DEF old, last, hinted
  <2> QED
    BY <1>3, <1>4, <2>2, BackedOffType
<1> HIDE DEF next, old
<1>6. fresh(i) \in PeerProgress
  BY <1>3, <1>5 DEF PeerProgress
<1> HIDE DEF fresh
<1>7. [peers[n] EXCEPT ![p] = fresh(i)] \in [Node -> PeerProgress]
  BY <1>3, <1>6
<1>8. last = Len(log[n])
  BY IdleNode DEF IdleInv
<1>9. /\ peers' \in [Node -> [Node -> PeerProgress]]
      /\ next_rpc_id' \in [Node -> [Node -> Nat]]
      /\ msgs' \subseteq Message
  <2> HIDE DEF p, last
  <2> QED
    BY <1>1, <1>3, <1>7, <1>8, SendAppendsType
<1>10. TypeOK'
  BY <1>2, <1>9, TypesNext, VariableTypes DEF hard_vars, role_vars, timer_vars, bound_vars
<1>11. LocalInv'
  BY <1>2, LocalUnchanged DEF hard_vars, role_vars
<1> QED
  BY <1>10, <1>11

\* A leader with memory on its medium that may advance its commit index.
LEMMA AdvanceLocal ==
  ASSUME TypeOK, LocalInv, NEW n \in Node, role[n] = "leader", role'[n] = "leader",
         NEW progress, NEW last \in Nat, last = Len(log[n]),
         maybe_advance_commit(n, progress, last),
         UNCHANGED <<role, current_term, voted_for, log, last_applied>>,
         disk' \in [Node -> DiskState],
         \A q \in Node \ {n} : /\ disk'[q] = disk[q]
                               /\ durable_last_log_index'[q] = durable_last_log_index[q],
         IdleInv(current_term[n], voted_for[n], log[n], commit_index[n], disk'[n]),
         durable_last_log_index'[n] = Len(disk'[n].log),
         last_applied[n] = disk'[n].commit
  PROVE  /\ LocalInv'
         /\ pending_storage' \in [Node -> PendingStorage \cup {Nil}]
         /\ commit_index' \in [Node -> Nat]
         /\ committed' \in Seq([entry : Entry, term : Nat])
<1>1. CASE /\ pending_storage' = [pending_storage EXCEPT ![n] = Nil]
           /\ UNCHANGED <<commit_index, committed>>
  <2>1. /\ pending_storage' \in [Node -> PendingStorage \cup {Nil}]
        /\ pending_storage'[n] = Nil
        /\ \A q \in Node \ {n} : pending_storage'[q] = pending_storage[q]
        /\ commit_index' \in [Node -> Nat]
        /\ committed' \in Seq([entry : Entry, term : Nat])
    BY <1>1, VariableTypes
  <2>2. OthersKept(n)
    BY <1>1, <2>1 DEF OthersKept
  <2>3. NodeInv(n)'
    BY <1>1, <2>1 DEF NodeInv
  <2>4. ShapeInv(n)' /\ CandidateInv(n)'
    BY <2>1 DEF ShapeInv, CandidateInv
  <2> QED
    BY <2>1, <2>2, <2>3, <2>4, LocalStep
<1>2. ASSUME NEW target \in Nat,
             target > commit_index[n],
             commit_index' = [commit_index EXCEPT ![n] = target],
             begin_persist(n, [EmptyBatch EXCEPT !.commit_index = target],
                           Resume("maybe_advance_commit")),
             committed' \in Seq([entry : Entry, term : Nat])
      PROVE  /\ LocalInv'
             /\ pending_storage' \in [Node -> PendingStorage \cup {Nil}]
             /\ commit_index' \in [Node -> Nat]
             /\ committed' \in Seq([entry : Entry, term : Nat])
  <2> DEFINE batch == [EmptyBatch EXCEPT !.commit_index = target]
  <2>1. /\ batch \in PersistBatch
        /\ batch.hard_state = Nil /\ batch.truncate_from = 0
        /\ batch.entries = << >> /\ batch.commit_index = target
    BY CommitBatch
  <2>2. begin_persist(n, batch, Resume("maybe_advance_commit"))
    BY <1>2
  <2> HIDE DEF batch
  <2>3. /\ commit_index' \in [Node -> Nat]
        /\ commit_index'[n] = target
        /\ \A q \in Node \ {n} : commit_index'[q] = commit_index[q]
    BY <1>2, VariableTypes
  <2>4. BatchInv(current_term[n], voted_for[n], log[n], target, disk'[n], batch)
    BY <1>2, <2>1, CommitBatchInv
  <2>5. BatchInv(current_term'[n], voted_for'[n], log'[n], commit_index'[n], disk'[n], batch)
    BY <2>3, <2>4
  <2>6. LocalInv' /\ pending_storage' \in [Node -> PendingStorage \cup {Nil}]
    BY <2>1, <2>2, <2>3, <2>5, LeaderPersistLocal
  <2> QED
    BY <1>2, <2>3, <2>6
<1> QED
  BY <1>1, <1>2, AdvanceCommit

LEMMA AppendSuccessLocal ==
  ASSUME TypeOK, LocalInv, NEW n \in Node, NEW m \in msgs, Idle(n), role[n] = "leader",
         peers[n][m.from].inflight # Nil,
         on_append_success(n, m.from, m),
         UNCHANGED <<hard_vars, log, last_applied, durable_last_log_index, role_vars,
                     timer_vars, elected, pending_clients, disk, bound_vars>>
  PROVE  TypeOK' /\ LocalInv'
<1> DEFINE p == m.from
           old == peers[n][p]
           sent == old.inflight
           idle == [old EXCEPT !.inflight = Nil, !.age = 0]
           match == max(idle.match_index, sent.last_index)
           confirmed == m.match_index >= sent.last_index
           fresh == [idle EXCEPT !.match_index = match, !.next_index = match + 1]
           progress == [peers[n] EXCEPT ![p] = IF confirmed THEN fresh ELSE idle]
           last == durable_last_log_index[n]
           lacks == confirmed /\ cannot_advance_commit(n, progress, last) /\ match < last
           S == IF lacks THEN {p} ELSE {}
<1>1. /\ IF confirmed THEN maybe_advance_commit(n, progress, last)
         ELSE UNCHANGED <<commit_index, committed, pending_storage>>
      /\ send_appends(n, S, progress, last)
  BY DEF on_append_success
<1>2. /\ p \in Node /\ peers[n] \in [Node -> PeerProgress] /\ old \in PeerProgress
      /\ last \in Nat
  BY MessageType, VariableTypes
<1>3. old.match_index \in Nat /\ sent \in InflightAppend
  BY <1>2 DEF PeerProgress
<1>4. idle \in PeerProgress /\ idle.match_index = old.match_index
  BY <1>2 DEF PeerProgress
<1>5. match \in Nat
  <2>1. sent.last_index \in Nat
    BY <1>3 DEF InflightAppend
  <2> HIDE DEF sent, idle, old
  <2> QED
    BY <1>3, <1>4, <2>1 DEF max
<1> HIDE DEF idle, match, old
<1>6. fresh \in PeerProgress
  <2>1. match + 1 \in Nat
    BY <1>5, SMT
  <2> QED
    BY <1>4, <1>5, <2>1 DEF PeerProgress
<1> HIDE DEF fresh, confirmed
<1>7. progress \in [Node -> PeerProgress]
  BY <1>2, <1>4, <1>6
<1> HIDE DEF progress
<1>8. last = Len(log[n]) /\ S \in SUBSET Node
  BY <1>2, IdleNode DEF IdleInv
<1> HIDE DEF S
<1>9. /\ peers' \in [Node -> [Node -> PeerProgress]]
      /\ next_rpc_id' \in [Node -> [Node -> Nat]]
      /\ msgs' \subseteq Message
  <2> HIDE DEF last
  <2> QED
    BY <1>1, <1>2, <1>7, <1>8, SendAppendsType
<1>10. /\ LocalInv'
       /\ pending_storage' \in [Node -> PendingStorage \cup {Nil}]
       /\ commit_index' \in [Node -> Nat]
       /\ committed' \in Seq([entry : Entry, term : Nat])
  <2>1. CASE confirmed
    <3>1. maybe_advance_commit(n, progress, last)
      BY <1>1, <2>1
    <3>2. /\ UNCHANGED <<role, current_term, voted_for, log, last_applied>>
          /\ disk' = disk /\ durable_last_log_index' = durable_last_log_index
          /\ disk' \in [Node -> DiskState]
      BY VariableTypes DEF hard_vars, role_vars
    <3>3. /\ IdleInv(current_term[n], voted_for[n], log[n], commit_index[n], disk'[n])
          /\ durable_last_log_index'[n] = Len(disk'[n].log)
          /\ last_applied[n] = disk'[n].commit
      BY <3>2, IdleNode
    <3> HIDE DEF last
    <3> QED
      BY <1>2, <1>8, <3>1, <3>2, <3>3, AdvanceLocal
  <2>2. CASE ~confirmed
    <3>1. UNCHANGED <<commit_index, committed, pending_storage>>
      BY <1>1, <2>2
    <3>2. LocalInv'
      BY <3>1, LocalUnchanged DEF hard_vars, role_vars
    <3> QED
      BY <3>1, <3>2, VariableTypes
  <2> QED
    BY <2>1, <2>2
<1>11. TypeOK'
  BY <1>9, <1>10, TypesNext, VariableTypes DEF hard_vars, role_vars, timer_vars, bound_vars
<1> QED
  BY <1>10, <1>11

-----------------------------------------------------------------------------
(* Storage *)

\* A completion after which no storage operation is outstanding.
LEMMA CompletionLocal ==
  ASSUME TypeOK, LocalInv, NEW n \in Node, Live(n), pending_storage[n] # Nil, Durable(n),
         pending_storage' = [pending_storage EXCEPT ![n] = Nil],
         UNCHANGED <<role, current_term, voted_for, log, commit_index>>,
         last_applied'[n] = commit_index[n],
         \A q \in Node \ {n} : last_applied'[q] = last_applied[q]
  PROVE  LocalInv' /\ pending_storage' \in [Node -> PendingStorage \cup {Nil}]
<1>1. /\ pending_storage' \in [Node -> PendingStorage \cup {Nil}]
      /\ pending_storage'[n] = Nil
      /\ \A q \in Node \ {n} : pending_storage'[q] = pending_storage[q]
  BY VariableTypes
<1>2. OthersKept(n)
  BY <1>1, DurableIsMemory DEF OthersKept
<1>3. last_applied'[n] = disk'[n].commit
  BY DurableIsMemory DEF IdleInv
<1>4. NodeInv(n)'
  BY <1>1, <1>3, DurableIsMemory DEF NodeInv
<1>5. CandidateInv(n)
  BY DEF LocalInv
<1>6. ShapeInv(n)' /\ CandidateInv(n)'
  BY <1>1, <1>5 DEF ShapeInv, CandidateInv
<1> QED
  BY <1>1, <1>2, <1>4, <1>6, LocalStep

LEMMA CompleteReplyLocal ==
  ASSUME TypeOK, LocalInv, NEW n \in Node, complete_reply(n)
  PROVE  TypeOK' /\ LocalInv'
<1> DEFINE after == pending_storage[n].after_success
<1>1. /\ Live(n) /\ pending_storage[n] # Nil /\ Durable(n)
      /\ pending_storage' = [pending_storage EXCEPT ![n] = Nil]
      /\ run_reply(n, after)
      /\ UNCHANGED <<hard_vars, log, commit_index, role_vars, peer_vars,
                     heartbeat_timer, ghost_vars, bound_vars>>
  BY DEF complete_reply, Resumes, Live
<1>2. /\ last_applied' \in [Node -> Nat]
      /\ last_applied'[n] = commit_index[n]
      /\ \A q \in Node \ {n} : last_applied'[q] = last_applied[q]
      /\ pending_clients' \in [Node -> SUBSET [index : Nat, command : Command]]
  <2>1. CASE pending_storage[n].batch.commit_index # 0
    BY <1>1, <2>1, AppliedIsCommitted DEF complete_reply
  <2>2. CASE pending_storage[n].batch.commit_index = 0
    <3>1. UNCHANGED <<last_applied, pending_clients>>
      BY <2>2 DEF complete_reply
    <3> QED
      BY <1>1, <2>2, <3>1, AppliedIsCommitted, VariableTypes
  <2> QED
    BY <2>1, <2>2
<1>3. LocalInv' /\ pending_storage' \in [Node -> PendingStorage \cup {Nil}]
  BY <1>1, <1>2, CompletionLocal DEF hard_vars, role_vars
<1>4. /\ disk' \in [Node -> DiskState]
      /\ durable_last_log_index' \in [Node -> Nat]
  BY <1>1, DurableIsMemory
<1>5. msgs' \subseteq Message /\ election_timer' \in [Node -> BOOLEAN]
  <2>1. after.message \in Message \cup {Nil} /\ after.rearm \in BOOLEAN
    <3>1. pending_storage[n] \in PendingStorage
      BY <1>1, VariableTypes
    <3>2. after \in Continuation
      BY <3>1 DEF PendingStorage
    <3> QED
      BY <3>2 DEF Continuation
  <2> HIDE DEF after
  <2>2. msgs' \subseteq Message
    BY <1>1, <2>1, VariableTypes DEF run_reply
  <2>3. election_timer' \in [Node -> BOOLEAN]
    BY <1>1, <2>1, VariableTypes DEF run_reply
  <2> QED
    BY <2>2, <2>3
<1>6. TypeOK'
  BY <1>1, <1>2, <1>3, <1>4, <1>5, TypesNext, VariableTypes DEF hard_vars, role_vars,
     peer_vars, ghost_vars, bound_vars
<1> QED
  BY <1>3, <1>6

LEMMA CompleteElectionLocal ==
  ASSUME TypeOK, LocalInv, NEW n \in Node, complete_election(n)
  PROVE  TypeOK' /\ LocalInv'
<1>1. /\ Live(n) /\ pending_storage[n] # Nil /\ Durable(n) /\ Kind(n) = "begin_election"
      /\ pending_storage' = [pending_storage EXCEPT ![n] = Nil]
      /\ election_timer' = [election_timer EXCEPT ![n] = TRUE]
      /\ msgs' = msgs \cup {VoteRequest(n, p) : p \in Node \ {n}}
      /\ UNCHANGED <<hard_vars, log, commit_index, last_applied, role_vars, peer_vars,
                     heartbeat_timer, ghost_vars, pending_clients, bound_vars>>
  BY DEF complete_election, Resumes, Live, Kind
<1>2. ShapeInv(n)
  BY DEF LocalInv
<1>3. last_applied[n] = commit_index[n]
  BY <1>1, <1>2, AppliedIsCommitted DEF ShapeInv
<1>4. LocalInv' /\ pending_storage' \in [Node -> PendingStorage \cup {Nil}]
  BY <1>1, <1>3, CompletionLocal DEF hard_vars, role_vars
<1>5. /\ disk' \in [Node -> DiskState]
      /\ durable_last_log_index' \in [Node -> Nat]
  BY <1>1, DurableIsMemory
<1>6. msgs' \subseteq Message
  <2>1. /\ current_term[n] \in Nat /\ durable_last_log_index[n] \in Nat
        /\ durable_last_log_index[n] \in Int /\ log[n] \in Seq(Entry)
    BY VariableTypes, SMT
  <2>2. term_at(log[n], durable_last_log_index[n]) \in Nat
    BY <2>1, TermAtType
  <2>3. \A p \in Node : VoteRequest(n, p) \in RequestVoteMsg
    BY <2>1, <2>2 DEF VoteRequest, RequestVoteMsg
  <2>4. \A p \in Node : VoteRequest(n, p) \in Message
    BY <2>3 DEF Message
  <2>5. msgs \subseteq Message
    BY VariableTypes
  <2> QED
    BY <1>1, <2>4, <2>5
<1>7. election_timer' \in [Node -> BOOLEAN]
  BY <1>1, VariableTypes
<1>8. TypeOK'
  BY <1>1, <1>4, <1>5, <1>6, <1>7, TypesNext, VariableTypes DEF hard_vars, role_vars,
     peer_vars, ghost_vars, bound_vars
<1> QED
  BY <1>4, <1>8

LEMMA CompleteAppendLocal ==
  ASSUME TypeOK, LocalInv, NEW n \in Node, complete_append(n)
  PROVE  TypeOK' /\ LocalInv'
<1> DEFINE last == Len(log[n])
<1>1. /\ Live(n) /\ pending_storage[n] # Nil /\ Durable(n)
      /\ Kind(n) \in {"become_leader", "on_client_request"}
      /\ send_appends(n, Node, peers[n], last)
      /\ maybe_advance_commit(n, peers[n], last)
      /\ UNCHANGED <<hard_vars, log, last_applied, role_vars, election_timer, elected,
                     pending_clients, bound_vars>>
  BY DEF complete_append, Resumes, Live, Kind
<1>2. pending_storage[n].batch.commit_index = 0 /\ role[n] = "leader"
  <2>1. ShapeInv(n)
    BY DEF LocalInv
  <2> QED
    BY <1>1, <2>1 DEF ShapeInv
<1>3. heartbeat_timer' \in [Node -> BOOLEAN]
  BY VariableTypes DEF complete_append
<1>4. last \in Nat /\ last = Len(log[n]) /\ peers[n] \in [Node -> PeerProgress]
  <2>1. log[n] \in Seq(Entry) /\ peers[n] \in [Node -> PeerProgress]
    BY VariableTypes
  <2> QED
    BY <2>1, SMT
<1> HIDE DEF last
<1>5. /\ peers' \in [Node -> [Node -> PeerProgress]]
      /\ next_rpc_id' \in [Node -> [Node -> Nat]]
      /\ msgs' \subseteq Message
  <2>1. Node \in SUBSET Node
    OBVIOUS
  <2> QED
    BY <1>1, <1>4, <2>1, SendAppendsType
<1>6. /\ disk' \in [Node -> DiskState]
      /\ durable_last_log_index' \in [Node -> Nat]
      /\ \A q \in Node \ {n} : /\ disk'[q] = disk[q]
                               /\ durable_last_log_index'[q] = durable_last_log_index[q]
      /\ IdleInv(current_term[n], voted_for[n], log[n], commit_index[n], disk'[n])
      /\ durable_last_log_index'[n] = Len(disk'[n].log)
  BY <1>1, DurableIsMemory
<1>7. last_applied[n] = disk'[n].commit
  BY <1>1, <1>2, <1>6, AppliedIsCommitted DEF IdleInv
<1>8. UNCHANGED <<role, current_term, voted_for, log, last_applied>>
  BY <1>1 DEF hard_vars, role_vars
<1>9. /\ LocalInv'
      /\ pending_storage' \in [Node -> PendingStorage \cup {Nil}]
      /\ commit_index' \in [Node -> Nat]
      /\ committed' \in Seq([entry : Entry, term : Nat])
  BY <1>1, <1>2, <1>4, <1>6, <1>7, <1>8, AdvanceLocal
<1>10. TypeOK'
  BY <1>1, <1>3, <1>5, <1>6, <1>9, TypesNext, VariableTypes DEF hard_vars, role_vars,
     bound_vars
<1> QED
  BY <1>9, <1>10

LEMMA CompleteCommitLocal ==
  ASSUME TypeOK, LocalInv, NEW n \in Node, complete_commit(n)
  PROVE  TypeOK' /\ LocalInv'
<1> DEFINE last == durable_last_log_index[n]
<1>1. /\ Live(n) /\ pending_storage[n] # Nil /\ Durable(n)
      /\ Kind(n) = "maybe_advance_commit"
      /\ apply_committed(n)
      /\ send_appends(n, Node, peers[n], last)
      /\ pending_storage' = [pending_storage EXCEPT ![n] = Nil]
      /\ UNCHANGED <<hard_vars, log, commit_index, role, leader_hint, readiness_index,
                     votes_received, timer_vars, ghost_vars, bound_vars>>
  BY DEF complete_commit, Resumes, Live, Kind
<1>2. last \in Nat /\ last = Len(log[n]) /\ peers[n] \in [Node -> PeerProgress]
  <2>1. NodeInv(n) /\ ShapeInv(n)
    BY <1>1 DEF LocalInv
  <2>2. log[n] = disk[n].log \o << >> /\ last = Len(disk[n].log)
    BY <1>1, <2>1 DEF NodeInv, BatchInv, ShapeInv
  <2>3. disk[n] \in DiskState /\ last \in Nat /\ peers[n] \in [Node -> PeerProgress]
    BY VariableTypes
  <2>4. disk[n].log \in Seq(Entry)
    BY <2>3 DEF DiskState
  <2>5. log[n] = disk[n].log
    BY <2>2, <2>4, SMT
  <2> QED
    BY <2>2, <2>3, <2>5
<1> HIDE DEF last
<1>3. /\ peers' \in [Node -> [Node -> PeerProgress]]
      /\ next_rpc_id' \in [Node -> [Node -> Nat]]
      /\ msgs' \subseteq Message
  <2>1. Node \in SUBSET Node
    OBVIOUS
  <2> QED
    BY <1>1, <1>2, <2>1, SendAppendsType
<1>4. /\ last_applied' \in [Node -> Nat]
      /\ last_applied'[n] = commit_index[n]
      /\ \A q \in Node \ {n} : last_applied'[q] = last_applied[q]
      /\ pending_clients' \in [Node -> SUBSET [index : Nat, command : Command]]
  BY <1>1, AppliedIsCommitted
<1>5. LocalInv' /\ pending_storage' \in [Node -> PendingStorage \cup {Nil}]
  BY <1>1, <1>4, CompletionLocal DEF hard_vars
<1>6. /\ disk' \in [Node -> DiskState]
      /\ durable_last_log_index' \in [Node -> Nat]
  BY <1>1, DurableIsMemory
<1>7. leader_ready' \in [Node -> BOOLEAN]
  BY VariableTypes DEF complete_commit
<1>8. TypeOK'
  BY <1>1, <1>3, <1>4, <1>5, <1>6, <1>7, TypesNext, VariableTypes DEF hard_vars,
     timer_vars, ghost_vars, bound_vars
<1> QED
  BY <1>5, <1>8

LEMMA StorageFailureLocal ==
  ASSUME TypeOK, LocalInv, NEW n \in Node, on_storage_failure(n)
  PROVE  TypeOK' /\ LocalInv'
<1>1. /\ pending_storage[n] # Nil
      /\ fail_storage(n)
      /\ disk' \in {disk, [disk EXCEPT ![n] = ApplyBatch(@, pending_storage[n].batch)]}
      /\ UNCHANGED <<hard_vars, log_vars, readiness_index, next_rpc_id, msgs, ghost_vars,
                     elections, late>>
  BY DEF on_storage_failure
<1>2. faults' \in Nat
  BY VariableTypes, SMT DEF on_storage_failure
<1>3. disk' \in [Node -> DiskState] /\ \A q \in Node \ {n} : disk'[q] = disk[q]
  BY <1>1, MediumType
<1>4. /\ role' \in [Node -> Role]
      /\ leader_hint' \in [Node -> Node \cup {Nil}]
      /\ leader_ready' \in [Node -> BOOLEAN]
      /\ votes_received' \in [Node -> SUBSET Node]
      /\ peers' \in [Node -> [Node -> PeerProgress]]
      /\ pending_clients' \in [Node -> SUBSET [index : Nat, command : Command]]
      /\ pending_storage' \in [Node -> PendingStorage \cup {Nil}]
      /\ election_timer' \in [Node -> BOOLEAN]
      /\ heartbeat_timer' \in [Node -> BOOLEAN]
      /\ role'[n] = "unavailable" /\ pending_storage'[n] = Nil
      /\ \A q \in Node \ {n} : /\ role'[q] = role[q]
                               /\ pending_storage'[q] = pending_storage[q]
  BY <1>1, FailStorageType
<1>5. TypeOK'
  BY <1>1, <1>2, <1>3, <1>4, TypesNext, VariableTypes DEF hard_vars, log_vars, ghost_vars
<1>6. OthersKept(n)
  BY <1>1, <1>3, <1>4 DEF OthersKept, hard_vars, log_vars
<1>7. LocalInv'
  BY <1>4, <1>6, LocalStep DEF Live, LiveRole, ShapeInv, CandidateInv
<1> QED
  BY <1>5, <1>7

-----------------------------------------------------------------------------
(* Crash and restart *)

LEMMA CrashLocal ==
  ASSUME TypeOK, LocalInv, NEW n \in Node, crash(n)
  PROVE  TypeOK' /\ LocalInv'
<1>1. /\ role' \in [Node -> Role] /\ role'[n] = "down"
      /\ \A q \in Node \ {n} : role'[q] = role[q]
  BY VariableTypes DEF crash, Role
<1>2. /\ current_term' \in [Node -> Nat] /\ voted_for' \in [Node -> Node \cup {Nil}]
      /\ \A q \in Node \ {n} : /\ current_term'[q] = current_term[q]
                               /\ voted_for'[q] = voted_for[q]
  BY VariableTypes DEF crash
<1>3. /\ log' \in [Node -> Seq(Entry)]
      /\ \A q \in Node \ {n} : log'[q] = log[q]
  BY VariableTypes, SMTT(30) DEF crash
<1>4. /\ commit_index' \in [Node -> Nat] /\ last_applied' \in [Node -> Nat]
      /\ durable_last_log_index' \in [Node -> Nat]
  BY VariableTypes DEF crash
<1>5. \A q \in Node \ {n} : /\ commit_index'[q] = commit_index[q]
                            /\ last_applied'[q] = last_applied[q]
                            /\ durable_last_log_index'[q] = durable_last_log_index[q]
  BY VariableTypes DEF crash
<1>6. /\ leader_hint' \in [Node -> Node \cup {Nil}]
      /\ leader_ready' \in [Node -> BOOLEAN]
      /\ readiness_index' \in [Node -> Nat]
      /\ votes_received' \in [Node -> SUBSET Node]
  BY VariableTypes DEF crash
<1>7. peers' \in [Node -> [Node -> PeerProgress]]
  BY NoPeersType, VariableTypes DEF crash
<1>8. next_rpc_id' \in [Node -> [Node -> Nat]]
  <2>1. [p \in Node |-> 1] \in [Node -> Nat]
    OBVIOUS
  <2> QED
    BY <2>1, VariableTypes DEF crash
<1>9. pending_clients' \in [Node -> SUBSET [index : Nat, command : Command]]
  BY VariableTypes DEF crash
<1>10. /\ pending_storage' \in [Node -> PendingStorage \cup {Nil}]
       /\ pending_storage'[n] = Nil
       /\ \A q \in Node \ {n} : pending_storage'[q] = pending_storage[q]
  BY VariableTypes DEF crash
<1>11. election_timer' \in [Node -> BOOLEAN] /\ heartbeat_timer' \in [Node -> BOOLEAN]
  BY VariableTypes DEF crash
<1>12. disk' \in [Node -> DiskState] /\ \A q \in Node \ {n} : disk'[q] = disk[q]
  <2>1. CASE pending_storage[n] = Nil
    <3>1. disk' = disk
      BY <2>1 DEF crash
    <3> QED
      BY <3>1, VariableTypes
  <2>2. CASE pending_storage[n] # Nil
    <3>1. disk' \in {disk, [disk EXCEPT ![n] = ApplyBatch(@, pending_storage[n].batch)]}
      BY <2>2 DEF crash
    <3> QED
      BY <2>2, <3>1, MediumType
  <2> QED
    BY <2>1, <2>2
<1>13. faults' \in Nat /\ UNCHANGED <<msgs, ghost_vars, elections, late>>
  BY VariableTypes, SMTT(30) DEF crash
<1>14. TypeOK'
  BY <1>1, <1>2, <1>3, <1>4, <1>6, <1>7, <1>8, <1>9, <1>10, <1>11, <1>12, <1>13, TypesNext,
     VariableTypes DEF ghost_vars
<1>15. OthersKept(n)
  BY <1>1, <1>2, <1>3, <1>5, <1>10, <1>12 DEF OthersKept
<1>16. LocalInv'
  BY <1>1, <1>10, <1>15, LocalStep DEF Live, LiveRole, ShapeInv, CandidateInv
<1> QED
  BY <1>14, <1>16

LEMMA RestartLocal ==
  ASSUME TypeOK, LocalInv, NEW n \in Node, restart(n)
  PROVE  TypeOK' /\ LocalInv'
<1>1. /\ disk[n] \in DiskState /\ disk' = disk /\ pending_storage' = pending_storage
      /\ role[n] = "down"
  BY VariableTypes DEF restart
<1>2. /\ disk[n].term \in Nat /\ disk[n].vote \in Node \cup {Nil}
      /\ disk[n].log \in Seq(Entry) /\ disk[n].commit \in Nat /\ Len(disk[n].log) \in Nat
  BY <1>1, SMT DEF DiskState
<1>3. /\ role' \in [Node -> Role] /\ role'[n] = "follower"
      /\ \A q \in Node \ {n} : role'[q] = role[q]
  BY VariableTypes DEF restart, Role, LiveRole
<1>4. /\ current_term' \in [Node -> Nat] /\ voted_for' \in [Node -> Node \cup {Nil}]
      /\ current_term'[n] = disk[n].term /\ voted_for'[n] = disk[n].vote
      /\ \A q \in Node \ {n} : /\ current_term'[q] = current_term[q]
                               /\ voted_for'[q] = voted_for[q]
  BY <1>2, VariableTypes DEF restart
<1>5. /\ log' \in [Node -> Seq(Entry)] /\ log'[n] = disk[n].log
      /\ \A q \in Node \ {n} : log'[q] = log[q]
  BY <1>2, VariableTypes DEF restart
<1>6. /\ commit_index' \in [Node -> Nat] /\ last_applied' \in [Node -> Nat]
      /\ durable_last_log_index' \in [Node -> Nat]
  BY <1>2, VariableTypes DEF restart
<1>7. /\ commit_index'[n] = disk[n].commit /\ last_applied'[n] = disk[n].commit
      /\ durable_last_log_index'[n] = Len(disk[n].log)
      /\ \A q \in Node \ {n} : /\ commit_index'[q] = commit_index[q]
                               /\ last_applied'[q] = last_applied[q]
                               /\ durable_last_log_index'[q] = durable_last_log_index[q]
  BY <1>2, VariableTypes DEF restart
<1>8. /\ election_timer' \in [Node -> BOOLEAN]
      /\ UNCHANGED <<leader_hint, leader_ready, readiness_index, votes_received, peer_vars,
                     heartbeat_timer, ghost_vars, pending_clients, msgs, bound_vars>>
  BY VariableTypes DEF restart
<1>9. TypeOK'
  BY <1>1, <1>3, <1>4, <1>5, <1>6, <1>8, TypesNext, VariableTypes DEF peer_vars,
     ghost_vars, bound_vars
<1>10. OthersKept(n)
  BY <1>1, <1>3, <1>4, <1>5, <1>7 DEF OthersKept
<1>11. pending_storage[n] = Nil
  <2>1. ShapeInv(n)
    BY DEF LocalInv
  <2> QED
    BY <1>1, <2>1 DEF ShapeInv, Live, LiveRole
<1>12. NodeInv(n)'
  BY <1>1, <1>4, <1>5, <1>7, <1>11 DEF NodeInv, IdleInv
<1>13. ShapeInv(n)' /\ CandidateInv(n)'
  BY <1>1, <1>3, <1>11 DEF ShapeInv, CandidateInv
<1> QED
  BY <1>9, <1>10, <1>12, <1>13, LocalStep

-----------------------------------------------------------------------------
(* Type correctness; memory and medium *)

LEMMA InitLocal ==
  ASSUME Init
  PROVE  TypeOK /\ LocalInv
<1>1. /\ role \in [Node -> Role] /\ votes_received \in [Node -> SUBSET Node]
      /\ current_term \in [Node -> Nat] /\ voted_for \in [Node -> Node \cup {Nil}]
      /\ leader_hint \in [Node -> Node \cup {Nil}]
  BY DEF Init, Role, LiveRole
<1>2. /\ commit_index \in [Node -> Nat] /\ last_applied \in [Node -> Nat]
      /\ durable_last_log_index \in [Node -> Nat] /\ readiness_index \in [Node -> Nat]
      /\ log \in [Node -> Seq(Entry)]
  BY SMT DEF Init
<1>3. /\ leader_ready \in [Node -> BOOLEAN] /\ election_timer \in [Node -> BOOLEAN]
      /\ heartbeat_timer \in [Node -> BOOLEAN]
      /\ pending_clients \in [Node -> SUBSET [index : Nat, command : Command]]
      /\ pending_storage \in [Node -> PendingStorage \cup {Nil}]
  BY DEF Init
<1>4. peers \in [Node -> [Node -> PeerProgress]] /\ next_rpc_id \in [Node -> [Node -> Nat]]
  BY NoPeersType DEF Init
<1>5. disk \in [Node -> DiskState]
  BY SMTT(30) DEF Init, DiskState
<1>6. /\ msgs \subseteq Message /\ elected \subseteq Nat \X Node
      /\ committed \in Seq([entry : Entry, term : Nat])
      /\ elections \in Nat /\ late \in Nat /\ faults \in Nat
  BY SMT DEF Init
<1>7. TypeOK
  BY <1>1, <1>2, <1>3, <1>4, <1>5, <1>6, VariableTypes
<1>8. ASSUME NEW n \in Node
      PROVE  NodeInv(n) /\ ShapeInv(n) /\ CandidateInv(n)
  <2>1. /\ pending_storage[n] = Nil /\ role[n] = "follower"
        /\ disk[n] = [term |-> 0, vote |-> Nil, log |-> << >>, commit |-> 0]
        /\ current_term[n] = 0 /\ voted_for[n] = Nil /\ log[n] = << >>
        /\ commit_index[n] = 0 /\ last_applied[n] = 0 /\ durable_last_log_index[n] = 0
    BY DEF Init
  <2>2. NodeInv(n)
    BY <2>1, SMT DEF NodeInv, IdleInv
  <2> QED
    BY <2>1, <2>2 DEF ShapeInv, CandidateInv
<1> QED
  BY <1>7, <1>8 DEF LocalInv

LEMMA MessageLocal ==
  ASSUME TypeOK, LocalInv, NEW n \in Node, NEW m \in msgs, on_message(n, m)
  PROVE  TypeOK' /\ LocalInv'
<1>1. CASE on_request_vote(n, m)
  BY <1>1, VoteStaleLocal, VoteCurrentLocal DEF on_request_vote
<1>2. CASE on_request_vote_response(n, m)
  BY <1>2, HigherResponseLocal, BecomeLeaderLocal DEF on_request_vote_response
<1>3. CASE on_append_entries(n, m)
  BY <1>3, AppendStaleLocal, AppendRejectLocal, AppendAcceptLocal DEF on_append_entries
<1>4. CASE on_append_entries_response(n, m)
  <2>1. Idle(n) /\ m.conflict_index \in Nat
    <3>1. m \in AppendEntriesResponseMsg
      BY <1>4, MessageType DEF on_append_entries_response
    <3> QED
      BY <1>4, <3>1 DEF on_append_entries_response, AppendEntriesResponseMsg
  <2>2. CASE on_higher_term_response(n, m)
    BY <2>1, <2>2, HigherResponseLocal
  <2>3. CASE ~on_higher_term_response(n, m)
    <3>1. /\ role[n] = "leader"
          /\ peers[n][m.from].inflight # Nil
          /\ IF m.success THEN on_append_success(n, m.from, m)
             ELSE on_append_failure(n, m.from, m)
          /\ UNCHANGED <<hard_vars, log, last_applied, durable_last_log_index, role_vars,
                         timer_vars, elected, pending_clients, disk, bound_vars>>
      BY <1>4, <2>3 DEF on_append_entries_response
    <3> QED
      BY <2>1, <3>1, AppendSuccessLocal, AppendFailureLocal
  <2> QED
    BY <2>2, <2>3
<1> QED
  BY <1>1, <1>2, <1>3, <1>4 DEF on_message

LEMMA NextLocal ==
  ASSUME TypeOK, LocalInv, [Next]_vars
  PROVE  TypeOK' /\ LocalInv'
<1>1. ASSUME NEW m \in msgs, on_message(m.to, m)
      PROVE  TypeOK' /\ LocalInv'
  <2>1. m.to \in Node
    BY MessageType
  <2> QED
    BY <1>1, <2>1, MessageLocal
<1>2. ASSUME NEW n \in Node, on_storage_complete(n)
      PROVE  TypeOK' /\ LocalInv'
  BY <1>2, CompleteReplyLocal, CompleteElectionLocal, CompleteAppendLocal,
     CompleteCommitLocal, StorageFailureLocal DEF on_storage_complete
<1>3. ASSUME NEW n \in Node, NEW c \in Command, on_client_request(n, c)
      PROVE  TypeOK' /\ LocalInv'
  BY <1>3, ClientRequestLocal
<1>4. ASSUME NEW n \in Node,
             begin_election(n) \/ on_election_timer_leader(n) \/ on_heartbeat_timer(n)
      PROVE  TypeOK' /\ LocalInv'
  BY <1>4, BeginElectionLocal, TimerLeaderLocal, HeartbeatLocal
<1>5. ASSUME NEW n \in Node, crash(n) \/ restart(n)
      PROVE  TypeOK' /\ LocalInv'
  BY <1>5, CrashLocal, RestartLocal
<1>6. CASE UNCHANGED vars
  <2>1. TypeOK'
    BY <1>6, TypesNext, VariableTypes DEF vars, hard_vars, log_vars, role_vars, peer_vars,
       timer_vars, ghost_vars, bound_vars
  <2>2. LocalInv'
    BY <1>6, LocalUnchanged DEF vars, hard_vars, log_vars, role_vars
  <2> QED
    BY <2>1, <2>2
<1> QED
  BY <1>1, <1>2, <1>3, <1>4, <1>5, <1>6 DEF Next

LEMMA LocalIsMemoryIsDurable ==
  ASSUME TypeOK, LocalInv
  PROVE  MemoryIsDurable
<1> SUFFICES ASSUME NEW n \in Node, role[n] \in LiveRole
             PROVE  /\ [term |-> current_term[n], vote |-> voted_for[n],
                        log |-> log[n], commit |-> commit_index[n]] =
                         IF pending_storage[n] = Nil THEN disk[n]
                         ELSE ApplyBatch(disk[n], pending_storage[n].batch)
                    /\ durable_last_log_index[n] = Len(disk[n].log)
                    /\ last_applied[n] = disk[n].commit
  BY DEF MemoryIsDurable
<1>1. NodeInv(n)
  BY DEF LocalInv, Live
<1>2. CASE pending_storage[n] = Nil
  <2>1. disk[n] = [term |-> disk[n].term, vote |-> disk[n].vote,
                   log |-> disk[n].log, commit |-> disk[n].commit]
    BY VariableTypes DEF DiskState
  <2> QED
    BY <1>1, <1>2, <2>1 DEF NodeInv, IdleInv
<1>3. CASE pending_storage[n] # Nil
  BY <1>1, <1>3, ApplyBatchIsMemory DEF NodeInv
<1> QED
  BY <1>2, <1>3

LEMMA Inductive == Spec => [](TypeOK /\ LocalInv)
<1>1. Init => TypeOK /\ LocalInv
  BY InitLocal
<1>2. (TypeOK /\ LocalInv) /\ [Next]_vars => (TypeOK /\ LocalInv)'
  BY NextLocal
<1> QED
  BY <1>1, <1>2, PTL DEF Spec

\* The handlers of RaftNode keep every member's state, its messages and its
\* outstanding storage operation well formed.
THEOREM TypeCorrect == Spec => []TypeOK
  BY Inductive, PTL

\* For any membership, any bound and any number of crashes, restarts and failed
\* writes: what a running member holds in memory is what its WAL recovers to
\* with the outstanding batch, and what it has applied is on its medium
\* (RaftNode::begin_persist, on_storage_complete and the recovering constructor).
THEOREM MemoryDurable == Spec => []MemoryIsDurable
<1>1. TypeOK /\ LocalInv => MemoryIsDurable
  BY LocalIsMemoryIsDurable
<1> QED
  BY <1>1, Inductive, PTL

-----------------------------------------------------------------------------
(* The hard state on a medium *)

\* For any membership and any number of faults: on a medium the term never
\* decreases, and within a term a vote, once written, is never another one
\* (the hard states begin_election, on_request_vote and step_down persist).
THEOREM HardStateMonotone == Spec => HardStateNeverRegresses
<1>1. TypeOK /\ LocalInv /\ [Next]_vars =>
        [\A n \in Node :
           /\ disk'[n].term >= disk[n].term
           /\ disk'[n].term = disk[n].term => disk[n].vote \in {Nil, disk'[n].vote}]_vars
  BY HardStateStep
<1> QED
  BY <1>1, Inductive, PTL DEF Spec, HardStateNeverRegresses

-----------------------------------------------------------------------------
(* What most steps leave alone *)

BallotsKept == msgs \subseteq msgs' /\ \A m \in msgs' : Ballot(m) => m \in msgs

ReplyKept(q) ==
  \/ pending_storage'[q] = Nil
  \/ Waiting(q)' = Nil \/ ~Ballot(Waiting(q)')
  \/ /\ pending_storage'[q] = pending_storage[q]
     /\ current_term'[q] = current_term[q] /\ voted_for'[q] = voted_for[q]

CampaignKept(q) ==
  role'[q] = "candidate" =>
    /\ role[q] = "candidate" /\ current_term'[q] = current_term[q]
    /\ votes_received'[q] = votes_received[q]
    /\ pending_storage'[q] = pending_storage[q]

Quiet ==
  /\ BallotsKept
  /\ elected' = elected
  /\ \A q \in Node : ReplyKept(q) /\ CampaignKept(q)

LEMMA BallotFields ==
  ASSUME NEW m \in Message
  PROVE  m.from \in Node /\ m.term \in Nat /\ Choice(m) \in Node /\ Choice(m) # Nil
<1>1. m.from \in Node /\ m.to \in Node /\ m.term \in Nat
  BY SMT DEF Message, RequestVoteMsg, RequestVoteResponseMsg, AppendEntriesMsg,
         AppendEntriesResponseMsg
<1> QED
  BY <1>1, NilAssumption DEF Choice

LEMMA VotedStays ==
  ASSUME NEW M, NEW S, M \subseteq S, NEW v, NEW t, NEW c, Voted(M, v, t, c)
  PROVE  Voted(S, v, t, c)
  BY DEF Voted

\* Votes stay on media, and new ballots agree with them.
LEMMA BallotStep ==
  ASSUME TypeOK, TypeOK', LocalInv, [Next]_vars, BallotInv, VoteOnce, msgs \subseteq msgs',
         \A m \in msgs' : Ballot(m) =>
           m \in msgs \/ (disk'[m.from].term = m.term /\ disk'[m.from].vote = Choice(m))
  PROVE  BallotInv' /\ VoteOnce'
<1>1. ASSUME NEW m \in msgs', Ballot(m)
      PROVE  OnMedium(m)'
  <2>1. CASE m \in msgs
    <3>1. OnMedium(m) /\ m.from \in Node /\ m.term \in Nat /\ Choice(m) \in Node
      BY <1>1, <2>1, BallotFields, VariableTypes DEF BallotInv
    <3>2. /\ disk'[m.from].term >= disk[m.from].term
          /\ disk'[m.from].term = disk[m.from].term =>
               disk[m.from].vote \in {Nil, disk'[m.from].vote}
      BY <3>1, HardStateStep, SMT
    <3>3. disk'[m.from].term \in Nat /\ disk[m.from].term \in Nat /\ Choice(m) # Nil
      <4>1. disk[m.from] \in DiskState /\ disk'[m.from] \in DiskState
        BY <3>1, TypesNext, VariableTypes
      <4> QED
        BY <3>1, <4>1, NilAssumption, SMT DEF DiskState
    <3> QED
      BY <3>1, <3>2, <3>3, SMT DEF OnMedium
  <2>2. CASE m \notin msgs
    BY <1>1, <2>2 DEF OnMedium
  <2> QED
    BY <2>1, <2>2, SMT
<1>2. ASSUME NEW a \in msgs', NEW b \in msgs', Ballot(a), Ballot(b),
             a.from = b.from, a.term = b.term, a \notin msgs
      PROVE  Choice(a) = Choice(b)
  <2>1. disk'[a.from].term = a.term /\ disk'[a.from].vote = Choice(a)
    BY <1>2
  <2>2. OnMedium(b)' /\ b.from \in Node /\ b.term \in Nat
    BY <1>1, <1>2, BallotFields, TypesNext, VariableTypes
  <2> QED
    BY <1>2, <2>1, <2>2, SMT DEF OnMedium
<1> QED
  BY <1>1, <1>2 DEF BallotInv, VoteOnce

-----------------------------------------------------------------------------
(* Steps that reveal and count no vote *)

LEMMA SentAppendsAreNoBallots ==
  ASSUME NEW n, NEW S, NEW progress, NEW last, send_appends(n, S, progress, last)
  PROVE  BallotsKept
<1>1. ASSUME NEW p
      PROVE  ~Ballot(AppendEntriesTo(n, p, progress[p], last))
  <2>1. AppendEntriesTo(n, p, progress[p], last).type = "AppendEntries"
    BY SMT DEF AppendEntriesTo
  <2> QED
    BY <2>1, SMT DEF Ballot
<1> QED
  BY <1>1 DEF send_appends, BallotsKept

\* A reply that is no ballot, at once or behind its batch.
LEMMA OtherReply ==
  ASSUME TypeOK, NEW n \in Node, pending_storage[n] = Nil,
         NEW batch, NEW rearm, NEW message, message = Nil \/ ~Ballot(message),
         persist_then_reply(n, batch, Reply(rearm, message))
  PROVE  /\ BallotsKept
         /\ ReplyKept(n)
         /\ \A q \in Node \ {n} : pending_storage'[q] = pending_storage[q]
<1>1. Reply(rearm, message).message = message
  BY SMT DEF Reply
<1>2. CASE batch = EmptyBatch
  BY <1>1, <1>2 DEF persist_then_reply, run_reply, BallotsKept, ReplyKept
<1>3. CASE batch # EmptyBatch
  <2>1. msgs' = msgs /\ begin_persist(n, batch, Reply(rearm, message))
    BY <1>3 DEF persist_then_reply
  <2>2. /\ pending_storage'[n] = [batch |-> batch, after_success |-> Reply(rearm, message)]
        /\ \A q \in Node \ {n} : pending_storage'[q] = pending_storage[q]
    BY <2>1, VariableTypes DEF begin_persist
  <2>3. Waiting(n)' = message
    BY <2>2, <1>1, SMT DEF Waiting
  <2> QED
    BY <2>1, <2>2, <2>3 DEF BallotsKept, ReplyKept
<1> QED
  BY <1>2, <1>3, SMT

\* A step of n that keeps ballots and winners and leaves n no candidate.
LEMMA QuietNode ==
  ASSUME NEW n \in Node, BallotsKept, elected' = elected, ReplyKept(n),
         role'[n] # "candidate",
         \A q \in Node \ {n} :
           /\ role'[q] = role[q] /\ current_term'[q] = current_term[q]
           /\ voted_for'[q] = voted_for[q] /\ votes_received'[q] = votes_received[q]
           /\ pending_storage'[q] = pending_storage[q]
  PROVE  Quiet
  BY DEF Quiet, ReplyKept, CampaignKept

\* A step that changes only messages, logs, peers and timers.
LEMMA QuietUnchanged ==
  ASSUME BallotsKept,
         UNCHANGED <<elected, role, current_term, voted_for, votes_received, pending_storage>>
  PROVE  Quiet
  BY DEF Quiet, ReplyKept, CampaignKept

LEMMA StaleQuiet ==
  ASSUME NEW n \in Node, NEW m, on_request_vote_stale(n, m) \/ on_append_entries_stale(n, m)
  PROVE  Quiet
<1>1. CASE on_request_vote_stale(n, m)
  <2> DEFINE r == VoteResponse(n, m.from, current_term[n], FALSE)
  <2>1. r.type = "RequestVoteResponse" /\ r.vote_granted = FALSE
    BY SMT DEF VoteResponse
  <2>2. ~Ballot(r)
    BY <2>1 DEF Ballot
  <2>3. BallotsKept
    <3>1. msgs' = msgs \cup {r}
      BY <1>1 DEF on_request_vote_stale
    <3> HIDE DEF r
    <3> QED
      BY <2>2, <3>1 DEF BallotsKept
  <2> QED
    BY <1>1, <2>3, QuietUnchanged DEF on_request_vote_stale, hard_vars, role_vars,
                                             ghost_vars
<1>2. CASE on_append_entries_stale(n, m)
  <2> DEFINE r == AppendResponse(n, m, current_term[n], FALSE, 0, Len(log[n]) + 1, 0)
  <2>1. r.type = "AppendEntriesResponse"
    BY SMT DEF AppendResponse
  <2>2. ~Ballot(r)
    BY <2>1 DEF Ballot
  <2>3. BallotsKept
    <3>1. msgs' = msgs \cup {r}
      BY <1>2 DEF on_append_entries_stale
    <3> HIDE DEF r
    <3> QED
      BY <2>2, <3>1 DEF BallotsKept
  <2> QED
    BY <1>2, <2>3, QuietUnchanged DEF on_append_entries_stale, hard_vars, role_vars,
                                             ghost_vars
<1> QED
  BY <1>1, <1>2, SMT

LEMMA StepDownRoles ==
  ASSUME TypeOK, NEW n \in Node, NEW hint, step_down(n, hint)
  PROVE  /\ role'[n] = "follower" /\ votes_received'[n] = {}
         /\ \A q \in Node \ {n} : role'[q] = role[q] /\ votes_received'[q] = votes_received[q]
  BY VariableTypes DEF step_down

LEMMA HigherResponseQuiet ==
  ASSUME TypeOK, NEW n \in Node, NEW m, on_higher_term_response(n, m)
  PROVE  Quiet
<1>1. /\ role'[n] = "follower"
      /\ \A q \in Node \ {n} : role'[q] = role[q] /\ votes_received'[q] = votes_received[q]
  BY StepDownRoles DEF on_higher_term_response
<1>2. /\ elected' = elected /\ msgs' = msgs
      /\ \A q \in Node \ {n} : /\ current_term'[q] = current_term[q]
                               /\ voted_for'[q] = voted_for[q]
                               /\ pending_storage'[q] = pending_storage[q]
  BY VariableTypes DEF on_higher_term_response, begin_persist, ghost_vars
<1>3. ReplyKept(n)
  <2>1. PICK batch : pending_storage' = [pending_storage EXCEPT
                       ![n] = [batch |-> batch, after_success |-> Reply(TRUE, Nil)]]
    BY DEF on_higher_term_response, begin_persist
  <2>2. pending_storage'[n] = [batch |-> batch, after_success |-> Reply(TRUE, Nil)]
    BY <2>1, VariableTypes
  <2>3. Waiting(n)' = Nil
    BY <2>2, SMT DEF Waiting, Reply
  <2> QED
    BY <2>3 DEF ReplyKept
<1>4. BallotsKept
  BY <1>2 DEF BallotsKept
<1> QED
  BY <1>1, <1>2, <1>3, <1>4, QuietNode

LEMMA AdoptLeaderRoles ==
  ASSUME TypeOK, NEW n \in Node, NEW m, adopt_leader(n, m), adopt_term(n, m.term)
  PROVE  /\ role'[n] = "follower"
         /\ \A q \in Node \ {n} :
              /\ role'[q] = role[q] /\ votes_received'[q] = votes_received[q]
              /\ current_term'[q] = current_term[q] /\ voted_for'[q] = voted_for[q]
<1>1. \A q \in Node \ {n} : current_term'[q] = current_term[q] /\ voted_for'[q] = voted_for[q]
  BY VariableTypes DEF adopt_term
<1>2. CASE m.term > current_term[n] \/ role[n] # "follower"
  BY <1>1, <1>2, StepDownRoles DEF adopt_leader
<1>3. CASE ~(m.term > current_term[n] \/ role[n] # "follower")
  BY <1>1, <1>3 DEF adopt_leader
<1> QED
  BY <1>2, <1>3, SMT

LEMMA AppendResponseIsNoBallot ==
  ASSUME NEW n, NEW m, NEW t, NEW s, NEW i, NEW ci, NEW ct
  PROVE  ~Ballot(AppendResponse(n, m, t, s, i, ci, ct))
<1>1. AppendResponse(n, m, t, s, i, ci, ct).type = "AppendEntriesResponse"
  BY SMT DEF AppendResponse
<1> QED
  BY <1>1, SMT DEF Ballot

LEMMA AppendEntriesQuiet ==
  ASSUME TypeOK, NEW n \in Node, NEW m, Idle(n),
         on_append_entries_reject(n, m) \/ on_append_entries_accept(n, m)
  PROVE  Quiet
<1>1. pending_storage[n] = Nil
  BY DEF Idle
<1>2. CASE on_append_entries_reject(n, m)
  <2>1. /\ adopt_leader(n, m) /\ adopt_term(n, m.term) /\ elected' = elected
        /\ \E batch, message :
             ~Ballot(message) /\ persist_then_reply(n, batch, Reply(TRUE, message))
    BY <1>2, AppendResponseIsNoBallot DEF on_append_entries_reject, ghost_vars
  <2>2. BallotsKept /\ ReplyKept(n)
        /\ \A q \in Node \ {n} : pending_storage'[q] = pending_storage[q]
    BY <1>1, <2>1, OtherReply
  <2>3. role'[n] # "candidate"
    BY <2>1, AdoptLeaderRoles, SMT
  <2> QED
    BY <2>1, <2>2, <2>3, AdoptLeaderRoles, QuietNode
<1>3. CASE on_append_entries_accept(n, m)
  <2>1. adopt_term(n, m.term) /\ elected' = elected
    BY <1>3 DEF on_append_entries_accept, ghost_vars
  <2>2. \/ fail_storage(n) /\ msgs' = msgs
        \/ /\ adopt_leader(n, m)
           /\ \E batch, message :
                ~Ballot(message) /\ persist_then_reply(n, batch, Reply(TRUE, message))
    BY <1>3, AppendResponseIsNoBallot DEF on_append_entries_accept
  <2>3. CASE fail_storage(n) /\ msgs' = msgs
    <3>1. /\ role'[n] = "unavailable" /\ pending_storage'[n] = Nil
          /\ \A q \in Node \ {n} : /\ role'[q] = role[q]
                                   /\ votes_received'[q] = votes_received[q]
                                   /\ pending_storage'[q] = pending_storage[q]
      BY <2>3, VariableTypes DEF fail_storage
    <3>2. \A q \in Node \ {n} : current_term'[q] = current_term[q] /\ voted_for'[q] = voted_for[q]
      BY <2>1, VariableTypes DEF adopt_term
    <3>3. role'[n] # "candidate"
      BY <3>1, SMT
    <3> QED
      BY <2>1, <2>3, <3>1, <3>2, <3>3, QuietNode DEF BallotsKept, ReplyKept
  <2>4. CASE /\ adopt_leader(n, m)
             /\ \E batch, message :
                  ~Ballot(message) /\ persist_then_reply(n, batch, Reply(TRUE, message))
    <3>1. BallotsKept /\ ReplyKept(n)
          /\ \A q \in Node \ {n} : pending_storage'[q] = pending_storage[q]
      BY <1>1, <2>4, OtherReply
    <3>2. role'[n] # "candidate"
      BY <2>1, <2>4, AdoptLeaderRoles, SMT
    <3> QED
      BY <2>1, <2>4, <3>1, <3>2, AdoptLeaderRoles, QuietNode
  <2> QED
    BY <2>2, <2>3, <2>4
<1> QED
  BY <1>2, <1>3, SMT

\* A leader's commit index moves, and nothing waits that is a ballot.
LEMMA AdvanceReplies ==
  ASSUME TypeOK, NEW n \in Node, NEW progress, NEW last,
         maybe_advance_commit(n, progress, last)
  PROVE  ReplyKept(n) /\ \A q \in Node \ {n} : pending_storage'[q] = pending_storage[q]
<1>1. CASE pending_storage' = [pending_storage EXCEPT ![n] = Nil]
  BY <1>1, VariableTypes DEF ReplyKept
<1>2. CASE \E batch : begin_persist(n, batch, Resume("maybe_advance_commit"))
  <2>1. PICK batch : pending_storage' = [pending_storage EXCEPT
                       ![n] = [batch |-> batch, after_success |-> Resume("maybe_advance_commit")]]
    BY <1>2 DEF begin_persist
  <2>2. /\ pending_storage'[n] =
             [batch |-> batch, after_success |-> Resume("maybe_advance_commit")]
        /\ \A q \in Node \ {n} : pending_storage'[q] = pending_storage[q]
    BY <2>1, VariableTypes
  <2>3. Waiting(n)' = Nil
    BY <2>2, SMT DEF Waiting, Resume
  <2> QED
    BY <2>2, <2>3 DEF ReplyKept
<1> QED
  BY <1>1, <1>2 DEF maybe_advance_commit

LEMMA AppendAnswerQuiet ==
  ASSUME TypeOK, NEW n \in Node, NEW m, role[n] = "leader", pending_storage[n] = Nil,
         on_append_success(n, m.from, m) \/ on_append_failure(n, m.from, m),
         UNCHANGED <<hard_vars, role_vars, elected>>
  PROVE  Quiet
<1>1. /\ UNCHANGED <<current_term, voted_for, role, votes_received, elected>>
      /\ role'[n] # "candidate"
  BY SMT DEF hard_vars, role_vars
<1>2. CASE on_append_success(n, m.from, m)
  <2>1. BallotsKept
    BY <1>2, SentAppendsAreNoBallots DEF on_append_success
  <2>2. ReplyKept(n) /\ \A q \in Node \ {n} : pending_storage'[q] = pending_storage[q]
    <3>1. \/ pending_storage' = pending_storage
          \/ \E progress, last : maybe_advance_commit(n, progress, last)
      BY <1>2 DEF on_append_success
    <3> QED
      BY <3>1, AdvanceReplies DEF ReplyKept
  <2> QED
    BY <1>1, <2>1, <2>2, QuietNode
<1>3. CASE on_append_failure(n, m.from, m)
  <2>1. BallotsKept /\ pending_storage' = pending_storage
    BY <1>3, SentAppendsAreNoBallots DEF on_append_failure
  <2> QED
    BY <1>1, <2>1, QuietUnchanged
<1> QED
  BY <1>2, <1>3, SMT

LEMMA LeaderStepQuiet ==
  ASSUME TypeOK, NEW n \in Node, NEW c, on_client_request(n, c)
  PROVE  Quiet
<1>1. /\ UNCHANGED <<current_term, voted_for, role, votes_received, elected, msgs>>
      /\ role[n] = "leader"
  BY DEF on_client_request, hard_vars, role_vars, ghost_vars
<1>2. PICK batch : pending_storage' = [pending_storage EXCEPT
                     ![n] = [batch |-> batch, after_success |-> Resume("on_client_request")]]
  BY DEF on_client_request, begin_persist
<1>3. /\ pending_storage'[n] = [batch |-> batch, after_success |-> Resume("on_client_request")]
      /\ \A q \in Node \ {n} : pending_storage'[q] = pending_storage[q]
  BY <1>2, VariableTypes
<1>4. Waiting(n)' = Nil
  BY <1>3, SMT DEF Waiting, Resume
<1>5. role'[n] # "candidate"
  BY <1>1, SMT
<1> QED
  BY <1>1, <1>3, <1>4, <1>5, QuietNode DEF BallotsKept, ReplyKept

LEMMA TimerQuiet ==
  ASSUME NEW n \in Node, on_election_timer_leader(n) \/ on_heartbeat_timer(n)
  PROVE  Quiet
<1>1. UNCHANGED <<elected, role, current_term, voted_for, votes_received, pending_storage>>
  BY DEF on_election_timer_leader, on_heartbeat_timer, hard_vars, role_vars, ghost_vars
<1>2. BallotsKept
  <2>1. CASE on_election_timer_leader(n)
    BY <2>1 DEF on_election_timer_leader, BallotsKept
  <2>2. CASE on_heartbeat_timer(n)
    BY <2>2, SentAppendsAreNoBallots DEF on_heartbeat_timer
  <2> QED
    BY <2>1, <2>2, SMT
<1> QED
  BY <1>1, <1>2, QuietUnchanged

LEMMA CompletionQuiet ==
  ASSUME TypeOK, LocalInv, NEW n \in Node, complete_append(n) \/ complete_commit(n)
  PROVE  Quiet
<1>1. /\ UNCHANGED <<current_term, voted_for, role, votes_received, elected>>
      /\ \E S, progress, last : send_appends(n, S, progress, last)
  BY DEF complete_append, complete_commit, hard_vars, role_vars, ghost_vars
<1>2. role[n] = "leader"
  <2>1. /\ pending_storage[n] # Nil
        /\ Kind(n) \in {"become_leader", "on_client_request", "maybe_advance_commit"}
    BY DEF complete_append, complete_commit, Resumes, Kind
  <2>2. ShapeInv(n)
    BY DEF LocalInv
  <2> QED
    BY <2>1, <2>2 DEF ShapeInv
<1>3. ReplyKept(n) /\ \A q \in Node \ {n} : pending_storage'[q] = pending_storage[q]
  <2>1. CASE complete_append(n)
    BY <2>1, AdvanceReplies DEF complete_append
  <2>2. CASE complete_commit(n)
    BY <2>2, VariableTypes DEF complete_commit, ReplyKept
  <2> QED
    BY <2>1, <2>2, SMT
<1>4. BallotsKept
  BY <1>1, SentAppendsAreNoBallots
<1>5. role'[n] # "candidate"
  BY <1>1, <1>2, SMT
<1> QED
  BY <1>1, <1>3, <1>4, <1>5, QuietNode

LEMMA FaultQuiet ==
  ASSUME TypeOK, LocalInv, NEW n \in Node,
         on_storage_failure(n) \/ crash(n) \/ restart(n)
  PROVE  Quiet
<1>1. BallotsKept /\ elected' = elected
  BY DEF on_storage_failure, crash, restart, ghost_vars, BallotsKept
<1>2. role'[n] # "candidate"
  <2>1. role'[n] \in {"unavailable", "down", "follower"}
    BY VariableTypes DEF on_storage_failure, fail_storage, crash, restart
  <2> QED
    BY <2>1, SMT
<1>3. pending_storage'[n] = Nil
  <2>1. CASE on_storage_failure(n) \/ crash(n)
    <3>1. pending_storage' = [pending_storage EXCEPT ![n] = Nil]
      BY <2>1 DEF on_storage_failure, fail_storage, crash
    <3> QED
      BY <3>1, VariableTypes
  <2>2. CASE restart(n)
    <3>1. role[n] = "down" /\ pending_storage' = pending_storage /\ ShapeInv(n)
      BY <2>2 DEF restart, LocalInv
    <3> QED
      BY <3>1, SMT DEF ShapeInv, Live, LiveRole
  <2> QED
    BY <2>1, <2>2, SMT
<1>4. \A q \in Node \ {n} :
        /\ role'[q] = role[q] /\ current_term'[q] = current_term[q]
        /\ voted_for'[q] = voted_for[q] /\ votes_received'[q] = votes_received[q]
        /\ pending_storage'[q] = pending_storage[q]
  <2>1. CASE on_storage_failure(n)
    BY <2>1, VariableTypes DEF on_storage_failure, fail_storage, hard_vars
  <2>2. CASE crash(n)
    BY <2>2, VariableTypes DEF crash
  <2>3. CASE restart(n)
    BY <2>3, VariableTypes DEF restart
  <2> QED
    BY <2>1, <2>2, <2>3, SMT
<1> QED
  BY <1>1, <1>2, <1>3, <1>4, QuietNode DEF ReplyKept

-----------------------------------------------------------------------------
(* The invariant, step by step *)

LEMMA QuorumsKept ==
  ASSUME QuorumInv, msgs \subseteq msgs', elected' = elected
  PROVE  QuorumInv'
<1>1. ASSUME NEW e \in elected
      PROVE  \E Q \in SUBSET Node : IsQuorum(Q) /\ \A v \in Q : Voted(msgs', v, e[1], e[2])
  <2>1. PICK Q \in SUBSET Node : IsQuorum(Q) /\ \A v \in Q : Voted(msgs, v, e[1], e[2])
    BY <1>1, SMT DEF QuorumInv
  <2>2. ASSUME NEW v \in Q
        PROVE  Voted(msgs', v, e[1], e[2])
    BY <2>1, <2>2, VotedStays, SMT
  <2> QED
    BY <2>1, <2>2, SMT
<1> QED
  BY <1>1 DEF QuorumInv, IsQuorum, quorum_size

LEMMA QuietElection ==
  ASSUME TypeOK, TypeOK', LocalInv, ElectionInv, [Next]_vars, Quiet
  PROVE  ElectionInv'
<1>1. BallotInv' /\ VoteOnce'
  BY BallotStep DEF Quiet, BallotsKept, ElectionInv
<1>2. ASSUME NEW q \in Node
      PROVE  ReplyInv(q)'
  <2>1. ReplyInv(q) /\ ReplyKept(q)
    BY DEF ElectionInv, Quiet
  <2> QED
    BY <2>1 DEF ReplyInv, ReplyKept, Waiting, Ballot, Choice
<1>3. ASSUME NEW q \in Node
      PROVE  CampaignInv(q)'
  <2>1. CampaignInv(q) /\ CampaignKept(q) /\ msgs \subseteq msgs'
    BY DEF ElectionInv, Quiet, BallotsKept
  <2> SUFFICES ASSUME role'[q] = "candidate", NEW v \in votes_received'[q]
               PROVE  Voted(msgs', v, current_term'[q], q) \/ (v = q /\ pending_storage'[q] # Nil)
    BY DEF CampaignInv
  <2>2. /\ role[q] = "candidate" /\ current_term'[q] = current_term[q]
        /\ v \in votes_received[q] /\ pending_storage'[q] = pending_storage[q]
    BY <2>1 DEF CampaignKept
  <2>3. Voted(msgs, v, current_term[q], q) \/ (v = q /\ pending_storage[q] # Nil)
    BY <2>1, <2>2 DEF CampaignInv
  <2> QED
    BY <2>1, <2>2, <2>3, VotedStays
<1>4. QuorumInv'
  BY QuorumsKept DEF ElectionInv, Quiet, BallotsKept
<1> QED
  BY <1>1, <1>2, <1>3, <1>4 DEF ElectionInv

\* A step of n after which the ballots on the way are those before it and ones
\* that its medium holds.
LEMMA NodeElection ==
  ASSUME TypeOK, TypeOK', LocalInv, ElectionInv, [Next]_vars, NEW n \in Node,
         msgs \subseteq msgs',
         \A m \in msgs' : Ballot(m) =>
           m \in msgs \/ (disk'[m.from].term = m.term /\ disk'[m.from].vote = Choice(m)),
         \A q \in Node \ {n} :
           /\ role'[q] = role[q] /\ current_term'[q] = current_term[q]
           /\ voted_for'[q] = voted_for[q] /\ votes_received'[q] = votes_received[q]
           /\ pending_storage'[q] = pending_storage[q],
         ReplyInv(n)', CampaignInv(n)', QuorumInv'
  PROVE  ElectionInv'
<1>1. BallotInv' /\ VoteOnce'
  BY BallotStep DEF ElectionInv
<1>2. ASSUME NEW q \in Node, q # n
      PROVE  ReplyInv(q)' /\ CampaignInv(q)'
  <2>1. ReplyInv(q) /\ CampaignInv(q)
    BY DEF ElectionInv
  <2>2. ReplyInv(q)'
    BY <1>2, <2>1 DEF ReplyInv, Waiting
  <2>3. CampaignInv(q)'
    BY <1>2, <2>1, VotedStays DEF CampaignInv
  <2> QED
    BY <2>2, <2>3, SMT
<1> QED
  BY <1>1, <1>2 DEF ElectionInv

LEMMA BeginElectionPends ==
  ASSUME TypeOK, NEW n \in Node, begin_election(n)
  PROVE  pending_storage'[n] # Nil
<1> DEFINE hs == [term |-> current_term[n] + 1, vote |-> n]
           batch == [EmptyBatch EXCEPT !.hard_state = hs]
           after == Resume("begin_election")
<1>1. hs \in HardState
  BY VariableTypes, SMTT(30) DEF HardState
<1>2. after \in Continuation
  BY SMT DEF Resume, Continuation
<1>3. pending_storage'[n] = [batch |-> batch, after_success |-> after]
  BY VariableTypes DEF begin_election, begin_persist
<1> HIDE DEF hs
<1>4. batch \in PersistBatch
  BY <1>1, HardStateBatch
<1> HIDE DEF batch, after
<1> QED
  BY <1>2, <1>3, <1>4, NilAssumption, SMT DEF PendingStorage

LEMMA BeginElectionElection ==
  ASSUME TypeOK, TypeOK', LocalInv, ElectionInv, [Next]_vars, NEW n \in Node,
         begin_election(n)
  PROVE  ElectionInv'
<1>1. msgs' = msgs /\ elected' = elected
  BY DEF begin_election, ghost_vars
<1>2. PICK batch : pending_storage' = [pending_storage EXCEPT
                     ![n] = [batch |-> batch, after_success |-> Resume("begin_election")]]
  BY DEF begin_election, begin_persist
<1>3. pending_storage'[n] = [batch |-> batch, after_success |-> Resume("begin_election")]
  BY <1>2, TypesNext, VariableTypes
<1>4. Waiting(n)' = Nil
  BY <1>3, SMT DEF Waiting, Resume
<1>5. \A q \in Node \ {n} :
        /\ role'[q] = role[q] /\ current_term'[q] = current_term[q]
        /\ voted_for'[q] = voted_for[q] /\ votes_received'[q] = votes_received[q]
        /\ pending_storage'[q] = pending_storage[q]
  <2>1. \A q \in Node \ {n} :
          /\ role'[q] = role[q] /\ current_term'[q] = current_term[q]
          /\ voted_for'[q] = voted_for[q]
    <3>1. /\ role' = [role EXCEPT ![n] = "candidate"]
          /\ current_term' = [current_term EXCEPT ![n] = @ + 1]
          /\ voted_for' = [voted_for EXCEPT ![n] = n]
      BY DEF begin_election
    <3> QED
      BY <3>1, TypesNext, VariableTypes, SMT
  <2>2. votes_received' = [votes_received EXCEPT ![n] = {n}]
    BY DEF begin_election
  <2>3. \A q \in Node \ {n} : votes_received'[q] = votes_received[q]
    BY <2>2, TypesNext, VariableTypes, ZenonT(60)
  <2>4. \A q \in Node \ {n} : pending_storage'[q] = pending_storage[q]
    BY <1>2, TypesNext, VariableTypes
  <2> QED
    BY <2>1, <2>3, <2>4
<1>6. CampaignInv(n)'
  <2>1. pending_storage'[n] # Nil
    BY BeginElectionPends, SMT
  <2>2. votes_received'[n] = {n}
    <3>1. votes_received' = [votes_received EXCEPT ![n] = {n}]
      BY DEF begin_election
    <3> QED
      BY <3>1, TypesNext, VariableTypes
  <2> QED
    BY <2>1, <2>2 DEF CampaignInv
<1> QED
  BY <1>1, <1>4, <1>5, <1>6, NodeElection, QuorumsKept DEF ElectionInv, ReplyInv

\* A vote is granted, or denied: the reply waits unless memory says no more than
\* the medium.
LEMMA RequestVoteElection ==
  ASSUME TypeOK, TypeOK', LocalInv, ElectionInv, [Next]_vars, NEW n \in Node, NEW m \in msgs,
         m.to = n, m.type = "RequestVote", Idle(n), on_request_vote_current(n, m)
  PROVE  ElectionInv'
<1> DEFINE higher == m.term > current_term[n]
           vote == IF higher THEN Nil ELSE voted_for[n]
           grant == /\ can_vote(vote, m.from)
                    /\ candidate_is_up_to_date(log[n], m.last_log_index, m.last_log_term)
           new_vote == IF grant THEN m.from ELSE vote
           hs == IF higher \/ new_vote # vote THEN [term |-> m.term, vote |-> new_vote] ELSE Nil
           batch == [EmptyBatch EXCEPT !.hard_state = hs]
           rearm == vote_rearms(n, grant)
           r == VoteResponse(n, m.from, m.term, grant)
<1>1. /\ m.term >= current_term[n]
      /\ IF higher THEN step_down(n, Nil) ELSE UNCHANGED <<role_vars, peers, heartbeat_timer>>
      /\ current_term' = [current_term EXCEPT ![n] = m.term]
      /\ voted_for' = [voted_for EXCEPT ![n] = new_vote]
      /\ persist_then_reply(n, batch, Reply(rearm, r))
      /\ UNCHANGED <<log_vars, next_rpc_id, ghost_vars, pending_clients, disk, bound_vars>>
  BY DEF on_request_vote_current
<1>2. m.from \in Node /\ m.term \in Nat /\ current_term[n] \in Nat
      /\ voted_for[n] \in Node \cup {Nil}
  BY MessageType, VariableTypes
<1>3. pending_storage[n] = Nil /\ NodeInv(n) /\ CandidateInv(n)
  BY DEF Idle, LocalInv, Live
<1>4. disk[n].term = current_term[n] /\ disk[n].vote = voted_for[n] /\ disk' = disk
  BY <1>1, <1>3 DEF NodeInv, IdleInv
<1>5. Reply(rearm, r).message = r
  BY SMT DEF Reply
<1>6. /\ r.type = "RequestVoteResponse" /\ r.from = n /\ r.to = m.from
      /\ r.term = m.term /\ r.vote_granted = grant
  BY DEF VoteResponse
<1>7. current_term'[n] = m.term /\ voted_for'[n] = new_vote
  BY <1>1, TypesNext, VariableTypes
<1>8. Ballot(r) => grant /\ Choice(r) = m.from
  <2>1. Choice(r) = m.from
    BY <1>6 DEF Choice
  <2>2. Ballot(r) => r.vote_granted = TRUE
    BY <1>6 DEF Ballot
  <2> QED
    BY <1>6, <2>1, <2>2
<1>9. Ballot(r) => new_vote = m.from
  BY <1>8
<1>10. batch = EmptyBatch => m.term = current_term[n] /\ new_vote = voted_for[n]
  <2>1. SUFFICES ASSUME batch = EmptyBatch PROVE ~higher /\ new_vote = vote
    BY <1>1, <1>2, SMT
  <2>2. hs = Nil
    <3>1. EmptyBatch.hard_state = Nil /\ batch.hard_state = hs
      BY SMT DEF EmptyBatch
    <3> QED
      BY <2>1, <3>1
  <2>3. new_vote \in Node \cup {Nil}
    BY <1>2
  <2>4. [term |-> m.term, vote |-> new_vote] \in HardState
    <3> HIDE DEF new_vote
    <3> QED
      BY <1>2, <2>3, SMT DEF HardState
  <2>5. [term |-> m.term, vote |-> new_vote] # Nil
    BY <2>4, NilAssumption
  <2> QED
    BY <2>2, <2>5
<1>11. /\ \A q \in Node \ {n} :
            /\ current_term'[q] = current_term[q] /\ voted_for'[q] = voted_for[q]
            /\ role'[q] = role[q] /\ votes_received'[q] = votes_received[q]
       /\ role'[n] = "candidate" =>
            /\ role[n] = "candidate" /\ m.term = current_term[n]
            /\ votes_received'[n] = votes_received[n]
  <2>1. \A q \in Node \ {n} : current_term'[q] = current_term[q] /\ voted_for'[q] = voted_for[q]
    BY <1>1, TypesNext, VariableTypes
  <2>2. CASE higher
    <3>1. /\ role'[n] = "follower"
          /\ \A q \in Node \ {n} : role'[q] = role[q] /\ votes_received'[q] = votes_received[q]
      BY <1>1, <2>2, StepDownRoles
    <3> QED
      BY <2>1, <3>1, SMT
  <2>3. CASE ~higher
    <3>1. UNCHANGED <<role, votes_received>>
      BY <1>1, <2>3 DEF role_vars
    <3>2. m.term = current_term[n]
      BY <1>1, <1>2, <2>3, SMT
    <3> QED
      BY <2>1, <3>1, <3>2
  <2> QED
    BY <2>2, <2>3, SMT
<1> HIDE DEF higher, vote, grant, new_vote, hs, batch, rearm, r
<1>12. elected' = elected
  BY <1>1 DEF ghost_vars
<1>13. CampaignInv(n)' \/ ~(msgs \subseteq msgs')
  <2> SUFFICES ASSUME msgs \subseteq msgs', role'[n] = "candidate", NEW v \in votes_received'[n]
               PROVE  Voted(msgs', v, current_term'[n], n)
    BY DEF CampaignInv
  <2>1. Voted(msgs, v, current_term[n], n)
    BY <1>3, <1>11 DEF ElectionInv, CampaignInv
  <2> QED
    BY <1>7, <1>11, <2>1, VotedStays
<1>14. CASE batch = EmptyBatch
  <2>1. pending_storage' = pending_storage /\ (msgs' = msgs \/ msgs' = msgs \cup {r})
    BY <1>1, <1>5, <1>14 DEF persist_then_reply, run_reply
  <2>2. Ballot(r) => disk'[r.from].term = r.term /\ disk'[r.from].vote = Choice(r)
    BY <1>4, <1>6, <1>8, <1>9, <1>10, <1>14
  <2>3. ReplyInv(n)'
    BY <1>3, <2>1 DEF ReplyInv
  <2> QED
    BY <1>11, <1>12, <1>13, <2>1, <2>2, <2>3, NodeElection, QuorumsKept DEF ElectionInv
<1>15. CASE batch # EmptyBatch
  <2>1. msgs' = msgs /\ begin_persist(n, batch, Reply(rearm, r))
    BY <1>1, <1>15 DEF persist_then_reply
  <2>2. /\ pending_storage'[n] = [batch |-> batch, after_success |-> Reply(rearm, r)]
        /\ \A q \in Node \ {n} : pending_storage'[q] = pending_storage[q]
    BY <2>1, TypesNext, VariableTypes DEF begin_persist
  <2>3. Waiting(n)' = r
    BY <1>5, <2>2, SMT DEF Waiting
  <2>4. ReplyInv(n)'
    BY <1>6, <1>7, <1>8, <1>9, <2>3 DEF ReplyInv
  <2> QED
    BY <1>11, <1>12, <1>13, <2>1, <2>2, <2>4, NodeElection, QuorumsKept DEF ElectionInv
<1> QED
  BY <1>14, <1>15, SMT

\* The batch of a reply is durable: what the reply reveals is on the medium.
LEMMA CompleteReplyElection ==
  ASSUME TypeOK, TypeOK', LocalInv, ElectionInv, [Next]_vars, NEW n \in Node,
         complete_reply(n)
  PROVE  ElectionInv'
<1>1. /\ pending_storage[n] # Nil /\ Kind(n) = "reply" /\ Live(n) /\ Durable(n)
      /\ UNCHANGED <<current_term, voted_for, role, votes_received, elected>>
  BY DEF complete_reply, Resumes, Kind, Live, hard_vars, role_vars, ghost_vars
<1>2. role[n] # "candidate"
  BY <1>1 DEF LocalInv, ShapeInv
<1>3. disk'[n].term = current_term[n] /\ disk'[n].vote = voted_for[n]
  BY <1>1, DurableIsMemory DEF IdleInv
<1>4. /\ pending_storage'[n] = Nil
      /\ \A q \in Node \ {n} : pending_storage'[q] = pending_storage[q]
  BY TypesNext, VariableTypes DEF complete_reply
<1>5. msgs' = IF Waiting(n) = Nil THEN msgs ELSE msgs \cup {Waiting(n)}
  BY DEF complete_reply, run_reply, Waiting
<1>6. Waiting(n) # Nil /\ Ballot(Waiting(n)) =>
        /\ disk'[Waiting(n).from].term = Waiting(n).term
        /\ disk'[Waiting(n).from].vote = Choice(Waiting(n))
  <2>1. ReplyInv(n)
    BY DEF ElectionInv
  <2> QED
    BY <1>1, <1>3, <2>1 DEF ReplyInv
<1>7. /\ msgs \subseteq msgs'
      /\ \A m \in msgs' : Ballot(m) =>
           m \in msgs \/ (disk'[m.from].term = m.term /\ disk'[m.from].vote = Choice(m))
  BY <1>5, <1>6
<1>8. ReplyInv(n)' /\ CampaignInv(n)'
  BY <1>1, <1>2, <1>4 DEF ReplyInv, CampaignInv
<1> QED
  BY <1>1, <1>4, <1>7, <1>8, NodeElection, QuorumsKept DEF ElectionInv

\* A candidate's vote for itself is durable: its requests reveal it.
LEMMA CompleteElectionElection ==
  ASSUME TypeOK, TypeOK', LocalInv, ElectionInv, [Next]_vars, NEW n \in Node,
         complete_election(n)
  PROVE  ElectionInv'
<1>1. /\ pending_storage[n] # Nil /\ Kind(n) = "begin_election" /\ Live(n) /\ Durable(n)
      /\ UNCHANGED <<current_term, voted_for, role, votes_received, elected>>
  BY DEF complete_election, Resumes, Kind, Live, hard_vars, role_vars, ghost_vars
<1>2. voted_for[n] = n
  BY <1>1 DEF LocalInv, ShapeInv, CandidateInv
<1>3. disk'[n].term = current_term[n] /\ disk'[n].vote = n
  BY <1>1, <1>2, DurableIsMemory DEF IdleInv
<1>4. /\ pending_storage'[n] = Nil
      /\ \A q \in Node \ {n} : pending_storage'[q] = pending_storage[q]
  BY TypesNext, VariableTypes DEF complete_election
<1>5. msgs' = msgs \cup {VoteRequest(n, p) : p \in Node \ {n}}
  BY DEF complete_election
<1>6. ASSUME NEW p
      PROVE  /\ Ballot(VoteRequest(n, p)) /\ Choice(VoteRequest(n, p)) = n
             /\ VoteRequest(n, p).from = n /\ VoteRequest(n, p).term = current_term[n]
  <2>1. /\ VoteRequest(n, p).type = "RequestVote"
        /\ VoteRequest(n, p).from = n /\ VoteRequest(n, p).term = current_term[n]
    BY SMT DEF VoteRequest
  <2> QED
    BY <2>1 DEF Ballot, Choice
<1>7. /\ msgs \subseteq msgs'
      /\ \A m \in msgs' : Ballot(m) =>
           m \in msgs \/ (disk'[m.from].term = m.term /\ disk'[m.from].vote = Choice(m))
  BY <1>3, <1>5, <1>6
<1>8. Voted(msgs', n, current_term[n], n)
  <2>1. PICK p \in Node : p # n
    BY NodeAssumption
  <2>2. VoteRequest(n, p) \in msgs'
    BY <1>5, <2>1
  <2> QED
    BY <1>6, <2>2 DEF Voted
<1>9. CampaignInv(n)'
  <2> SUFFICES ASSUME role'[n] = "candidate", NEW v \in votes_received'[n]
               PROVE  Voted(msgs', v, current_term'[n], n)
    BY DEF CampaignInv
  <2>1. Voted(msgs, v, current_term[n], n) \/ v = n
    BY <1>1 DEF ElectionInv, CampaignInv
  <2>2. CASE Voted(msgs, v, current_term[n], n)
    BY <1>1, <1>7, <2>2, VotedStays
  <2>3. CASE v = n
    BY <1>1, <1>8, <2>3
  <2> QED
    BY <2>1, <2>2, <2>3
<1>10. ReplyInv(n)'
  BY <1>4 DEF ReplyInv
<1> QED
  BY <1>1, <1>4, <1>7, <1>9, <1>10, NodeElection, QuorumsKept DEF ElectionInv

\* A vote is counted; with a quorum of them the candidate wins.
LEMMA ReceiveVoteElection ==
  ASSUME TypeOK, TypeOK', LocalInv, ElectionInv, [Next]_vars, NEW n \in Node, NEW m \in msgs,
         m.to = n, m.type = "RequestVoteResponse", Idle(n), receive_vote(n, m)
  PROVE  ElectionInv'
<1> DEFINE votes == votes_received[n] \cup {m.from}
<1>1. /\ role[n] = "candidate" /\ m.term = current_term[n] /\ m.vote_granted
      /\ UNCHANGED <<current_term, voted_for, msgs>> /\ pending_storage[n] = Nil
  BY DEF receive_vote, hard_vars, Idle
<1>2. votes \in SUBSET Node
  <2>1. m.from \in Node
    BY MessageType
  <2>2. votes_received[n] \in SUBSET Node
    BY VariableTypes
  <2> QED
    BY <2>1, <2>2, SMT
<1>3. \A v \in votes : Voted(msgs, v, current_term[n], n)
  <2>1. \A v \in votes_received[n] : Voted(msgs, v, current_term[n], n)
    BY <1>1 DEF ElectionInv, CampaignInv
  <2>2. Ballot(m)
    <3>1. m.vote_granted \in BOOLEAN
      BY MessageType DEF RequestVoteResponseMsg
    <3> QED
      BY <1>1, <3>1 DEF Ballot
  <2>3. Choice(m) = n
    BY SMT DEF Choice
  <2>4. Voted(msgs, m.from, current_term[n], n)
    BY <1>1, <2>2, <2>3 DEF Voted
  <2> QED
    BY <2>1, <2>4
<1>4. CASE IsQuorum(votes)
  <2>1. become_leader(n)
    BY <1>4 DEF receive_vote
  <2>2. elected' = elected \cup {<<current_term[n], n>>}
    BY <2>1 DEF become_leader
  <2>3. QuorumInv'
    <3> HIDE DEF votes
    <3>1. \A e \in elected : \E Q \in SUBSET Node :
            IsQuorum(Q) /\ \A v \in Q : Voted(msgs, v, e[1], e[2])
      BY DEF ElectionInv, QuorumInv
    <3>2. /\ <<current_term[n], n>>[1] = current_term[n]
          /\ <<current_term[n], n>>[2] = n
      BY SMT
    <3>3. \A e \in elected' : \E Q \in SUBSET Node :
            IsQuorum(Q) /\ \A v \in Q : Voted(msgs, v, e[1], e[2])
      BY <1>2, <1>3, <1>4, <2>2, <3>1, <3>2
    <3> QED
      BY <1>1, <3>3 DEF QuorumInv, IsQuorum, quorum_size
  <2>4. /\ role'[n] # "candidate"
        /\ \A q \in Node \ {n} : role'[q] = role[q]
    <3>1. /\ role'[n] \in {"leader", "follower"}
          /\ \A q \in Node \ {n} : role'[q] = role[q]
      <4>1. \/ role' = [role EXCEPT ![n] = "leader"]
            \/ role' = [role EXCEPT ![n] = "follower"]
        BY <2>1 DEF become_leader
      <4> QED
        BY <4>1, TypesNext, VariableTypes
    <3> QED
      BY <3>1, SMT
  <2>5. \A q \in Node \ {n} : votes_received'[q] = votes_received[q]
    BY <2>1, TypesNext, VariableTypes DEF become_leader
  <2>6. ReplyInv(n)' /\ \A q \in Node \ {n} : pending_storage'[q] = pending_storage[q]
    <3>1. CASE pending_storage' = pending_storage
      BY <1>1, <3>1 DEF ReplyInv
    <3>2. CASE \E batch : begin_persist(n, batch, Resume("become_leader"))
      <4>1. PICK batch : pending_storage' = [pending_storage EXCEPT
                           ![n] = [batch |-> batch, after_success |-> Resume("become_leader")]]
        BY <3>2 DEF begin_persist
      <4>2. /\ pending_storage'[n] =
                 [batch |-> batch, after_success |-> Resume("become_leader")]
            /\ \A q \in Node \ {n} : pending_storage'[q] = pending_storage[q]
        BY <4>1, TypesNext, VariableTypes
      <4>3. Waiting(n)' = Nil
        BY <4>2, SMT DEF Waiting, Resume
      <4> QED
        BY <4>2, <4>3 DEF ReplyInv
    <3> QED
      BY <2>1, <3>1, <3>2 DEF become_leader
  <2>7. CampaignInv(n)'
    BY <2>4 DEF CampaignInv
  <2> QED
    BY <1>1, <2>3, <2>4, <2>5, <2>6, <2>7, NodeElection
<1>5. CASE ~IsQuorum(votes)
  <2>1. /\ votes_received' = [votes_received EXCEPT ![n] = votes]
        /\ UNCHANGED <<role, pending_storage, elected>>
    BY <1>5 DEF receive_vote
  <2>2. /\ votes_received'[n] = votes
        /\ \A q \in Node \ {n} : votes_received'[q] = votes_received[q]
    <3>1. votes_received \in [Node -> SUBSET Node]
      BY VariableTypes
    <3> HIDE DEF votes
    <3> QED
      BY <2>1, <3>1, SMT
  <2>3. CampaignInv(n)'
    BY <1>1, <1>3, <2>2 DEF CampaignInv
  <2>4. ReplyInv(n)'
    BY <1>1, <2>1 DEF ReplyInv
  <2> QED
    BY <1>1, <2>1, <2>2, <2>3, <2>4, NodeElection, QuorumsKept DEF ElectionInv
<1> QED
  BY <1>4, <1>5, SMT

-----------------------------------------------------------------------------
(* One leader per term *)

LEMMA InitElection ==
  ASSUME Init
  PROVE  ElectionInv
<1>1. msgs = {} /\ elected = {}
  BY DEF Init
<1>2. \A n \in Node : pending_storage[n] = Nil /\ votes_received[n] = {}
  BY DEF Init
<1> QED
  BY <1>1, <1>2 DEF ElectionInv, BallotInv, VoteOnce, ReplyInv, CampaignInv, QuorumInv

LEMMA MessageElection ==
  ASSUME TypeOK, TypeOK', LocalInv, ElectionInv, [Next]_vars, NEW m \in msgs,
         on_message(m.to, m)
  PROVE  ElectionInv'
<1> DEFINE n == m.to
<1>1. n \in Node
  BY MessageType
<1>2. CASE on_request_vote(n, m)
  BY <1>1, <1>2, StaleQuiet, QuietElection, RequestVoteElection DEF on_request_vote
<1>3. CASE on_request_vote_response(n, m)
  BY <1>1, <1>3, HigherResponseQuiet, QuietElection, ReceiveVoteElection
  DEF on_request_vote_response
<1>4. CASE on_append_entries(n, m)
  BY <1>1, <1>4, StaleQuiet, AppendEntriesQuiet, QuietElection DEF on_append_entries
<1>5. CASE on_append_entries_response(n, m)
  <2>1. CASE on_higher_term_response(n, m)
    BY <1>1, <2>1, HigherResponseQuiet, QuietElection
  <2>2. CASE ~on_higher_term_response(n, m)
    <3>1. /\ role[n] = "leader" /\ pending_storage[n] = Nil
          /\ on_append_success(n, m.from, m) \/ on_append_failure(n, m.from, m)
          /\ UNCHANGED <<hard_vars, role_vars, elected>>
      BY <1>5, <2>2 DEF on_append_entries_response, Idle
    <3> QED
      BY <1>1, <3>1, AppendAnswerQuiet, QuietElection
  <2> QED
    BY <2>1, <2>2, SMT
<1> QED
  BY <1>2, <1>3, <1>4, <1>5 DEF on_message

LEMMA NextElection ==
  ASSUME TypeOK, TypeOK', LocalInv, ElectionInv, [Next]_vars
  PROVE  ElectionInv'
<1>1. ASSUME NEW n \in Node, on_storage_complete(n)
      PROVE  ElectionInv'
  BY <1>1, CompleteReplyElection, CompleteElectionElection, CompletionQuiet, FaultQuiet,
     QuietElection DEF on_storage_complete
<1>2. ASSUME NEW n \in Node, NEW c \in Command, on_client_request(n, c)
      PROVE  ElectionInv'
  BY <1>2, LeaderStepQuiet, QuietElection
<1>3. ASSUME NEW n \in Node,
             on_election_timer_leader(n) \/ on_heartbeat_timer(n) \/ crash(n) \/ restart(n)
      PROVE  ElectionInv'
  BY <1>3, TimerQuiet, FaultQuiet, QuietElection
<1>4. ASSUME NEW n \in Node, begin_election(n)
      PROVE  ElectionInv'
  BY <1>4, BeginElectionElection
<1>5. CASE UNCHANGED vars
  <2>1. Quiet
    BY <1>5, QuietUnchanged DEF vars, hard_vars, role_vars, ghost_vars, BallotsKept
  <2> QED
    BY <2>1, QuietElection
<1> QED
  BY <1>1, <1>2, <1>3, <1>4, <1>5, MessageElection DEF Next

LEMMA InvariantIsElectionSafety ==
  ASSUME TypeOK, ElectionInv, QuorumsMeet
  PROVE  ElectionSafety
<1> SUFFICES ASSUME NEW e1 \in elected, NEW e2 \in elected, e1[1] = e2[1]
             PROVE  e1 = e2
  BY DEF ElectionSafety
<1>1. PICK P \in SUBSET Node : IsQuorum(P) /\ \A v \in P : Voted(msgs, v, e1[1], e1[2])
  BY DEF ElectionInv, QuorumInv
<1>2. PICK Q \in SUBSET Node : IsQuorum(Q) /\ \A v \in Q : Voted(msgs, v, e2[1], e2[2])
  BY DEF ElectionInv, QuorumInv
<1>3. PICK v \in P : v \in Q
  BY <1>1, <1>2 DEF QuorumsMeet
<1>4. Voted(msgs, v, e1[1], e1[2]) /\ Voted(msgs, v, e1[1], e2[2])
  BY <1>1, <1>2, <1>3
<1>5. e1[2] = e2[2]
  BY <1>4 DEF ElectionInv, VoteOnce, Voted
<1>6. e1 \in Nat \X Node /\ e2 \in Nat \X Node
  BY VariableTypes
<1> QED
  BY <1>5, <1>6, SMT
=============================================================================
